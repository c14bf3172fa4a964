---------------------------- MODULE DictFeedProofs ----------------------------
(***************************************************************************)
(* Devices that only read move from one state of the dictionary to a later *)
(* one in whole steps: DictSync implements ReplicaFeed, for any number of  *)
(* writers and readers, rows, faults and prunings.  Devices that write     *)
(* follow the same store: what sets them apart from it is unpushed work or *)
(* numbered after their cursor, and no round of theirs fails.              *)
(***************************************************************************)
EXTENDS DictSyncProofs

Authors == Editors \cup Promotable

Roots == UNION {Parents[r] : r \in Row}

\* The rows a device writes, and those somebody does.
Pen(c) == Edits[c] \cup Mints[c]

Written == UNION {Pen(c) : c \in Client}

\* Rows that others hang from hang from nothing, those that are written are not deleted,
\* and nobody who can write holds flags of a lapsed role.  (A root that is both can
\* come back after its deletion; its tombstone is then withheld, and readers keep the
\* rows it swept.)
RootsRest ==
    /\ \A r \in Row : \A p \in Parents[r] :
          Parents[p] = {} /\ (p \in Written => \A c \in Client : p \notin Drops[c])
    /\ \A c \in Authors : Boot[c] # "lapsed"

\* The store respects its foreign keys.
CanonWhole == \A r \in Row : canon[r] # Nil => \A p \in Parents[r] : canon[p] # Nil

\* A device pushes roots that are written and deletes others.
RootsOK(c) ==
    /\ role[c] \/ grant[c] \/ phase[c] = "reading" => c \in Authors
    /\ queue[c] \subseteq Drops[c] /\ req[c].tombs \subseteq Drops[c]
    /\ \A p \in Roots : req[c].rows[p] = Nil \/ p \in Written
    /\ c \in Authors =>
          \A p \in Roots : local[c][p] = Nil \/ ~local[c][p].dirty \/ p \in Written

RootsInv ==
    /\ \A c \in Client : RootsOK(c)
    /\ \A p \in Roots \cap Written : graves[p] = 0

\* A reader sends nothing but its cursor.
Passive(c) ==
    /\ \A r \in Row : local[c][r] # Nil => ~local[c][r].dirty
    /\ req[c].rows = NoRows /\ req[c].tombs = {} /\ req[c].probes = NoRows
    /\ phase[c] \in {"sent", "answered"} => req[c].cursor = cursor[c]

\* A deletion numbered after n explains why the store lacks r, or is pruned.
Missed(r, n) ==
    n < pruned \/ \E p \in Lineage[r] : canon[p] = Nil /\ graves[p] > n

\* A copy that differs from the store differs by changes numbered after n.
Tracks(rows, n) ==
    \A r \in Row :
        /\ canon[r] # Nil /\ canon[r].seq <= n =>
              rows[r] # Nil /\ rows[r].v = canon[r].v
        /\ rows[r] # Nil /\ canon[r] = Nil => Missed(r, n)

\* The copy a reader will have once it applies the answer in flight.
Coming(c) == Applied(local[c], req[c], resp[c], role[c])

Informed(c) == phase[c] = "answered" /\ resp[c].kind = "ok"

ReaderOK(c) ==
    /\ Passive(c)
    /\ cursor[c] # Nil => Tracks(local[c], cursor[c])
    /\ Informed(c) => Tracks(Coming(c), resp[c].cursor)

ReadersInv == \A c \in Readers : ReaderOK(c)

-------------------------------------------------------------------------------
(* Lineages.                                                                *)

LEMMA ShallowLineage ==
    ASSUME RootsRest, NEW r \in Row
    PROVE  Lineage[r] = {r} \cup Parents[r]
<1>1. \A p \in Parents[r] : p \in Row /\ Parents[p] = {}
  BY SchemaAssumption DEF RootsRest
<1>2. \A p \in Parents[r] : Lineage[p] = {p}
  BY <1>1, LineageIs
<1>3. Lineage[r] = {r} \cup UNION {Lineage[p] : p \in Parents[r]}
  BY LineageIs
<1>. QED
  BY <1>2, <1>3

\* In a whole store nothing above a held row is missing.
LEMMA HeldLineage ==
    ASSUME RootsRest, CanonWhole, NEW r \in Row, canon[r] # Nil
    PROVE  \A p \in Lineage[r] : canon[p] # Nil
BY ShallowLineage DEF CanonWhole

-------------------------------------------------------------------------------
(* What a served request does to the store.                                 *)

\* A root is not written by a push that does not carry it.
LEMMA RootsStay ==
    ASSUME NEW q \in Request, NEW seq, NEW p \in Roots, q.rows[p] = Nil,
           canon \in [Row -> Opt(CanonRow)], canon[p] = Nil
    PROVE  Pushed(canon, q, seq)[p] = Nil
<1> DEFINE base == Cull(canon, q.tombs)
           acc == Accepted(canon, q, seq)
<1>1. p \in Row /\ KeyOf[p] = Nil
  BY SchemaAssumption DEF Roots
<1>2. base[p] = Nil
  BY <1>1 DEF Cull
<1>3. acc \subseteq Held(q.rows)
  BY DEF Accepted
<1>4. ASSUME NEW x \in acc, Target(base, x) = p
      PROVE  FALSE
  <2>1. CASE base[x] = Nil /\ KeyOwners(base, x) # {}
    <3>1. p \in KeyOwners(base, x)
      BY <1>4, <2>1 DEF Target
    <3>. QED
      BY <1>2, <3>1 DEF KeyOwners, Held
  <2>2. CASE ~(base[x] = Nil /\ KeyOwners(base, x) # {})
    <3>1. x = p
      BY <1>4, <2>2 DEF Target
    <3>. QED
      BY <1>3, <3>1 DEF Held
  <2>. QED
    BY <2>1, <2>2
<1>5. Writers(base, q, acc, p) = {}
  BY <1>4 DEF Writers
<1> HIDE DEF base, acc
<1>6. Pushed(canon, q, seq) = Merge(base, q, acc, seq)
  BY DEF Pushed, base, acc
<1>. QED
  BY <1>1, <1>2, <1>5, <1>6 DEF Merge

\* A row the push takes away lies under one of its tombstones.
LEMMA TakenAway ==
    ASSUME NEW q \in Request, NEW seq \in Nat, NEW x \in Row,
           canon \in [Row -> Opt(CanonRow)],
           canon[x] # Nil, Pushed(canon, q, seq)[x] = Nil
    PROVE  Lineage[x] \cap q.tombs # {}
<1> DEFINE base == Cull(canon, q.tombs)
           acc == Accepted(canon, q, seq)
<1>1. base \in [Row -> Opt(CanonRow)]
  BY CullType
<1>2. acc \subseteq Held(q.rows)
  BY DEF Accepted
<1>3. Lineage[x] \cap q.tombs = {} => base[x] = canon[x]
  BY DEF Cull
<1>4. Nil \notin CanonRow
  BY CellAssumption DEF CanonRow
<1> HIDE DEF base, acc
<1>5. Merge(base, q, acc, seq)[x] = Nil
  BY DEF Pushed, base, acc
<1>6. base[x] = Nil
  BY <1>1, <1>2, <1>4, <1>5, MergeType
<1>. QED
  BY <1>3, <1>6

\* What any step does to the store, as far as copies are concerned.
StoreMoves ==
    /\ Numbers
    /\ \A r \in Row : canon[r] # Nil /\ canon'[r] = Nil =>
          \E p \in Lineage[r] : canon'[p] = Nil /\ graves'[p] = counter + 1
    /\ \A p \in Roots : canon[p] = Nil /\ graves[p] > 0 => canon'[p] = Nil
    /\ \A p \in Roots \cap Written : graves'[p] = 0
    /\ \A r \in Row : graves'[r] < graves[r] => graves[r] <= pruned'
    /\ pruned <= pruned'

LEMMA ServeMoves ==
    ASSUME RootsRest, TypeOK, CursorInv, RootsInv, NEW c \in Client, Serve(c)
    PROVE  StoreMoves /\ CanonWhole'
<1> DEFINE q == Granted(req[c], grant[c])
           seq == counter + 1
<1>1. q \in Request /\ seq \in Nat
  BY GrantedType DEF TypeOK
<1>2. /\ canon' = Pushed(canon, q, seq)
      /\ graves' = Graves(graves, canon, q, seq)
      /\ pruned' = pruned
      /\ ~PushFails(canon, q, seq)
  BY DEF Serve, Reply
<1>3. /\ canon \in [Row -> Opt(CanonRow)] /\ graves \in [Row -> Nat]
      /\ counter \in Nat /\ pruned \in Nat
  BY DEF TypeOK
<1>4. \A p \in Roots : q.rows[p] = Nil \/ p \in Written
  <2>1. Roots \subseteq Row
    BY SchemaAssumption DEF Roots
  <2>2. \A p \in Roots : req[c].rows[p] = Nil \/ p \in Written
    BY DEF RootsInv, RootsOK
  <2>. QED
    BY <2>1, <2>2 DEF Granted, NoRows, TypeOK, Request
<1>10. \A p \in Roots : p \in Written => p \notin q.tombs
  <2>1. q.tombs \subseteq Drops[c]
    BY DEF RootsInv, RootsOK, Granted
  <2>. QED
    BY <2>1 DEF RootsRest, Roots
<1> HIDE DEF q, seq
<1>5. ASSUME NEW p \in Roots, canon[p] = Nil, graves[p] > 0
      PROVE  canon'[p] = Nil
  <2>1. q.rows[p] = Nil
    BY <1>3, <1>4, <1>5 DEF RootsInv
  <2>. QED
    BY <1>1, <1>2, <1>3, <1>5, <2>1, RootsStay
<1>11. ASSUME NEW p \in Roots, p \in Written
       PROVE  graves'[p] = 0
  <2>1. p \in Row /\ KeyOf[p] = Nil
    BY SchemaAssumption DEF Roots
  <2>2. p \notin Losers(Cull(canon, q.tombs), Accepted(canon, q, seq))
    BY <2>1 DEF Losers, Target, KeyOwners
  <2>3. graves[p] = 0
    BY <1>11 DEF RootsInv
  <2>. QED
    BY <1>2, <1>10, <1>11, <2>1, <2>2, <2>3 DEF Graves, Buried
<1>6. ASSUME NEW r \in Row, canon[r] # Nil, canon'[r] = Nil
      PROVE  \E p \in Lineage[r] : canon'[p] = Nil /\ graves'[p] = counter + 1
  <2>1. PICK p \in Lineage[r] : p \in q.tombs
    BY <1>1, <1>2, <1>3, <1>6, TakenAway
  <2>2. p \in Row /\ (p = r \/ p \in Roots)
    BY ShallowLineage, SchemaAssumption DEF Roots
  <2>3. graves'[p] = seq
    BY <1>2, <2>1, <2>2 DEF Graves, Buried
  <2>4. canon'[p] = Nil
    <3>1. CASE p = r
      BY <1>6, <3>1
    <3>2. CASE p \in Roots
      <4>1. Pushed(canon, q, seq)[p] # Nil => p \in Held(q.rows)
        BY <1>1, <1>3, <2>1, TombstonesBite
      <4>. QED
        BY <1>2, <1>4, <1>10, <2>1, <3>2, <4>1 DEF Held
    <3>. QED
      BY <2>2, <3>1, <3>2
  <2>. QED
    BY <2>3, <2>4 DEF seq
<1>7. \A r \in Row : graves'[r] \in Nat /\ ~(graves'[r] < graves[r])
  <2>1. \A r \in Row : graves'[r] = graves[r] \/ graves'[r] = seq
    BY <1>2 DEF Graves
  <2>. QED
    BY <1>3, <2>1 DEF CursorInv, seq
<1>8. CanonWhole'
  <2>1. canon' \in [Row -> Opt(CanonRow)]
    BY <1>1, <1>2, <1>3, PushType
  <2>2. Dangling(canon') = {}
    BY <1>2 DEF PushFails
  <2>. QED
    BY <2>1, <2>2 DEF CanonWhole, Dangling, Held
<1>9. Numbers
  BY ServeNumbers
<1>. QED
  BY <1>2, <1>3, <1>5, <1>6, <1>7, <1>8, <1>9, <1>11 DEF StoreMoves

LEMMA MovesStep ==
    ASSUME RootsRest, TypeOK, CursorInv, RootsInv, CanonWhole, [Next]_vars
    PROVE  StoreMoves /\ CanonWhole'
<1>0. Numbers
  BY NumberStep
<1>1. /\ canon \in [Row -> Opt(CanonRow)] /\ graves \in [Row -> Nat]
      /\ counter \in Nat /\ pruned \in Nat
  BY DEF TypeOK
<1>2. ASSUME UNCHANGED serverVars
      PROVE  StoreMoves /\ CanonWhole'
  BY <1>0, <1>1, <1>2 DEF StoreMoves, CanonWhole, RootsInv, serverVars
<1>3. CASE Prune
  <2>1. PICK r \in Row :
          /\ graves' = [x \in Row |-> IF graves[x] <= graves[r] THEN 0 ELSE graves[x]]
          /\ pruned' = IF graves[r] > pruned THEN graves[r] ELSE pruned
    BY <1>3 DEF Prune
  <2>2. canon' = canon
    BY <1>3 DEF Prune
  <2>3. pruned <= pruned' /\ graves[r] <= pruned' /\ pruned' \in Nat
    BY <1>1, <2>1
  <2>4. ASSUME NEW x \in Row, graves'[x] < graves[x]
        PROVE  graves[x] <= pruned'
    <3>1. graves[x] <= graves[r]
      BY <1>1, <2>1, <2>4
    <3>. QED
      BY <1>1, <2>3, <3>1
  <2>5. \A p \in Roots \cap Written : graves'[p] = 0
    <3>1. Roots \subseteq Row
      BY SchemaAssumption DEF Roots
    <3>. QED
      BY <2>1, <3>1 DEF RootsInv
  <2>. QED
    BY <1>0, <2>2, <2>3, <2>4, <2>5 DEF StoreMoves, CanonWhole
<1>4. CASE ~Prune /\ \A c \in Client : ~Serve(c)
  <2>1. UNCHANGED serverVars
    BY <1>4, QuietStep
  <2>. QED
    BY <1>2, <2>1
<1>. QED
  BY <1>3, <1>4, ServeMoves

\* A copy goes on tracking the store while the server moves.
LEMMA TracksStep ==
    ASSUME RootsRest, TypeOK, StoreMoves, NEW rows, NEW n \in Nat, n <= counter,
           Tracks(rows, n)
    PROVE  Tracks(rows, n)'
<1>1. /\ canon \in [Row -> Opt(CanonRow)] /\ graves \in [Row -> Nat]
      /\ counter \in Nat /\ pruned \in Nat
  BY DEF TypeOK
<1>4. pruned' \in Nat /\ pruned <= pruned' /\ \A r \in Row : graves'[r] \in Nat
  BY <1>1 DEF StoreMoves, Numbers
<1>2. ASSUME NEW r \in Row, canon'[r] # Nil, canon'[r].seq <= n
      PROVE  rows[r] # Nil /\ rows[r].v = canon'[r].v
  <2>1. canon'[r] = canon[r]
    BY <1>1, <1>2 DEF StoreMoves, Numbers
  <2>. QED
    BY <1>2, <2>1 DEF Tracks
<1>3. ASSUME NEW r \in Row, rows[r] # Nil, canon'[r] = Nil
      PROVE  n < pruned' \/ \E p \in Lineage[r] : canon'[p] = Nil /\ graves'[p] > n
  <2>1. CASE canon[r] # Nil
    BY <1>1, <1>3, <2>1 DEF StoreMoves
  <2>2. CASE canon[r] = Nil /\ n < pruned
    BY <1>1, <1>4, <2>2
  <2>3. CASE canon[r] = Nil /\ ~(n < pruned)
    <3>1. PICK p \in Lineage[r] : canon[p] = Nil /\ graves[p] > n
      BY <1>3, <2>3 DEF Tracks, Missed
    <3>2. p \in Row /\ (p = r \/ p \in Roots)
      BY ShallowLineage, SchemaAssumption DEF Roots
    <3>6. graves[p] > 0
      BY <1>1, <3>1, <3>2
    <3>3. canon'[p] = Nil
      BY <1>3, <3>1, <3>2, <3>6 DEF StoreMoves
    <3>4. CASE graves'[p] > n
      BY <3>3, <3>4
    <3>5. CASE ~(graves'[p] > n)
      BY <1>1, <1>4, <3>1, <3>2, <3>5 DEF StoreMoves
    <3>. QED
      BY <3>4, <3>5
  <2>. QED
    BY <2>1, <2>2, <2>3
<1>. QED
  BY <1>2, <1>3 DEF Tracks, Missed

-------------------------------------------------------------------------------
(* What the answer to a reader's pull makes of its copy.                    *)

\* Contents agree as soon as they agree row by row.
LEMMA SameContents ==
    ASSUME NEW rows \in [Row -> Opt(LocalRow)], canon \in [Row -> Opt(CanonRow)]
    PROVE  Contents(rows) = Contents(canon) <=>
             \A r \in Row : /\ rows[r] = Nil <=> canon[r] = Nil
                            /\ canon[r] # Nil => rows[r].v = canon[r].v
<1>1. ASSUME NEW r \in Row
      PROVE  /\ rows[r] # Nil => rows[r].v # Nil
             /\ canon[r] # Nil => canon[r].v # Nil
  BY CellAssumption DEF Opt, LocalRow, CanonRow
<1>2. ASSUME NEW r \in Row
      PROVE  /\ Contents(rows)[r] = IF rows[r] = Nil THEN Nil ELSE rows[r].v
             /\ Contents(canon)[r] = IF canon[r] = Nil THEN Nil ELSE canon[r].v
  BY DEF Contents
<1>3. ASSUME Contents(rows) = Contents(canon), NEW r \in Row
      PROVE  /\ rows[r] = Nil <=> canon[r] = Nil
             /\ canon[r] # Nil => rows[r].v = canon[r].v
  BY <1>1, <1>2, <1>3
<1>4. ASSUME \A r \in Row : /\ rows[r] = Nil <=> canon[r] = Nil
                            /\ canon[r] # Nil => rows[r].v = canon[r].v
      PROVE  Contents(rows) = Contents(canon)
  BY <1>4 DEF Contents
<1>. QED
  BY <1>3, <1>4

\* A copy that tracks the store up to the counter is the store.
LEMMA CaughtUp ==
    ASSUME TypeOK, CursorInv, RootsRest, NEW rows \in [Row -> Opt(LocalRow)],
           NEW n \in Nat, counter <= n, Tracks(rows, n)
    PROVE  Contents(rows) = Contents(canon)
<1>1. /\ canon \in [Row -> Opt(CanonRow)] /\ graves \in [Row -> Nat]
      /\ counter \in Nat /\ pruned \in Nat
  BY DEF TypeOK
<1>2. ASSUME NEW r \in Row, canon[r] # Nil
      PROVE  rows[r] # Nil /\ rows[r].v = canon[r].v
  <2>1. canon[r].seq \in Nat /\ canon[r].seq <= counter
    BY <1>1, <1>2 DEF CursorInv, Opt, CanonRow
  <2>. QED
    BY <1>1, <1>2, <2>1 DEF Tracks
<1>3. ASSUME NEW r \in Row, canon[r] = Nil
      PROVE  rows[r] = Nil
  <2>1. \A p \in Lineage[r] : p \in Row
    BY ShallowLineage, SchemaAssumption
  <2>2. ~Missed(r, n)
    BY <1>1, <2>1 DEF Missed, CursorInv
  <2>. QED
    BY <1>3, <2>2 DEF Tracks
<1>. QED
  BY <1>1, <1>2, <1>3, SameContents

\* Clearing flags leaves the contents.
LEMMA PullTail ==
    ASSUME canon \in [Row -> Opt(CanonRow)],
           NEW rows \in [Row -> Opt(LocalRow)], NEW q \in Request, NEW a \in Answer,
           \A r \in Row :
              /\ AfterPrune(rows, q, a)[r] = Nil <=> canon[r] = Nil
              /\ canon[r] # Nil => AfterPrune(rows, q, a)[r].v = canon[r].v
    PROVE  Contents(Applied(rows, q, a, FALSE)) = Contents(canon)
<1> DEFINE fin == AfterPrune(rows, q, a)
           end == Applied(rows, q, a, FALSE)
<1>1. end \in [Row -> Opt(LocalRow)]
  BY AppliedType
<1>2. ASSUME NEW r \in Row
      PROVE  end[r] = IF fin[r] # Nil /\ r \in Cleared(q, a, FALSE)
                      THEN [v |-> fin[r].v, dirty |-> FALSE] ELSE fin[r]
  BY DEF Applied
<1>3. ASSUME NEW r \in Row, canon[r] # Nil
      PROVE  end[r] # Nil /\ end[r].v = canon[r].v
  <2>1. [v |-> canon[r].v, dirty |-> FALSE] \in [v : Version, dirty : BOOLEAN]
    BY <1>3 DEF Opt, CanonRow
  <2> HIDE DEF fin, end
  <2>2. fin[r] # Nil /\ fin[r].v = canon[r].v
    BY <1>3 DEF fin
  <2>3. [v |-> canon[r].v, dirty |-> FALSE] # Nil
    BY <2>1, CellAssumption
  <2>4. end[r] = fin[r] \/ end[r] = [v |-> canon[r].v, dirty |-> FALSE]
    BY <1>2, <2>2
  <2>. QED
    BY <2>2, <2>3, <2>4
<1>4. ASSUME NEW r \in Row, canon[r] = Nil
      PROVE  end[r] = Nil
  <2> HIDE DEF fin, end
  <2>1. fin[r] = Nil
    BY <1>4 DEF fin
  <2>. QED
    BY <1>2, <2>1
<1> HIDE DEF fin, end
<1>5. Contents(end) = Contents(canon)
  BY <1>1, <1>3, <1>4, SameContents
<1>. QED
  BY <1>5 DEF end

\* A pull brings a clean copy to the state of the store.
LEMMA PullCompletes ==
    ASSUME TypeOK, RootsRest, CanonWhole,
           NEW rows \in [Row -> Opt(LocalRow)],
           \A r \in Row : rows[r] # Nil => ~rows[r].dirty,
           NEW q \in Request, q.rows = NoRows, q.probes = NoRows,
           NEW a \in Answer,
           a.rows = Changes(canon, q.cursor, {}, {}),
           a.dels = Deletions(canon, graves, q.cursor),
           q.cursor # Nil => Tracks(rows, q.cursor) /\ ~(q.cursor < pruned)
    PROVE  Contents(Applied(rows, q, a, FALSE)) = Contents(canon)
<1> DEFINE cut == AfterDeletes(rows, q, a)
           put == AfterUpserts(rows, q, a)
           fin == AfterPrune(rows, q, a)
<1>1. canon \in [Row -> Opt(CanonRow)]
  BY DEF TypeOK
<1>2. ASSUME NEW r \in Row
      PROVE  cut[r] = IF Lineage[r] \cap a.dels = {} THEN rows[r] ELSE Nil
  <2>1. {x \in a.dels : rows[x] = Nil \/ ~rows[x].dirty \/ q.rows[x] # Nil} = a.dels
    BY DEF Answer
  <2>. QED
    BY <2>1 DEF AfterDeletes, Cull
<1>3. ASSUME NEW r \in Row
      PROVE  put[r] = IF a.rows[r] = Nil THEN cut[r]
                      ELSE [v |-> a.rows[r], dirty |-> cut[r] # Nil /\ cut[r].dirty]
  BY DEF AfterUpserts
<1>4. \A r \in Row : cut[r] # Nil => ~cut[r].dirty
  BY <1>2
<1>5. ASSUME NEW r \in Row
      PROVE  a.rows[r] = IF canon[r] # Nil /\ (q.cursor = Nil \/ canon[r].seq > q.cursor)
                         THEN canon[r].v ELSE Nil
  BY DEF Changes
<1>6. ASSUME NEW r \in Row, canon[r] # Nil
      PROVE  canon[r].v # Nil /\ [v |-> canon[r].v, dirty |-> FALSE] # Nil
  <2>1. canon[r].v \in Version
    BY <1>1, <1>6 DEF Opt, CanonRow
  <2>2. [v |-> canon[r].v, dirty |-> FALSE] \in [v : Version, dirty : BOOLEAN]
    BY <2>1
  <2>. QED
    BY <2>1, <2>2, CellAssumption
<1>7. ASSUME NEW r \in Row, a.rows[r] # Nil
      PROVE  put[r] = [v |-> canon[r].v, dirty |-> FALSE] /\ canon[r] # Nil
  <2>1. ~(cut[r] # Nil /\ cut[r].dirty)
    BY <1>4
  <2>2. (cut[r] # Nil /\ cut[r].dirty) = FALSE
    BY <2>1
  <2>. QED
    BY <1>3, <1>5, <1>7, <2>2
<1>8. CASE q.cursor = Nil
  <2> DEFINE dead == {r \in Held(put) : ~put[r].dirty /\ a.rows[r] = Nil /\ q.rows[r] = Nil}
  <2>1. ASSUME NEW r \in Row
        PROVE  fin[r] = IF Lineage[r] \cap dead = {} THEN put[r] ELSE Nil
    BY <1>8 DEF AfterPrune, Cull
  <2>2. ASSUME NEW r \in Row, canon[r] # Nil
        PROVE  fin[r] = [v |-> canon[r].v, dirty |-> FALSE]
    <3>1. \A p \in Lineage[r] : p \in Row /\ canon[p] # Nil
      BY <2>2, HeldLineage, ShallowLineage, SchemaAssumption
    <3>2. \A p \in Lineage[r] : a.rows[p] # Nil
      BY <1>5, <1>6, <1>8, <3>1
    <3>3. Lineage[r] \cap dead = {}
      BY <3>2
    <3>4. a.rows[r] # Nil
      BY <1>5, <1>6, <1>8, <2>2
    <3>. QED
      BY <1>7, <2>1, <3>3, <3>4
  <2>3. ASSUME NEW r \in Row, canon[r] = Nil
        PROVE  fin[r] = Nil
    <3>1. a.rows[r] = Nil /\ q.rows[r] = Nil
      BY <1>5, <2>3 DEF NoRows
    <3>2. put[r] # Nil => r \in dead
      BY <1>3, <1>4, <3>1 DEF Held
    <3>. QED
      BY <2>1, <3>2, LineageReflexive
  <2> HIDE DEF fin
  <2>4. ASSUME NEW r \in Row
        PROVE  /\ fin[r] = Nil <=> canon[r] = Nil
               /\ canon[r] # Nil => fin[r].v = canon[r].v
    <3>1. CASE canon[r] = Nil
      BY <2>3, <3>1
    <3>2. CASE canon[r] # Nil
      <4>1. fin[r] = [v |-> canon[r].v, dirty |-> FALSE] /\ fin[r] # Nil
        BY <1>6, <2>2, <3>2
      <4>. QED
        BY <3>2, <4>1
    <3>. QED
      BY <3>1, <3>2
  <2>. QED
    BY <1>1, <2>4, PullTail DEF fin
<1>9. CASE q.cursor # Nil
  <2>1. fin = put
    BY <1>9 DEF AfterPrune
  <2>2. a.dels = {r \in Row : graves[r] > q.cursor /\ canon[r] = Nil}
    BY <1>9 DEF Deletions
  <2>3. ASSUME NEW r \in Row, canon[r] # Nil
        PROVE  put[r] # Nil /\ put[r].v = canon[r].v
    <3>1. CASE a.rows[r] # Nil
      <4> HIDE DEF put
      <4>1. put[r] = [v |-> canon[r].v, dirty |-> FALSE] /\ put[r] # Nil
        BY <1>6, <1>7, <2>3, <3>1
      <4>. QED
        BY <4>1
    <3>2. CASE a.rows[r] = Nil
      <4>1. ~(canon[r].seq > q.cursor)
        BY <1>5, <1>6, <2>3, <3>2
      <4>2. canon[r].seq \in Nat /\ q.cursor \in Nat
        BY <1>1, <1>9, <2>3 DEF Opt, CanonRow, Request
      <4>3. rows[r] # Nil /\ rows[r].v = canon[r].v
        BY <1>9, <2>3, <4>1, <4>2 DEF Tracks
      <4>4. Lineage[r] \cap a.dels = {}
        BY <2>2, <2>3, HeldLineage
      <4>. QED
        BY <1>2, <1>3, <3>2, <4>3, <4>4
    <3>. QED
      BY <3>1, <3>2
  <2>4. ASSUME NEW r \in Row, canon[r] = Nil
        PROVE  put[r] = Nil
    <3>1. a.rows[r] = Nil
      BY <1>5, <2>4
    <3>2. ASSUME rows[r] # Nil
          PROVE  Lineage[r] \cap a.dels # {}
      <4>1. PICK p \in Lineage[r] : canon[p] = Nil /\ graves[p] > q.cursor
        BY <1>9, <2>4, <3>2 DEF Tracks, Missed
      <4>2. p \in Row
        BY ShallowLineage, SchemaAssumption
      <4>. QED
        BY <2>2, <4>1, <4>2
    <3>. QED
      BY <1>2, <1>3, <3>1, <3>2
  <2> HIDE DEF fin, put
  <2>5. \A r \in Row : /\ fin[r] = Nil <=> canon[r] = Nil
                       /\ canon[r] # Nil => fin[r].v = canon[r].v
    BY <2>1, <2>3, <2>4
  <2>. QED
    BY <1>1, <2>5, PullTail DEF fin
<1>. QED
  BY <1>8, <1>9

-------------------------------------------------------------------------------
(* Roots are pushed or deleted, not both.                                   *)

LEMMA RootsInit == RootsRest /\ Init => RootsInv /\ CanonWhole
<1> SUFFICES ASSUME RootsRest, Init PROVE RootsInv /\ CanonWhole
  OBVIOUS
<1>1. ASSUME NEW c \in Client
      PROVE  RootsOK(c)
  <2>1. role[c] \/ grant[c] \/ phase[c] = "reading" => c \in Authors
    BY DEF Init, Authors
  <2>2. Roots \subseteq Row
    BY SchemaAssumption DEF Roots
  <2>3. req[c].tombs = {} /\ queue[c] = {} /\ \A p \in Roots : req[c].rows[p] = Nil
    BY <2>2 DEF Init, NoRequest, NoRows
  <2>4. ASSUME c \in Authors, NEW p \in Roots, local[c][p] # Nil
        PROVE  ~local[c][p].dirty
    <3>1. local[c] \in InitialFiles(c) /\ Boot[c] # "lapsed" /\ p \in Row
      BY <2>2, <2>4 DEF Init, RootsRest
    <3>2. local[c][p] = [v |-> SeedVersion, dirty |-> FALSE]
      BY <2>4, <3>1, CleanFiles
    <3>. QED
      BY <3>2
  <2>. QED
    BY <2>1, <2>3, <2>4 DEF RootsOK
<1>2. CanonWhole
  <2>1. \A r \in Row : canon[r] = IF r \in Seed THEN [v |-> SeedVersion, seq |-> 1] ELSE Nil
    BY DEF Init
  <2>2. [v |-> SeedVersion, seq |-> 1] # Nil
    <3>1. [v |-> SeedVersion, seq |-> 1] \in [v : Version, seq : Nat]
      BY DEF SeedVersion, Version
    <3>. QED
      BY <3>1, CellAssumption
  <2>3. \A r \in Seed : Parents[r] \subseteq Seed
    BY EnvironmentAssumption
  <2>4. \A r \in Row : Parents[r] \subseteq Row
    BY SchemaAssumption
  <2>. QED
    BY <2>1, <2>2, <2>3, <2>4 DEF CanonWhole
<1>3. \A p \in Roots : graves[p] = 0
  BY SchemaAssumption DEF Init, Roots
<1>. QED
  BY <1>1, <1>2, <1>3 DEF RootsInv

\* Applying an answer raises no flag.
LEMMA AppliedFlags ==
    ASSUME NEW rows \in [Row -> Opt(LocalRow)], NEW q \in Request, NEW a \in Answer,
           NEW editor \in BOOLEAN, NEW r \in Row,
           rows[r] = Nil \/ ~rows[r].dirty,
           Applied(rows, q, a, editor)[r] # Nil
    PROVE  ~Applied(rows, q, a, editor)[r].dirty
<1> DEFINE cut == AfterDeletes(rows, q, a)
           put == AfterUpserts(rows, q, a)
           fin == AfterPrune(rows, q, a)
           end == Applied(rows, q, a, editor)
<1>1. cut[r] = rows[r] \/ cut[r] = Nil
  BY DEF AfterDeletes, Cull
<1>2. put[r] = IF a.rows[r] = Nil THEN cut[r]
               ELSE [v |-> a.rows[r], dirty |-> cut[r] # Nil /\ cut[r].dirty]
  BY DEF AfterUpserts
<1>3. fin[r] = put[r] \/ fin[r] = Nil
  BY DEF AfterPrune, Cull, AfterUpserts
<1>4. end[r] = IF fin[r] # Nil /\ r \in Cleared(q, a, editor)
               THEN [v |-> fin[r].v, dirty |-> FALSE] ELSE fin[r]
  BY DEF Applied
<1> HIDE DEF cut, put, fin, end
<1>5. ~(cut[r] # Nil /\ cut[r].dirty)
  BY <1>1
<1>6. (cut[r] # Nil /\ cut[r].dirty) = FALSE
  BY <1>5
<1>7. put[r] = cut[r] \/ put[r] = [v |-> a.rows[r], dirty |-> FALSE]
  BY <1>2, <1>6
<1>8. fin[r] # Nil => ~fin[r].dirty
  BY <1>3, <1>5, <1>7
<1>9. end[r] # Nil => ~end[r].dirty
  BY <1>4, <1>8
<1>. QED
  BY <1>9 DEF end

LEMMA ReadFlags ==
    ASSUME NEW c \in Client, NEW rows, NEW S, NEW r \in Row,
           local[c][r] = Nil \/ ~local[c][r].dirty
    PROVE  Read(c, rows, S)[r] = rows[r]
BY DEF Read, DirtyIn, Held

LEMMA RootsOwn ==
    ASSUME RootsRest, TypeOK, NEW c \in Client, RootsOK(c), StepOf(c)
    PROVE  RootsOK(c)'
<1> USE DEF RootsOK
<1>0. Roots \subseteq Row
  BY SchemaAssumption DEF Roots
<1>1. CASE UserStep(c)
  <2>1. PICK r \in Row : Insert(c, r) \/ Edit(c, r) \/ Drop(c, r)
    BY <1>1 DEF UserStep
  <2>2. CASE Drop(c, r)
    <3>1. local'[c] = Cull(local[c], {r}) /\ queue'[c] = queue[c] \cup {r} /\ r \in Drops[c]
      BY <2>2 DEF Drop, TypeOK
    <3>2. \A p \in Roots : local'[c][p] \in {local[c][p], Nil}
      BY <1>0, <3>1 DEF Cull
    <3>. QED
      BY <2>2, <3>1, <3>2 DEF Drop, engineVars, roundVars, worldVars
  <2>3. CASE Insert(c, r) \/ Edit(c, r)
    <3>1. r \in Written
      BY <2>3 DEF Insert, Edit, Written, Pen
    <3>2. Stamp(c, r) /\ UNCHANGED <<role, grant, phase, req, queue>>
      BY <2>3 DEF Insert, Edit, engineVars, roundVars
    <3>3. \A p \in Roots : local'[c][p] = local[c][p] \/ p = r
      BY <1>0, <3>2 DEF Stamp, TypeOK
    <3>. QED
      BY <3>1, <3>2, <3>3
  <2>. QED
    BY <2>1, <2>2, <2>3
<1>2. CASE BeginPush(c)
  <2>1. c \in Authors
    BY <1>2 DEF BeginPush
  <2>2. req'[c].rows = Read(c, NoRows, OnPage(1)) /\ req'[c].tombs = {}
    BY <1>2 DEF BeginPush, TypeOK, NoRequest
  <2>3. \A p \in Roots : req'[c].rows[p] = Nil \/ p \in Written
    BY <1>0, <2>1, <2>2, ReadFlags DEF NoRows
  <2>. QED
    BY <1>2, <2>1, <2>2, <2>3 DEF BeginPush, fileVars, engineVars, worldVars
<1>3. CASE ReadPage(c)
  <2>1. c \in Authors
    BY <1>3 DEF ReadPage
  <2>2. req'[c].rows = Read(c, req[c].rows, OnPage(page[c])) /\ req'[c].tombs = req[c].tombs
    BY <1>3 DEF ReadPage, TypeOK, Request
  <2>3. \A p \in Roots : req'[c].rows[p] = Nil \/ p \in Written
    BY <1>0, <2>1, <2>2, ReadFlags
  <2>. QED
    BY <1>3, <2>1, <2>2, <2>3 DEF ReadPage, fileVars, engineVars, worldVars
<1>4. CASE SendPush(c)
  <2>1. req'[c].rows = req[c].rows /\ req'[c].tombs = queue[c]
    BY <1>4 DEF SendPush, TypeOK, Request
  <2>2. phase'[c] = "sent"
    BY <1>4 DEF SendPush, TypeOK
  <2>. QED
    BY <1>4, <2>1, <2>2 DEF SendPush, fileVars, engineVars, worldVars
<1>5. CASE SendPull(c)
  <2>1. req'[c].rows = NoRows /\ req'[c].tombs = {}
    BY <1>5 DEF SendPull, TypeOK, NoRequest
  <2>2. phase'[c] = "sent" /\ \A p \in Roots : NoRows[p] = Nil
    BY <1>0, <1>5 DEF SendPull, TypeOK, NoRows
  <2>. QED
    BY <1>5, <2>1, <2>2 DEF SendPull, fileVars, worldVars
<1>6. NoRequest.rows = NoRows /\ NoRequest.tombs = {} /\ \A p \in Roots : NoRows[p] = Nil
  BY <1>0 DEF NoRequest, NoRows
<1>7. CASE Apply(c)
  <2>1. /\ local'[c] = Applied(local[c], req[c], resp[c], role[c])
        /\ req'[c] = NoRequest /\ phase'[c] = "idle"
        /\ role' = role /\ grant' = grant /\ queue'[c] \subseteq queue[c]
    BY <1>7 DEF Apply, EndRound, TypeOK, worldVars
  <2>2. /\ local[c] \in [Row -> Opt(LocalRow)] /\ req[c] \in Request
        /\ resp[c] \in Answer /\ role[c] \in BOOLEAN
    BY DEF TypeOK
  <2>3. c \in Authors =>
            \A p \in Roots : local'[c][p] = Nil \/ ~local'[c][p].dirty \/ p \in Written
    BY <1>0, <2>1, <2>2, AppliedFlags
  <2>. QED
    BY <1>6, <2>1, <2>3
<1>8. CASE ServerFault(c) \/ ApplyClashes(c) \/ ApplyDangles(c)
  <2>1. /\ UNCHANGED <<local, role, grant, queue>>
        /\ req'[c] = NoRequest /\ phase'[c] = "idle"
    BY <1>8 DEF ServerFault, ApplyClashes, ApplyDangles, Fail, EndRound, TypeOK, fileVars, worldVars
  <2>. QED
    BY <1>6, <2>1
<1>9. CASE LearnExpired(c)
  <2>1. PICK next \in {"idle", "resetting"} : phase' = [phase EXCEPT ![c] = next]
    BY <1>9 DEF LearnExpired
  <2>2. UNCHANGED <<local, role, grant, queue>> /\ req'[c] = NoRequest /\ phase'[c] # "reading"
    BY <1>9, <2>1 DEF LearnExpired, TypeOK, fileVars, worldVars
  <2>. QED
    BY <1>6, <2>2
<1>10. CASE Reset(c)
  <2>1. /\ local'[c] = [r \in Row |-> IF canon[r] = Nil THEN Nil
                                      ELSE [v |-> canon[r].v, dirty |-> FALSE]]
        /\ queue'[c] = {}
        /\ phase'[c] = "idle" /\ UNCHANGED <<role, grant, req>>
    BY <1>10 DEF Reset, TypeOK, worldVars
  <2>2. \A p \in Roots : local'[c][p] = Nil \/ ~local'[c][p].dirty
    BY <1>0, <2>1
  <2>. QED
    BY <2>1, <2>2
<1>11. CASE ServerStep(c)
  <2>1. PICK a : Reply(c, a)
    BY <1>11 DEF ServerStep, ServeBail, ServeExpired, Serve, ServeFails
  <2>2. phase'[c] = "answered"
    BY <2>1 DEF Reply, TypeOK
  <2>. QED
    BY <2>1, <2>2 DEF Reply, fileVars, engineVars, worldVars
<1>12. CASE Lose(c) \/ Reload(c)
  <2>1. /\ local' = local /\ grant' = grant /\ queue' = queue
        /\ req'[c] = NoRequest /\ phase'[c] = "idle" /\ role'[c] \in {role[c], grant[c]}
    BY <1>12 DEF Lose, Reload, EndRound, TypeOK, fileVars
  <2>. QED
    BY <1>6, <2>1
<1>13. CASE SetRole(c) \/ Revoke(c)
  <2>1. /\ UNCHANGED <<local, req, phase, queue>> /\ (role[c] \/ grant[c])
    BY <1>13 DEF SetRole, Revoke, fileVars, roundVars
  <2>. QED
    BY <2>1
<1>. QED
  BY <1>1, <1>2, <1>3, <1>4, <1>5, <1>7, <1>8, <1>9, <1>10, <1>11, <1>12, <1>13
  DEF StepOf, EngineStep, AnswerStep

LEMMA RootsStep ==
    ASSUME RootsRest, TypeOK, RootsInv, StoreMoves, [Next]_vars
    PROVE  RootsInv'
<1>1. ASSUME NEW d \in Client, Own(d)' = Own(d)
      PROVE  RootsOK(d)'
  BY <1>1 DEF RootsInv, RootsOK, Own
<1>2. ASSUME \A d \in Client : RootsOK(d)'
      PROVE  RootsInv'
  BY <1>2 DEF RootsInv, StoreMoves
<1>3. CASE UNCHANGED vars \/ Prune
  BY <1>1, <1>2, <1>3, NobodyMoves
<1>4. ASSUME NEW c \in Client, StepOf(c)
      PROVE  RootsInv'
  <2>1. RootsOK(c)'
    BY <1>4, RootsOwn DEF RootsInv
  <2>2. \A d \in Client \ {c} : RootsOK(d)'
    BY <1>1, <1>4, OthersStay
  <2>. QED
    BY <1>2, <2>1, <2>2
<1>. QED
  BY <1>3, <1>4 DEF Next, StepOf

-------------------------------------------------------------------------------
(* Readers track the store.                                                 *)

LEMMA ReadersAreNot ==
    ASSUME NEW c \in Readers
    PROVE  c \in Client /\ c \notin Authors /\ Boot[c] # "lapsed"
BY DEF Readers, Authors

\* A copy with the contents of the store tracks it from any number on.
LEMMA SameTracks ==
    ASSUME canon \in [Row -> Opt(CanonRow)], NEW rows \in [Row -> Opt(LocalRow)],
           NEW n, Contents(rows) = Contents(canon)
    PROVE  Tracks(rows, n)
BY SameContents DEF Tracks

LEMMA ReadersInit == Init => ReadersInv
<1> SUFFICES ASSUME Init, NEW c \in Readers PROVE ReaderOK(c)
  BY DEF ReadersInv
<1>1. c \in Client /\ Boot[c] # "lapsed"
  BY ReadersAreNot
<1>2. /\ local[c] \in InitialFiles(c) /\ phase[c] = "idle"
      /\ req[c] = NoRequest
      /\ cursor[c] = IF Boot[c] = "legacy" THEN Nil ELSE 1
  BY <1>1 DEF Init
<1>3. \A r \in Row : local[c][r] # Nil => local[c][r] = [v |-> SeedVersion, dirty |-> FALSE]
  BY <1>1, <1>2, CleanFiles
<1>4. \A r \in Row : local[c][r] # Nil => ~local[c][r].dirty
  BY <1>3
<1>5. Passive(c)
  BY <1>2, <1>4 DEF Passive, NoRequest
<1>6. ASSUME cursor[c] # Nil
      PROVE  Tracks(local[c], cursor[c])
  <2>1. Boot[c] = "snapshot"
    BY <1>1, <1>2, <1>6, EnvironmentAssumption
  <2>2. \A r \in Row : local[c][r] # Nil <=> r \in Seed
    BY <1>1, <1>2, <2>1, CleanFiles
  <2>3. \A r \in Row : canon[r] = IF r \in Seed THEN [v |-> SeedVersion, seq |-> 1] ELSE Nil
    BY DEF Init
  <2>4. ASSUME NEW r \in Row, canon[r] # Nil
        PROVE  local[c][r] # Nil /\ local[c][r].v = canon[r].v
    <3>1. r \in Seed
      BY <2>3, <2>4
    <3>2. canon[r].v = SeedVersion
      BY <2>3, <3>1
    <3>3. local[c][r] # Nil /\ local[c][r].v = SeedVersion
      BY <1>3, <2>2, <3>1
    <3>. QED
      BY <3>2, <3>3
  <2>5. ASSUME NEW r \in Row, local[c][r] # Nil
        PROVE  canon[r] # Nil
    <3>1. [v |-> SeedVersion, seq |-> 1] \in [v : Version, seq : Nat]
      BY DEF SeedVersion, Version
    <3>. QED
      BY <2>2, <2>3, <2>5, <3>1, CellAssumption
  <2>. QED
    BY <2>4, <2>5 DEF Tracks
<1>. QED
  BY <1>2, <1>5, <1>6 DEF ReaderOK, Informed

\* The answer to a reader is the store, and its pull leaves the store alone.
LEMMA AnswerCompletes ==
    ASSUME RootsRest, TypeOK, CursorInv, CanonWhole, RootsInv,
           NEW c \in Readers, ReaderOK(c), ServerStep(c), resp'[c].kind = "ok"
    PROVE  /\ canon' = canon
           /\ Contents(Applied(local[c], req[c], resp'[c], FALSE)) = Contents(canon)
<1> DEFINE q == req[c]
<1>1. /\ c \in Client /\ grant[c] = FALSE /\ phase[c] = "sent"
      /\ q \in Request /\ local[c] \in [Row -> Opt(LocalRow)]
  <2>1. c \in Client /\ c \notin Authors
    BY ReadersAreNot
  <2>2. grant[c] = FALSE
    BY <2>1 DEF RootsInv, RootsOK, TypeOK
  <2>. QED
    BY <2>1, <2>2 DEF TypeOK, ServerStep, ServeBail, ServeExpired, Serve, ServeFails
<1>2. /\ canon \in [Row -> Opt(CanonRow)] /\ graves \in [Row -> Nat]
      /\ counter \in Nat /\ pruned \in Nat
  BY DEF TypeOK
<1>3. /\ \A r \in Row : local[c][r] # Nil => ~local[c][r].dirty
      /\ q.rows = NoRows /\ q.tombs = {} /\ q.probes = NoRows
      /\ q.cursor = cursor[c]
      /\ q.cursor # Nil => Tracks(local[c], q.cursor)
  BY <1>1 DEF ReaderOK, Passive
<1>4. Held(NoRows) = {}
  BY DEF Held, NoRows
<1>5. \A b : Reply(c, b) => resp'[c] = b
  BY <1>1 DEF Reply, TypeOK
<1>6. ~ServeExpired(c) /\ ~ServeFails(c)
  <2>1. NoAnswer.kind # "ok" /\ [NoAnswer EXCEPT !.kind = "expired"].kind # "ok"
    BY DEF NoAnswer
  <2>. QED
    BY <1>5, <2>1 DEF ServeExpired, ServeFails
<1>7. CASE ServeBail(c)
  <2>1. resp'[c] = BailAnswer(q, FALSE) /\ canon' = canon
    BY <1>1, <1>5, <1>7 DEF ServeBail
  <2>2. resp'[c].rows = NoRows /\ resp'[c].dels = {} /\ resp'[c].redundant = {}
    BY <2>1 DEF BailAnswer, NoAnswer
  <2>3. q.cursor \in Nat /\ counter <= q.cursor
    BY <1>1, <1>7 DEF ServeBail, FastBail, Request, Opt
  <2>4. Contents(local[c]) = Contents(canon)
    BY <1>1, <1>3, <2>3, CaughtUp, NilAssumption
  <2>5. Applied(local[c], q, resp'[c], FALSE) = local[c]
    <3>1. AfterDeletes(local[c], q, resp'[c]) = local[c]
      BY <1>1, <2>2 DEF AfterDeletes, Cull
    <3>2. AfterUpserts(local[c], q, resp'[c]) = local[c]
      BY <1>1, <2>2, <3>1 DEF AfterUpserts, NoRows
    <3>3. AfterPrune(local[c], q, resp'[c]) = local[c]
      BY <2>3, <3>2, NilAssumption DEF AfterPrune
    <3>4. Cleared(q, resp'[c], FALSE) = {}
      BY <2>2 DEF Cleared
    <3>. QED
      BY <1>1, <3>3, <3>4 DEF Applied
  <2>. QED
    BY <2>1, <2>4, <2>5
<1>8. CASE Serve(c)
  <2> DEFINE g == Granted(q, FALSE)
             seq == counter + 1
             a == FullAnswer(canon, canon', graves', q, FALSE, seq, counter')
  <2>1. /\ g \in Request /\ Held(g.rows) = {} /\ g.tombs = {}
    BY <1>1, <1>4, GrantedType DEF Granted, Request
  <2>2. /\ canon' = Pushed(canon, g, seq)
        /\ graves' = Graves(graves, canon, g, seq)
        /\ resp'[c] = a
        /\ ~Expired(q, pruned)
    BY <1>1, <1>5, <1>8 DEF Serve
  <2> HIDE DEF g, seq
  <2>3. Accepted(canon, g, seq) = {} /\ Orphans(canon, g, seq) = {}
    BY <2>1 DEF Accepted, Orphans
  <2>4. \A base : Losers(base, {}) = {}
    BY DEF Losers
  <2>5. canon' = canon
    <3>1. Cull(canon, {}) = canon
      BY <1>2 DEF Cull
    <3>2. Merge(canon, g, {}, seq) = canon
      BY <1>2 DEF Merge, Writers
    <3>. QED
      BY <2>1, <2>2, <2>3, <3>1, <3>2 DEF Pushed
  <2>6. graves' = graves
    BY <1>2, <2>1, <2>2, <2>3, <2>4 DEF Graves, Buried
  <2>7. Echoed(canon, g, seq) = {}
    BY <2>3, <2>4 DEF Echoed
  <2>8. /\ a.rows = Changes(canon, q.cursor, {}, {})
        /\ a.dels = Deletions(canon, graves, q.cursor)
    <3>1. a.rows = Changes(canon', q.cursor, Held(q.rows) \ Orphans(canon, g, seq),
                           Echoed(canon, g, seq))
      BY DEF FullAnswer, g
    <3>2. a.dels = Losers(Cull(canon, g.tombs), Accepted(canon, g, seq))
                     \cup Deletions(canon', graves', q.cursor)
      BY DEF FullAnswer, g
    <3>3. Held(q.rows) \ Orphans(canon, g, seq) = {}
      BY <1>3, <1>4
    <3> HIDE DEF a
    <3>. QED
      BY <2>3, <2>4, <2>5, <2>6, <2>7, <3>1, <3>2, <3>3
  <2>9. a \in Answer
    <3>1. canon' \in [Row -> Opt(CanonRow)] /\ graves' \in [Row -> Nat]
      BY <1>2, <2>5, <2>6
    <3>2. counter' \in Nat /\ seq \in Nat
      BY <1>2, <1>8 DEF Serve, seq
    <3>. QED
      BY <1>1, <1>2, <3>1, <3>2, AnswerType
  <2>10. q.cursor # Nil => ~(q.cursor < pruned)
    BY <2>2 DEF Expired
  <2> HIDE DEF a, q
  <2>11. Contents(Applied(local[c], q, a, FALSE)) = Contents(canon)
    BY <1>1, <1>3, <2>8, <2>9, <2>10, PullCompletes
  <2>. QED
    BY <2>2, <2>5, <2>11 DEF q
<1>. QED
  BY <1>6, <1>7, <1>8 DEF ServerStep

\* A device whose file a step leaves alone goes on tracking the store.
LEMMA CopyTracks ==
    ASSUME RootsRest, TypeOK, CursorInv, StoreMoves, NEW c \in Client,
           cursor[c] # Nil, Tracks(local[c], cursor[c]),
           UNCHANGED <<local[c], cursor[c]>>
    PROVE  Tracks(local[c], cursor[c])'
<1> PICK rows : rows = local[c]
  OBVIOUS
<1> PICK n : n = cursor[c]
  OBVIOUS
<1>1. n \in Nat /\ n <= counter
  BY DEF TypeOK, Opt, CursorInv, Cursors
<1>2. Tracks(rows, n)
  OBVIOUS
<1>3. Tracks(rows, n)'
  BY <1>1, <1>2, TracksStep
<1>4. rows = local'[c] /\ n = cursor'[c]
  OBVIOUS
<1>. QED
  BY <1>3, <1>4 DEF Tracks, Missed

LEMMA ComingTracks ==
    ASSUME RootsRest, TypeOK, CursorInv, StoreMoves, NEW c \in Client,
           Tracks(Coming(c), resp[c].cursor),
           UNCHANGED <<local[c], req[c], resp[c], role[c]>>
    PROVE  Tracks(Coming(c), resp[c].cursor)'
<1> PICK rows : rows = Coming(c)
  OBVIOUS
<1> PICK n : n = resp[c].cursor
  OBVIOUS
<1>1. n \in Nat /\ n <= counter
  <2>1. resp[c].cursor \in Nat
    BY DEF TypeOK, Answer
  <2>. QED
    BY <2>1, NilAssumption DEF CursorInv, Cursors
<1>2. Tracks(rows, n)
  OBVIOUS
<1>3. Tracks(rows, n)'
  BY <1>1, <1>2, TracksStep
<1>4. rows = Coming(c)' /\ n = resp'[c].cursor
  BY DEF Coming
<1> HIDE DEF Coming
<1>. QED
  BY <1>3, <1>4 DEF Tracks, Missed

\* A reader's own steps.
LEMMA ReaderOwn ==
    ASSUME RootsRest, TypeOK, CursorInv, CanonWhole, RootsInv, StoreMoves, TypeOK',
           NEW c \in Readers, ReaderOK(c), StepOf(c)
    PROVE  ReaderOK(c)'
<1>0. c \in Client /\ c \notin Authors
  BY ReadersAreNot
<1>1. role[c] = FALSE /\ grant[c] = FALSE /\ phase[c] # "reading"
  BY <1>0 DEF RootsInv, RootsOK, TypeOK
<1>2. ASSUME UNCHANGED <<local[c], cursor[c]>>, cursor[c] # Nil
      PROVE  Tracks(local[c], cursor[c])'
  BY <1>0, <1>2, CopyTracks DEF ReaderOK
<1>3. ASSUME UNCHANGED <<local[c], cursor[c]>>, req'[c] = NoRequest,
             phase'[c] \notin {"sent", "answered"}
      PROVE  ReaderOK(c)'
  BY <1>2, <1>3 DEF ReaderOK, Passive, Informed, NoRequest
<1>4. ~UserStep(c) /\ ~BeginPush(c) /\ ~ReadPage(c) /\ ~SendPush(c)
  BY <1>1 DEF UserStep, Insert, Edit, Drop, MayWrite, BeginPush, ReadPage, SendPush
<1>5. ~SetRole(c) /\ ~Revoke(c)
  BY <1>1 DEF SetRole, Revoke
<1>6. CASE SendPull(c)
  <2>1. /\ UNCHANGED <<local, cursor, resp, role>> /\ phase'[c] = "sent"
        /\ req'[c] = [NoRequest EXCEPT !.cursor = cursor[c],
                        !.probes = IF probe[c] THEN Read(c, NoRows, Row) ELSE NoRows]
    BY <1>0, <1>6 DEF SendPull, TypeOK, fileVars
  <2>2. Read(c, NoRows, Row) = NoRows
    <3>1. DirtyIn(c, Row) = {}
      BY DEF ReaderOK, Passive, DirtyIn, Held
    <3>. QED
      BY <3>1 DEF Read, NoRows
  <2>3. /\ req'[c].rows = NoRows /\ req'[c].tombs = {} /\ req'[c].probes = NoRows
        /\ req'[c].cursor = cursor[c]
    BY <2>1, <2>2 DEF NoRequest
  <2>4. Passive(c)'
    BY <2>1, <2>3 DEF ReaderOK, Passive
  <2>. QED
    BY <1>2, <2>1, <2>4 DEF ReaderOK, Informed
<1>7. CASE ServerStep(c)
  <2>1. PICK a : Reply(c, a)
    BY <1>7 DEF ServerStep, ServeBail, ServeExpired, Serve, ServeFails
  <2>2. UNCHANGED <<local, cursor, req, role>> /\ phase[c] = "sent" /\ phase'[c] = "answered"
    <3>1. phase[c] = "sent"
      BY <1>7 DEF ServerStep, ServeBail, ServeExpired, Serve, ServeFails
    <3>. QED
      BY <1>0, <2>1, <3>1 DEF Reply, TypeOK, fileVars, engineVars
  <2>3. Passive(c)'
    BY <2>2 DEF ReaderOK, Passive
  <2>4. ASSUME resp'[c].kind = "ok"
        PROVE  Tracks(Coming(c), resp[c].cursor)'
    <3>1. /\ canon' = canon
          /\ Contents(Applied(local[c], req[c], resp'[c], FALSE)) = Contents(canon)
      BY <1>7, <2>4, AnswerCompletes
    <3>2. Coming(c)' = Applied(local[c], req[c], resp'[c], FALSE)
      BY <1>1, <2>2 DEF Coming
    <3>3. /\ Applied(local[c], req[c], resp'[c], FALSE) \in [Row -> Opt(LocalRow)]
          /\ canon \in [Row -> Opt(CanonRow)]
      <4>1. local[c] \in [Row -> Opt(LocalRow)] /\ req[c] \in Request /\ resp'[c] \in Answer
        BY <1>0 DEF TypeOK
      <4>. QED
        BY <4>1, AppliedType DEF TypeOK
    <3>4. \A r \in Row :
             /\ Coming(c)'[r] = Nil <=> canon'[r] = Nil
             /\ canon'[r] # Nil => Coming(c)'[r].v = canon'[r].v
      BY <3>1, <3>2, <3>3, SameContents
    <3> HIDE DEF Coming
    <3>. QED
      BY <3>4 DEF Tracks
  <2>. QED
    BY <1>2, <2>2, <2>3, <2>4 DEF ReaderOK, Informed
<1>8. CASE Apply(c)
  <2>1. /\ local'[c] = Coming(c) /\ cursor'[c] = resp[c].cursor
        /\ req'[c] = NoRequest /\ phase'[c] = "idle" /\ serverVars' = serverVars
        /\ Informed(c)
    BY <1>0, <1>8 DEF Apply, EndRound, TypeOK, Coming, Informed
  <2>2. Tracks(Coming(c), resp[c].cursor)
    BY <2>1 DEF ReaderOK
  <2>3. Tracks(local[c], cursor[c])'
    <3> HIDE DEF Coming
    <3>. QED
      BY <2>1, <2>2 DEF Tracks, Missed, serverVars
  <2>4. \A r \in Row : local'[c][r] # Nil => ~local'[c][r].dirty
    <3>1. /\ local[c] \in [Row -> Opt(LocalRow)] /\ req[c] \in Request
          /\ resp[c] \in Answer /\ role[c] \in BOOLEAN
      BY <1>0 DEF TypeOK
    <3>2. \A r \in Row : local[c][r] = Nil \/ ~local[c][r].dirty
      BY DEF ReaderOK, Passive
    <3>. QED
      BY <2>1, <3>1, <3>2, AppliedFlags DEF Coming
  <2>. QED
    BY <2>1, <2>3, <2>4 DEF ReaderOK, Passive, Informed, NoRequest
<1>9. CASE ServerFault(c) \/ ApplyClashes(c) \/ ApplyDangles(c) \/ LearnExpired(c)
           \/ Lose(c) \/ Reload(c)
  <2>1. UNCHANGED <<local, cursor>> /\ req'[c] = NoRequest
    BY <1>0, <1>9 DEF ServerFault, ApplyClashes, ApplyDangles, Fail, LearnExpired,
                      Lose, Reload, EndRound, TypeOK, fileVars
  <2>2. phase'[c] \in {"idle", "resetting"}
    BY <1>0, <1>9 DEF ServerFault, ApplyClashes, ApplyDangles, Fail, LearnExpired,
                      Lose, Reload, EndRound, TypeOK
  <2>. QED
    BY <1>3, <2>1, <2>2
<1>10. CASE Reset(c)
  <2>1. /\ local'[c] = [r \in Row |-> IF canon[r] = Nil THEN Nil
                                      ELSE [v |-> canon[r].v, dirty |-> FALSE]]
        /\ cursor'[c] = counter /\ canon' = canon
        /\ phase'[c] = "idle" /\ req' = req
    BY <1>0, <1>10 DEF Reset, TypeOK, serverVars
  <2>2. Passive(c)'
    BY <2>1 DEF ReaderOK, Passive
  <2>3. ASSUME NEW r \in Row
        PROVE  /\ canon[r] # Nil => local'[c][r] # Nil /\ local'[c][r].v = canon[r].v
               /\ canon[r] = Nil => local'[c][r] = Nil
    <3>1. CASE canon[r] = Nil
      BY <2>1, <3>1
    <3>2. CASE canon[r] # Nil
      <4>1. canon[r].v \in Version
        BY <3>2 DEF TypeOK, Opt, CanonRow
      <4>2. [v |-> canon[r].v, dirty |-> FALSE] \in [v : Version, dirty : BOOLEAN]
        BY <4>1
      <4>3. local'[c][r] = [v |-> canon[r].v, dirty |-> FALSE]
        BY <2>1, <3>2
      <4>4. local'[c][r] # Nil
        BY <4>2, <4>3, CellAssumption
      <4>. QED
        BY <3>2, <4>3, <4>4
    <3>. QED
      BY <3>1, <3>2
  <2>4. Tracks(local[c], cursor[c])'
    BY <2>1, <2>3 DEF Tracks
  <2>. QED
    BY <2>1, <2>2, <2>4 DEF ReaderOK, Informed
<1>. QED
  BY <1>4, <1>5, <1>6, <1>7, <1>8, <1>9, <1>10 DEF StepOf, EngineStep, AnswerStep

LEMMA ReadersStep ==
    ASSUME RootsRest, TypeOK, TypeOK', CursorInv, CanonWhole, RootsInv, ReadersInv, [Next]_vars
    PROVE  ReadersInv'
<1>1. StoreMoves
  BY MovesStep
<1>2. ASSUME NEW d \in Readers, Own(d)' = Own(d)
      PROVE  ReaderOK(d)'
  <2>1. d \in Client /\ ReaderOK(d)
    BY ReadersAreNot DEF ReadersInv
  <2>2. UNCHANGED <<local[d], cursor[d], role[d], phase[d], req[d], resp[d]>>
    BY <1>2 DEF Own
  <2>3. cursor'[d] # Nil => Tracks(local[d], cursor[d])'
    BY <1>1, <2>1, <2>2, CopyTracks DEF ReaderOK
  <2>4. Informed(d)' => Tracks(Coming(d), resp[d].cursor)'
    BY <1>1, <2>1, <2>2, ComingTracks DEF ReaderOK, Informed
  <2>5. Passive(d)'
    BY <2>1, <2>2 DEF ReaderOK, Passive
  <2>. QED
    BY <2>3, <2>4, <2>5 DEF ReaderOK
<1>3. CASE UNCHANGED vars \/ Prune
  BY <1>2, <1>3, NobodyMoves, ReadersAreNot DEF ReadersInv
<1>4. ASSUME NEW c \in Client, StepOf(c)
      PROVE  ReadersInv'
  <2>1. ASSUME NEW d \in Readers
        PROVE  ReaderOK(d)'
    <3>1. CASE d = c
      BY <1>1, <1>4, <3>1, ReaderOwn DEF ReadersInv
    <3>2. CASE d # c
      BY <1>2, <1>4, <3>2, OthersStay, ReadersAreNot
    <3>. QED
      BY <3>1, <3>2
  <2>. QED
    BY <2>1 DEF ReadersInv
<1>. QED
  BY <1>3, <1>4 DEF Next, StepOf

-------------------------------------------------------------------------------
(* The refinement.                                                          *)

LEMMA ContentsType ==
    /\ \A rows \in [Row -> Opt(LocalRow)] : Contents(rows) \in [Row -> Opt(Version)]
    /\ \A rows \in [Row -> Opt(CanonRow)] : Contents(rows) \in [Row -> Opt(Version)]
BY DEF Contents, Opt, LocalRow, CanonRow

\* While no reader fetches, installs or starts over, only the store may move.
LEMMA QuietFeed ==
    ASSUME TypeOK',
           \A d \in Readers : InHand(d)' = InHand(d) /\ local'[d] = local[d]
    PROVE  [Feed!Next]_(Feed!feedVars)
<1>1. Contents(canon)' \in [Row -> Opt(Version)]
  BY ContentsType DEF TypeOK
<1>2. [c \in Readers |-> InHand(c)]' = [c \in Readers |-> InHand(c)]
  OBVIOUS
<1>3. [c \in Readers |-> Contents(local[c])]' = [c \in Readers |-> Contents(local[c])]
  OBVIOUS
<1>. QED
  BY <1>1, <1>2, <1>3 DEF Feed!Next, Feed!Publish

LEMMA FeedInit == Init => Feed!Init
<1> SUFFICES ASSUME Init PROVE Feed!Init
  OBVIOUS
<1>0. TypeOK
  BY TypeInit
<1>1. Contents(canon) \in [Row -> Opt(Version)]
  BY <1>0, ContentsType DEF TypeOK
<1>2. \A c \in Readers : c \in Client
  BY ReadersAreNot
<1>3. \A c \in Readers : InHand(c) = Nil
  BY <1>2 DEF Init, InHand
<1>4. \A c \in Readers : Contents(local[c]) \in [Row -> Opt(Version)]
  BY <1>0, <1>2, ContentsType DEF TypeOK
<1>. QED
  BY <1>1, <1>3, <1>4 DEF Feed!Init

\* A reader's step is a step of the feed.
LEMMA FeedOwn ==
    ASSUME RootsRest, TypeOK, TypeOK', CursorInv, CanonWhole, RootsInv, ReadersInv,
           [Next]_vars, NEW c \in Readers, StepOf(c)
    PROVE  [Feed!Next]_(Feed!feedVars)
<1> DEFINE fetched == [d \in Readers |-> InHand(d)]
           view == [d \in Readers |-> Contents(local[d])]
<1>0. c \in Client /\ c \notin Authors /\ ReaderOK(c)
  BY ReadersAreNot DEF ReadersInv
<1>1. role[c] = FALSE /\ grant[c] = FALSE /\ phase[c] # "reading"
  BY <1>0 DEF RootsInv, RootsOK, TypeOK
<1>2. \A d \in Readers \ {c} : InHand(d)' = InHand(d) /\ local'[d] = local[d]
  <2>1. ASSUME NEW d \in Readers \ {c}
        PROVE  Own(d)' = Own(d)
    BY <1>0, OthersStay, ReadersAreNot
  <2>. QED
    BY <2>1 DEF Own, InHand
<1>3. ~UserStep(c) /\ ~BeginPush(c) /\ ~ReadPage(c) /\ ~SendPush(c) /\ ~SetRole(c) /\ ~Revoke(c)
  BY <1>1 DEF UserStep, Insert, Edit, Drop, MayWrite, BeginPush, ReadPage, SendPush,
              SetRole, Revoke
<1>4. CASE SendPull(c)
  <2>1. phase[c] = "idle" /\ phase'[c] = "sent" /\ local' = local
    BY <1>0, <1>4 DEF SendPull, TypeOK, fileVars
  <2>2. InHand(c)' = InHand(c)
    BY <2>1 DEF InHand
  <2>. QED
    BY <1>2, <2>1, <2>2, QuietFeed
<1>5. CASE ServerStep(c)
  <2>1. PICK a : Reply(c, a)
    BY <1>5 DEF ServerStep, ServeBail, ServeExpired, Serve, ServeFails
  <2>2. /\ UNCHANGED <<local, req, role>>
        /\ phase[c] = "sent" /\ phase'[c] = "answered"
    <3>1. phase[c] = "sent"
      BY <1>5 DEF ServerStep, ServeBail, ServeExpired, Serve, ServeFails
    <3>. QED
      BY <1>0, <2>1, <3>1 DEF Reply, TypeOK, fileVars, engineVars
  <2>3. CASE resp'[c].kind = "ok"
    <3>1. /\ canon' = canon
          /\ Contents(Applied(local[c], req[c], resp'[c], FALSE)) = Contents(canon)
      BY <1>0, <1>5, <2>3, AnswerCompletes
    <3>2. InHand(c)' = Contents(canon)
      BY <1>1, <2>2, <2>3, <3>1 DEF InHand
    <3>3. fetched' = [fetched EXCEPT ![c] = Contents(canon)]
      BY <1>2, <3>2
    <3>4. view' = view
      BY <2>2
    <3>5. Feed!Fetch(c)
      BY <3>1, <3>3, <3>4 DEF Feed!Fetch
    <3>. QED
      BY <3>5 DEF Feed!Next
  <2>4. CASE resp'[c].kind # "ok"
    <3>1. InHand(c)' = InHand(c)
      BY <2>2, <2>4 DEF InHand
    <3>. QED
      BY <1>2, <2>2, <3>1, QuietFeed
  <2>. QED
    BY <2>3, <2>4
<1>6. CASE Apply(c)
  <2>1. /\ local'[c] = Applied(local[c], req[c], resp[c], role[c])
        /\ phase[c] = "answered" /\ resp[c].kind = "ok" /\ phase'[c] = "idle"
        /\ canon' = canon
    BY <1>0, <1>6 DEF Apply, EndRound, TypeOK, serverVars
  <2>2. InHand(c) = Contents(local'[c]) /\ InHand(c)' = Nil
    BY <2>1 DEF InHand
  <2>3. InHand(c) # Nil
    <3>1. local'[c] \in [Row -> Opt(LocalRow)]
      BY <1>0 DEF TypeOK
    <3>. QED
      BY <2>2, <3>1, ContentsType, CellAssumption DEF Opt
  <2>4. fetched[c] # Nil
    BY <2>3
  <2>5. fetched' = [fetched EXCEPT ![c] = Nil]
    BY <1>2, <2>2
  <2>6. view' = [view EXCEPT ![c] = fetched[c]]
    BY <1>2, <2>2
  <2>7. Feed!Install(c)
    BY <2>1, <2>4, <2>5, <2>6 DEF Feed!Install
  <2>. QED
    BY <2>7 DEF Feed!Next
<1>7. CASE ServerFault(c) \/ ApplyClashes(c) \/ ApplyDangles(c) \/ LearnExpired(c)
           \/ Lose(c) \/ Reload(c)
  <2>1. local' = local /\ canon' = canon
    BY <1>7 DEF ServerFault, ApplyClashes, ApplyDangles, Fail, LearnExpired, Lose, Reload,
                fileVars, serverVars
  <2>2. phase'[c] # "answered"
    BY <1>0, <1>7 DEF ServerFault, ApplyClashes, ApplyDangles, Fail, LearnExpired,
                      Lose, Reload, EndRound, TypeOK
  <2>3. InHand(c)' = Nil
    BY <2>2 DEF InHand
  <2>4. fetched' = [fetched EXCEPT ![c] = Nil]
    BY <1>2, <2>3
  <2>5. Feed!Abandon(c)
    BY <2>1, <2>4 DEF Feed!Abandon
  <2>. QED
    BY <2>5 DEF Feed!Next
<1>8. CASE Reset(c)
  <2>1. /\ local'[c] = [r \in Row |-> IF canon[r] = Nil THEN Nil
                                      ELSE [v |-> canon[r].v, dirty |-> FALSE]]
        /\ canon' = canon /\ phase'[c] = "idle"
    BY <1>0, <1>8 DEF Reset, TypeOK, serverVars
  <2>2. Contents(local'[c]) = Contents(canon)
    <3>1. ASSUME NEW r \in Row
          PROVE  /\ canon[r] = Nil => local'[c][r] = Nil
                 /\ canon[r] # Nil => local'[c][r] # Nil /\ local'[c][r].v = canon[r].v
      <4>1. CASE canon[r] = Nil
        BY <2>1, <4>1
      <4>2. CASE canon[r] # Nil
        <5>1. canon[r].v \in Version
          BY <4>2 DEF TypeOK, Opt, CanonRow
        <5>2. [v |-> canon[r].v, dirty |-> FALSE] \in [v : Version, dirty : BOOLEAN]
          BY <5>1
        <5>3. local'[c][r] = [v |-> canon[r].v, dirty |-> FALSE]
          BY <2>1, <4>2
        <5>4. local'[c][r] # Nil
          BY <5>2, <5>3, CellAssumption
        <5>. QED
          BY <4>2, <5>3, <5>4
      <4>. QED
        BY <4>1, <4>2
    <3>. QED
      BY <3>1 DEF Contents
  <2>3. InHand(c)' = Nil
    BY <2>1 DEF InHand
  <2>4. fetched' = [fetched EXCEPT ![c] = Nil]
    BY <1>2, <2>3
  <2>5. view' = [view EXCEPT ![c] = Contents(canon)]
    BY <1>2, <2>2
  <2>6. Feed!Refresh(c)
    BY <2>1, <2>4, <2>5 DEF Feed!Refresh
  <2>. QED
    BY <2>6 DEF Feed!Next
<1>. QED
  BY <1>3, <1>4, <1>5, <1>6, <1>7, <1>8 DEF StepOf, EngineStep, AnswerStep

LEMMA FeedStep ==
    ASSUME RootsRest, TypeOK, TypeOK', CursorInv, CanonWhole, RootsInv, ReadersInv, [Next]_vars
    PROVE  [Feed!Next]_(Feed!feedVars)
<1>1. ASSUME \A d \in Readers : Own(d)' = Own(d)
      PROVE  [Feed!Next]_(Feed!feedVars)
  <2>1. \A d \in Readers : InHand(d)' = InHand(d) /\ local'[d] = local[d]
    BY <1>1 DEF Own, InHand
  <2>. QED
    BY <2>1, QuietFeed
<1>2. CASE UNCHANGED vars \/ Prune
  BY <1>1, <1>2, NobodyMoves, ReadersAreNot
<1>3. ASSUME NEW c \in Client, StepOf(c)
      PROVE  [Feed!Next]_(Feed!feedVars)
  <2>1. CASE c \in Readers
    BY <1>3, <2>1, FeedOwn
  <2>2. CASE c \notin Readers
    BY <1>1, <1>3, <2>2, OthersStay, ReadersAreNot
  <2>. QED
    BY <2>1, <2>2
<1>. QED
  BY <1>2, <1>3 DEF Next, StepOf

\* What a reader's copy lacks is numbered after its cursor, and so is what it has too much.
THEOREM ReadersAreTold == RootsRest => (Spec => [](CanonWhole /\ RootsInv /\ ReadersInv))
<1> SUFFICES ASSUME RootsRest PROVE Spec => [](CanonWhole /\ RootsInv /\ ReadersInv)
  OBVIOUS
<1> DEFINE Inv == CanonWhole /\ RootsInv /\ ReadersInv
<1>1. Init => Inv
  BY RootsInit, ReadersInit
<1>2. TypeOK /\ TypeOK' /\ CursorInv /\ Inv /\ [Next]_vars => Inv'
  BY MovesStep, RootsStep, ReadersStep
<1> HIDE DEF Inv
<1>3. Spec => []Inv
  BY <1>1, <1>2, TypeCorrect, CursorsBelowCounter, PTL DEF Spec
<1>. QED
  BY <1>3 DEF Inv

\* A reader whose cursor is the server's counter has exactly the server's rows.
ReadersAgree ==
    \A c \in Readers : cursor[c] = counter => Contents(local[c]) = Contents(canon)

LEMMA LevelReader ==
    ASSUME RootsRest, TypeOK, CursorInv, NEW c \in Readers, ReaderOK(c), cursor[c] = counter
    PROVE  Contents(local[c]) = Contents(canon)
<1>1. counter \in Nat /\ pruned \in Nat /\ graves \in [Row -> Nat] /\ counter # Nil
  BY NilAssumption DEF TypeOK
<1>2. Tracks(local[c], counter)
  BY <1>1 DEF ReaderOK
<1>3. ASSUME NEW r \in Row, canon[r] = Nil PROVE local[c][r] = Nil
  <2>1. \A p \in Lineage[r] : p \in Row
    BY ShallowLineage, SchemaAssumption
  <2>2. ~Missed(r, counter)
    BY <1>1, <2>1 DEF Missed, CursorInv
  <2>. QED
    BY <1>2, <1>3, <2>2 DEF Tracks
<1>4. ASSUME NEW r \in Row, canon[r] # Nil
      PROVE  local[c][r] # Nil /\ local[c][r].v = canon[r].v
  BY <1>2, <1>4 DEF Tracks, CursorInv
<1>. QED
  BY <1>3, <1>4 DEF Contents

\* What CaughtUpAgrees says of every device holds of those that only read.
THEOREM LevelReadersAgree == RootsRest => (Spec => []ReadersAgree)
<1> SUFFICES ASSUME RootsRest PROVE Spec => []ReadersAgree
  OBVIOUS
<1>1. TypeOK /\ CursorInv /\ ReadersInv => ReadersAgree
  BY LevelReader DEF ReadersInv, ReadersAgree
<1>2. Spec => [](CanonWhole /\ RootsInv /\ ReadersInv)
  BY ReadersAreTold
<1>. QED
  BY <1>1, <1>2, TypeCorrect, CursorsBelowCounter, PTL

\* Incremental pulls install whole states of the dictionary: to a device that
\* only reads, the sync is indistinguishable from fetching all of it.
THEOREM ReadersSeeWholeStates == RootsRest => (Spec => ReadersInstallWholeStates)
<1> SUFFICES ASSUME RootsRest PROVE Spec => ReadersInstallWholeStates
  OBVIOUS
<1> DEFINE Inv == CanonWhole /\ RootsInv /\ ReadersInv
<1>1. Spec => []Inv
  BY ReadersAreTold, PTL DEF Inv
<1>2. TypeOK /\ TypeOK' /\ CursorInv /\ Inv /\ [Next]_vars => [Feed!Next]_(Feed!feedVars)
  BY FeedStep
<1>. HIDE DEF Inv
<1>. QED
  BY <1>1, <1>2, FeedInit, TypeCorrect, CursorsBelowCounter, PTL
  DEF Spec, ReadersInstallWholeStates, Feed!Spec

-------------------------------------------------------------------------------
(* Devices that write.                                                      *)

\* No two rows share a natural key, and parents are not created while dirty rows are read.
Apart ==
    /\ Undisturbed /\ RootsRest
    /\ \A r, o \in Row : KeyOf[r] = KeyOf[o] /\ KeyOf[r] # Nil => r = o
    /\ <<"reading", "insert">> \notin Racing \/ \A c \in Client : Mints[c] \cap Roots = {}

\* No row is written by two devices.
Alone == \A c, d \in Client : c # d => Pen(c) \cap Pen(d) = {}

\* A copy that differs from the store differs by changes numbered after n, by unpushed
\* work, or by the deletion of rows in away.  (Where two devices write a row, the one whose
\* push loses keeps its content.)
Follows(rows, n, away) ==
    \A r \in Row :
        /\ canon[r] # Nil /\ canon[r].seq <= n =>
              \/ Lineage[r] \cap away # {}
              \/ rows[r] # Nil /\ (Alone => rows[r].v = canon[r].v \/ rows[r].dirty)
        /\ rows[r] # Nil /\ canon[r] = Nil => rows[r].dirty \/ Missed(r, n)

\* The deletions of an answer that are carried out.
Condemned(rows, q, a) ==
    {r \in a.dels : rows[r] = Nil \/ ~rows[r].dirty \/ q.rows[r] # Nil}

\* A deletion that was missed stays missed.
LEMMA MissedStep ==
    ASSUME RootsRest, TypeOK, StoreMoves, NEW n \in Nat, n <= counter,
           NEW r \in Row, canon'[r] = Nil, canon[r] = Nil => Missed(r, n)
    PROVE  Missed(r, n)'
<1>1. /\ canon \in [Row -> Opt(CanonRow)] /\ graves \in [Row -> Nat]
      /\ counter \in Nat /\ pruned \in Nat
  BY DEF TypeOK
<1>2. pruned' \in Nat /\ pruned <= pruned' /\ \A x \in Row : graves'[x] \in Nat
  BY <1>1 DEF StoreMoves, Numbers
<1>3. n < pruned' \/ \E p \in Lineage[r] : canon'[p] = Nil /\ graves'[p] > n
  <2>1. CASE canon[r] # Nil
    BY <1>1, <2>1 DEF StoreMoves
  <2>2. CASE canon[r] = Nil /\ n < pruned
    BY <1>1, <1>2, <2>2
  <2>3. CASE canon[r] = Nil /\ ~(n < pruned)
    <3>1. PICK p \in Lineage[r] : canon[p] = Nil /\ graves[p] > n
      BY <2>3 DEF Missed
    <3>2. p \in Row /\ (p = r \/ p \in Roots)
      BY ShallowLineage, SchemaAssumption DEF Roots
    <3>3. graves[p] > 0
      BY <1>1, <3>1, <3>2
    <3>4. canon'[p] = Nil
      BY <3>1, <3>2, <3>3 DEF StoreMoves
    <3>5. CASE graves'[p] > n
      BY <3>4, <3>5
    <3>6. CASE ~(graves'[p] > n)
      BY <1>1, <1>2, <3>1, <3>2, <3>6 DEF StoreMoves
    <3>. QED
      BY <3>5, <3>6
  <2>. QED
    BY <2>1, <2>2, <2>3
<1>. QED
  BY <1>3 DEF Missed

\* A copy that nobody touches goes on following the store.
LEMMA FollowsStep ==
    ASSUME RootsRest, TypeOK, StoreMoves, NEW rows, NEW away, NEW n \in Nat, n <= counter,
           Follows(rows, n, away)
    PROVE  Follows(rows, n, away)'
<1>1. ASSUME NEW r \in Row, canon'[r] # Nil, canon'[r].seq <= n
      PROVE  \/ Lineage[r] \cap away # {}
             \/ rows[r] # Nil /\ (Alone => rows[r].v = canon'[r].v \/ rows[r].dirty)
  <2>1. canon'[r] = canon[r]
    BY <1>1 DEF StoreMoves, Numbers, TypeOK
  <2>. QED
    BY <1>1, <2>1 DEF Follows
<1>2. ASSUME NEW r \in Row, rows[r] # Nil, canon'[r] = Nil
      PROVE  rows[r].dirty \/ Missed(r, n)'
  BY <1>2, MissedStep DEF Follows
<1>. QED
  BY <1>1, <1>2 DEF Follows

\* An incremental answer that leaves unpushed rows alone.
Sparing(rows, q, a, editor) ==
    /\ q.cursor # Nil /\ Held(q.probes) = {} /\ (editor \/ Held(q.rows) = {})
    /\ \A r \in Row : rows[r] # Nil /\ rows[r].dirty /\ r \notin Held(q.rows) =>
                        a.rows[r] = Nil

\* A row is replaced, deleted with what it hangs from, or kept without its flag if it
\* was pushed.
RowApplied(rows, q, a, editor, r) ==
    LET y == Applied(rows, q, a, editor)[r]
        gone == Lineage[r] \cap Condemned(rows, q, a) # {}
    IN  /\ a.rows[r] # Nil => y # Nil /\ y.v = a.rows[r] /\ ~y.dirty
        /\ a.rows[r] = Nil /\ gone => y = Nil
        /\ a.rows[r] = Nil /\ ~gone =>
              y = IF rows[r] # Nil /\ r \in Held(q.rows)
                  THEN [v |-> rows[r].v, dirty |-> FALSE] ELSE rows[r]

\* Then the three stages of Applied come down to one rule per row.
LEMMA AppliedIs ==
    ASSUME NEW rows \in [Row -> Opt(LocalRow)], NEW q \in Request, NEW a \in Answer,
           NEW editor \in BOOLEAN, Sparing(rows, q, a, editor), NEW r \in Row
    PROVE  RowApplied(rows, q, a, editor, r)
<1> DEFINE cut == AfterDeletes(rows, q, a)
           put == AfterUpserts(rows, q, a)
           fin == AfterPrune(rows, q, a)
           y == Applied(rows, q, a, editor)[r]
           gone == Lineage[r] \cap Condemned(rows, q, a) # {}
<1>1. cut[r] = IF gone THEN Nil ELSE rows[r]
  BY DEF AfterDeletes, Cull, Condemned
<1>2. put[r] = IF a.rows[r] = Nil THEN cut[r]
               ELSE [v |-> a.rows[r], dirty |-> cut[r] # Nil /\ cut[r].dirty]
  BY DEF AfterUpserts
<1>3. fin[r] = put[r]
  BY DEF AfterPrune, Sparing
<1>4. Cleared(q, a, editor) = Held(q.rows)
  BY DEF Cleared, Sparing
<1>5. y = IF fin[r] # Nil /\ r \in Held(q.rows) THEN [v |-> fin[r].v, dirty |-> FALSE] ELSE fin[r]
  BY <1>4 DEF Applied
<1>6. \A v \in Version : \A b \in BOOLEAN : [v |-> v, dirty |-> b] # Nil
  <2>1. \A v \in Version : \A b \in BOOLEAN :
            [v |-> v, dirty |-> b] \in [v : Version, dirty : BOOLEAN]
    OBVIOUS
  <2>. QED
    BY <2>1, CellAssumption
<1>7. a.rows[r] # Nil => a.rows[r] \in Version
  BY DEF Answer, Opt
<1> HIDE DEF cut, put, fin, y, gone
<1>8. ASSUME a.rows[r] # Nil
      PROVE  y # Nil /\ y.v = a.rows[r] /\ ~y.dirty
  <2>1. CASE r \in Held(q.rows)
    <3>1. PICK b : put[r] = [v |-> a.rows[r], dirty |-> b] /\ b \in BOOLEAN
      BY <1>2, <1>8
    <3>2. fin[r] # Nil /\ fin[r].v = a.rows[r]
      BY <1>3, <1>6, <1>7, <1>8, <3>1
    <3>3. y = [v |-> a.rows[r], dirty |-> FALSE]
      BY <1>5, <2>1, <3>2
    <3>. QED
      BY <1>6, <1>7, <1>8, <3>3
  <2>2. CASE r \notin Held(q.rows)
    <3>1. ~(cut[r] # Nil /\ cut[r].dirty)
      BY <1>1, <1>8, <2>2 DEF Sparing
    <3>2. (cut[r] # Nil /\ cut[r].dirty) = FALSE
      BY <3>1
    <3>3. y = [v |-> a.rows[r], dirty |-> FALSE]
      BY <1>2, <1>3, <1>5, <1>8, <2>2, <3>2
    <3>. QED
      BY <1>6, <1>7, <1>8, <3>3
  <2>. QED
    BY <2>1, <2>2
<1>9. ASSUME a.rows[r] = Nil, gone
      PROVE  y = Nil
  BY <1>1, <1>2, <1>3, <1>5, <1>9
<1>10. ASSUME a.rows[r] = Nil, ~gone
       PROVE  y = IF rows[r] # Nil /\ r \in Held(q.rows)
                  THEN [v |-> rows[r].v, dirty |-> FALSE] ELSE rows[r]
  <2>1. fin[r] = rows[r]
    BY <1>1, <1>2, <1>3, <1>10
  <2>. QED
    BY <1>5, <2>1
<1>. QED
  BY <1>8, <1>9, <1>10 DEF y, gone, RowApplied

\* No two rows have the same natural key.
NoTwins == \A r, o \in Row : KeyOf[r] = KeyOf[o] /\ KeyOf[r] # Nil => r = o

\* Without twins a row is merged onto its own id only.
LEMMA Twinless ==
    ASSUME NoTwins, NEW rows, NEW r \in Row
    PROVE  KeyOwners(rows, r) = {} /\ Target(rows, r) = r
<1>1. KeyOwners(rows, r) = {}
  BY DEF NoTwins, KeyOwners, Held
<1>. QED
  BY <1>1 DEF Target

\* Then a batch replaces the rows it carries, as long as they are late enough.
LEMMA MergeIs ==
    ASSUME NoTwins, NEW base, NEW q \in Request, NEW pushed \in SUBSET Held(q.rows),
           NEW seq, NEW x \in Row
    PROVE  Merge(base, q, pushed, seq)[x] =
             IF x \in pushed /\ (base[x] = Nil \/ base[x].v.at <= q.rows[x].at)
             THEN [v |-> q.rows[x], seq |-> seq] ELSE base[x]
<1> DEFINE W == Writers(base, q, pushed, x)
<1>1. pushed \subseteq Row
  BY DEF Held
<1>2. \A r \in pushed : Target(base, r) = r
  BY <1>1, Twinless
<1>3. W = IF x \in pushed /\ Wins(base, x, q.rows[x]) THEN {x} ELSE {}
  BY <1>2 DEF Writers
<1>4. x \in pushed => (Wins(base, x, q.rows[x]) <=> base[x] = Nil \/ base[x].v.at <= q.rows[x].at)
  BY <1>2 DEF Wins
<1>5. Merge(base, q, pushed, seq)[x] =
        IF W = {} THEN base[x] ELSE [v |-> q.rows[CHOOSE r \in W : TRUE], seq |-> seq]
  BY DEF Merge
<1> HIDE DEF W
<1>6. W = {x} => (CHOOSE r \in W : TRUE) = x
  OBVIOUS
<1>. QED
  BY <1>3, <1>4, <1>5, <1>6

\* The request is not older than the store's rows.
Timely(q) == \A r \in Held(q.rows) : canon[r] # Nil => canon[r].v.at <= q.rows[r].at

\* What a push does to the store, and which of its rows the endpoint refuses.
LEMMA PushIs ==
    ASSUME NoTwins, NEW q \in Request, NEW seq \in Nat, canon \in [Row -> Opt(CanonRow)]
    PROVE  /\ \A S : S \subseteq Row => Losers(Cull(canon, q.tombs), S) = {}
           /\ Echoed(canon, q, seq) = {}
           /\ Accepted(canon, q, seq) \subseteq Held(q.rows)
           /\ \A x \in Row :
                 LET old == Cull(canon, q.tombs)[x]
                     new == Pushed(canon, q, seq)[x]
                 IN  /\ \/ new = old
                        \/ /\ x \in Accepted(canon, q, seq)
                           /\ new = [v |-> q.rows[x], seq |-> seq]
                     /\ x \in Accepted(canon, q, seq) => new # Nil
                     /\ Timely(q) /\ x \in Accepted(canon, q, seq) =>
                           new = [v |-> q.rows[x], seq |-> seq]
           /\ Orphans(canon, q, seq) =
                {r \in Held(q.rows) : \E p \in Parents[r] :
                     p \notin Held(q.rows) /\ Cull(canon, q.tombs)[p] = Nil}
<1> DEFINE base == Cull(canon, q.tombs)
           acc == Accepted(canon, q, seq)
           all == Merge(base, q, Held(q.rows), seq)
<1>1. acc \subseteq Held(q.rows) /\ Held(q.rows) \subseteq Row
  BY DEF Accepted, Held
<1>2. \A S : S \subseteq Row => Losers(base, S) = {}
  BY Twinless DEF Losers
<1>3. Echoed(canon, q, seq) = {}
  BY <1>1, <1>2 DEF Echoed
<1>4. \A x \in Row : base[x] = canon[x] \/ base[x] = Nil
  BY DEF Cull
<1>5. Pushed(canon, q, seq) = Merge(base, q, acc, seq)
  BY DEF Pushed
<1>6. ASSUME NEW x \in Row
      PROVE  /\ all[x] = IF x \in Held(q.rows) /\ (base[x] = Nil \/ base[x].v.at <= q.rows[x].at)
                         THEN [v |-> q.rows[x], seq |-> seq] ELSE base[x]
             /\ Pushed(canon, q, seq)[x] =
                  IF x \in acc /\ (base[x] = Nil \/ base[x].v.at <= q.rows[x].at)
                  THEN [v |-> q.rows[x], seq |-> seq] ELSE base[x]
  <2> HIDE DEF base, acc
  <2>. QED
    BY <1>1, <1>5, MergeIs
<1>7. ASSUME Timely(q), NEW x \in Held(q.rows)
      PROVE  base[x] = Nil \/ base[x].v.at <= q.rows[x].at
  BY <1>1, <1>4, <1>7 DEF Timely
<1>15. ASSUME NEW x \in Held(q.rows)
       PROVE  [v |-> q.rows[x], seq |-> seq] # Nil
  <2>1. q.rows[x] # Nil /\ x \in Row
    BY <1>1, <1>15 DEF Held
  <2>2. q.rows[x] \in Version
    BY <2>1 DEF Request, Opt
  <2>3. [v |-> q.rows[x], seq |-> seq] \in [v : Version, seq : Nat]
    BY <2>2
  <2>. QED
    BY <2>3, CellAssumption
<1> HIDE DEF base, acc, all
<1>8. ASSUME NEW x \in Row
      PROVE  /\ \/ Pushed(canon, q, seq)[x] = base[x]
                \/ x \in acc /\ Pushed(canon, q, seq)[x] = [v |-> q.rows[x], seq |-> seq]
             /\ x \in acc => Pushed(canon, q, seq)[x] # Nil
             /\ Timely(q) /\ x \in acc =>
                   Pushed(canon, q, seq)[x] = [v |-> q.rows[x], seq |-> seq]
  <2>1. Timely(q) /\ x \in acc => base[x] = Nil \/ base[x].v.at <= q.rows[x].at
    BY <1>1, <1>7
  <2>2. x \in acc => [v |-> q.rows[x], seq |-> seq] # Nil
    BY <1>1, <1>15
  <2>. QED
    BY <1>6, <2>1, <2>2
<1>9. Orphans(canon, q, seq) =
        {r \in Held(q.rows) : \E p \in Parents[r] : p \notin Held(q.rows) /\ base[p] = Nil}
  <2>3. \A p \in Row : all[p] = Nil <=> p \notin Held(q.rows) /\ base[p] = Nil
    BY <1>6, <1>15
  <2>4. Orphans(canon, q, seq) = {r \in Held(all) : \E p \in Parents[r] : all[p] = Nil} \cap Held(q.rows)
    BY DEF Orphans, Dangling, all, base
  <2>5. Held(q.rows) \subseteq Held(all)
    BY <1>1, <2>3 DEF Held
  <2>. QED
    BY <1>1, <2>3, <2>4, <2>5, SchemaAssumption
<1>10. base = Cull(canon, q.tombs) /\ acc = Accepted(canon, q, seq)
  BY DEF base, acc
<1>11. \A S : S \subseteq Row => Losers(Cull(canon, q.tombs), S) = {}
  BY <1>2, <1>10
<1>12. ASSUME NEW x \in Row
       PROVE  LET old == Cull(canon, q.tombs)[x]
                  new == Pushed(canon, q, seq)[x]
              IN  /\ \/ new = old
                     \/ /\ x \in Accepted(canon, q, seq)
                        /\ new = [v |-> q.rows[x], seq |-> seq]
                  /\ x \in Accepted(canon, q, seq) => new # Nil
                  /\ Timely(q) /\ x \in Accepted(canon, q, seq) =>
                        new = [v |-> q.rows[x], seq |-> seq]
  BY <1>8, <1>10
<1>13. Orphans(canon, q, seq) =
         {r \in Held(q.rows) : \E p \in Parents[r] :
              p \notin Held(q.rows) /\ Cull(canon, q.tombs)[p] = Nil}
  BY <1>9, <1>10
<1>14. Accepted(canon, q, seq) \subseteq Held(q.rows)
  BY <1>1, <1>10
<1>. QED
  BY <1>3, <1>11, <1>12, <1>13, <1>14

\* Local files respect their foreign keys.
FilesWhole == \A c \in Client : Dangling(local[c]) = {}

\* Deleting with what hangs from it leaves no row without its parents.
LEMMA CullWhole ==
    ASSUME NEW rows, NEW dead, Dangling(rows) = {}
    PROVE  Dangling(Cull(rows, dead)) = {}
<1> DEFINE left == Cull(rows, dead)
<1>1. SUFFICES ASSUME NEW r \in Row, left[r] # Nil, NEW p \in Parents[r]
               PROVE  left[p] # Nil
  BY DEF Dangling, Held
<1>2. p \in Row
  BY SchemaAssumption
<1>3. Lineage[p] \subseteq Lineage[r]
  BY LineageIs
<1>4. Lineage[r] \cap dead = {} /\ rows[r] # Nil
  BY <1>1 DEF Cull
<1>5. rows[p] # Nil
  BY <1>4 DEF Dangling, Held
<1>. QED
  BY <1>2, <1>3, <1>4, <1>5 DEF Cull

LEMMA FilesInit == Init => FilesWhole
<1> SUFFICES ASSUME Init, NEW c \in Client, NEW r \in Row, local[c][r] # Nil,
                    NEW p \in Parents[r]
             PROVE  local[c][p] # Nil
  BY DEF FilesWhole, Dangling, Held
<1> DEFINE clean == [v |-> SeedVersion, dirty |-> FALSE]
           file(S) == [x \in Row |-> IF x \in S THEN clean ELSE Nil]
           kept(F, W) == [x \in Row |->
               IF x \notin Seed THEN Nil
               ELSE [v |-> IF x \in F \cap W THEN [at |-> 1, by |-> c] ELSE SeedVersion,
                     dirty |-> x \in F]]
<1>1. local[c] \in InitialFiles(c)
  BY DEF Init
<1>2. p \in Row /\ \A x \in Seed : Parents[x] \subseteq Seed
  BY SchemaAssumption, EnvironmentAssumption
<1>3. \A v \in Version : \A b \in BOOLEAN : [v |-> v, dirty |-> b] # Nil
  <2>1. \A v \in Version : \A b \in BOOLEAN :
            [v |-> v, dirty |-> b] \in [v : Version, dirty : BOOLEAN]
    OBVIOUS
  <2>. QED
    BY <2>1, CellAssumption
<1>4. SeedVersion \in Version /\ [at |-> 1, by |-> c] \in Version
  BY DEF SeedVersion, Version
<1>5. CASE Boot[c] = "snapshot"
  <2>1. local[c] = file(Seed)
    <3>1. InitialFiles(c) = {file(Seed)}
      BY <1>5 DEF InitialFiles
    <3>. HIDE DEF file
    <3>. QED
      BY <1>1, <3>1
  <2>2. r \in Seed /\ p \in Seed
    BY <1>2, <2>1
  <2>. QED
    BY <1>2, <1>3, <1>4, <2>1, <2>2
<1>6. CASE Boot[c] = "legacy"
  <2>1. InitialFiles(c) = {file(S) : S \in {T \in SUBSET (Seed \cup Ghost) : Closed(T)}}
    BY <1>6 DEF InitialFiles
  <2>. HIDE DEF file
  <2>2. PICK S \in SUBSET (Seed \cup Ghost) : Closed(S) /\ local[c] = file(S)
    BY <1>1, <2>1
  <2>. USE DEF file
  <2>3. r \in S /\ p \in S
    BY <2>2 DEF Closed
  <2>. QED
    BY <1>2, <1>3, <1>4, <2>2, <2>3
<1>7. CASE Boot[c] = "lapsed"
  <2>1. InitialFiles(c) = {kept(F, W) : F \in SUBSET Seed, W \in SUBSET Seed}
    BY <1>7 DEF InitialFiles
  <2>. HIDE DEF kept
  <2>2. PICK F \in SUBSET Seed, W \in SUBSET Seed : local[c] = kept(F, W)
    BY <1>1, <2>1
  <2>. USE DEF kept
  <2>3. r \in Seed /\ p \in Seed
    BY <1>2, <2>2
  <2>4. (p \in F) \in BOOLEAN
    OBVIOUS
  <2>. QED
    BY <1>2, <1>3, <1>4, <2>2, <2>3, <2>4
<1>. QED
  BY <1>5, <1>6, <1>7, EnvironmentAssumption

\* Only what was written, culled or applied without a dangling key gets into a file.
LEMMA FilesOwn ==
    ASSUME TypeOK, CanonWhole, NEW c \in Client, Dangling(local[c]) = {}, StepOf(c)
    PROVE  Dangling(local'[c]) = {}
<1>1. CASE UserStep(c)
  <2>1. PICK r \in Row : Insert(c, r) \/ Edit(c, r) \/ Drop(c, r)
    BY <1>1 DEF UserStep
  <2>2. CASE Drop(c, r)
    <3>1. local'[c] = Cull(local[c], {r})
      BY <2>2 DEF Drop, TypeOK
    <3>. QED
      BY <3>1, CullWhole
  <2>3. CASE Insert(c, r) \/ Edit(c, r)
    <3>1. Parents[r] \subseteq Held(local[c])
      <4>1. CASE Insert(c, r)
        BY <4>1 DEF Insert
      <4>2. CASE Edit(c, r)
        <5>1. r \in Held(local[c]) /\ Parents[r] \subseteq Row
          BY <4>2, SchemaAssumption DEF Edit
        <5>. QED
          BY <5>1 DEF Dangling, Held
      <4>. QED
        BY <2>3, <4>1, <4>2
    <3>2. [v |-> [at |-> clock[c] + 1, by |-> c], dirty |-> TRUE] # Nil
      <4>1. [v |-> [at |-> clock[c] + 1, by |-> c], dirty |-> TRUE]
              \in [v : Version, dirty : BOOLEAN]
        BY DEF TypeOK, Version
      <4>. QED
        BY <4>1, CellAssumption
    <3>3. /\ local'[c][r] # Nil
          /\ \A x \in Row \ {r} : local'[c][x] = local[c][x]
      BY <2>3, <3>2 DEF Insert, Edit, Stamp, TypeOK
    <3>4. \A x \in Row : Parents[x] \subseteq Row
      BY SchemaAssumption
    <3>. QED
      BY <3>1, <3>3, <3>4 DEF Dangling, Held
  <2>. QED
    BY <2>1, <2>2, <2>3
<1>2. CASE Apply(c)
  <2>1. /\ local'[c] = Applied(local[c], req[c], resp[c], role[c])
        /\ Dangling(Applied(local[c], req[c], resp[c], role[c])) = {}
    BY <1>2 DEF Apply, FkClash, TypeOK
  <2>. QED
    BY <2>1
<1>3. CASE Reset(c)
  <2>1. local'[c] = [r \in Row |-> IF canon[r] = Nil THEN Nil
                                   ELSE [v |-> canon[r].v, dirty |-> FALSE]]
    BY <1>3 DEF Reset, TypeOK
  <2>2. ASSUME NEW r \in Row, canon[r] # Nil
        PROVE  [v |-> canon[r].v, dirty |-> FALSE] # Nil
    <3>1. [v |-> canon[r].v, dirty |-> FALSE] \in [v : Version, dirty : BOOLEAN]
      BY <2>2 DEF TypeOK, Opt, CanonRow
    <3>. QED
      BY <3>1, CellAssumption
  <2>3. \A x \in Row : Parents[x] \subseteq Row
    BY SchemaAssumption
  <2>. QED
    BY <2>1, <2>2, <2>3 DEF CanonWhole, Dangling, Held
<1>4. CASE \/ BeginPush(c) \/ ReadPage(c) \/ SendPush(c) \/ SendPull(c)
           \/ ServerFault(c) \/ ApplyClashes(c) \/ ApplyDangles(c) \/ LearnExpired(c)
           \/ ServerStep(c) \/ Lose(c) \/ Reload(c) \/ SetRole(c) \/ Revoke(c)
  <2>1. local' = local
    BY <1>4 DEF BeginPush, ReadPage, SendPush, SendPull, ServerFault, ApplyClashes,
        ApplyDangles, Fail, LearnExpired, ServerStep, ServeBail, ServeExpired, Serve,
        ServeFails, Reply, Lose, Reload, SetRole, Revoke, fileVars
  <2>. QED
    BY <2>1
<1>. QED
  BY <1>1, <1>2, <1>3, <1>4 DEF StepOf, EngineStep, AnswerStep

\* Whatever moves, every file respects its foreign keys.
LEMMA FilesStep ==
    ASSUME TypeOK, CanonWhole, FilesWhole, [Next]_vars
    PROVE  FilesWhole'
<1>1. ASSUME NEW d \in Client, Own(d)' = Own(d)
      PROVE  Dangling(local'[d]) = {}
  BY <1>1 DEF FilesWhole, Own
<1>2. CASE UNCHANGED vars \/ Prune
  BY <1>1, <1>2, NobodyMoves DEF FilesWhole
<1>3. ASSUME NEW c \in Client, StepOf(c)
      PROVE  FilesWhole'
  <2>1. Dangling(local'[c]) = {}
    BY <1>3, FilesOwn DEF FilesWhole
  <2>2. \A d \in Client \ {c} : Dangling(local'[d]) = {}
    BY <1>1, <1>3, OthersStay
  <2>. QED
    BY <2>1, <2>2 DEF FilesWhole
<1>. QED
  BY <1>2, <1>3 DEF Next, StepOf

\* An author's round trip starts from the stored cursor, and the rows it carries are
\* on the device or withdrawn since.
RoundOK(c) ==
    /\ grant[c]
    /\ phase[c] # "idle" => req[c].cursor = cursor[c]
    /\ req[c].tombs \subseteq queue[c]
    /\ ~role[c] => queue[c] = {} /\ req[c].rows = NoRows
    /\ phase[c] = "reading" => req[c].tombs = {}
    /\ phase[c] # "reading" =>
          \A r \in Held(req[c].rows) : r \in Held(local[c]) \/ Withdrawn(c, r)

\* The empty request and the empty answer.
LEMMA Blanks == /\ Held(NoRows) = {} /\ NoRequest.rows = NoRows /\ NoRequest.tombs = {}
                 /\ NoRequest.probes = NoRows /\ NoAnswer.kind = "error"
                 /\ \A r \in Row : NoRows[r] = Nil
BY DEF Held, NoRows, NoRequest, NoAnswer

\* A user's write touches one row, and a deletion what hangs from it.
LEMMA WriteIs ==
    ASSUME TypeOK, NEW c \in Client, NEW r \in Row, Insert(c, r) \/ Edit(c, r)
    PROVE  /\ local'[c][r] = [v |-> [at |-> clock[c] + 1, by |-> c], dirty |-> TRUE]
           /\ local'[c][r] # Nil
           /\ \A x \in Row \ {r} : local'[c][x] = local[c][x]
           /\ clock'[c] = clock[c] + 1
           /\ role[c] /\ r \in Pen(c)
           /\ UNCHANGED <<serverVars, queue, cursor, shelf, engineVars, roundVars, grant>>
<1>1. [v |-> [at |-> clock[c] + 1, by |-> c], dirty |-> TRUE] # Nil
  <2>1. [v |-> [at |-> clock[c] + 1, by |-> c], dirty |-> TRUE] \in [v : Version, dirty : BOOLEAN]
    BY DEF TypeOK, Version
  <2>. QED
    BY <2>1, CellAssumption
<1>2. Stamp(c, r) /\ role[c] /\ r \in Pen(c)
  BY DEF Insert, Edit, MayWrite, Pen
<1>3. UNCHANGED <<serverVars, queue, cursor, shelf, engineVars, roundVars, grant>>
  BY DEF Insert, Edit
<1>. QED
  BY <1>1, <1>2, <1>3 DEF Stamp, TypeOK

\* A deletion removes the row and what hangs from it, and queues one tombstone.
LEMMA DropIs ==
    ASSUME TypeOK, NEW c \in Client, NEW r \in Row, Drop(c, r)
    PROVE  /\ local'[c] = Cull(local[c], {r})
           /\ \A x \in Row : local'[c][x] = IF r \in Lineage[x] THEN Nil ELSE local[c][x]
           /\ queue'[c] = queue[c] \cup {r} /\ r \notin queue[c]
           /\ r \in Drops[c] /\ role[c]
           /\ UNCHANGED <<serverVars, cursor, shelf, engineVars, roundVars, worldVars>>
<1>1. local'[c] = Cull(local[c], {r})
  BY DEF Drop, TypeOK
<1>2. \A x \in Row : local'[c][x] = IF r \in Lineage[x] THEN Nil ELSE local[c][x]
  BY <1>1 DEF Cull
<1>. QED
  BY <1>1, <1>2 DEF Drop, MayWrite, TypeOK

\* Every step of an author keeps its round trip tied to its file.
LEMMA RoundOwn ==
    ASSUME Undisturbed, TypeOK, WorkInv, NEW c \in Client, RoundOK(c), StepOf(c)
    PROVE  RoundOK(c)'
<1>1. RequestOK(c) /\ WriterOK(c) /\ phase[c] # "resetting" /\ resp[c].kind # "expired"
  BY DEF WorkInv, NeverExpires
<1>2. CASE UserStep(c)
  <2>1. PICK r \in Row : Insert(c, r) \/ Edit(c, r) \/ Drop(c, r)
    BY <1>2 DEF UserStep
  <2>2. CASE Insert(c, r) \/ Edit(c, r)
    <3>1. /\ Held(local[c]) \subseteq Held(local'[c]) /\ role[c]
          /\ UNCHANGED <<queue, cursor, role, phase, req, grant>>
      BY <2>2, WriteIs DEF Held, engineVars, roundVars
    <3>2. Held(req[c].rows)' = Held(req[c].rows)
      BY <3>1
    <3>. QED
      BY <3>1, <3>2 DEF RoundOK, Withdrawn
  <2>3. CASE Drop(c, r)
    <3>1. /\ queue'[c] = queue[c] \cup {r} /\ r \notin queue[c] /\ role[c]
          /\ UNCHANGED <<cursor, role, phase, req, grant>>
          /\ \A x \in Row : local'[c][x] = IF r \in Lineage[x] THEN Nil ELSE local[c][x]
      BY <2>3, DropIs DEF engineVars, roundVars, worldVars
    <3>2. phase[c] # "reading"
      BY <2>3 DEF Drop, MayWrite, Undisturbed, QuietReads
    <3>3. ASSUME NEW x \in Held(req[c].rows)
          PROVE  x \in Held(local'[c]) \/ Lineage[x] \cap (queue'[c] \ req[c].tombs) # {}
      <4>1. x \in Row
        BY DEF Held
      <4>2. x \in Held(local[c]) \/ Lineage[x] \cap (queue[c] \ req[c].tombs) # {}
        BY <3>2 DEF RoundOK, Withdrawn
      <4>3. r \notin req[c].tombs
        BY <3>1 DEF RoundOK
      <4>. QED
        BY <3>1, <4>1, <4>2, <4>3 DEF Held
    <3>4. Held(req[c].rows)' = Held(req[c].rows)
      BY <3>1
    <3>. QED
      BY <3>1, <3>2, <3>3, <3>4 DEF RoundOK, Withdrawn
  <2>. QED
    BY <2>1, <2>2, <2>3
<1>3. CASE BeginPush(c) \/ ReadPage(c)
  <2>1. /\ phase'[c] = "reading" /\ role[c] /\ req'[c].tombs = {}
        /\ req'[c].cursor = cursor[c]
    <3>1. CASE BeginPush(c)
      BY <3>1 DEF BeginPush, TypeOK, NoRequest
    <3>2. CASE ReadPage(c)
      BY <1>1, <3>2 DEF ReadPage, TypeOK, Request, RoundOK, WriterOK
    <3>. QED
      BY <1>3, <3>1, <3>2
  <2>2. UNCHANGED <<queue, cursor, role, grant>>
    BY <1>3 DEF BeginPush, ReadPage, fileVars, engineVars, worldVars
  <2>. QED
    BY <2>1, <2>2 DEF RoundOK
<1>4. CASE SendPush(c)
  <2>1. /\ phase'[c] = "sent" /\ phase[c] = "reading" /\ req'[c].tombs = queue[c]
        /\ req'[c].cursor = req[c].cursor /\ req'[c].rows = req[c].rows
        /\ UNCHANGED <<local, queue, cursor, role, grant>>
    BY <1>4 DEF SendPush, TypeOK, Request, fileVars, engineVars, worldVars
  <2>2. role[c] /\ Held(req[c].rows) \subseteq Held(local[c])
    BY <1>1, <2>1 DEF WriterOK, RequestOK
  <2>. QED
    BY <2>1, <2>2 DEF RoundOK
<1>5. CASE SendPull(c)
  <2>1. /\ phase'[c] = "sent" /\ req'[c].tombs = {} /\ req'[c].rows = NoRows
        /\ req'[c].cursor = cursor[c] /\ ~role[c]
        /\ UNCHANGED <<queue, cursor, role, grant>>
    BY <1>5 DEF SendPull, TypeOK, NoRequest, fileVars, worldVars
  <2>. QED
    BY <2>1, Blanks DEF RoundOK
<1>6. CASE Apply(c)
  <2>1. /\ phase'[c] = "idle" /\ req'[c] = NoRequest
        /\ queue'[c] \subseteq queue[c]
        /\ UNCHANGED <<role, grant>>
    BY <1>6 DEF Apply, EndRound, TypeOK, worldVars
  <2>. QED
    BY <2>1, Blanks DEF RoundOK
<1>7. CASE ServerFault(c) \/ ApplyClashes(c) \/ ApplyDangles(c) \/ Lose(c) \/ Reload(c)
  <2>1. /\ phase'[c] = "idle" /\ req'[c] = NoRequest
        /\ UNCHANGED <<queue, grant>> /\ role'[c] \in {role[c], grant[c]}
    BY <1>7 DEF ServerFault, ApplyClashes, ApplyDangles, Fail, Lose, Reload, EndRound, TypeOK,
                fileVars, worldVars
  <2>. QED
    BY <2>1, Blanks DEF RoundOK
<1>8. CASE ServerStep(c)
  <2>1. PICK a : Reply(c, a)
    BY <1>8 DEF ServerStep, ServeBail, ServeExpired, Serve, ServeFails
  <2>2. /\ UNCHANGED <<local, cursor, queue, req, role, grant>>
        /\ phase[c] = "sent" /\ phase'[c] = "answered"
    <3>1. phase[c] = "sent"
      BY <1>8 DEF ServerStep, ServeBail, ServeExpired, Serve, ServeFails
    <3>. QED
      BY <2>1, <3>1 DEF Reply, TypeOK, fileVars, engineVars, worldVars
  <2>. QED
    BY <2>2 DEF RoundOK, Withdrawn
<1>9. CASE SetRole(c)
  <2>1. UNCHANGED <<local, cursor, queue, req, phase, grant>> /\ role'[c]
    BY <1>9 DEF SetRole, TypeOK, fileVars, roundVars, worldVars
  <2>. QED
    BY <2>1 DEF RoundOK, Withdrawn
<1>10. ~LearnExpired(c) /\ ~Reset(c) /\ ~Revoke(c)
  BY <1>1 DEF LearnExpired, Reset, Revoke, Undisturbed
<1>. QED
  BY <1>2, <1>3, <1>4, <1>5, <1>6, <1>7, <1>8, <1>9, <1>10 DEF StepOf, EngineStep, AnswerStep

LEMMA RoundInit == ASSUME Init, NEW c \in Authors PROVE RoundOK(c)
<1>1. c \in Client
  BY EnvironmentAssumption DEF Authors
<1>. QED
  BY <1>1, Blanks DEF Init, RoundOK, Authors

\* What an author applies spares its unpushed work.
LEMMA Spares ==
    ASSUME TypeOK, WorkInv, NEW c \in Client, RoundOK(c), Informed(c)
    PROVE  /\ Sparing(local[c], req[c], resp[c], role[c])
           /\ local[c] \in [Row -> Opt(LocalRow)] /\ req[c] \in Request /\ resp[c] \in Answer
           /\ role[c] \in BOOLEAN
<1>1. /\ local[c] \in [Row -> Opt(LocalRow)] /\ req[c] \in Request /\ resp[c] \in Answer
      /\ role[c] \in BOOLEAN
  BY DEF TypeOK
<1>2. WriterOK(c) /\ RequestOK(c) /\ phase[c] = "answered"
  BY DEF WorkInv, Informed
<1>3. /\ req[c].cursor # Nil /\ Held(req[c].probes) = {}
      /\ role[c] \/ Held(req[c].rows) = {}
  BY <1>2, Blanks DEF WriterOK, RequestOK, RoundOK
<1>4. ASSUME NEW x \in Row, local[c][x] # Nil, local[c][x].dirty, x \notin Held(req[c].rows)
      PROVE  resp[c].rows[x] = Nil
  <2>1. x \in DirtyIn(c, Row) \ Held(req[c].rows)
    BY <1>4 DEF DirtyIn, Held
  <2>. QED
    BY <1>2, <2>1 DEF RequestOK, Fresh
<1>5. \A x \in Row : local[c][x] # Nil /\ local[c][x].dirty /\ x \notin Held(req[c].rows) =>
                        resp[c].rows[x] = Nil
  BY <1>4
<1>. QED
  BY <1>1, <1>3, <1>5 DEF Sparing

\* What the answer in flight makes of an author's copy.
LEMMA ComingIs ==
    ASSUME TypeOK, WorkInv, NEW c \in Client, RoundOK(c), Informed(c), NEW r \in Row
    PROVE  RowApplied(local[c], req[c], resp[c], role[c], r)
BY Spares, AppliedIs

\* Stamps of an author's rows never run ahead of its clock, and what it has not
\* pushed yet is at least as late as what the store holds.
StampOK(c) ==
    /\ DirtyIn(c, Row) \subseteq Pen(c) /\ Held(req[c].rows) \subseteq Pen(c)
    /\ \A r \in Pen(c) : canon[r] # Nil => canon[r].v.at <= clock[c]
    /\ \A r \in Held(req[c].rows) : req[c].rows[r].at <= clock[c]
    /\ \A r \in DirtyIn(c, Row) :
          /\ local[c][r].v.at <= clock[c]
          /\ canon[r] # Nil => canon[r].v.at <= local[c][r].v.at
    /\ Timely(req[c])

\* The step leaves the rows a device writes, deletes them, or writes what the device pushes.
PenMoves(c) ==
    \A r \in Pen(c) :
        \/ canon'[r] \in {canon[r], Nil}
        \/ r \in Held(req[c].rows) /\ canon'[r] # Nil /\ canon'[r].v = req[c].rows[r]

\* The store takes a row's content from a request only.
LEMMA ServeWrites ==
    ASSUME NoTwins, TypeOK, NEW c \in Client, Serve(c), NEW r \in Row
    PROVE  \/ canon'[r] \in {canon[r], Nil}
           \/ /\ grant[c] /\ r \in Held(req[c].rows)
              /\ canon'[r] # Nil /\ canon'[r].v = req[c].rows[r]
<1> DEFINE q == Granted(req[c], grant[c])
           seq == counter + 1
<1>1. q \in Request /\ seq \in Nat /\ canon \in [Row -> Opt(CanonRow)]
  BY GrantedType DEF TypeOK
<1>2. canon' = Pushed(canon, q, seq)
  BY DEF Serve
<1>3. \A x \in Held(q.rows) : grant[c] /\ x \in Held(req[c].rows) /\ q.rows[x] = req[c].rows[x]
  BY Blanks DEF Granted, TypeOK, Request
<1>4. Cull(canon, q.tombs)[r] \in {canon[r], Nil}
  BY DEF Cull
<1> HIDE DEF q, seq
<1>5. /\ Accepted(canon, q, seq) \subseteq Held(q.rows)
      /\ \/ Pushed(canon, q, seq)[r] = Cull(canon, q.tombs)[r]
         \/ /\ r \in Accepted(canon, q, seq)
            /\ Pushed(canon, q, seq)[r] = [v |-> q.rows[r], seq |-> seq]
  BY <1>1, PushIs
<1>6. CASE r \in Held(q.rows) /\ canon'[r] = [v |-> q.rows[r], seq |-> seq]
  <2>1. q.rows[r] \in Version
    BY <1>1, <1>6 DEF Held, Request, Opt
  <2>2. [v |-> q.rows[r], seq |-> seq] \in [v : Version, seq : Nat]
    BY <1>1, <2>1
  <2>. QED
    BY <1>3, <1>6, <2>2, CellAssumption
<1>. QED
  BY <1>2, <1>4, <1>5, <1>6

\* Flags that stay where they were, and a request made of them, keep their stamps.
LEMMA StampKeep ==
    ASSUME NEW c \in Client, StampOK(c), canon' = canon, clock'[c] = clock[c],
           \A r \in Row : local'[c][r] # Nil /\ local'[c][r].dirty => local'[c][r] = local[c][r],
           \A r \in Held(req'[c].rows) :
              \/ r \in Held(req[c].rows) /\ req'[c].rows[r] = req[c].rows[r]
              \/ r \in DirtyIn(c, Row) /\ req'[c].rows[r] = local[c][r].v
    PROVE  StampOK(c)'
<1>1. DirtyIn(c, Row)' \subseteq DirtyIn(c, Row) /\ \A r \in DirtyIn(c, Row)' : local'[c][r] = local[c][r]
  BY DEF DirtyIn, Held
<1>2. Held(req[c].rows)' = Held(req'[c].rows)
  BY DEF Held
<1>3. ASSUME NEW r \in Held(req'[c].rows)
      PROVE  /\ r \in Pen(c) /\ req'[c].rows[r].at <= clock[c]
             /\ canon[r] # Nil => canon[r].v.at <= req'[c].rows[r].at
  BY DEF StampOK, Timely
<1>4. Pen(c)' = Pen(c)
  BY DEF Pen
<1>. QED
  BY <1>1, <1>2, <1>3, <1>4 DEF StampOK, Timely

\* The store catches up with a device at most.
LEMMA StampStore ==
    ASSUME TypeOK, NEW c \in Client, StampOK(c), RequestOK(c), PenMoves(c),
           local'[c] = local[c], req'[c] = req[c], clock'[c] = clock[c]
    PROVE  StampOK(c)'
<1>1. /\ DirtyIn(c, Row)' = DirtyIn(c, Row) /\ Held(req[c].rows)' = Held(req[c].rows)
      /\ Pen(c)' = Pen(c)
  BY DEF DirtyIn, Held, Pen
<1>0. \A r \in Held(req[c].rows) : req[c].rows[r].at \in Nat
  <2>1. req[c].rows \in [Row -> Opt(Version)]
    BY DEF TypeOK, Request
  <2>. QED
    BY <2>1 DEF Held, Opt, Version
<1>2. ASSUME NEW r \in Pen(c), canon'[r] # Nil
      PROVE  canon'[r].v.at <= clock[c]
  BY <1>2 DEF PenMoves, StampOK
<1>3. ASSUME NEW r \in DirtyIn(c, Row), canon'[r] # Nil
      PROVE  canon'[r].v.at <= local[c][r].v.at
  <2>1. r \in Pen(c) /\ r \in Held(local[c])
    BY DEF StampOK, DirtyIn
  <2>2. CASE canon'[r] = canon[r]
    BY <1>3, <2>2 DEF StampOK
  <2>3. CASE r \in Held(req[c].rows) /\ canon'[r].v = req[c].rows[r]
    <3>1. local[c][r] = [v |-> req[c].rows[r], dirty |-> TRUE]
      BY <2>1, <2>3 DEF RequestOK
    <3>. QED
      BY <1>0, <2>1, <2>3, <3>1
  <2>. QED
    BY <1>3, <2>1, <2>2, <2>3 DEF PenMoves
<1>4. ASSUME NEW r \in Held(req[c].rows), canon'[r] # Nil
      PROVE  canon'[r].v.at <= req[c].rows[r].at
  <2>1. r \in Pen(c)
    BY DEF StampOK
  <2>. QED
    BY <1>0, <1>4, <2>1 DEF StampOK, PenMoves, Timely
<1>. QED
  BY <1>1, <1>2, <1>3, <1>4 DEF StampOK, Timely

\* Whatever moves, a device's rows are written by its own pushes only.
LEMMA PenStep ==
    ASSUME NoTwins, Alone, TypeOK, RootsInv, \A d \in Authors : StampOK(d), NEW c \in Client, [Next]_vars
    PROVE  PenMoves(c)
<1>1. ASSUME NEW d \in Client, Serve(d)
      PROVE  PenMoves(c)
  <2>1. SUFFICES ASSUME NEW r \in Pen(c)
                 PROVE  \/ canon'[r] \in {canon[r], Nil}
                        \/ r \in Held(req[c].rows) /\ canon'[r] # Nil /\ canon'[r].v = req[c].rows[r]
    BY DEF PenMoves
  <2>2. r \in Row
    BY EnvironmentAssumption DEF Pen
  <2>3. \/ canon'[r] \in {canon[r], Nil}
        \/ /\ grant[d] /\ r \in Held(req[d].rows)
           /\ canon'[r] # Nil /\ canon'[r].v = req[d].rows[r]
    BY <1>1, <2>2, ServeWrites
  <2>4. grant[d] /\ r \in Held(req[d].rows) => r \in Pen(d)
    BY DEF RootsInv, RootsOK, StampOK
  <2>. QED
    BY <2>3, <2>4 DEF Alone
<1>2. CASE ~Prune /\ \A d \in Client : ~Serve(d)
  BY <1>2, QuietStep DEF PenMoves, serverVars
<1>3. CASE Prune
  BY <1>3 DEF Prune, PenMoves
<1>. QED
  BY <1>1, <1>2, <1>3

\* An author's own steps keep its stamps in order.
LEMMA StampOwn ==
    ASSUME Undisturbed, TypeOK, WorkInv, NEW c \in Client, RoundOK(c), StampOK(c),
           StepOf(c), ~ServerStep(c)
    PROVE  StampOK(c)'
<1>1. RequestOK(c) /\ WriterOK(c) /\ phase[c] # "resetting" /\ resp[c].kind # "expired"
  BY DEF WorkInv, NeverExpires
<1>2. CASE UserStep(c)
  <2>1. PICK r \in Row : Insert(c, r) \/ Edit(c, r) \/ Drop(c, r)
    BY <1>2 DEF UserStep
  <2>2. CASE Drop(c, r)
    <3>1. /\ \A x \in Row : local'[c][x] \in {local[c][x], Nil}
          /\ UNCHANGED <<canon, req, clock>>
      BY <2>2, DropIs DEF serverVars, roundVars, worldVars
    <3>. QED
      BY <3>1, StampKeep
  <2>3. CASE Insert(c, r) \/ Edit(c, r)
    <3>1. /\ local'[c][r] = [v |-> [at |-> clock[c] + 1, by |-> c], dirty |-> TRUE]
          /\ \A x \in Row \ {r} : local'[c][x] = local[c][x]
          /\ clock'[c] = clock[c] + 1 /\ r \in Pen(c)
          /\ UNCHANGED <<canon, req>>
      BY <2>3, WriteIs DEF serverVars, roundVars
    <3>2. DirtyIn(c, Row)' \subseteq DirtyIn(c, Row) \cup {r}
      BY <3>1 DEF DirtyIn, Held
    <3>3. Held(req[c].rows)' = Held(req[c].rows) /\ Pen(c)' = Pen(c) /\ Timely(req[c])' = Timely(req[c])
      BY <3>1 DEF Held, Pen, Timely
    <3>4. /\ clock[c] \in Nat /\ \A x \in Row : canon[x] # Nil => canon[x].v.at \in Nat
          /\ \A x \in Held(req[c].rows) : req[c].rows[x].at \in Nat
          /\ \A x \in DirtyIn(c, Row) : local[c][x].v.at \in Nat
      <4>1. canon \in [Row -> Opt(CanonRow)] /\ req[c].rows \in [Row -> Opt(Version)]
            /\ local[c] \in [Row -> Opt(LocalRow)] /\ clock \in [Client -> Nat]
        BY DEF TypeOK, Request
      <4>. QED
        BY <4>1 DEF Held, Opt, CanonRow, Version, LocalRow, DirtyIn
    <3>5. Pen(c) \subseteq Row /\ DirtyIn(c, Row) \subseteq Row
      BY EnvironmentAssumption DEF Pen, DirtyIn
    <3>6. \A x \in Pen(c) : canon'[x] # Nil => canon'[x].v.at <= clock'[c]
      BY <3>1, <3>4, <3>5 DEF StampOK
    <3>7. \A x \in Held(req[c].rows) : req'[c].rows[x].at <= clock'[c]
      BY <3>1, <3>4 DEF StampOK
    <3>8. ASSUME NEW x \in DirtyIn(c, Row)'
          PROVE  /\ x \in Pen(c) /\ local'[c][x].v.at <= clock'[c]
                 /\ canon'[x] # Nil => canon'[x].v.at <= local'[c][x].v.at
      <4>1. CASE x = r
        BY <3>1, <3>4, <3>6, <4>1
      <4>2. CASE x # r
        <5>1. x \in DirtyIn(c, Row) /\ x \in Row /\ local'[c][x] = local[c][x]
          BY <3>1, <3>2, <3>5, <4>2
        <5>. QED
          BY <3>1, <3>4, <5>1 DEF StampOK
      <4>. QED
        BY <4>1, <4>2
    <3>. QED
      BY <3>3, <3>6, <3>7, <3>8 DEF StampOK
  <2>. QED
    BY <2>1, <2>2, <2>3
<1>3. CASE BeginPush(c) \/ ReadPage(c)
  <2>1. PICK rows, S : /\ req'[c].rows = Read(c, rows, S)
                       /\ rows \in {NoRows, req[c].rows} /\ S \subseteq Row
    <3>1. CASE BeginPush(c)
      <4>1. req'[c].rows = Read(c, NoRows, OnPage(1)) /\ OnPage(1) \subseteq Row
        BY <3>1 DEF BeginPush, TypeOK, NoRequest, OnPage
      <4>. QED
        BY <4>1
    <3>2. CASE ReadPage(c)
      <4>1. req'[c].rows = Read(c, req[c].rows, OnPage(page[c])) /\ OnPage(page[c]) \subseteq Row
        BY <3>2 DEF ReadPage, TypeOK, Request, OnPage
      <4>. QED
        BY <4>1
    <3>. QED
      BY <1>3, <3>1, <3>2
  <2>2. UNCHANGED <<canon, local, clock>>
    BY <1>3 DEF BeginPush, ReadPage, serverVars, fileVars, worldVars
  <2>3. ASSUME NEW r \in Held(req'[c].rows)
        PROVE  \/ r \in Held(req[c].rows) /\ req'[c].rows[r] = req[c].rows[r]
               \/ r \in DirtyIn(c, Row) /\ req'[c].rows[r] = local[c][r].v
    <3>1. r \in Row /\ req'[c].rows[r] # Nil /\ DirtyIn(c, S) \subseteq DirtyIn(c, Row)
      BY <2>1 DEF Held, DirtyIn
    <3>2. CASE r \in DirtyIn(c, S)
      <4>1. local[c][r] = [v |-> Read(c, rows, S)[r], dirty |-> TRUE]
        BY <3>2, ReadHolds
      <4>. QED
        BY <2>1, <3>1, <3>2, <4>1
    <3>3. CASE r \notin DirtyIn(c, S)
      <4>1. Read(c, rows, S)[r] = rows[r]
        BY <3>1, <3>3, ReadHolds
      <4>2. rows = req[c].rows
        BY <2>1, <3>1, <4>1, Blanks
      <4>. QED
        BY <2>1, <3>1, <4>1, <4>2 DEF Held
    <3>. QED
      BY <3>2, <3>3
  <2>. QED
    BY <2>2, <2>3, StampKeep
<1>4. CASE SendPush(c) \/ SetRole(c)
  <2>1. req'[c].rows = req[c].rows /\ UNCHANGED <<canon, local, clock>>
    BY <1>4 DEF SendPush, SetRole, TypeOK, Request, serverVars, fileVars, worldVars, roundVars
  <2>. QED
    BY <2>1, StampKeep
<1>5. CASE SendPull(c) \/ ServerFault(c) \/ ApplyClashes(c) \/ ApplyDangles(c) \/ Lose(c) \/ Reload(c)
  <2>1. req'[c].rows = NoRows /\ UNCHANGED <<canon, local, clock>>
    <3>1. CASE SendPull(c)
      BY <3>1 DEF SendPull, NoRequest, TypeOK, serverVars, fileVars, worldVars
    <3>2. CASE ServerFault(c) \/ ApplyClashes(c) \/ ApplyDangles(c) \/ Lose(c) \/ Reload(c)
      <4>1. req'[c] = NoRequest /\ UNCHANGED <<canon, local, clock>>
        BY <3>2 DEF ServerFault, ApplyClashes, ApplyDangles, Fail, EndRound, Lose, Reload, TypeOK,
            serverVars, fileVars, worldVars
      <4>. QED
        BY <4>1, Blanks
    <3>. QED
      BY <1>5, <3>1, <3>2
  <2>. QED
    BY <2>1, Blanks, StampKeep
<1>6. CASE Apply(c)
  <2>1. /\ req'[c].rows = NoRows /\ UNCHANGED <<canon, clock>>
        /\ local'[c] = Applied(local[c], req[c], resp[c], role[c])
        /\ Informed(c)
    BY <1>6, Blanks DEF Apply, EndRound, TypeOK, serverVars, worldVars, Informed
  <2>2. ASSUME NEW r \in Row, local'[c][r] # Nil, local'[c][r].dirty
        PROVE  local'[c][r] = local[c][r]
    <3>1. RowApplied(local[c], req[c], resp[c], role[c], r)
      BY <2>1, ComingIs
    <3>. QED
      BY <2>1, <2>2, <3>1 DEF RowApplied
  <2>. QED
    BY <2>1, <2>2, Blanks, StampKeep
<1>7. ~LearnExpired(c) /\ ~Reset(c) /\ ~Revoke(c)
  BY <1>1 DEF LearnExpired, Reset, Revoke, Undisturbed
<1>. QED
  BY <1>2, <1>3, <1>4, <1>5, <1>6, <1>7 DEF StepOf, EngineStep, AnswerStep

LEMMA StampInit == ASSUME Undisturbed, Init, NEW c \in Authors PROVE StampOK(c)
<1>1. c \in Client /\ Boot[c] = "snapshot"
  BY EnvironmentAssumption DEF Authors, Undisturbed
<1>2. DirtyIn(c, Row) = {} /\ Held(req[c].rows) = {}
  <2>1. \A r \in Row : local[c][r] # Nil => ~local[c][r].dirty
    BY <1>1, CleanFiles DEF Init
  <2>. QED
    BY <1>1, <2>1, Blanks DEF Init, DirtyIn, Held
<1>3. ASSUME NEW r \in Pen(c), canon[r] # Nil
      PROVE  canon[r].v.at <= clock[c]
  <2>1. r \in Row
    BY <1>1, EnvironmentAssumption DEF Pen
  <2>. QED
    BY <1>1, <1>3, <2>1 DEF Init, SeedVersion
<1>. QED
  BY <1>2, <1>3 DEF StampOK, Timely

\* Parents somebody writes are at the server before what hangs from them, or travel along.
Arrives(p, rows) == canon[p] # Nil \/ p \in Held(rows)

ParentsOK(c) ==
    /\ phase[c] \in {"reading", "sent"} =>
          \A r \in Held(req[c].rows) : \A p \in Parents[r] \cap Written : Arrives(p, req[c].rows)
    /\ phase[c] = "reading" =>
          \A p \in DirtyIn(c, Roots) : Table[p] < page[c] => Arrives(p, req[c].rows)

\* Roots that are written stay, and never had a tombstone.
LEMMA RootsLast ==
    ASSUME RootsRest, TypeOK, StoreMoves, NEW p \in Roots \cap Written, canon[p] # Nil
    PROVE  canon'[p] # Nil
<1>1. p \in Row /\ Parents[p] = {} /\ counter \in Nat
  BY SchemaAssumption DEF Roots, RootsRest, TypeOK
<1>2. Lineage[p] = {p}
  BY <1>1, ShallowLineage
<1>3. graves'[p] = 0
  BY DEF StoreMoves
<1>. QED
  BY <1>1, <1>2, <1>3 DEF StoreMoves

\* A flagged row that others hang from is one somebody writes.
LEMMA DirtyRoots ==
    ASSUME RootsInv, NEW c \in Authors, NEW p \in DirtyIn(c, Roots)
    PROVE  p \in Roots \cap Written
<1>1. c \in Client
  BY EnvironmentAssumption DEF Authors
<1>. QED
  BY <1>1 DEF RootsInv, RootsOK, DirtyIn, Held

\* A clean row that somebody writes and others hang from is at the server.
LEMMA CleanRoots ==
    ASSUME RootsRest, TypeOK, WorkInv, RootsInv, NEW c \in Client, NEW n \in Nat, NEW rows, NEW away,
           Follows(rows, n, away), NEW p \in Roots \cap Written, rows[p] # Nil, ~rows[p].dirty
    PROVE  canon[p] # Nil
<1>1. p \in Row /\ Parents[p] = {} /\ pruned = 0 /\ graves[p] = 0
  BY SchemaAssumption DEF Roots, RootsRest, WorkInv, NeverExpires, RootsInv
<1>2. Lineage[p] = {p}
  BY <1>1, ShallowLineage
<1>3. ~Missed(p, n)
  BY <1>1, <1>2 DEF Missed
<1>. QED
  BY <1>1, <1>3 DEF Follows

\* Reading one more table keeps parents ahead of what hangs from them.
LEMMA ParentsRead ==
    ASSUME RootsRest, TypeOK, WorkInv, RootsInv, NEW c \in Authors, cursor[c] \in Nat,
           Dangling(local[c]) = {}, Follows(local[c], cursor[c], queue[c]),
           NEW n \in Nat, NEW rows,
           \A r \in Held(rows) : \A p \in Parents[r] \cap Written : Arrives(p, rows),
           \A p \in DirtyIn(c, Roots) : Table[p] < n => Arrives(p, rows),
           NEW new, new = Read(c, rows, OnPage(n))
    PROVE  /\ \A r \in Held(new) : \A p \in Parents[r] \cap Written : Arrives(p, new)
           /\ \A p \in DirtyIn(c, Roots) : Table[p] < n + 1 => Arrives(p, new)
<1>0. c \in Client
  BY EnvironmentAssumption DEF Authors
<1>1. Held(new) = Held(rows) \cup DirtyIn(c, OnPage(n))
  BY <1>0, ReadHolds
<1>2. \A p : Arrives(p, rows) => Arrives(p, new)
  BY <1>1 DEF Arrives
<1>3. ASSUME NEW p \in DirtyIn(c, Roots), Table[p] < n + 1
      PROVE  Arrives(p, new)
  <2>1. p \in Row /\ Table[p] \in Nat /\ p \in Held(local[c]) /\ local[c][p].dirty
    BY SchemaAssumption DEF DirtyIn, Held
  <2>2. CASE Table[p] < n
    BY <1>2, <2>2
  <2>3. CASE ~(Table[p] < n)
    <3>1. Table[p] = n
      BY <1>3, <2>1, <2>3
    <3>2. p \in DirtyIn(c, OnPage(n))
      BY <2>1, <3>1 DEF DirtyIn, OnPage
    <3>. QED
      BY <1>1, <3>2 DEF Arrives
  <2>. QED
    BY <2>2, <2>3
<1>4. ASSUME NEW r \in Held(new), NEW p \in Parents[r] \cap Written
      PROVE  Arrives(p, new)
  <2>1. CASE r \in Held(rows)
    BY <1>2, <2>1
  <2>2. CASE r \in DirtyIn(c, OnPage(n))
    <3>1. r \in Row /\ r \in Held(local[c]) /\ Table[r] = n
      BY <2>2 DEF DirtyIn, Held, OnPage
    <3>2. p \in Row /\ p \in Roots /\ Table[p] \in Nat /\ Table[p] <= n
      BY <3>1, SchemaAssumption DEF Roots
    <3>3. local[c][p] # Nil
      BY <3>1 DEF Dangling
    <3>4. CASE local[c][p].dirty
      <4>1. p \in DirtyIn(c, Roots)
        BY <3>2, <3>3, <3>4 DEF DirtyIn, Held
      <4>. QED
        BY <1>3, <3>2, <4>1
    <3>5. CASE ~local[c][p].dirty
      <4>1. canon[p] # Nil
        BY <1>0, <3>2, <3>3, <3>5, CleanRoots
      <4>. QED
        BY <4>1 DEF Arrives
    <3>. QED
      BY <3>4, <3>5
  <2>. QED
    BY <1>1, <2>1, <2>2
<1>. QED
  BY <1>3, <1>4

\* The server moves.
LEMMA ParentsStore ==
    ASSUME RootsRest, TypeOK, StoreMoves, RootsInv, NEW c \in Authors, ParentsOK(c),
           local'[c] = local[c], req'[c] = req[c], phase'[c] = phase[c], page'[c] = page[c]
    PROVE  ParentsOK(c)'
<1>1. \A p \in Roots \cap Written : Arrives(p, req[c].rows) => Arrives(p, req[c].rows)'
  BY RootsLast DEF Arrives, Held
<1>2. ASSUME phase[c] \in {"reading", "sent"}, NEW r \in Held(req[c].rows),
             NEW p \in Parents[r] \cap Written
      PROVE  Arrives(p, req[c].rows)'
  <2>1. p \in Roots \cap Written
    BY DEF Roots, Held
  <2>. QED
    BY <1>1, <1>2, <2>1 DEF ParentsOK
<1>3. ASSUME phase[c] = "reading", NEW p \in DirtyIn(c, Roots), Table[p] < page[c]
      PROVE  Arrives(p, req[c].rows)'
  <2>1. p \in Roots \cap Written
    BY DirtyRoots
  <2>. QED
    BY <1>1, <1>3, <2>1 DEF ParentsOK
<1>4. Held(req[c].rows)' = Held(req[c].rows) /\ DirtyIn(c, Roots)' = DirtyIn(c, Roots) /\ Written' = Written
  BY DEF Held, DirtyIn, Written, Pen, Roots
<1>. QED
  BY <1>2, <1>3, <1>4 DEF ParentsOK

\* An author's own steps keep parents ahead.
LEMMA ParentsOwn ==
    ASSUME Apart, TypeOK, WorkInv, RootsInv, NEW c \in Authors, RoundOK(c), ParentsOK(c),
           Dangling(local[c]) = {}, Follows(local[c], cursor[c], queue[c]),
           StepOf(c), ~ServerStep(c)
    PROVE  ParentsOK(c)'
<1>0. c \in Client /\ Undisturbed /\ RootsRest
  BY EnvironmentAssumption DEF Authors, Apart
<1>1. RequestOK(c) /\ WriterOK(c) /\ phase[c] # "resetting" /\ resp[c].kind # "expired"
  BY <1>0 DEF WorkInv, NeverExpires
<1>2. CASE UserStep(c)
  <2>1. PICK r \in Row : Insert(c, r) \/ Edit(c, r) \/ Drop(c, r)
    BY <1>2 DEF UserStep
  <2>2. UNCHANGED <<canon, req, phase, page>>
    BY <1>0, <2>1, WriteIs, DropIs DEF serverVars, roundVars
  <2>3. Held(req[c].rows)' = Held(req[c].rows)
    BY <2>2 DEF Held
  <2>4. phase[c] = "reading" => DirtyIn(c, Roots)' = DirtyIn(c, Roots)
    <3>1. CASE Drop(c, r) \/ Edit(c, r)
      BY <1>0, <3>1 DEF Drop, Edit, MayWrite, Undisturbed, QuietReads, Phases
    <3>2. CASE Insert(c, r)
      <4>1. phase[c] = "reading" => r \notin Roots
        BY <1>0, <3>2 DEF Insert, MayWrite, Apart
      <4>2. \A x \in Row \ {r} : local'[c][x] = local[c][x]
        BY <1>0, <3>2, WriteIs
      <4>3. r \notin Roots => DirtyIn(c, Roots)' = DirtyIn(c, Roots)
        BY <4>2 DEF DirtyIn, Held, Roots
      <4>. QED
        BY <4>1, <4>3
    <3>. QED
      BY <2>1, <3>1, <3>2
  <2>. QED
    BY <2>2, <2>3, <2>4 DEF ParentsOK, Arrives
<1>3. CASE BeginPush(c) \/ ReadPage(c)
  <2>1. PICK rows, n :
          /\ n \in Nat /\ req'[c].rows = Read(c, rows, OnPage(n)) /\ page'[c] = n + 1
          /\ \/ rows = NoRows /\ n = 1
             \/ rows = req[c].rows /\ n = page[c] /\ phase[c] = "reading"
    <3>1. CASE BeginPush(c)
      <4>1. req'[c].rows = Read(c, NoRows, OnPage(1)) /\ page'[c] = 1 + 1
        BY <1>0, <3>1 DEF BeginPush, TypeOK, NoRequest
      <4>. QED
        BY <4>1
    <3>2. CASE ReadPage(c)
      <4>1. /\ req'[c].rows = Read(c, req[c].rows, OnPage(page[c])) /\ page'[c] = page[c] + 1
            /\ page[c] \in Nat /\ phase[c] = "reading"
        BY <1>0, <3>2 DEF ReadPage, TypeOK, Request
      <4>. QED
        BY <4>1
    <3>. QED
      BY <1>3, <3>1, <3>2
  <2>2. UNCHANGED <<canon, local, cursor, grant>>
    BY <1>3 DEF BeginPush, ReadPage, serverVars, fileVars, worldVars
  <2>3. cursor[c] \in Nat
    BY <1>0, <1>1 DEF RoundOK, WriterOK, TypeOK, Opt
  <2>4. /\ \A r \in Held(rows) : \A p \in Parents[r] \cap Written : Arrives(p, rows)
        /\ \A p \in DirtyIn(c, Roots) : Table[p] < n => Arrives(p, rows)
    <3>1. CASE rows = NoRows /\ n = 1
      <4>1. \A p \in DirtyIn(c, Roots) : ~(Table[p] < n)
        BY <3>1, SchemaAssumption DEF DirtyIn, Held
      <4>. QED
        BY <3>1, <4>1, Blanks
    <3>2. CASE rows = req[c].rows /\ n = page[c] /\ phase[c] = "reading"
      BY <3>2 DEF ParentsOK
    <3>. QED
      BY <2>1, <3>1, <3>2
  <2>5. /\ \A r \in Held(req'[c].rows) : \A p \in Parents[r] \cap Written : Arrives(p, req'[c].rows)
        /\ \A p \in DirtyIn(c, Roots) : Table[p] < n + 1 => Arrives(p, req'[c].rows)
    BY <1>0, <2>1, <2>3, <2>4, ParentsRead
  <2>6. /\ \A p : Arrives(p, req[c].rows)' <=> Arrives(p, req'[c].rows)
        /\ Held(req[c].rows)' = Held(req'[c].rows)
        /\ DirtyIn(c, Roots)' = DirtyIn(c, Roots) /\ Written' = Written
    BY <2>2 DEF Arrives, Held, DirtyIn, Written, Pen, Roots
  <2>. QED
    BY <2>1, <2>5, <2>6 DEF ParentsOK
<1>4. CASE SendPush(c)
  <2>1. /\ req'[c].rows = req[c].rows /\ canon' = canon
        /\ phase[c] = "reading" /\ phase'[c] = "sent"
    BY <1>0, <1>4 DEF SendPush, TypeOK, Request, serverVars
  <2>2. Held(req[c].rows)' = Held(req[c].rows) /\ Written' = Written
    BY <2>1 DEF Held, Written, Pen
  <2>. QED
    BY <2>1, <2>2 DEF ParentsOK, Arrives
<1>5. CASE SetRole(c)
  <2>1. UNCHANGED <<canon, local, req, phase, page>>
    BY <1>5 DEF SetRole, serverVars, fileVars, roundVars
  <2>2. Held(req[c].rows)' = Held(req[c].rows) /\ Written' = Written /\ DirtyIn(c, Roots)' = DirtyIn(c, Roots)
    BY <2>1 DEF Held, Written, Pen, DirtyIn, Roots
  <2>. QED
    BY <2>1, <2>2 DEF ParentsOK, Arrives
<1>6. CASE SendPull(c)
  <2>1. req'[c].rows = NoRows /\ phase'[c] = "sent"
    BY <1>0, <1>6 DEF SendPull, NoRequest, TypeOK
  <2>. QED
    BY <2>1, Blanks DEF ParentsOK
<1>7. CASE Apply(c) \/ ServerFault(c) \/ ApplyClashes(c) \/ ApplyDangles(c) \/ Lose(c) \/ Reload(c)
  <2>1. phase'[c] = "idle"
    BY <1>0, <1>7 DEF Apply, ServerFault, ApplyClashes, ApplyDangles, Fail, EndRound, Lose, Reload, TypeOK
  <2>. QED
    BY <2>1 DEF ParentsOK
<1>8. ~LearnExpired(c) /\ ~Reset(c) /\ ~Revoke(c)
  BY <1>0, <1>1 DEF LearnExpired, Reset, Revoke, Undisturbed
<1>. QED
  BY <1>2, <1>3, <1>4, <1>5, <1>6, <1>7, <1>8 DEF StepOf, EngineStep, AnswerStep

LEMMA ParentsInit == ASSUME Init, NEW c \in Authors PROVE ParentsOK(c)
<1>1. c \in Client
  BY EnvironmentAssumption DEF Authors
<1>. QED
  BY <1>1 DEF Init, ParentsOK

\* An author's copy, and what the answer in flight will make of it, follow the store.
AgreesOK(c) ==
    /\ Follows(local[c], cursor[c], queue[c])
    /\ Informed(c) => Follows(Coming(c), resp[c].cursor, queue[c] \ req[c].tombs)

\* Follows looks at rows only.
LEMMA FollowsRows ==
    ASSUME NEW rows, NEW old, NEW n, NEW away, NEW more, Follows(old, n, away), away \subseteq more,
           \A r \in Row : \/ rows[r] = old[r]
                          \/ /\ rows[r] # Nil /\ old[r] # Nil
                             /\ rows[r].v = old[r].v /\ (rows[r].dirty <=> old[r].dirty)
                          \/ Lineage[r] \cap more # {} /\ (rows[r] = Nil \/ canon[r] # Nil)
                          \/ canon[r] = Nil /\ (rows[r] = Nil \/ rows[r].dirty)
                          \/ rows[r] # Nil /\ rows[r].dirty
    PROVE  Follows(rows, n, more)
<1>1. ASSUME NEW r \in Row, canon[r] # Nil, canon[r].seq <= n
      PROVE  \/ Lineage[r] \cap more # {}
             \/ rows[r] # Nil /\ (Alone => rows[r].v = canon[r].v \/ rows[r].dirty)
  <2>1. Lineage[r] \cap away # {} => Lineage[r] \cap more # {}
    OBVIOUS
  <2>. QED
    BY <1>1, <2>1 DEF Follows
<1>2. ASSUME NEW r \in Row, rows[r] # Nil, canon[r] = Nil
      PROVE  rows[r].dirty \/ Missed(r, n)
  BY <1>2 DEF Follows
<1>. QED
  BY <1>1, <1>2 DEF Follows

\* A served push, as its author will see it.
LEMMA ServedIs ==
    ASSUME NoTwins, TypeOK, NEW c \in Client, grant[c], req[c].cursor # Nil, Serve(c)
    PROVE  LET acc == Accepted(canon, req[c], counter + 1)
           IN  /\ canon' = Pushed(canon, req[c], counter + 1)
               /\ resp'[c].kind = "ok" /\ resp'[c].cursor = counter'
               /\ resp'[c].dels = {r \in Row : graves'[r] > req[c].cursor /\ canon'[r] = Nil}
               /\ \A r \in Row : resp'[c].rows[r] =
                     IF canon'[r] # Nil /\ r \notin acc /\ canon'[r].seq > req[c].cursor
                     THEN canon'[r].v ELSE Nil
<1> DEFINE q == req[c]
           acc == Accepted(canon, q, counter + 1)
<1>1. /\ q \in Request /\ counter + 1 \in Nat /\ canon \in [Row -> Opt(CanonRow)]
      /\ Granted(req[c], grant[c]) = q
  BY DEF TypeOK, Granted
<1>2. /\ canon' = Pushed(canon, q, counter + 1)
      /\ resp'[c] = FullAnswer(canon, canon', graves', q, TRUE, counter + 1, counter')
  <2>1. grant[c] = TRUE
    BY DEF TypeOK
  <2>2. resp'[c] = FullAnswer(canon, canon', graves', req[c], grant[c], counter + 1, counter')
    BY DEF Serve, Reply, TypeOK
  <2>. QED
    BY <1>1, <2>1, <2>2 DEF Serve
<1>3. Granted(q, TRUE) = q
  BY DEF Granted
<1> HIDE DEF q
<1>4. /\ acc \subseteq Row
      /\ Losers(Cull(canon, q.tombs), acc) = {} /\ Echoed(canon, q, counter + 1) = {}
  <2>1. acc \subseteq Row
    BY DEF Accepted, Held
  <2> HIDE DEF acc
  <2>. QED
    BY <1>1, <2>1, PushIs
<1>5. acc = Held(q.rows) \ Orphans(canon, q, counter + 1)
  BY DEF Accepted
<1>6. /\ resp'[c].kind = "ok" /\ resp'[c].cursor = counter'
      /\ resp'[c].dels = Deletions(canon', graves', q.cursor)
      /\ resp'[c].rows = Changes(canon', q.cursor, acc, {})
  <2>1. /\ resp'[c].kind = "ok" /\ resp'[c].cursor = counter'
        /\ resp'[c].rows = Changes(canon', q.cursor,
              Held(q.rows) \ Orphans(canon, Granted(q, TRUE), counter + 1),
              Echoed(canon, Granted(q, TRUE), counter + 1))
        /\ resp'[c].dels =
              Losers(Cull(canon, Granted(q, TRUE).tombs), Accepted(canon, Granted(q, TRUE), counter + 1))
              \cup Deletions(canon', graves', q.cursor)
    BY <1>2 DEF FullAnswer
  <2> HIDE DEF acc
  <2>2. resp'[c].rows = Changes(canon', q.cursor, acc, {})
    BY <1>3, <1>4, <1>5, <2>1
  <2>3. Losers(Cull(canon, Granted(q, TRUE).tombs), Accepted(canon, Granted(q, TRUE), counter + 1)) = {}
    BY <1>3, <1>4 DEF acc
  <2>. QED
    BY <2>1, <2>2, <2>3
<1>7. q.cursor # Nil /\ q = req[c] /\ acc = Accepted(canon, req[c], counter + 1)
  BY DEF q
<1>8. resp'[c].dels = {r \in Row : graves'[r] > q.cursor /\ canon'[r] = Nil}
  BY <1>6, <1>7 DEF Deletions
<1>9. ASSUME NEW r \in Row
      PROVE  resp'[c].rows[r] =
               IF canon'[r] # Nil /\ r \notin acc /\ canon'[r].seq > q.cursor
               THEN canon'[r].v ELSE Nil
  <2> HIDE DEF acc
  <2>1. resp'[c].rows[r] =
          IF /\ canon'[r] # Nil
             /\ \/ r \in {}
                \/ r \notin acc /\ (q.cursor = Nil \/ canon'[r].seq > q.cursor)
          THEN canon'[r].v ELSE Nil
    BY <1>6 DEF Changes
  <2>. QED
    BY <1>7, <2>1
<1> HIDE DEF acc
<1>. QED
  BY <1>2, <1>6, <1>7, <1>8, <1>9

\* A clean row the store has lost is in the answer, with all it hangs from clean.
LEMMA CleanGone ==
    ASSUME RootsRest, TypeOK, StoreMoves, RootsInv, pruned' = 0, NEW c \in Authors,
           NEW n \in Nat, n <= counter, Follows(local[c], n, queue[c]),
           NEW a, a.dels = {x \in Row : graves'[x] > n /\ canon'[x] = Nil},
           NEW r \in Row, local[c][r] # Nil, ~local[c][r].dirty, canon'[r] = Nil
    PROVE  Lineage[r] \cap Condemned(local[c], req[c], a) # {}
<1>0. c \in Client
  BY EnvironmentAssumption DEF Authors
<1>1. canon[r] = Nil => Missed(r, n)
  BY DEF Follows
<1>2. Missed(r, n)'
  BY <1>1, MissedStep
<1>3. PICK y \in Lineage[r] : canon'[y] = Nil /\ graves'[y] > n
  BY <1>2 DEF Missed
<1>4. y \in Row /\ (y = r \/ y \in Roots)
  BY <1>3, ShallowLineage, SchemaAssumption DEF Roots
<1>5. local[c][y] = Nil \/ ~local[c][y].dirty
  <2>1. CASE y \in Roots
    <3>1. y \notin Written
      BY <1>3, <2>1 DEF StoreMoves
    <3>. QED
      BY <1>0, <2>1, <3>1 DEF RootsInv, RootsOK
  <2>. QED
    BY <1>4, <2>1
<1>. QED
  BY <1>3, <1>4, <1>5 DEF Condemned

\* The answer to a push takes the author's copy to the store as it now is.
LEMMA ServeAgrees ==
    ASSUME Apart, NoTwins, TypeOK, CursorInv, WorkInv, WorkInv', CanonWhole', StoreMoves, RootsInv,
           NEW c \in Authors, RoundOK(c), Alone => StampOK(c), ParentsOK(c), Dangling(local[c]) = {},
           Follows(local[c], cursor[c], queue[c]), counter' \in Nat,
           local[c] \in [Row -> Opt(LocalRow)], resp'[c] \in Answer, Serve(c)
    PROVE  /\ Sparing(local[c], req[c], resp'[c], role[c])
           /\ \A r \in Row :
                LET y == Applied(local[c], req[c], resp'[c], role[c])[r]
                IN  /\ canon'[r] # Nil =>
                          \/ Lineage[r] \cap (queue[c] \ req[c].tombs) # {}
                          \/ y # Nil /\ (Alone => y.v = canon'[r].v \/ y.dirty)
                    /\ canon'[r] = Nil => y = Nil \/ y.dirty
<1> DEFINE q == req[c]
           a == resp'[c]
           f == local[c]
           n == cursor[c]
           acc == Accepted(canon, q, counter + 1)
           base == Cull(canon, q.tombs)
           gone(r) == Lineage[r] \cap Condemned(f, q, a) # {}
<1>0. c \in Client /\ Undisturbed /\ RootsRest
  BY EnvironmentAssumption DEF Authors, Apart
<1>1. /\ phase[c] = "sent" /\ phase'[c] = "answered" /\ req' = req /\ local' = local /\ grant[c]
      /\ q \in Request /\ counter + 1 \in Nat /\ canon \in [Row -> Opt(CanonRow)]
      /\ role[c] \in BOOLEAN /\ counter \in Nat
  BY <1>0 DEF Serve, Reply, TypeOK, RoundOK, fileVars
<1>2. RequestOK(c) /\ WriterOK(c) /\ RequestOK(c)' /\ pruned' = 0
  BY <1>0 DEF WorkInv, NeverExpires
<1>3. n \in Nat /\ q.cursor = n /\ n <= counter /\ q.cursor # Nil
  <2>1. n # Nil /\ n \in Opt(Nat)
    BY <1>0, <1>1, <1>2 DEF WriterOK, TypeOK
  <2>2. n <= counter
    BY <1>0, <2>1 DEF CursorInv, Cursors
  <2>. QED
    BY <1>1, <2>1, <2>2, NilAssumption DEF RoundOK, Opt
<1>4. /\ canon' = Pushed(canon, q, counter + 1)
      /\ a.dels = {r \in Row : graves'[r] > n /\ canon'[r] = Nil}
      /\ \A r \in Row : a.rows[r] =
            IF canon'[r] # Nil /\ r \notin acc /\ canon'[r].seq > n THEN canon'[r].v ELSE Nil
  <2>. HIDE DEF acc
  <2>1. LET cc == Accepted(canon, req[c], counter + 1)
        IN  /\ canon' = Pushed(canon, req[c], counter + 1)
            /\ resp'[c].kind = "ok" /\ resp'[c].cursor = counter'
            /\ resp'[c].dels = {r \in Row : graves'[r] > req[c].cursor /\ canon'[r] = Nil}
            /\ \A r \in Row : resp'[c].rows[r] =
                  IF canon'[r] # Nil /\ r \notin cc /\ canon'[r].seq > req[c].cursor
                  THEN canon'[r].v ELSE Nil
    BY <1>0, <1>1, <1>3, ServedIs
  <2>. QED
    BY <1>3, <2>1 DEF acc
<1>5. Alone => Timely(q)
  BY DEF StampOK
<1>6. /\ acc \subseteq Held(q.rows)
      /\ \A x \in Row \ acc : canon'[x] = base[x]
      /\ \A x \in acc : /\ canon'[x] # Nil
                        /\ Alone => canon'[x] = [v |-> q.rows[x], seq |-> counter + 1]
      /\ \A r \in Held(q.rows) \ acc :
            \E p \in Parents[r] : p \notin Held(q.rows) /\ base[p] = Nil
  <2>1. acc = Held(q.rows) \ Orphans(canon, q, counter + 1)
    BY DEF Accepted
  <2>2. /\ Accepted(canon, q, counter + 1) \subseteq Held(q.rows)
        /\ \A x \in Row :
              LET old == Cull(canon, q.tombs)[x]
                  new == Pushed(canon, q, counter + 1)[x]
              IN  /\ \/ new = old
                     \/ /\ x \in Accepted(canon, q, counter + 1)
                        /\ new = [v |-> q.rows[x], seq |-> counter + 1]
                  /\ x \in Accepted(canon, q, counter + 1) => new # Nil
                  /\ Timely(q) /\ x \in Accepted(canon, q, counter + 1) =>
                        new = [v |-> q.rows[x], seq |-> counter + 1]
        /\ Orphans(canon, q, counter + 1) =
             {r \in Held(q.rows) : \E p \in Parents[r] :
                  p \notin Held(q.rows) /\ Cull(canon, q.tombs)[p] = Nil}
    <3>. HIDE DEF q
    <3>. QED
      BY <1>1, PushIs
  <2>. HIDE DEF q
  <2>3. acc \subseteq Held(q.rows)
    BY <2>2
  <2>4. \A x \in Row : /\ x \notin acc => canon'[x] = base[x]
                       /\ x \in acc => canon'[x] # Nil
                       /\ Timely(q) /\ x \in acc => canon'[x] = [v |-> q.rows[x], seq |-> counter + 1]
    BY <1>4, <2>2
  <2>5. Held(q.rows) \subseteq Row
    BY DEF Held
  <2>6. Held(q.rows) \ acc = {r \in Held(q.rows) : \E p \in Parents[r] :
                                p \notin Held(q.rows) /\ base[p] = Nil}
    BY <2>1, <2>2
  <2>. HIDE DEF acc, base
  <2>. QED
    BY <1>5, <2>3, <2>4, <2>5, <2>6
<1>8. Sparing(f, q, a, role[c])
  <2>1. Held(q.probes) = {} /\ (role[c] \/ Held(q.rows) = {})
    BY <1>2, Blanks DEF RequestOK, RoundOK
  <2>2. ASSUME NEW x \in Row, f[x] # Nil, f[x].dirty, x \notin Held(q.rows)
        PROVE  a.rows[x] = Nil
    <3>1. x \in DirtyIn(c, Row)' /\ x \notin Held(req[c].rows)'
      BY <1>1, <2>2 DEF DirtyIn, Held
    <3>2. Fresh(c, x)'
      BY <1>1, <1>2, <3>1 DEF RequestOK
    <3>. QED
      BY <3>2 DEF Fresh
  <2>. QED
    BY <1>3, <2>1, <2>2 DEF Sparing
<1> HIDE DEF acc, base, q, a, f, n
<1>9. ASSUME NEW r \in Row, canon'[r] # Nil
      PROVE  ~gone(r)
  <2>1. \A y \in Lineage[r] : canon'[y] # Nil
    BY <1>0, <1>9, ShallowLineage DEF CanonWhole
  <2>. QED
    BY <1>4, <2>1 DEF Condemned
<1>10. ASSUME NEW r \in Row, f[r] # Nil, ~f[r].dirty, canon'[r] = Nil
       PROVE  gone(r)
  BY <1>0, <1>2, <1>3, <1>4, <1>10, CleanGone DEF f, q, n
<1>11. ASSUME NEW r \in Held(q.rows) \ acc
       PROVE  /\ canon'[r] = Nil
              /\ f[r] # Nil => gone(r)
  <2>0. r \in Row /\ Parents[r] \subseteq Row
    BY <1>11, SchemaAssumption DEF Held
  <2>1. PICK p \in Parents[r] : p \notin Held(q.rows) /\ base[p] = Nil
    BY <1>6, <1>11
  <2>2. p \in Row /\ p \in Roots /\ p \notin acc
    BY <1>6, <2>0, <2>1 DEF Roots
  <2>3. canon'[p] = Nil
    BY <1>6, <2>1, <2>2
  <2>4. canon'[r] = Nil
    BY <2>0, <2>1, <2>3 DEF CanonWhole
  <2>5. p \notin Written
    <3>1. SUFFICES ASSUME p \in Written PROVE FALSE
      OBVIOUS
    <3>2. Arrives(p, req[c].rows)
      BY <1>1, <2>1, <3>1, <1>11 DEF ParentsOK, q
    <3>3. canon[p] # Nil
      BY <2>1, <3>2 DEF Arrives, q
    <3>4. p \notin q.tombs
      BY <1>0, <2>1, <2>0, <3>1 DEF RootsInv, RootsOK, RootsRest, q
    <3>5. Lineage[p] = {p}
      BY <1>0, <2>0, <2>1, <2>2, ShallowLineage DEF RootsRest
    <3>. QED
      BY <2>1, <2>2, <3>3, <3>4, <3>5 DEF base, Cull
  <2>6. ASSUME f[r] # Nil
        PROVE  gone(r)
    <3>1. f[p] # Nil
      BY <2>0, <2>1, <2>6 DEF Dangling, Held, f
    <3>2. ~f[p].dirty
      BY <1>0, <2>2, <2>5, <3>1 DEF RootsInv, RootsOK, f
    <3>3. gone(p)
      BY <1>10, <2>2, <2>3, <3>1, <3>2
    <3>4. Lineage[p] \subseteq Lineage[r]
      BY <2>0, <2>1, LineageIs
    <3>. QED
      BY <3>3, <3>4
  <2>. QED
    BY <2>4, <2>6
<1>12. ASSUME NEW r \in Row
       PROVE  RowApplied(f, q, a, role[c], r)
  BY <1>1, <1>8, AppliedIs DEF f, a
<1>13. ASSUME NEW r \in Row, canon'[r] # Nil
       PROVE  \/ Lineage[r] \cap (queue[c] \ q.tombs) # {}
              \/ LET y == Applied(f, q, a, role[c])[r]
                 IN  y # Nil /\ (Alone => y.v = canon'[r].v \/ y.dirty)
  <2>1. CASE r \in acc
    <3>0. r \in Held(q.rows) /\ a.rows[r] = Nil
      BY <1>4, <1>6, <2>1
    <3>4. Alone => canon'[r] = [v |-> q.rows[r], seq |-> counter + 1]
      BY <1>6, <2>1
    <3>1. /\ r \in Held(q.rows) /\ a.rows[r] = Nil
          /\ Alone => canon'[r].v = q.rows[r]
      BY <3>0, <3>4
    <3>2. CASE f[r] = Nil
      BY <1>1, <3>1, <3>2 DEF RoundOK, Withdrawn, Held, f, q
    <3>3. CASE f[r] # Nil
      <4>1. f[r] = [v |-> q.rows[r], dirty |-> TRUE]
        BY <1>2, <3>1, <3>3 DEF RequestOK, Held, f, q
      <4>2. Applied(f, q, a, role[c])[r] = [v |-> f[r].v, dirty |-> FALSE]
        BY <1>9, <1>12, <1>13, <3>1, <3>3 DEF RowApplied
      <4>3. [v |-> f[r].v, dirty |-> FALSE] # Nil
        <5>1. f[r].v \in Version
          BY <3>3 DEF Opt, LocalRow, f
        <5>2. [v |-> f[r].v, dirty |-> FALSE] \in [v : Version, dirty : BOOLEAN]
          BY <5>1
        <5>. QED
          BY <5>2, CellAssumption
      <4>. QED
        BY <3>1, <4>1, <4>2, <4>3
    <3>. QED
      BY <3>2, <3>3
  <2>2. CASE r \notin acc /\ canon'[r].seq > n
    <3>1. a.rows[r] = canon'[r].v
      BY <1>4, <1>13, <2>2
    <3>2. a.rows[r] # Nil
      <4>1. canon'[r] = canon[r]
        BY <1>6, <1>13, <2>2 DEF base, Cull
      <4>2. canon'[r].v \in Version
        BY <1>1, <1>13, <4>1 DEF Opt, CanonRow
      <4>. QED
        BY <3>1, <4>2, CellAssumption
    <3>. QED
      BY <1>12, <3>1, <3>2 DEF RowApplied
  <2>3. CASE r \notin acc /\ ~(canon'[r].seq > n)
    <3>1. canon'[r] = canon[r] /\ Lineage[r] \cap q.tombs = {}
      BY <1>6, <1>13, <2>3 DEF base, Cull
    <3>2. canon[r].seq <= n /\ a.rows[r] = Nil
      <4>1. canon[r].seq \in Nat
        BY <1>1, <1>13, <3>1 DEF Opt, CanonRow
      <4>. QED
        BY <1>3, <1>4, <2>3, <3>1, <4>1
    <3>3. \/ Lineage[r] \cap queue[c] # {}
          \/ f[r] # Nil /\ (Alone => f[r].v = canon[r].v \/ f[r].dirty)
      BY <1>13, <3>1, <3>2 DEF Follows, f, n
    <3>4. r \notin Held(q.rows)
      BY <1>11, <1>13, <2>3
    <3>5. Applied(f, q, a, role[c])[r] = f[r]
      BY <1>9, <1>12, <1>13, <3>2, <3>4 DEF RowApplied
    <3>. QED
      BY <3>1, <3>3, <3>5
  <2>. QED
    BY <2>1, <2>2, <2>3
<1>14. ASSUME NEW r \in Row, canon'[r] = Nil
       PROVE  Applied(f, q, a, role[c])[r] = Nil \/ Applied(f, q, a, role[c])[r].dirty
  <2>1. a.rows[r] = Nil /\ r \notin acc
    BY <1>4, <1>6, <1>14
  <2>2. CASE gone(r)
    BY <1>12, <2>1, <2>2 DEF RowApplied
  <2>3. CASE ~gone(r)
    <3>1. f[r] # Nil => r \notin Held(q.rows)
      BY <1>11, <2>1, <2>3
    <3>2. Applied(f, q, a, role[c])[r] = f[r]
      BY <1>12, <2>1, <2>3, <3>1 DEF RowApplied
    <3>. QED
      BY <1>10, <1>14, <2>3, <3>2
  <2>. QED
    BY <2>2, <2>3
<1>. QED
  BY <1>8, <1>13, <1>14 DEF f, q, a

\* A copy a step leaves alone goes on following the store.
LEMMA CopyFollows ==
    ASSUME RootsRest, TypeOK, CursorInv, StoreMoves, NEW c \in Client,
           cursor[c] # Nil, Follows(local[c], cursor[c], queue[c]),
           UNCHANGED <<local[c], cursor[c], queue[c]>>
    PROVE  Follows(local[c], cursor[c], queue[c])'
<1> PICK rows : rows = local[c]
  OBVIOUS
<1> PICK n : n = cursor[c]
  OBVIOUS
<1> PICK away : away = queue[c]
  OBVIOUS
<1>1. n \in Nat /\ n <= counter
  BY DEF TypeOK, Opt, CursorInv, Cursors
<1>2. Follows(rows, n, away)
  OBVIOUS
<1>3. Follows(rows, n, away)'
  BY <1>1, <1>2, FollowsStep
<1>4. rows = local'[c] /\ n = cursor'[c] /\ away = queue'[c]
  OBVIOUS
<1>. QED
  BY <1>3, <1>4 DEF Follows, Missed

\* So does what the answer in flight will make of it.
LEMMA ComingFollows ==
    ASSUME RootsRest, TypeOK, CursorInv, StoreMoves, NEW c \in Client,
           Follows(Coming(c), resp[c].cursor, queue[c] \ req[c].tombs),
           UNCHANGED <<local[c], req[c], resp[c], role[c], queue[c]>>
    PROVE  Follows(Coming(c), resp[c].cursor, queue[c] \ req[c].tombs)'
<1> PICK rows : rows = Coming(c)
  OBVIOUS
<1> PICK n : n = resp[c].cursor
  OBVIOUS
<1> PICK away : away = queue[c] \ req[c].tombs
  OBVIOUS
<1>1. n \in Nat /\ n <= counter
  <2>1. resp[c].cursor \in Nat
    BY DEF TypeOK, Answer
  <2>. QED
    BY <2>1, NilAssumption DEF CursorInv, Cursors
<1>2. Follows(rows, n, away)
  OBVIOUS
<1>3. Follows(rows, n, away)'
  BY <1>1, <1>2, FollowsStep
<1>4. rows = Coming(c)' /\ n = resp'[c].cursor /\ away = queue'[c] \ req'[c].tombs
  BY DEF Coming
<1> HIDE DEF Coming
<1>. QED
  BY <1>3, <1>4 DEF Follows, Missed

\* The server's answer to an author.
LEMMA AgreesServer ==
    ASSUME Apart, TypeOK, TypeOK', CursorInv, WorkInv, WorkInv', CanonWhole', StoreMoves, RootsInv,
           NEW c \in Authors, RoundOK(c), Alone => StampOK(c), ParentsOK(c), Dangling(local[c]) = {},
           AgreesOK(c), ServerStep(c)
    PROVE  AgreesOK(c)'
<1>0. c \in Client /\ RootsRest /\ NoTwins
  BY EnvironmentAssumption DEF Authors, Apart, NoTwins
<1>1. UNCHANGED <<local, cursor, queue, req, role, grant>> /\ phase[c] = "sent"
  <2>1. PICK a : Reply(c, a) /\ phase[c] = "sent"
    BY DEF ServerStep, ServeBail, ServeExpired, Serve, ServeFails
  <2>. QED
    BY <2>1 DEF Reply, fileVars, engineVars, worldVars
<1>2. cursor[c] # Nil /\ grant[c] /\ RequestOK(c)
  BY <1>0 DEF RoundOK, WorkInv, WriterOK
<1>3. Follows(local[c], cursor[c], queue[c])'
  BY <1>0, <1>1, <1>2, CopyFollows DEF AgreesOK
<1>4. /\ local[c] \in [Row -> Opt(LocalRow)] /\ resp'[c] \in Answer /\ counter' \in Nat
      /\ req[c] \in Request /\ role[c] \in BOOLEAN
  BY <1>0 DEF TypeOK
<1>5. Coming(c)' = Applied(local[c], req[c], resp'[c], role[c])
  BY <1>1 DEF Coming
<1>6. ASSUME Serve(c)
      PROVE  Follows(Coming(c), resp[c].cursor, queue[c] \ req[c].tombs)'
  <2>1. \A r \in Row :
           LET y == Applied(local[c], req[c], resp'[c], role[c])[r]
           IN  /\ canon'[r] # Nil =>
                     \/ Lineage[r] \cap (queue[c] \ req[c].tombs) # {}
                     \/ y # Nil /\ (Alone => y.v = canon'[r].v \/ y.dirty)
               /\ canon'[r] = Nil => y = Nil \/ y.dirty
    BY <1>0, <1>4, <1>6, ServeAgrees DEF AgreesOK
  <2> PICK rows : rows = Applied(local[c], req[c], resp'[c], role[c])
    OBVIOUS
  <2>2. \A r \in Row :
           /\ canon'[r] # Nil =>
                 \/ Lineage[r] \cap (queue[c] \ req[c].tombs) # {}
                 \/ rows[r] # Nil /\ (Alone => rows[r].v = canon'[r].v \/ rows[r].dirty)
           /\ canon'[r] = Nil => rows[r] = Nil \/ rows[r].dirty
    BY <2>1
  <2>3. rows = Coming(c)'
    BY <1>5
  <2>4. queue'[c] \ req'[c].tombs = queue[c] \ req[c].tombs
    BY <1>1
  <2> HIDE DEF Coming
  <2>. QED
    BY <2>2, <2>3, <2>4 DEF Follows
<1>7. ASSUME ServeBail(c)
      PROVE  Follows(Coming(c), resp[c].cursor, queue[c] \ req[c].tombs)'
  <2>1. FastBail(req[c], TRUE, counter) /\ resp'[c] = BailAnswer(req[c], TRUE)
    <3>1. grant[c] = TRUE
      BY <1>0, <1>2 DEF TypeOK
    <3>2. FastBail(req[c], grant[c], counter) /\ resp'[c] = BailAnswer(req[c], grant[c])
      BY <1>0, <1>7 DEF ServeBail, Reply, TypeOK
    <3>. QED
      BY <3>1, <3>2
  <2>2. Held(req[c].rows) = {} /\ req[c].tombs = {} /\ req[c].cursor = cursor[c]
    BY <1>1, <2>1 DEF FastBail, Granted, RoundOK
  <2>3. resp'[c].rows = NoRows /\ resp'[c].dels = {} /\ resp'[c].cursor = cursor[c]
    BY <2>1, <2>2 DEF BailAnswer, NoAnswer
  <2>4. Sparing(local[c], req[c], resp'[c], role[c])
    BY <1>2, <2>2, <2>3, Blanks DEF Sparing, RequestOK
  <2>5. ASSUME NEW r \in Row
        PROVE  Coming(c)'[r] = local[c][r]
    <3>1. RowApplied(local[c], req[c], resp'[c], role[c], r)
      BY <1>4, <2>4, AppliedIs
    <3>2. Condemned(local[c], req[c], resp'[c]) = {}
      BY <2>3 DEF Condemned
    <3>. QED
      BY <1>5, <2>2, <2>3, <3>1, <3>2, Blanks DEF RowApplied
  <2> PICK rows : rows = Coming(c)'
    OBVIOUS
  <2>6. Follows(local[c], cursor[c], queue[c])
    BY DEF AgreesOK
  <2>7. UNCHANGED <<canon, graves, pruned>>
    BY <1>7 DEF ServeBail, Reply
  <2>8. /\ resp'[c].cursor = cursor[c] /\ queue'[c] \ req'[c].tombs = queue[c]
        /\ \A r \in Row : rows[r] = local[c][r]
    BY <1>1, <2>2, <2>3, <2>5
  <2> HIDE DEF Coming
  <2>. QED
    BY <2>6, <2>7, <2>8 DEF Follows, Missed
<1>8. ServeExpired(c) \/ ServeFails(c) => ~Informed(c)'
  BY <1>0 DEF ServeExpired, ServeFails, Reply, Informed, NoAnswer, TypeOK
<1>. QED
  BY <1>3, <1>6, <1>7, <1>8 DEF AgreesOK, ServerStep

\* An answer treats a row alike in two files that hold it and what it hangs from alike.
LEMMA SameComing ==
    ASSUME NEW f, NEW g, NEW q, NEW a, NEW editor, NEW e2, NEW r \in Row,
           RowApplied(f, q, a, editor, r), RowApplied(g, q, a, e2, r),
           a.rows[r] # Nil \/ (f[r] = g[r] /\ (f[r] = Nil \/ \A y \in Lineage[r] : f[y] = g[y]))
    PROVE  LET x == Applied(f, q, a, editor)[r]
               y == Applied(g, q, a, e2)[r]
           IN  y = x \/ (/\ y # Nil /\ x # Nil
                         /\ y.v = x.v /\ (y.dirty <=> x.dirty))
<1>1. CASE a.rows[r] # Nil
  BY <1>1 DEF RowApplied
<1>2. CASE a.rows[r] = Nil /\ f[r] = Nil
  BY <1>2 DEF RowApplied
<1>3. CASE a.rows[r] = Nil /\ f[r] = g[r] /\ \A y \in Lineage[r] : f[y] = g[y]
  <2>1. Lineage[r] \cap Condemned(f, q, a) = Lineage[r] \cap Condemned(g, q, a)
    BY <1>3 DEF Condemned
  <2>. QED
    BY <1>3, <2>1 DEF RowApplied
<1>. QED
  BY <1>1, <1>2, <1>3

\* The user writes while an answer is on its way.
LEMMA AgreesWrite ==
    ASSUME Apart, TypeOK, TypeOK', WorkInv, NEW c \in Authors, RoundOK(c), AgreesOK(c),
           Dangling(local[c]) = {}, NEW x \in Row, Insert(c, x) \/ Edit(c, x)
    PROVE  AgreesOK(c)'
<1>0. c \in Client /\ RootsRest /\ Undisturbed
  BY EnvironmentAssumption DEF Authors, Apart
<1>1. /\ local'[c][x] # Nil /\ local'[c][x].dirty
      /\ \A r \in Row \ {x} : local'[c][r] = local[c][r]
      /\ UNCHANGED <<canon, graves, pruned, queue, cursor, phase, req, resp, role>>
  <2>1. local'[c][x] = [v |-> [at |-> clock[c] + 1, by |-> c], dirty |-> TRUE] /\ local'[c][x] # Nil
    BY <1>0, WriteIs
  <2>2. local'[c][x].dirty
    BY <2>1
  <2>3. UNCHANGED <<serverVars, queue, cursor, engineVars, roundVars>>
    BY <1>0, WriteIs
  <2>4. \A r \in Row \ {x} : local'[c][r] = local[c][r]
    BY <1>0, WriteIs
  <2>. QED
    BY <2>1, <2>2, <2>3, <2>4 DEF serverVars, roundVars, engineVars
<1>2. Follows(local'[c], cursor[c], queue[c])
  <2>1. \A r \in Row : local'[c][r] = local[c][r] \/ (local'[c][r] # Nil /\ local'[c][r].dirty)
    BY <1>1
  <2>. QED
    BY <2>1, FollowsRows DEF AgreesOK
<1>3. ASSUME Informed(c)
      PROVE  Follows(Applied(local'[c], req[c], resp[c], role[c]), resp[c].cursor,
                     queue[c] \ req[c].tombs)
  <2>1. phase[c] = "answered" /\ ~Edit(c, x)
    BY <1>0, <1>3 DEF Informed, Edit, MayWrite, Undisturbed, Phases
  <2>2. x \notin minted
    BY <2>1 DEF Insert
  <2>3. canon[x] = Nil /\ local[c][x] = Nil /\ req[c].rows[x] = Nil /\ resp[c].rows[x] = Nil
    BY <1>0, <2>2 DEF WorkInv, Unknown
  <2>4. /\ Sparing(local[c], req[c], resp[c], role[c])
        /\ local'[c] \in [Row -> Opt(LocalRow)] /\ req[c] \in Request /\ resp[c] \in Answer
        /\ role[c] \in BOOLEAN
    <3>1. local'[c] \in [Row -> Opt(LocalRow)]
      BY <1>0 DEF TypeOK
    <3>. QED
      BY <1>0, <1>3, <3>1, Spares
  <2>5. Sparing(local'[c], req[c], resp[c], role[c])
    <3>1. \A r \in Row : local'[c][r] # Nil /\ local'[c][r].dirty /\ r \notin Held(req[c].rows) =>
                           resp[c].rows[r] = Nil
      BY <1>1, <2>3, <2>4 DEF Sparing
    <3>. QED
      BY <2>4, <3>1 DEF Sparing
  <2>6. ASSUME NEW r \in Row
        PROVE  /\ RowApplied(local[c], req[c], resp[c], role[c], r)
               /\ RowApplied(local'[c], req[c], resp[c], role[c], r)
    <3>1. RowApplied(local[c], req[c], resp[c], role[c], r)
      BY <1>0, <1>3, ComingIs
    <3>2. RowApplied(local'[c], req[c], resp[c], role[c], r)
      BY <2>4, <2>5, AppliedIs
    <3>. QED
      BY <3>1, <3>2
  <2> DEFINE new == Applied(local'[c], req[c], resp[c], role[c])
             old == Applied(local[c], req[c], resp[c], role[c])
  <2>7. new[x] = Nil \/ new[x].dirty
    <3>1. new[x] = Nil \/ new[x] = local'[c][x]
      BY <2>3, <2>6 DEF RowApplied, Held
    <3>. QED
      BY <1>1, <3>1
  <2>8. ASSUME NEW r \in Row, r # x
        PROVE  \/ new[r] = old[r]
               \/ /\ new[r] # Nil /\ old[r] # Nil
                  /\ new[r].v = old[r].v /\ (new[r].dirty <=> old[r].dirty)
    <3>1. local'[c][r] = local[c][r]
      BY <1>1, <2>8
    <3>2. local[c][r] # Nil => \A y \in Lineage[r] : local[c][y] = local'[c][y]
      <4>1. local[c][r] # Nil => x \notin Lineage[r]
        BY <1>0, <2>3, <2>8, ShallowLineage DEF Dangling, Held
      <4>2. Lineage[r] \subseteq Row
        BY <1>0, ShallowLineage, SchemaAssumption
      <4>. QED
        BY <1>1, <4>1, <4>2
    <3>. QED
      BY <2>6, <3>1, <3>2, SameComing
  <2>9. Follows(old, resp[c].cursor, queue[c] \ req[c].tombs)
    BY <1>3 DEF AgreesOK, Coming
  <2> HIDE DEF new, old
  <2>10. \A r \in Row : \/ new[r] = old[r]
                        \/ /\ new[r] # Nil /\ old[r] # Nil
                           /\ new[r].v = old[r].v /\ (new[r].dirty <=> old[r].dirty)
                        \/ canon[r] = Nil /\ (new[r] = Nil \/ new[r].dirty)
    BY <2>3, <2>7, <2>8
  <2>11. Follows(new, resp[c].cursor, queue[c] \ req[c].tombs)
    BY <2>9, <2>10, FollowsRows
  <2>. QED
    BY <2>11 DEF new
<1>4. Coming(c)' = Applied(local'[c], req[c], resp[c], role[c]) /\ Informed(c)' = Informed(c)
  BY <1>1 DEF Coming, Informed
<1>5. Follows(local[c], cursor[c], queue[c])'
  BY <1>1, <1>2 DEF Follows, Missed
<1>6. ASSUME Informed(c)
      PROVE  Follows(Coming(c), resp[c].cursor, queue[c] \ req[c].tombs)'
  <2> PICK rows : rows = Applied(local'[c], req[c], resp[c], role[c])
    OBVIOUS
  <2>1. Follows(rows, resp[c].cursor, queue[c] \ req[c].tombs) /\ Coming(c)' = rows
    BY <1>3, <1>4, <1>6
  <2> HIDE DEF Coming
  <2>. QED
    BY <1>1, <2>1 DEF Follows, Missed
<1>. QED
  BY <1>4, <1>5, <1>6 DEF AgreesOK

\* A deletion removes rows from the copy and from what is coming.
LEMMA AgreesDrop ==
    ASSUME Apart, TypeOK, TypeOK', WorkInv, NEW c \in Authors, RoundOK(c), AgreesOK(c),
           NEW x \in Row, Drop(c, x)
    PROVE  AgreesOK(c)'
<1>0. c \in Client /\ RootsRest
  BY EnvironmentAssumption DEF Authors, Apart
<1>1. /\ \A r \in Row : local'[c][r] = IF x \in Lineage[r] THEN Nil ELSE local[c][r]
      /\ queue'[c] = queue[c] \cup {x} /\ x \notin queue[c]
      /\ UNCHANGED <<canon, graves, pruned, cursor, phase, req, resp, role>>
  BY <1>0, DropIs DEF serverVars, roundVars, engineVars
<1>2. Follows(local'[c], cursor[c], queue'[c])
  <2>1. \A r \in Row : \/ local'[c][r] = local[c][r]
                       \/ Lineage[r] \cap queue'[c] # {} /\ local'[c][r] = Nil
    BY <1>1
  <2>2. queue[c] \subseteq queue'[c]
    BY <1>1
  <2>. QED
    BY <2>1, <2>2, FollowsRows DEF AgreesOK
<1>3. ASSUME Informed(c)
      PROVE  Follows(Applied(local'[c], req[c], resp[c], role[c]), resp[c].cursor,
                     queue'[c] \ req[c].tombs)
  <2>1. /\ Sparing(local[c], req[c], resp[c], role[c])
        /\ local'[c] \in [Row -> Opt(LocalRow)] /\ req[c] \in Request /\ resp[c] \in Answer
        /\ role[c] \in BOOLEAN
    <3>1. local'[c] \in [Row -> Opt(LocalRow)]
      BY <1>0 DEF TypeOK
    <3>. QED
      BY <1>0, <1>3, <3>1, Spares
  <2>2. Sparing(local'[c], req[c], resp[c], role[c])
    BY <1>1, <2>1 DEF Sparing
  <2>3. ASSUME NEW r \in Row
        PROVE  /\ RowApplied(local[c], req[c], resp[c], role[c], r)
               /\ RowApplied(local'[c], req[c], resp[c], role[c], r)
    <3>1. RowApplied(local[c], req[c], resp[c], role[c], r)
      BY <1>0, <1>3, ComingIs
    <3>2. RowApplied(local'[c], req[c], resp[c], role[c], r)
      BY <2>1, <2>2, AppliedIs
    <3>. QED
      BY <3>1, <3>2
  <2> DEFINE new == Applied(local'[c], req[c], resp[c], role[c])
             old == Applied(local[c], req[c], resp[c], role[c])
             more == queue'[c] \ req[c].tombs
  <2>4. x \in more /\ queue[c] \ req[c].tombs \subseteq more
    BY <1>1 DEF RoundOK
  <2>5. ASSUME NEW r \in Row
        PROVE  \/ new[r] = old[r]
               \/ /\ new[r] # Nil /\ old[r] # Nil
                  /\ new[r].v = old[r].v /\ (new[r].dirty <=> old[r].dirty)
               \/ Lineage[r] \cap more # {} /\ new[r] = Nil
    <3>1. CASE resp[c].rows[r] # Nil
      BY <2>3, <3>1, SameComing
    <3>2. CASE resp[c].rows[r] = Nil /\ x \in Lineage[r]
      <4>1. local'[c][r] = Nil
        BY <1>1, <3>2
      <4>2. new[r] = Nil
        BY <2>3, <3>2, <4>1 DEF RowApplied
      <4>. QED
        BY <2>4, <3>2, <4>2
    <3>3. CASE x \notin Lineage[r]
      <4>1. Lineage[r] \subseteq Row /\ \A y \in Lineage[r] : Lineage[y] \subseteq Lineage[r]
        <5>1. \A p \in Parents[r] : Lineage[p] \subseteq Lineage[r]
          <6>1. Lineage[r] = {r} \cup UNION {Lineage[p] : p \in Parents[r]}
            BY LineageIs
          <6>. QED
            BY <6>1
        <5>2. Lineage[r] = {r} \cup Parents[r]
          BY <1>0, ShallowLineage
        <5>3. Parents[r] \subseteq Row
          BY SchemaAssumption
        <5>. QED
          BY <5>1, <5>2, <5>3
      <4>2. local'[c][r] = local[c][r] /\ \A y \in Lineage[r] : local[c][y] = local'[c][y]
        BY <1>1, <3>3, <4>1
      <4>. QED
        BY <2>3, <4>2, SameComing
    <3>. QED
      BY <3>1, <3>2, <3>3
  <2>6. Follows(old, resp[c].cursor, queue[c] \ req[c].tombs)
    BY <1>3 DEF AgreesOK, Coming
  <2> HIDE DEF new, old, more
  <2>7. Follows(new, resp[c].cursor, more)
    BY <2>4, <2>5, <2>6, FollowsRows
  <2>. QED
    BY <2>7 DEF new, more
<1>4. Coming(c)' = Applied(local'[c], req[c], resp[c], role[c]) /\ Informed(c)' = Informed(c)
  BY <1>1 DEF Coming, Informed
<1>5. Follows(local[c], cursor[c], queue[c])'
  BY <1>1, <1>2 DEF Follows, Missed
<1>6. ASSUME Informed(c)
      PROVE  Follows(Coming(c), resp[c].cursor, queue[c] \ req[c].tombs)'
  <2> PICK rows : rows = Applied(local'[c], req[c], resp[c], role[c])
    OBVIOUS
  <2>1. Follows(rows, resp[c].cursor, queue'[c] \ req[c].tombs) /\ Coming(c)' = rows
    BY <1>3, <1>4, <1>6
  <2> HIDE DEF Coming
  <2>. QED
    BY <1>1, <2>1 DEF Follows, Missed
<1>. QED
  BY <1>4, <1>5, <1>6 DEF AgreesOK

\* An author's own steps keep its copy following the store.
LEMMA AgreesOwn ==
    ASSUME Apart, TypeOK, TypeOK', WorkInv, NEW c \in Authors, RoundOK(c), AgreesOK(c),
           Dangling(local[c]) = {}, StepOf(c), ~ServerStep(c)
    PROVE  AgreesOK(c)'
<1>0. c \in Client /\ RootsRest /\ Undisturbed
  BY EnvironmentAssumption DEF Authors, Apart
<1>1. RequestOK(c) /\ WriterOK(c) /\ phase[c] # "resetting" /\ resp[c].kind # "expired"
  BY <1>0 DEF WorkInv, NeverExpires
<1>2. CASE UserStep(c)
  BY <1>2, AgreesWrite, AgreesDrop DEF UserStep
<1>3. CASE Apply(c)
  <2>1. /\ local'[c] = Coming(c) /\ cursor'[c] = resp[c].cursor
        /\ queue'[c] = IF role[c] THEN queue[c] \ req[c].tombs ELSE queue[c]
        /\ UNCHANGED <<canon, graves, pruned>> /\ Informed(c) /\ phase'[c] = "idle"
    BY <1>0, <1>3 DEF Apply, EndRound, TypeOK, serverVars, Coming, Informed
  <2>2. queue'[c] = queue[c] \ req[c].tombs
    BY <2>1 DEF RoundOK
  <2>3. Follows(Coming(c), resp[c].cursor, queue[c] \ req[c].tombs)
    BY <2>1 DEF AgreesOK
  <2>4. ~Informed(c)'
    BY <2>1 DEF Informed
  <2> PICK rows : rows = Coming(c)
    OBVIOUS
  <2> HIDE DEF Coming
  <2>5. Follows(local[c], cursor[c], queue[c])'
    BY <2>1, <2>2, <2>3 DEF Follows, Missed
  <2>. QED
    BY <2>4, <2>5 DEF AgreesOK
<1>4. CASE SetRole(c)
  <2>1. /\ UNCHANGED <<canon, graves, pruned, local, cursor, queue, req, resp, phase>>
        /\ ~role[c] /\ role'[c] = TRUE
    BY <1>0, <1>4 DEF SetRole, TypeOK, serverVars, fileVars, roundVars
  <2>2. Follows(local[c], cursor[c], queue[c])'
    BY <2>1 DEF AgreesOK, Follows, Missed
  <2>3. Informed(c)' = Informed(c) /\ Coming(c)' = Applied(local[c], req[c], resp[c], TRUE)
    BY <2>1 DEF Informed, Coming
  <2>4. ASSUME Informed(c)
        PROVE  Follows(Coming(c), resp[c].cursor, queue[c] \ req[c].tombs)'
    <3>1. Sparing(local[c], req[c], resp[c], TRUE)
      BY <1>0, <2>4, Spares DEF Sparing
    <3>2. ASSUME NEW r \in Row
          PROVE  /\ RowApplied(local[c], req[c], resp[c], role[c], r)
                 /\ RowApplied(local[c], req[c], resp[c], TRUE, r)
      <4>1. RowApplied(local[c], req[c], resp[c], role[c], r)
        BY <1>0, <2>4, ComingIs
      <4>2. /\ local[c] \in [Row -> Opt(LocalRow)] /\ req[c] \in Request /\ resp[c] \in Answer
            /\ TRUE \in BOOLEAN
        BY <1>0 DEF TypeOK
      <4>3. RowApplied(local[c], req[c], resp[c], TRUE, r)
        BY <3>1, <4>2, AppliedIs
      <4>. QED
        BY <4>1, <4>3
    <3> DEFINE new == Applied(local[c], req[c], resp[c], TRUE)
               old == Applied(local[c], req[c], resp[c], role[c])
    <3>3. \A r \in Row : \/ new[r] = old[r]
                         \/ /\ new[r] # Nil /\ old[r] # Nil
                            /\ new[r].v = old[r].v /\ (new[r].dirty <=> old[r].dirty)
      BY <3>2, SameComing
    <3>4. Follows(old, resp[c].cursor, queue[c] \ req[c].tombs)
      BY <2>4 DEF AgreesOK, Coming
    <3> HIDE DEF new, old
    <3>5. Follows(new, resp[c].cursor, queue[c] \ req[c].tombs)
      BY <3>3, <3>4, FollowsRows
    <3>6. Coming(c)' = new
      BY <2>3 DEF new
    <3> HIDE DEF Coming
    <3>. QED
      BY <2>1, <3>5, <3>6 DEF Follows, Missed
  <2>. QED
    BY <2>2, <2>3, <2>4 DEF AgreesOK
<1>5. CASE \/ BeginPush(c) \/ ReadPage(c) \/ SendPush(c) \/ SendPull(c) \/ ServerFault(c)
           \/ ApplyClashes(c) \/ ApplyDangles(c) \/ Lose(c) \/ Reload(c)
  <2>1. /\ UNCHANGED <<canon, graves, pruned, local, cursor, queue>>
        /\ phase'[c] # "answered"
    BY <1>0, <1>5 DEF BeginPush, ReadPage, SendPush, SendPull, ServerFault, ApplyClashes,
        ApplyDangles, Fail, Lose, Reload, EndRound, TypeOK, serverVars, fileVars
  <2>2. Follows(local[c], cursor[c], queue[c])'
    BY <2>1 DEF AgreesOK, Follows, Missed
  <2>. QED
    BY <2>1, <2>2 DEF AgreesOK, Informed
<1>6. ~LearnExpired(c) /\ ~Reset(c) /\ ~Revoke(c)
  BY <1>0, <1>1 DEF LearnExpired, Reset, Revoke, Undisturbed
<1>. QED
  BY <1>2, <1>3, <1>4, <1>5, <1>6 DEF StepOf, EngineStep, AnswerStep

LEMMA AgreesInit == ASSUME Undisturbed, Init, NEW c \in Authors PROVE AgreesOK(c)
<1>1. c \in Client /\ Boot[c] = "snapshot"
  BY EnvironmentAssumption DEF Authors, Undisturbed
<1>2. ASSUME NEW r \in Row
      PROVE  /\ local[c][r] # Nil => local[c][r] = [v |-> SeedVersion, dirty |-> FALSE]
             /\ local[c][r] # Nil <=> r \in Seed
  BY <1>1, CleanFiles DEF Init
<1>3. ASSUME NEW r \in Row
      PROVE  /\ canon[r] # Nil => canon[r].v = SeedVersion /\ r \in Seed
             /\ r \in Seed => canon[r] # Nil
  <2>1. [v |-> SeedVersion, seq |-> 1] # Nil
    <3>1. [v |-> SeedVersion, seq |-> 1] \in [v : Version, seq : Nat]
      BY DEF SeedVersion, Version
    <3>. QED
      BY <3>1, CellAssumption
  <2>. QED
    BY <2>1 DEF Init
<1>4. ~Informed(c)
  BY <1>1 DEF Init, Informed
<1>. QED
  BY <1>2, <1>3, <1>4 DEF AgreesOK, Follows

\* The round trip is tied to the file, stamps are in order, parents come first, and the copy
\* follows the store.
AuthorOK(c) == RoundOK(c) /\ (Alone => StampOK(c)) /\ ParentsOK(c) /\ AgreesOK(c)

\* A device that writes always differs from the dictionary by its own unpushed work and by
\* changes numbered after its cursor only, and will when it has applied the answer it awaits.
AuthorsInv == \A c \in Authors : AuthorOK(c)

\* Every step keeps it.
LEMMA AuthorsStep ==
    ASSUME Apart, TypeOK, TypeOK', CursorInv, WorkInv, CanonWhole, RootsInv, FilesWhole,
           AuthorsInv, [Next]_vars
    PROVE  AuthorsInv'
<1>0. Undisturbed /\ RootsRest /\ NoTwins
  BY DEF Apart, NoTwins
<1>1. StoreMoves /\ CanonWhole' /\ WorkInv'
  BY <1>0, MovesStep, WorkStep
<1>2. ASSUME NEW d \in Authors
      PROVE  d \in Client /\ AuthorOK(d) /\ (Alone => PenMoves(d)) /\ WriterOK(d) /\ RequestOK(d) /\ grant[d]
  <2>1. d \in Client
    BY EnvironmentAssumption DEF Authors
  <2>2. Alone => PenMoves(d)
    BY <1>0, <2>1, PenStep DEF AuthorsInv, AuthorOK
  <2>. QED
    BY <2>1, <2>2 DEF AuthorsInv, AuthorOK, WorkInv, RoundOK
<1>3. ASSUME NEW d \in Authors, Own(d)' = Own(d)
      PROVE  AuthorOK(d)'
  <2>1. UNCHANGED <<local[d], cursor[d], role[d], phase[d], page[d], req[d], resp[d], grant[d],
                    queue[d], clock[d]>>
    BY <1>3 DEF Own
  <2>2. Held(req[d].rows)' = Held(req[d].rows) /\ Held(local[d])' = Held(local[d])
    BY <2>1 DEF Held
  <2>3. RoundOK(d)'
    BY <1>2, <2>1, <2>2 DEF RoundOK, AuthorOK, Withdrawn
  <2>4. Alone => StampOK(d)'
    BY <1>2, <2>1, StampStore DEF AuthorOK
  <2>5. ParentsOK(d)'
    BY <1>0, <1>1, <1>2, <2>1, ParentsStore DEF AuthorOK
  <2>6. Follows(local[d], cursor[d], queue[d])'
    BY <1>0, <1>1, <1>2, <2>1, CopyFollows DEF AuthorOK, AgreesOK, WriterOK
  <2>7. Informed(d) => Follows(Coming(d), resp[d].cursor, queue[d] \ req[d].tombs)'
    BY <1>0, <1>1, <1>2, <2>1, ComingFollows DEF AuthorOK, AgreesOK
  <2>8. Informed(d)' = Informed(d)
    BY <2>1 DEF Informed
  <2>. QED
    BY <2>3, <2>4, <2>5, <2>6, <2>7, <2>8 DEF AuthorOK, AgreesOK
<1>4. ASSUME NEW c \in Authors, StepOf(c)
      PROVE  AuthorOK(c)'
  <2>1. c \in Client /\ AuthorOK(c) /\ Dangling(local[c]) = {}
    BY <1>2 DEF FilesWhole
  <2>2. RoundOK(c)'
    BY <1>0, <1>4, <2>1, RoundOwn DEF AuthorOK
  <2>3. CASE ServerStep(c)
    <3>1. PICK a : Reply(c, a)
      BY <2>3 DEF ServerStep, ServeBail, ServeExpired, Serve, ServeFails
    <3>2. UNCHANGED <<local, req, clock>> /\ phase'[c] = "answered"
      BY <2>1, <3>1 DEF Reply, fileVars, worldVars, TypeOK
    <3>3. Alone => StampOK(c)'
      BY <1>2, <2>1, <3>2, StampStore DEF AuthorOK
    <3>4. ParentsOK(c)'
      BY <3>2 DEF ParentsOK
    <3>5. AgreesOK(c)'
      BY <1>1, <2>1, <2>3, AgreesServer DEF AuthorOK
    <3>. QED
      BY <2>2, <3>3, <3>4, <3>5 DEF AuthorOK
  <2>4. CASE ~ServerStep(c)
    <3>1. Alone => StampOK(c)'
      BY <1>0, <1>4, <2>1, <2>4, StampOwn DEF AuthorOK
    <3>2. ParentsOK(c)'
      BY <1>4, <2>1, <2>4, ParentsOwn DEF AuthorOK, AgreesOK
    <3>3. AgreesOK(c)'
      BY <1>4, <2>1, <2>4, AgreesOwn DEF AuthorOK
    <3>. QED
      BY <2>2, <3>1, <3>2, <3>3 DEF AuthorOK
  <2>. QED
    BY <2>3, <2>4
<1>5. CASE UNCHANGED vars \/ Prune
  BY <1>2, <1>3, <1>5, NobodyMoves DEF AuthorsInv
<1>6. ASSUME NEW c \in Client, StepOf(c)
      PROVE  AuthorsInv'
  <2>1. ASSUME NEW d \in Authors
        PROVE  AuthorOK(d)'
    <3>1. CASE d = c
      BY <1>4, <1>6, <3>1
    <3>2. CASE d # c
      BY <1>2, <1>3, <1>6, <3>2, OthersStay
    <3>. QED
      BY <3>1, <3>2
  <2>. QED
    BY <2>1 DEF AuthorsInv
<1>. QED
  BY <1>5, <1>6 DEF Next, StepOf

\* A device that follows the store up to the counter, with nothing to push, has its rows.
LEMMA LevelAuthor ==
    ASSUME TypeOK, CursorInv, WorkInv, RootsRest, NEW c \in Client,
           Alone, Follows(local[c], cursor[c], queue[c]), Drained(c), cursor[c] = counter
    PROVE  Contents(local[c]) = Contents(canon)
<1>1. /\ counter \in Nat /\ pruned = 0 /\ graves \in [Row -> Nat]
      /\ canon \in [Row -> Opt(CanonRow)] /\ local[c] \in [Row -> Opt(LocalRow)]
  BY DEF TypeOK, WorkInv, NeverExpires
<1>2. \A r \in Row : local[c][r] # Nil => ~local[c][r].dirty
  BY DEF Drained, DirtyIn, Held
<1>3. queue[c] = {}
  BY DEF Drained
<1>4. ASSUME NEW r \in Row, canon[r] # Nil
      PROVE  local[c][r] # Nil /\ local[c][r].v = canon[r].v
  BY <1>2, <1>3, <1>4 DEF Follows, CursorInv
<1>5. ASSUME NEW r \in Row, canon[r] = Nil
      PROVE  local[c][r] = Nil
  <2>1. \A p \in Lineage[r] : p \in Row
    BY ShallowLineage, SchemaAssumption
  <2>2. ~Missed(r, counter)
    BY <1>1, <2>1 DEF Missed, CursorInv
  <2>. QED
    BY <1>2, <1>5, <2>2 DEF Follows
<1>. QED
  BY <1>1, <1>4, <1>5, SameContents

\* Whatever is written, pushed, pulled, lost or deleted, every device that writes goes on
\* following the store, and no file holds a row without its parents.
THEOREM AuthorsFollow == Apart => (Spec => [](WorkInv /\ FilesWhole /\ AuthorsInv))
<1> SUFFICES ASSUME Apart PROVE Spec => [](WorkInv /\ FilesWhole /\ AuthorsInv)
  OBVIOUS
<1>0. Undisturbed /\ RootsRest
  BY DEF Apart
<1> DEFINE Inv == WorkInv /\ CanonWhole /\ RootsInv /\ FilesWhole /\ AuthorsInv
<1>1. Init => Inv
  BY <1>0, WorkInit, RootsInit, FilesInit, RoundInit, StampInit, ParentsInit, AgreesInit
     DEF AuthorsInv, AuthorOK
<1>2. TypeOK /\ TypeOK' /\ CursorInv /\ Inv /\ [Next]_vars => Inv'
  BY <1>0, WorkStep, MovesStep, RootsStep, FilesStep, AuthorsStep
<1>3. Inv => WorkInv /\ FilesWhole /\ AuthorsInv
  OBVIOUS
<1> HIDE DEF Inv
<1>. QED
  BY <1>1, <1>2, <1>3, TypeCorrect, CursorsBelowCounter, PTL DEF Spec

\* Once a device has nothing to push and its cursor is the server's counter, it holds exactly
\* the server's rows: no push, pull, echo or deletion of any device was left out.  Where two
\* devices write a row the one whose push loses is not told (DictSyncProps, lost_race).
THEOREM CaughtUpDevicesAgree == Apart /\ Alone => (Spec => []CaughtUpAgrees)
<1> SUFFICES ASSUME Apart, Alone PROVE Spec => []CaughtUpAgrees
  OBVIOUS
<1>0. Undisturbed /\ RootsRest
  BY DEF Apart
<1>1. TypeOK /\ CursorInv /\ ReadersInv /\ WorkInv /\ AuthorsInv => CaughtUpAgrees
  <2> SUFFICES ASSUME TypeOK, CursorInv, ReadersInv, WorkInv, AuthorsInv,
                      NEW c \in Client, Drained(c), cursor[c] = counter
               PROVE  Contents(local[c]) = Contents(canon)
    BY DEF CaughtUpAgrees
  <2>1. CASE c \in Authors
    BY <1>0, <2>1, LevelAuthor DEF AuthorsInv, AuthorOK, AgreesOK
  <2>2. CASE c \notin Authors
    <3>1. c \in Readers
      BY <1>0, <2>2 DEF Readers, Authors, Undisturbed
    <3>. QED
      BY <1>0, <3>1, LevelReader DEF ReadersInv
  <2>. QED
    BY <2>1, <2>2
<1>2. Spec => [](CanonWhole /\ RootsInv /\ ReadersInv)
  BY <1>0, ReadersAreTold
<1>3. Spec => [](WorkInv /\ FilesWhole /\ AuthorsInv)
  BY AuthorsFollow
<1>. QED
  BY <1>1, <1>2, <1>3, TypeCorrect, CursorsBelowCounter, PTL

-------------------------------------------------------------------------------
(* Rounds that cannot fail.                                                 *)

\* Rows others hang from are not deleted while a request is on its way.
StillRoots ==
    \/ \A p \in Phases \ {"idle"} : <<p, "delete">> \notin Racing
    \/ \A c \in Client : Drops[c] \cap Roots = {}

\* No round has failed since the last one that did not, every answer is one, and the
\* transaction that applies it will commit.
SmoothOK(c) ==
    /\ streak[c] = <<"none", 0>>
    /\ phase[c] = "answered" => resp[c].kind = "ok"
    /\ c \in Authors /\ phase[c] = "sent" => queue[c] \cap Roots \subseteq req[c].tombs
    /\ Informed(c) => Dangling(Coming(c)) = {}

SmoothInv == \A c \in Client : SmoothOK(c)

\* Where parents hang from nothing a push never leaves the store in pieces.
LEMMA PushWhole ==
    ASSUME RootsRest, NoTwins, TypeOK, CanonWhole, NEW q \in Request, NEW seq \in Nat
    PROVE  ~PushFails(canon, q, seq)
<1> DEFINE base == Cull(canon, q.tombs)
           new == Pushed(canon, q, seq)
           acc == Accepted(canon, q, seq)
<1>1. canon \in [Row -> Opt(CanonRow)]
  BY DEF TypeOK
<1>2. acc = Held(q.rows) \ Orphans(canon, q, seq)
  BY DEF Accepted
<1>3. /\ Accepted(canon, q, seq) \subseteq Held(q.rows)
      /\ \A x \in Row :
            LET old == Cull(canon, q.tombs)[x]
                upd == Pushed(canon, q, seq)[x]
            IN  /\ \/ upd = old
                   \/ /\ x \in Accepted(canon, q, seq)
                      /\ upd = [v |-> q.rows[x], seq |-> seq]
                /\ x \in Accepted(canon, q, seq) => upd # Nil
                /\ Timely(q) /\ x \in Accepted(canon, q, seq) =>
                      upd = [v |-> q.rows[x], seq |-> seq]
      /\ Orphans(canon, q, seq) =
           {r \in Held(q.rows) : \E p \in Parents[r] :
                p \notin Held(q.rows) /\ Cull(canon, q.tombs)[p] = Nil}
  BY <1>1, PushIs
<1>4. /\ \A x \in Row : x \notin acc => new[x] = base[x]
      /\ \A x \in acc : new[x] # Nil
      /\ acc \subseteq Held(q.rows) /\ Held(q.rows) \subseteq Row
      /\ \A r \in Held(q.rows) : r \in acc <=>
            \A p \in Parents[r] : p \in Held(q.rows) \/ base[p] # Nil
  <2>1. Held(q.rows) \subseteq Row
    BY DEF Held
  <2>. QED
    BY <1>2, <1>3, <2>1
<1> HIDE DEF new, acc
<1>5. SUFFICES ASSUME NEW r \in Row, new[r] # Nil, NEW p \in Parents[r]
               PROVE  new[p] # Nil
  BY <1>5 DEF PushFails, Dangling, Held, new
<1>6. p \in Row /\ Parents[p] = {}
  BY SchemaAssumption DEF RootsRest
<1>7. base[p] # Nil => new[p] # Nil
  BY <1>4, <1>6
<1>8. CASE r \in acc
  <2>1. p \in Held(q.rows) => p \in acc
    BY <1>4, <1>6
  <2>. QED
    BY <1>4, <1>7, <1>8, <2>1
<1>9. CASE r \notin acc
  <2>1. canon[r] # Nil /\ Lineage[r] \cap q.tombs = {}
    BY <1>4, <1>5, <1>9 DEF Cull
  <2>2. canon[p] # Nil /\ Lineage[p] \subseteq Lineage[r]
    <3>1. Lineage[r] = {r} \cup UNION {Lineage[x] : x \in Parents[r]}
      BY LineageIs
    <3>. QED
      BY <2>1, <3>1 DEF CanonWhole
  <2>3. base[p] # Nil
    BY <1>6, <2>1, <2>2 DEF Cull
  <2>. QED
    BY <1>7, <2>3
<1>. QED
  BY <1>8, <1>9

\* A row that an answer leaves in place keeps its parents.
LEMMA KeptParents ==
    ASSUME RootsRest, NEW f \in [Row -> Opt(LocalRow)], NEW q \in Request, NEW a \in Answer,
           NEW e \in BOOLEAN, Sparing(f, q, a, e), Dangling(f) = {},
           NEW r \in Row, a.rows[r] = Nil, Applied(f, q, a, e)[r] # Nil, NEW p \in Parents[r]
    PROVE  Applied(f, q, a, e)[p] # Nil
<1>1. p \in Row /\ Lineage[p] \subseteq Lineage[r]
  <2>1. Lineage[r] = {r} \cup UNION {Lineage[x] : x \in Parents[r]}
    BY LineageIs
  <2>. QED
    BY <2>1, SchemaAssumption
<1>2. RowApplied(f, q, a, e, r) /\ RowApplied(f, q, a, e, p)
  BY <1>1, AppliedIs
<1>3. f[r] # Nil /\ Lineage[r] \cap Condemned(f, q, a) = {}
  BY <1>2 DEF RowApplied
<1>4. f[p] # Nil
  BY <1>3 DEF Dangling, Held
<1>5. [v |-> f[p].v, dirty |-> FALSE] # Nil
  <2>1. f[p].v \in Version
    BY <1>1, <1>4 DEF Opt, LocalRow
  <2>2. [v |-> f[p].v, dirty |-> FALSE] \in [v : Version, dirty : BOOLEAN]
    BY <2>1
  <2>. QED
    BY <2>2, CellAssumption
<1>. QED
  BY <1>1, <1>2, <1>3, <1>4, <1>5 DEF RowApplied

\* What an answer makes of a copy that has changed since is as whole as before, if the
\* rows others hang from have not changed.
LEMMA WholeKeeps ==
    ASSUME RootsRest, NEW f \in [Row -> Opt(LocalRow)], NEW g \in [Row -> Opt(LocalRow)],
           NEW q \in Request, NEW a \in Answer, NEW e \in BOOLEAN, NEW e2 \in BOOLEAN,
           Sparing(f, q, a, e), Sparing(g, q, a, e2), Dangling(g) = {},
           Dangling(Applied(f, q, a, e)) = {},
           \A p \in Roots : g[p] = f[p] \/ Applied(f, q, a, e)[p] = Nil
    PROVE  Dangling(Applied(g, q, a, e2)) = {}
<1> DEFINE old == Applied(f, q, a, e)
           new == Applied(g, q, a, e2)
<1>1. SUFFICES ASSUME NEW r \in Row, new[r] # Nil, NEW p \in Parents[r]
               PROVE  new[p] # Nil
  BY DEF Dangling, Held
<1>2. p \in Row /\ p \in Roots /\ Lineage[p] = {p}
  <2>1. p \in Row /\ p \in Roots /\ Parents[p] = {}
    BY SchemaAssumption DEF Roots, RootsRest
  <2>. QED
    BY <2>1, ShallowLineage
<1>3. CASE a.rows[r] = Nil
  BY <1>1, <1>3, KeptParents
<1>4. CASE a.rows[r] # Nil
  <2>1. /\ RowApplied(f, q, a, e, r)
        /\ RowApplied(f, q, a, e, p) /\ RowApplied(g, q, a, e2, p)
    BY <1>2, AppliedIs
  <2>2. old[r] # Nil
    BY <1>4, <2>1 DEF RowApplied
  <2>3. old[p] # Nil
    BY <2>2 DEF Dangling, Held
  <2>4. g[p] = f[p] /\ \A y \in Lineage[p] : f[y] = g[y]
    BY <1>2, <2>3
  <2> HIDE DEF old, new
  <2>5. new[p] = old[p] \/ (new[p] # Nil /\ old[p] # Nil)
    <3>1. LET x == Applied(f, q, a, e)[p]
              y == Applied(g, q, a, e2)[p]
          IN  y = x \/ (/\ y # Nil /\ x # Nil
                        /\ y.v = x.v /\ (y.dirty <=> x.dirty))
      BY <1>2, <2>1, <2>4, SameComing
    <3>. QED
      BY <3>1 DEF old, new
  <2>. QED
    BY <2>3, <2>5
<1>. QED
  BY <1>3, <1>4

\* A served push answers with rows whose parents are there or come along.
LEMMA ServeWhole ==
    ASSUME Apart, TypeOK, TypeOK', CursorInv, WorkInv, WorkInv', CanonWhole', StoreMoves, RootsInv,
           NEW c \in Authors, AuthorOK(c), Dangling(local[c]) = {}, Serve(c),
           queue[c] \cap Roots \subseteq req[c].tombs
    PROVE  Dangling(Applied(local[c], req[c], resp'[c], role[c])) = {}
<1>0. c \in Client /\ RootsRest /\ NoTwins
  BY EnvironmentAssumption DEF Authors, Apart, NoTwins
<1>1. /\ local[c] \in [Row -> Opt(LocalRow)] /\ resp'[c] \in Answer /\ counter' \in Nat
      /\ req[c] \in Request /\ role[c] \in BOOLEAN
  BY <1>0 DEF TypeOK
<1>2. /\ Sparing(local[c], req[c], resp'[c], role[c])
      /\ \A r \in Row :
           LET y == Applied(local[c], req[c], resp'[c], role[c])[r]
           IN  /\ canon'[r] # Nil =>
                     \/ Lineage[r] \cap (queue[c] \ req[c].tombs) # {}
                     \/ y # Nil /\ (Alone => y.v = canon'[r].v \/ y.dirty)
               /\ canon'[r] = Nil => y = Nil \/ y.dirty
  BY <1>0, <1>1, ServeAgrees DEF AgreesOK, AuthorOK
<1>3. \A r \in Row : resp'[c].rows[r] # Nil => canon'[r] # Nil
  <2>1. req[c].cursor # Nil /\ grant[c]
    <3>1. WriterOK(c) /\ phase[c] = "sent"
      BY <1>0 DEF WorkInv, Serve
    <3>. QED
      BY <3>1 DEF AuthorOK, RoundOK, WriterOK
  <2>2. LET acc == Accepted(canon, req[c], counter + 1)
        IN  /\ canon' = Pushed(canon, req[c], counter + 1)
            /\ resp'[c].kind = "ok" /\ resp'[c].cursor = counter'
            /\ resp'[c].dels = {r \in Row : graves'[r] > req[c].cursor /\ canon'[r] = Nil}
            /\ \A r \in Row : resp'[c].rows[r] =
                  IF canon'[r] # Nil /\ r \notin acc /\ canon'[r].seq > req[c].cursor
                  THEN canon'[r].v ELSE Nil
    BY <1>0, <2>1, ServedIs
  <2>. QED
    BY <2>2
<1>4. SUFFICES ASSUME NEW r \in Row, Applied(local[c], req[c], resp'[c], role[c])[r] # Nil,
                      NEW p \in Parents[r]
               PROVE  Applied(local[c], req[c], resp'[c], role[c])[p] # Nil
  BY DEF Dangling, Held
<1>5. p \in Row /\ p \in Roots /\ Lineage[p] = {p}
  <2>1. p \in Row /\ p \in Roots /\ Parents[p] = {}
    BY <1>0, SchemaAssumption DEF Roots, RootsRest
  <2>. QED
    BY <1>0, <2>1, ShallowLineage
<1>6. CASE resp'[c].rows[r] = Nil
  BY <1>0, <1>1, <1>2, <1>4, <1>6, KeptParents
<1>7. CASE resp'[c].rows[r] # Nil
  <2>1. canon'[p] # Nil
    BY <1>3, <1>7 DEF CanonWhole
  <2>2. Lineage[p] \cap (queue[c] \ req[c].tombs) = {}
    BY <1>5
  <2>. QED
    BY <1>2, <1>5, <2>1, <2>2
<1>. QED
  BY <1>6, <1>7

\* The endpoint answers every request.
LEMMA ServerAnswers ==
    ASSUME Apart, TypeOK, CanonWhole, WorkInv', NEW c \in Client, ServerStep(c)
    PROVE  /\ Serve(c) \/ ServeBail(c)
           /\ phase'[c] = "answered" /\ resp'[c].kind = "ok"
           /\ UNCHANGED <<local, req, queue, role, streak>>
<1>0. RootsRest /\ NoTwins
  BY DEF Apart, NoTwins
<1>1. ~ServeFails(c)
  <2>1. Granted(req[c], grant[c]) \in Request /\ counter + 1 \in Nat
    BY GrantedType DEF TypeOK
  <2>. QED
    BY <1>0, <2>1, PushWhole DEF ServeFails
<1>2. ~ServeExpired(c)
  <2>1. ServeExpired(c) => resp'[c].kind = "expired"
    BY DEF ServeExpired, Reply, NoAnswer, TypeOK
  <2>. QED
    BY <2>1 DEF WorkInv, NeverExpires
<1>3. CASE Serve(c)
  BY <1>3 DEF Serve, Reply, FullAnswer, TypeOK, fileVars, engineVars
<1>4. CASE ServeBail(c)
  BY <1>4 DEF ServeBail, Reply, BailAnswer, NoAnswer, TypeOK, fileVars, engineVars
<1>. QED
  BY <1>1, <1>2, <1>3, <1>4 DEF ServerStep

\* So the answer to any device can be applied.
LEMMA SmoothServer ==
    ASSUME Apart, TypeOK, TypeOK', CursorInv, WorkInv, WorkInv', CanonWhole, CanonWhole', StoreMoves,
           RootsInv, FilesWhole, AuthorsInv, ReadersInv,
           NEW c \in Client, SmoothOK(c), ServerStep(c)
    PROVE  SmoothOK(c)'
<1>0. RootsRest /\ Undisturbed
  BY DEF Apart
<1>1. /\ Serve(c) \/ ServeBail(c)
      /\ phase'[c] = "answered" /\ resp'[c].kind = "ok" /\ phase[c] = "sent"
      /\ UNCHANGED <<local, req, queue, role, streak>>
  BY ServerAnswers DEF Serve, ServeBail
<1>2. /\ local[c] \in [Row -> Opt(LocalRow)] /\ resp'[c] \in Answer
      /\ req[c] \in Request /\ role[c] \in BOOLEAN
  BY DEF TypeOK
<1>3. Coming(c)' = Applied(local[c], req[c], resp'[c], role[c])
  BY <1>1 DEF Coming
<1>4. CASE c \in Authors
  <2>1. AuthorOK(c) /\ Dangling(local[c]) = {} /\ RequestOK(c) /\ WriterOK(c) /\ grant[c]
    BY <1>4 DEF AuthorsInv, FilesWhole, WorkInv, AuthorOK, RoundOK
  <2>2. CASE Serve(c)
    BY <1>1, <1>3, <1>4, <2>1, <2>2, ServeWhole DEF SmoothOK, Informed
  <2>3. CASE ServeBail(c)
    <3>1. FastBail(req[c], TRUE, counter) /\ resp'[c] = BailAnswer(req[c], TRUE)
      <4>1. grant[c] = TRUE
        BY <2>1 DEF TypeOK
      <4>2. FastBail(req[c], grant[c], counter) /\ resp'[c] = BailAnswer(req[c], grant[c])
        BY <2>3 DEF ServeBail, Reply, TypeOK
      <4>. QED
        BY <4>1, <4>2
    <3>2. resp'[c].rows = NoRows
      BY <3>1 DEF BailAnswer, NoAnswer
    <3>3. Held(req[c].rows) = {} /\ req[c].cursor # Nil
      BY <3>1 DEF FastBail, Granted
    <3>4. Sparing(local[c], req[c], resp'[c], role[c])
      BY <2>1, <3>2, <3>3, Blanks DEF Sparing, RequestOK
    <3>5. \A r \in Row : resp'[c].rows[r] = Nil
      BY <3>2, Blanks
    <3>6. Dangling(Applied(local[c], req[c], resp'[c], role[c])) = {}
      BY <1>0, <1>2, <2>1, <3>4, <3>5, KeptParents DEF Dangling, Held
    <3>. QED
      BY <1>1, <1>3, <3>6 DEF SmoothOK
  <2>. QED
    BY <1>1, <2>2, <2>3
<1>5. CASE c \notin Authors
  <2>1. c \in Readers
    BY <1>0, <1>5 DEF Readers, Authors, Undisturbed
  <2>2. canon' = canon /\ Contents(Applied(local[c], req[c], resp'[c], FALSE)) = Contents(canon)
    BY <1>0, <1>1, <2>1, AnswerCompletes DEF ReadersInv
  <2>3. role[c] = FALSE
    BY <1>5 DEF RootsInv, RootsOK, TypeOK
  <2> DEFINE end == Applied(local[c], req[c], resp'[c], FALSE)
  <2>4. end \in [Row -> Opt(LocalRow)] /\ canon \in [Row -> Opt(CanonRow)]
    BY <1>2, AppliedType DEF TypeOK
  <2> HIDE DEF end
  <2>5. \A r \in Row : end[r] = Nil <=> canon[r] = Nil
    BY <2>2, <2>4, SameContents DEF end
  <2>6. Dangling(end) = {}
    BY <2>5, SchemaAssumption DEF Dangling, Held, CanonWhole
  <2>. QED
    BY <1>1, <1>3, <1>5, <2>3, <2>6 DEF SmoothOK, end
<1>. QED
  BY <1>4, <1>5

\* The user writes while a request is on its way.
LEMMA SmoothUser ==
    ASSUME Apart, StillRoots, TypeOK, TypeOK', WorkInv, CanonWhole, RootsInv, FilesWhole, AuthorsInv,
           NEW c \in Client, SmoothOK(c), UserStep(c)
    PROVE  SmoothOK(c)'
<1>0. RootsRest /\ Undisturbed
  BY DEF Apart
<1>1. PICK x \in Row : Insert(c, x) \/ Edit(c, x) \/ Drop(c, x)
  BY DEF UserStep
<1>2. UNCHANGED <<cursor, phase, req, resp, role, streak>> /\ role[c]
  BY <1>1, WriteIs, DropIs DEF engineVars, roundVars
<1>3. c \in Authors /\ AuthorOK(c) /\ Dangling(local[c]) = {} /\ Dangling(local'[c]) = {}
  <2>1. c \in Authors
    BY <1>2 DEF RootsInv, RootsOK
  <2>2. Dangling(local'[c]) = {}
    BY FilesOwn DEF FilesWhole, StepOf
  <2>. QED
    BY <2>1, <2>2 DEF AuthorsInv, FilesWhole
<1>4. ASSUME phase[c] # "idle", Drop(c, x)
      PROVE  x \notin Roots
  <2>1. phase[c] \in Phases \ {"idle"}
    BY <1>4 DEF TypeOK
  <2>. QED
    BY <1>4, <2>1 DEF Drop, MayWrite, StillRoots
<1>5. phase[c] = "sent" => queue'[c] \cap Roots \subseteq req[c].tombs
  <2>0. phase[c] = "sent" => queue[c] \cap Roots \subseteq req[c].tombs
    BY <1>3 DEF SmoothOK
  <2>1. CASE Insert(c, x) \/ Edit(c, x)
    <3>1. queue' = queue
      BY <2>1 DEF Insert, Edit
    <3>. QED
      BY <2>0, <3>1
  <2>2. CASE Drop(c, x)
    <3>1. queue'[c] \subseteq queue[c] \cup {x}
      BY <2>2 DEF Drop, TypeOK
    <3>. QED
      BY <1>4, <2>0, <2>2, <3>1
  <2>. QED
    BY <1>1, <2>1, <2>2
<1>6. ASSUME Informed(c)
      PROVE  Dangling(Applied(local'[c], req[c], resp[c], role[c])) = {}
  <2>1. /\ Sparing(local[c], req[c], resp[c], role[c])
        /\ local[c] \in [Row -> Opt(LocalRow)] /\ local'[c] \in [Row -> Opt(LocalRow)]
        /\ req[c] \in Request /\ resp[c] \in Answer /\ role[c] \in BOOLEAN
    <3>1. local'[c] \in [Row -> Opt(LocalRow)]
      BY DEF TypeOK
    <3>. QED
      BY <1>3, <1>6, <3>1, Spares DEF AuthorOK
  <2>2. phase[c] = "answered" /\ Dangling(Applied(local[c], req[c], resp[c], role[c])) = {}
    BY <1>6 DEF Informed, SmoothOK, Coming
  <2>3. CASE Insert(c, x)
    <3>1. \A r \in Row \ {x} : local'[c][r] = local[c][r]
      BY <2>3, WriteIs
    <3>2. local[c][x] = Nil /\ req[c].rows[x] = Nil /\ resp[c].rows[x] = Nil
      BY <2>3 DEF Insert, WorkInv, Unknown
    <3>3. Sparing(local'[c], req[c], resp[c], role[c])
      <4>1. \A r \in Row : local'[c][r] # Nil /\ local'[c][r].dirty /\ r \notin Held(req[c].rows) =>
                             resp[c].rows[r] = Nil
        BY <2>1, <3>1, <3>2 DEF Sparing
      <4>. QED
        BY <2>1, <4>1 DEF Sparing
    <3>4. Applied(local[c], req[c], resp[c], role[c])[x] = Nil
      <4>1. RowApplied(local[c], req[c], resp[c], role[c], x)
        BY <2>1, AppliedIs
      <4>. QED
        BY <3>2, <4>1 DEF RowApplied
    <3>5. \A p \in Roots : \/ local'[c][p] = local[c][p]
                           \/ Applied(local[c], req[c], resp[c], role[c])[p] = Nil
      <4>1. Roots \subseteq Row
        BY SchemaAssumption DEF Roots
      <4>. QED
        BY <3>1, <3>4, <4>1
    <3>. QED
      BY <1>0, <1>3, <2>1, <2>2, <3>3, <3>5, WholeKeeps
  <2>4. CASE Drop(c, x)
    <3>1. \A r \in Row : local'[c][r] = IF x \in Lineage[r] THEN Nil ELSE local[c][r]
      BY <2>4, DropIs
    <3>2. Sparing(local'[c], req[c], resp[c], role[c])
      BY <2>1, <3>1 DEF Sparing
    <3>3. \A p \in Roots : local'[c][p] = local[c][p]
      <4>1. \A p \in Roots : p \in Row /\ Lineage[p] = {p}
        <5>1. \A p \in Roots : p \in Row /\ Parents[p] = {}
          BY <1>0, SchemaAssumption DEF Roots, RootsRest
        <5>. QED
          BY <1>0, <5>1, ShallowLineage
      <4>2. x \notin Roots
        BY <1>4, <2>2, <2>4
      <4>. QED
        BY <3>1, <4>1, <4>2
    <3>. QED
      BY <1>0, <1>3, <2>1, <2>2, <3>2, <3>3, WholeKeeps
  <2>5. ~Edit(c, x)
    BY <1>0, <2>2 DEF Edit, MayWrite, Undisturbed, Phases
  <2>. QED
    BY <1>1, <2>3, <2>4, <2>5
<1>7. /\ Coming(c)' = Applied(local'[c], req[c], resp[c], role[c]) /\ Informed(c)' = Informed(c)
      /\ SmoothOK(c) /\ phase'[c] = phase[c] /\ resp'[c] = resp[c] /\ streak'[c] = streak[c]
      /\ req'[c] = req[c]
  BY <1>2 DEF Coming, Informed
<1> HIDE DEF Coming, Informed
<1>. QED
  BY <1>5, <1>6, <1>7 DEF SmoothOK

\* The device's engine moves: whatever it had in hand, nothing it awaits can fail.
LEMMA SmoothEngine ==
    ASSUME Apart, TypeOK, WorkInv, NEW c \in Client, c \in Authors => RoundOK(c), SmoothOK(c),
           \/ BeginPush(c) \/ ReadPage(c) \/ SendPush(c) \/ SendPull(c)
           \/ Apply(c) \/ Lose(c) \/ Reload(c)
    PROVE  SmoothOK(c)'
<1>0. \A x : phase' = [phase EXCEPT ![c] = x] => phase'[c] = x
  BY DEF TypeOK
<1>1. SUFFICES /\ streak'[c] = <<"none", 0>>
               /\ phase'[c] # "answered"
               /\ c \in Authors /\ phase'[c] = "sent" => queue'[c] \subseteq req'[c].tombs
  BY DEF SmoothOK, Informed
<1>2. CASE BeginPush(c) \/ ReadPage(c)
  BY <1>2 DEF BeginPush, ReadPage, SmoothOK, TypeOK, engineVars
<1>3. CASE SendPush(c)
  <2>1. queue' = queue /\ req'[c].tombs = queue[c] /\ streak' = streak /\ phase'[c] = "sent"
    BY <1>3 DEF SendPush, TypeOK, fileVars, engineVars, Request
  <2>. QED
    BY <2>1 DEF SmoothOK
<1>4. CASE SendPull(c)
  <2>1. queue' = queue /\ streak' = streak /\ phase'[c] = "sent" /\ ~role[c]
    BY <1>4 DEF SendPull, TypeOK, fileVars
  <2>2. c \in Authors => queue[c] = {}
    BY <2>1 DEF RoundOK
  <2>. QED
    BY <2>1, <2>2 DEF SmoothOK
<1>5. CASE Apply(c) \/ Lose(c) \/ Reload(c)
  BY <1>5 DEF Apply, Lose, Reload, EndRound, TypeOK
<1>. QED
  BY <1>2, <1>3, <1>4, <1>5

\* A device is promoted with an answer in flight.
LEMMA SmoothGrant ==
    ASSUME Apart, TypeOK, WorkInv, RootsInv, FilesWhole, AuthorsInv,
           NEW c \in Client, SmoothOK(c), SetRole(c)
    PROVE  SmoothOK(c)'
<1>0. RootsRest
  BY DEF Apart
<1>1. /\ UNCHANGED <<local, queue, req, resp, phase, streak>>
      /\ role'[c] = TRUE /\ grant[c] /\ ~role[c]
  BY DEF SetRole, TypeOK, fileVars, roundVars
<1>2. c \in Authors /\ RoundOK(c) /\ Dangling(local[c]) = {}
  BY <1>1 DEF RootsInv, RootsOK, AuthorsInv, AuthorOK, FilesWhole
<1>3. ASSUME Informed(c)
      PROVE  Dangling(Applied(local[c], req[c], resp[c], TRUE)) = {}
  <2>1. /\ Sparing(local[c], req[c], resp[c], role[c])
        /\ local[c] \in [Row -> Opt(LocalRow)] /\ req[c] \in Request /\ resp[c] \in Answer
        /\ role[c] \in BOOLEAN
    BY <1>2, <1>3, Spares
  <2>2. Sparing(local[c], req[c], resp[c], TRUE)
    BY <2>1 DEF Sparing
  <2>3. Dangling(Applied(local[c], req[c], resp[c], role[c])) = {}
    BY <1>3 DEF SmoothOK, Coming
  <2>. QED
    BY <1>0, <1>2, <2>1, <2>2, <2>3, WholeKeeps
<1>4. Coming(c)' = Applied(local[c], req[c], resp[c], TRUE) /\ Informed(c)' = Informed(c)
  BY <1>1 DEF Coming, Informed
<1> HIDE DEF Coming, Informed
<1>. QED
  BY <1>1, <1>3, <1>4 DEF SmoothOK

\* No step of a device fails, or leaves it with an answer that will.
LEMMA SmoothOwn ==
    ASSUME Apart, StillRoots, TypeOK, TypeOK', CursorInv, WorkInv, WorkInv', CanonWhole, CanonWhole',
           StoreMoves, RootsInv, FilesWhole, AuthorsInv, ReadersInv,
           NEW c \in Client, SmoothOK(c), StepOf(c)
    PROVE  SmoothOK(c)'
<1>0. NoTwins /\ Undisturbed
  BY DEF Apart, NoTwins
<1>1. ~ServerFault(c)
  BY DEF ServerFault, Fail, SmoothOK
<1>2. ~ApplyClashes(c)
  BY <1>0, Twinless DEF ApplyClashes, UniqueClash, Held
<1>3. ~ApplyDangles(c)
  BY DEF ApplyDangles, FkClash, Fail, SmoothOK, Informed, Coming
<1>4. ~LearnExpired(c) /\ ~Reset(c) /\ ~Revoke(c)
  BY <1>0 DEF LearnExpired, Reset, Revoke, Undisturbed, WorkInv, NeverExpires
<1>5. c \in Authors => RoundOK(c)
  BY DEF AuthorsInv, AuthorOK
<1>. QED
  BY <1>1, <1>2, <1>3, <1>4, <1>5, SmoothUser, SmoothServer, SmoothEngine, SmoothGrant
     DEF StepOf, EngineStep, AnswerStep

LEMMA SmoothStep ==
    ASSUME Apart, StillRoots, TypeOK, TypeOK', CursorInv, WorkInv, CanonWhole, RootsInv, FilesWhole,
           AuthorsInv, ReadersInv, SmoothInv, [Next]_vars
    PROVE  SmoothInv'
<1>0. Undisturbed /\ RootsRest
  BY DEF Apart
<1>1. StoreMoves /\ CanonWhole' /\ WorkInv'
  BY <1>0, MovesStep, WorkStep
<1>2. ASSUME NEW d \in Client, Own(d)' = Own(d)
      PROVE  SmoothOK(d)'
  <2>1. UNCHANGED <<local[d], role[d], phase[d], req[d], resp[d], queue[d], streak[d]>>
    BY <1>2 DEF Own
  <2>2. Coming(d)' = Coming(d) /\ Informed(d)' = Informed(d)
    BY <2>1 DEF Coming, Informed
  <2>3. SmoothOK(d)
    BY DEF SmoothInv
  <2> HIDE DEF Coming, Informed
  <2>. QED
    BY <2>1, <2>2, <2>3 DEF SmoothOK
<1>3. CASE UNCHANGED vars \/ Prune
  BY <1>2, <1>3, NobodyMoves DEF SmoothInv
<1>4. ASSUME NEW c \in Client, StepOf(c)
      PROVE  SmoothInv'
  <2>1. SmoothOK(c)'
    BY <1>1, <1>4, SmoothOwn DEF SmoothInv
  <2>2. \A d \in Client \ {c} : SmoothOK(d)'
    BY <1>2, <1>4, OthersStay
  <2>. QED
    BY <2>1, <2>2 DEF SmoothInv
<1>. QED
  BY <1>3, <1>4 DEF Next, StepOf

\* No round fails in the same way twice in a row, so the breaker and the rebuild of the local
\* file stay idle: where natural keys are apart and rows others hang from are not deleted
\* while a round is on its way, no answer fails to apply and no push fails at the server.
THEOREM NoRoundFails == Apart /\ StillRoots => (Spec => []NoRepeatFailure)
<1> SUFFICES ASSUME Apart, StillRoots PROVE Spec => []NoRepeatFailure
  OBVIOUS
<1>0. RootsRest
  BY DEF Apart
<1>1. Init => SmoothInv
  BY DEF Init, SmoothInv, SmoothOK, Informed
<1>2. /\ TypeOK /\ TypeOK' /\ CursorInv /\ (CanonWhole /\ RootsInv /\ ReadersInv)
      /\ (WorkInv /\ FilesWhole /\ AuthorsInv) /\ SmoothInv /\ [Next]_vars
      => SmoothInv'
  BY SmoothStep
<1>3. SmoothInv => NoRepeatFailure
  <2>1. <<"none", 0>>[2] < 2
    OBVIOUS
  <2>. QED
    BY <2>1 DEF SmoothInv, SmoothOK, NoRepeatFailure
<1>4. Spec => [](CanonWhole /\ RootsInv /\ ReadersInv)
  BY <1>0, ReadersAreTold
<1>5. Spec => [](WorkInv /\ FilesWhole /\ AuthorsInv)
  BY AuthorsFollow
<1>. QED
  BY <1>1, <1>2, <1>3, <1>4, <1>5, TypeCorrect, CursorsBelowCounter, PTL DEF Spec

-------------------------------------------------------------------------------
(* What is refused.                                                         *)

\* The rows there ever are.
Native == Seed \cup Written

\* The store holds no others, and what it lost of the seed others hang from has a tombstone.
SeedKept ==
    /\ Held(canon) \subseteq Native
    /\ \A p \in Roots \cap Seed : canon[p] # Nil \/ graves[p] > 0

\* Nor does a device that writes, and what it pushes hangs from such rows.
NativeOK(c) ==
    /\ Held(local[c]) \subseteq Native /\ Held(resp[c].rows) \subseteq Native
    /\ Held(req[c].rows) \subseteq Native
    /\ \A r \in Held(req[c].rows) : Parents[r] \subseteq Native

\* What the answer in flight refuses hangs from something deleted.
RefusedOK(c) ==
    phase[c] = "answered" /\ grant[c] =>
        \A r \in resp[c].rejected \cap Held(req[c].rows) : \E p \in Lineage[r] : graves[p] > 0

RefusedInv == SeedKept /\ \A c \in Authors : NativeOK(c) /\ RefusedOK(c)


\* An author's own steps bring in no other rows.
LEMMA NativeOwn ==
    ASSUME Undisturbed, TypeOK, WorkInv, FilesWhole, NEW c \in Authors, RoundOK(c),
           NativeOK(c), StepOf(c), ~ServerStep(c)
    PROVE  NativeOK(c)'
<1>0. c \in Client
  BY EnvironmentAssumption DEF Authors
<1>1. RequestOK(c) /\ WriterOK(c) /\ phase[c] # "resetting" /\ resp[c].kind # "expired"
  BY <1>0 DEF WorkInv, NeverExpires
<1>2. CASE UserStep(c)
  <2>1. PICK r \in Row : Insert(c, r) \/ Edit(c, r) \/ Drop(c, r)
    BY <1>2 DEF UserStep
  <2>2. UNCHANGED <<req, resp>> /\ Held(local'[c]) \subseteq Held(local[c]) \cup Pen(c)
    <3>1. CASE Drop(c, r)
      BY <1>0, <3>1, DropIs DEF Held, roundVars
    <3>2. CASE Insert(c, r) \/ Edit(c, r)
      BY <1>0, <3>2, WriteIs DEF Held, roundVars
    <3>. QED
      BY <2>1, <3>1, <3>2
  <2>3. Pen(c) \subseteq Native
    BY <1>0 DEF Native, Written
  <2>. QED
    BY <2>2, <2>3 DEF NativeOK, Held
<1>3. CASE BeginPush(c) \/ ReadPage(c)
  <2>1. PICK rows, n : /\ req'[c].rows = Read(c, rows, OnPage(n))
                       /\ rows = NoRows \/ rows = req[c].rows
    <3>1. CASE BeginPush(c)
      BY <1>0, <3>1 DEF BeginPush, TypeOK, NoRequest
    <3>2. CASE ReadPage(c)
      BY <1>0, <3>2 DEF ReadPage, TypeOK, Request
    <3>. QED
      BY <1>3, <3>1, <3>2
  <2>2. UNCHANGED <<local, resp>>
    BY <1>3 DEF BeginPush, ReadPage, fileVars
  <2>3. Held(req'[c].rows) = Held(rows) \cup DirtyIn(c, OnPage(n))
    BY <1>0, <2>1, ReadHolds
  <2>4. Held(rows) \subseteq Held(req[c].rows)
    BY <2>1, Blanks
  <2>5. \A r \in DirtyIn(c, OnPage(n)) : r \in Held(local[c]) /\ Parents[r] \subseteq Held(local[c])
    <3>1. \A r \in Row : Parents[r] \subseteq Row
      BY SchemaAssumption
    <3>. QED
      BY <1>0, <3>1 DEF FilesWhole, Dangling, DirtyIn, Held
  <2>6. \A r \in Held(req'[c].rows) : r \in Native /\ Parents[r] \subseteq Native
    BY <2>3, <2>4, <2>5 DEF NativeOK
  <2>7. Held(local[c])' = Held(local[c]) /\ Held(resp[c].rows)' = Held(resp[c].rows)
        /\ Held(req[c].rows)' = Held(req'[c].rows) /\ Native' = Native
    BY <2>2 DEF Held, Native, Written, Pen
  <2>. QED
    BY <2>6, <2>7 DEF NativeOK
<1>4. CASE SendPush(c) \/ SetRole(c)
  <2>1. req'[c].rows = req[c].rows /\ local' = local /\ resp' = resp
    BY <1>0, <1>4 DEF SendPush, SetRole, TypeOK, Request, fileVars, roundVars
  <2>. QED
    BY <2>1 DEF NativeOK, Held, Native, Written, Pen
<1>5. CASE SendPull(c)
  <2>1. req'[c].rows = NoRows /\ local' = local /\ resp' = resp
    BY <1>0, <1>5 DEF SendPull, NoRequest, TypeOK, fileVars
  <2>. QED
    BY <2>1 DEF NativeOK, Held, Native, Written, Pen, NoRows
<1>6. CASE Apply(c)
  <2>1. /\ local'[c] = Coming(c) /\ req'[c] = NoRequest /\ resp'[c] = NoAnswer /\ Informed(c)
    BY <1>0, <1>6 DEF Apply, EndRound, TypeOK, Coming, Informed
  <2>2. ASSUME NEW r \in Row, Coming(c)[r] # Nil
        PROVE  r \in Native
    <3>1. resp[c].rows[r] # Nil \/ local[c][r] # Nil
      BY <1>0, <2>1, <2>2, ComingIs DEF RowApplied, Coming
    <3>. QED
      BY <3>1 DEF NativeOK, Held
  <2>3. Held(local[c])' \subseteq Native /\ Native' = Native
    BY <2>1, <2>2 DEF Held, Native, Written, Pen
  <2>4. Held(req[c].rows)' = {} /\ Held(resp[c].rows)' = {}
    BY <2>1, Blanks DEF Held, NoAnswer
  <2>. QED
    BY <2>3, <2>4 DEF NativeOK
<1>7. CASE ServerFault(c) \/ ApplyClashes(c) \/ ApplyDangles(c) \/ Lose(c) \/ Reload(c)
  <2>1. local' = local /\ req'[c] = NoRequest /\ resp'[c] = NoAnswer
    BY <1>0, <1>7 DEF ServerFault, ApplyClashes, ApplyDangles, Fail, Lose, Reload, EndRound, TypeOK,
                fileVars
  <2>2. Held(req[c].rows)' = {} /\ Held(resp[c].rows)' = {}
    BY <2>1, Blanks DEF Held, NoAnswer
  <2>. QED
    BY <2>1, <2>2 DEF NativeOK, Held, Native, Written, Pen
<1>8. ~LearnExpired(c) /\ ~Reset(c) /\ ~Revoke(c)
  BY <1>0, <1>1 DEF LearnExpired, Reset, Revoke, Undisturbed
<1>. QED
  BY <1>2, <1>3, <1>4, <1>5, <1>6, <1>7, <1>8 DEF StepOf, EngineStep, AnswerStep

\* An answer that the transaction did not make carries nothing.
LEMMA ShortAnswers ==
    ASSUME TypeOK, NEW c \in Client, ServeBail(c) \/ ServeExpired(c) \/ ServeFails(c)
    PROVE  resp'[c].rows = NoRows /\ (grant[c] => resp'[c].rejected = {})
<1>1. CASE ServeBail(c)
  <2>1. resp'[c] = BailAnswer(req[c], grant[c])
    BY <1>1 DEF ServeBail, Reply, TypeOK
  <2>. QED
    BY <2>1 DEF BailAnswer, NoAnswer
<1>2. CASE ServeExpired(c) \/ ServeFails(c)
  <2>1. resp'[c] = NoAnswer \/ resp'[c] = [NoAnswer EXCEPT !.kind = "expired"]
    BY <1>2 DEF ServeExpired, ServeFails, Reply, TypeOK
  <2>. QED
    BY <2>1 DEF NoAnswer
<1>. QED
  BY <1>1, <1>2

\* An answer hands on rows of the store.
LEMMA NativeServer ==
    ASSUME NoTwins, TypeOK, NEW c \in Authors, NativeOK(c), SeedKept', ServerStep(c)
    PROVE  NativeOK(c)'
<1>0. c \in Client
  BY EnvironmentAssumption DEF Authors
<1>1. UNCHANGED <<local, req>>
  BY DEF ServerStep, ServeBail, ServeExpired, Serve, ServeFails, Reply, fileVars
<1>2. Held(resp'[c].rows) \subseteq Held(canon')
  <2>1. CASE Serve(c)
    <3>1. PICK S, E : resp'[c].rows = Changes(canon', req[c].cursor, S, E)
      BY <1>0, <2>1 DEF Serve, Reply, FullAnswer, TypeOK
    <3>. QED
      BY <3>1 DEF Changes, Held
  <2>2. CASE ServeBail(c) \/ ServeExpired(c) \/ ServeFails(c)
    BY <1>0, <2>2, ShortAnswers, Blanks
  <2>. QED
    BY <2>1, <2>2 DEF ServerStep
<1>3. /\ Held(local[c])' = Held(local[c]) /\ Held(req[c].rows)' = Held(req[c].rows)
      /\ Held(resp[c].rows)' = Held(resp'[c].rows) /\ Native' = Native /\ Held(canon)' = Held(canon')
  BY <1>1 DEF Held, Native, Written, Pen
<1>. QED
  BY <1>2, <1>3 DEF NativeOK, SeedKept

\* The store takes rows from devices that write, and lets none of the seed go without a tombstone.
LEMMA SeedStep ==
    ASSUME NoTwins, RootsRest, TypeOK, TypeOK', WorkInv', RootsInv, StoreMoves, SeedKept,
           \A d \in Authors : NativeOK(d), [Next]_vars
    PROVE  SeedKept'
<1>1. ASSUME NEW r \in Row, canon'[r] # Nil
      PROVE  r \in Native
  <2>1. CASE \E d \in Client : Serve(d)
    <3>1. PICK d \in Client : Serve(d)
      BY <2>1
    <3>2. \/ canon'[r] \in {canon[r], Nil}
          \/ grant[d] /\ r \in Held(req[d].rows)
      BY <3>1, ServeWrites
    <3>3. grant[d] => d \in Authors
      BY DEF RootsInv, RootsOK
    <3>. QED
      BY <1>1, <3>2, <3>3 DEF SeedKept, NativeOK, Held
  <2>2. CASE \A d \in Client : ~Serve(d)
    <3>1. canon' = canon
      <4>1. CASE Prune
        BY <4>1 DEF Prune
      <4>2. CASE ~Prune
        BY <2>2, <4>2, QuietStep DEF serverVars
      <4>. QED
        BY <4>1, <4>2
    <3>. QED
      BY <1>1, <3>1 DEF SeedKept, Held
  <2>. QED
    BY <2>1, <2>2
<1>2. ASSUME NEW p \in Roots \cap Seed
      PROVE  canon'[p] # Nil \/ graves'[p] > 0
  <2>1. p \in Row /\ Parents[p] = {}
    BY SchemaAssumption DEF Roots, RootsRest
  <2>2. Lineage[p] = {p}
    BY <2>1, ShallowLineage
  <2>3. counter \in Nat /\ graves \in [Row -> Nat] /\ graves' \in [Row -> Nat] /\ pruned' = 0
    BY DEF TypeOK, WorkInv, NeverExpires
  <2>4. CASE canon[p] # Nil
    BY <2>1, <2>2, <2>3, <2>4 DEF StoreMoves
  <2>5. CASE graves[p] > 0
    BY <2>1, <2>3, <2>5 DEF StoreMoves
  <2>. QED
    BY <2>4, <2>5 DEF SeedKept
<1>3. Held(canon)' \subseteq Native /\ Native' = Native /\ Roots' = Roots
  BY <1>1 DEF Held, Native, Written, Pen, Roots
<1>. QED
  BY <1>2, <1>3 DEF SeedKept


\* The rows of a push that are refused.
LEMMA RefusedAre ==
    ASSUME NoTwins, NEW q \in Request, NEW seq \in Nat, canon \in [Row -> Opt(CanonRow)]
    PROVE  /\ \A S : S \subseteq Row => Losers(Cull(canon, q.tombs), S) = {}
           /\ Accepted(canon, q, seq) \subseteq Held(q.rows)
           /\ \A x \in Orphans(canon, q, seq) : \E p \in Parents[x] :
                p \notin Held(q.rows) /\ Cull(canon, q.tombs)[p] = Nil
<1>1. \A S : S \subseteq Row => Losers(Cull(canon, q.tombs), S) = {}
  BY PushIs
<1>2. Accepted(canon, q, seq) \subseteq Held(q.rows)
  BY PushIs
<1>3. Orphans(canon, q, seq) =
        {r \in Held(q.rows) : \E p \in Parents[r] :
             p \notin Held(q.rows) /\ Cull(canon, q.tombs)[p] = Nil}
  BY PushIs
<1>. QED
  BY <1>1, <1>2, <1>3

\* A push is refused for a row that hangs from something deleted.
LEMMA RefusedServe ==
    ASSUME Apart, TypeOK, TypeOK', WorkInv, WorkInv', RootsInv, StoreMoves, SeedKept, NEW c \in Authors,
           ParentsOK(c), NativeOK(c), Serve(c), grant[c],
           NEW r \in resp'[c].rejected \cap Held(req[c].rows)
    PROVE  \E p \in Lineage[r] : graves'[p] > 0
<1> DEFINE q == req[c]
           seq == counter + 1
<1>0. c \in Client /\ NoTwins /\ RootsRest
  BY EnvironmentAssumption DEF Authors, Apart, NoTwins
<1>1. q \in Request /\ seq \in Nat /\ seq > 0 /\ canon \in [Row -> Opt(CanonRow)] /\ counter \in Nat
      /\ graves \in [Row -> Nat] /\ graves' \in [Row -> Nat] /\ pruned' = 0
  BY <1>0 DEF TypeOK, WorkInv, NeverExpires
<1>2. Granted(q, grant[c]) = q /\ q = req[c]
  BY DEF Granted
<1>3. /\ graves' = Graves(graves, canon, q, seq) /\ phase[c] = "sent"
      /\ resp'[c].rejected = Losers(Cull(canon, q.tombs), Accepted(canon, q, seq)) \cup Orphans(canon, q, seq)
  <2>1. /\ graves' = Graves(graves, canon, q, seq) /\ phase[c] = "sent"
        /\ resp'[c] = FullAnswer(canon, canon', graves', req[c], grant[c], seq, counter')
    BY <1>0, <1>2 DEF Serve, Reply, TypeOK
  <2>. QED
    BY <1>2, <2>1 DEF FullAnswer
<1> HIDE DEF q, seq
<1>4. /\ \A S : S \subseteq Row => Losers(Cull(canon, q.tombs), S) = {}
      /\ Accepted(canon, q, seq) \subseteq Held(q.rows)
      /\ \A x \in Orphans(canon, q, seq) : \E p \in Parents[x] :
           p \notin Held(q.rows) /\ Cull(canon, q.tombs)[p] = Nil
  BY <1>0, <1>1, RefusedAre
<1>5. Held(q.rows) \subseteq Row
  BY DEF Held
<1>6. r \in Orphans(canon, q, seq)
  <2>1. Accepted(canon, q, seq) \subseteq Row
    BY <1>4, <1>5
  <2>. QED
    BY <1>3, <1>4, <2>1
<1>7. PICK p \in Parents[r] : p \notin Held(q.rows) /\ Cull(canon, q.tombs)[p] = Nil
  BY <1>4, <1>6
<1>8. r \in Row /\ p \in Row /\ p \in Roots /\ Parents[p] = {} /\ p \in Native
  BY <1>0, <1>5, <1>2, SchemaAssumption DEF Roots, RootsRest, NativeOK
<1>9. Lineage[p] = {p} /\ p \in Lineage[r]
  BY <1>8, ShallowLineage, LineageIs
<1>10. CASE canon[p] # Nil
  <2>1. p \in q.tombs
    BY <1>7, <1>8, <1>9, <1>10 DEF Cull
  <2>2. graves'[p] = seq
    BY <1>3, <1>8, <2>1 DEF Graves, Buried
  <2>. QED
    BY <1>1, <1>9, <2>2
<1>11. CASE canon[p] = Nil
  <2>1. p \notin Written
    BY <1>3, <1>5, <1>7, <1>11, <1>2 DEF ParentsOK, Arrives
  <2>2. graves[p] > 0
    BY <1>8, <1>11, <2>1 DEF Native, SeedKept
  <2>. QED
    BY <1>1, <1>8, <1>9, <2>2 DEF StoreMoves
<1>. QED
  BY <1>10, <1>11

\* So every answer an author gets explains what it refuses, and goes on doing so.
LEMMA RefusedStep ==
    ASSUME Apart, TypeOK, TypeOK', CursorInv, WorkInv, CanonWhole, RootsInv, FilesWhole,
           AuthorsInv, RefusedInv, [Next]_vars
    PROVE  RefusedInv'
<1>0. Undisturbed /\ RootsRest /\ NoTwins
  BY DEF Apart, NoTwins
<1>1. StoreMoves /\ WorkInv'
  BY <1>0, MovesStep, WorkStep
<1>2. SeedKept'
  BY <1>0, <1>1, SeedStep DEF RefusedInv
<1>3. ASSUME NEW d \in Authors
      PROVE  d \in Client /\ NativeOK(d) /\ RefusedOK(d) /\ RoundOK(d) /\ ParentsOK(d)
  BY EnvironmentAssumption DEF Authors, RefusedInv, AuthorsInv, AuthorOK
<1>4. \A p \in Row : graves[p] > 0 => graves'[p] > 0
  <2>1. graves \in [Row -> Nat] /\ graves' \in [Row -> Nat] /\ pruned' = 0
    BY <1>1 DEF TypeOK, WorkInv, NeverExpires
  <2>. QED
    BY <1>1, <2>1 DEF StoreMoves
<1>5. ASSUME NEW d \in Authors, req'[d].rows = req[d].rows, resp'[d] = resp[d],
             phase'[d] = phase[d], grant'[d] = grant[d]
      PROVE  RefusedOK(d)'
  <2>1. SUFFICES ASSUME phase[d] = "answered", grant[d], NEW r \in resp[d].rejected \cap Held(req[d].rows)
                 PROVE  \E p \in Lineage[r] : graves'[p] > 0
    BY <1>5 DEF RefusedOK, Held
  <2>2. PICK p \in Lineage[r] : graves[p] > 0
    BY <1>3, <2>1 DEF RefusedOK
  <2>3. p \in Row
    BY <1>0, ShallowLineage, SchemaAssumption DEF Held
  <2>. QED
    BY <1>4, <2>2, <2>3
<1>6. ASSUME NEW d \in Authors, Own(d)' = Own(d)
      PROVE  NativeOK(d)' /\ RefusedOK(d)'
  <2>1. UNCHANGED <<local[d], phase[d], req[d], resp[d], grant[d]>>
    BY <1>6 DEF Own
  <2>2. RefusedOK(d)'
    BY <1>5, <2>1
  <2>3. NativeOK(d)'
    BY <1>3, <2>1 DEF NativeOK, Held, Native, Written, Pen
  <2>. QED
    BY <2>2, <2>3
<1>7. ASSUME NEW c \in Authors, StepOf(c)
      PROVE  NativeOK(c)' /\ RefusedOK(c)'
  <2>1. CASE ServerStep(c)
    <3>1. NativeOK(c)'
      BY <1>0, <1>2, <1>3, <2>1, NativeServer
    <3>2. RefusedOK(c)'
      <4>1. SUFFICES ASSUME grant[c], NEW r \in resp'[c].rejected \cap Held(req[c].rows)
                     PROVE  \E p \in Lineage[r] : graves'[p] > 0
        <5>1. req' = req /\ grant' = grant
          BY <2>1 DEF ServerStep, ServeBail, ServeExpired, Serve, ServeFails, Reply, worldVars
        <5>. QED
          BY <4>1, <5>1 DEF RefusedOK, Held
      <4>2. CASE Serve(c)
        BY <1>1, <1>3, <4>1, <4>2, RefusedServe DEF RefusedInv
      <4>3. CASE ServeBail(c) \/ ServeExpired(c) \/ ServeFails(c)
        BY <1>3, <4>1, <4>3, ShortAnswers
      <4>. QED
        BY <2>1, <4>2, <4>3 DEF ServerStep
    <3>. QED
      BY <3>1, <3>2
  <2>2. CASE ~ServerStep(c)
    <3>1. NativeOK(c)'
      BY <1>0, <1>3, <1>7, <2>2, NativeOwn
    <3>2. \/ UNCHANGED <<req, resp, phase, grant>>
          \/ phase'[c] # "answered"
      <4>1. CASE UserStep(c) \/ SetRole(c)
        BY <4>1 DEF UserStep, Insert, Edit, Drop, SetRole, roundVars, worldVars
      <4>2. CASE EngineStep(c) \/ Lose(c) \/ Reload(c)
        BY <1>3, <4>2 DEF EngineStep, AnswerStep, BeginPush, ReadPage, SendPush, SendPull, Apply, ServerFault,
           ApplyClashes, ApplyDangles, Fail, LearnExpired, Reset, Lose, Reload, EndRound, TypeOK
      <4>3. ~Revoke(c)
        BY <1>0 DEF Revoke, Undisturbed
      <4>. QED
        BY <1>7, <2>2, <4>1, <4>2, <4>3 DEF StepOf
    <3>3. RefusedOK(c)'
      BY <1>5, <3>2 DEF RefusedOK
    <3>. QED
      BY <3>1, <3>3
  <2>. QED
    BY <2>1, <2>2
<1>8. CASE UNCHANGED vars \/ Prune
  BY <1>2, <1>3, <1>6, <1>8, NobodyMoves DEF RefusedInv
<1>9. ASSUME NEW c \in Client, StepOf(c)
      PROVE  RefusedInv'
  <2>1. ASSUME NEW d \in Authors
        PROVE  NativeOK(d)' /\ RefusedOK(d)'
    <3>1. CASE d = c
      BY <1>7, <1>9, <3>1
    <3>2. CASE d # c
      BY <1>3, <1>6, <1>9, <3>2, OthersStay
    <3>. QED
      BY <3>1, <3>2
  <2>. QED
    BY <1>2, <2>1 DEF RefusedInv
<1>. QED
  BY <1>8, <1>9 DEF Next, StepOf

\* So it is at the start.
LEMMA RefusedInit == Undisturbed /\ Init => RefusedInv
<1> SUFFICES ASSUME Undisturbed, Init PROVE RefusedInv
  OBVIOUS
<1>1. [v |-> SeedVersion, seq |-> 1] \in [v : Version, seq : Nat]
  BY DEF SeedVersion, Version
<1>2. Held(canon) \subseteq Seed /\ \A r \in Seed : canon[r] # Nil
  BY <1>1, CellAssumption, EnvironmentAssumption DEF Init, Held
<1>3. ASSUME NEW c \in Authors
      PROVE  NativeOK(c) /\ RefusedOK(c)
  <2>1. c \in Client /\ Boot[c] = "snapshot"
    BY EnvironmentAssumption DEF Authors, Undisturbed
  <2>2. local[c] \in InitialFiles(c)
    BY <2>1 DEF Init
  <2>3. Held(local[c]) \subseteq Seed
    BY <2>1, <2>2, CleanFiles DEF Held
  <2>4. phase[c] = "idle" /\ req[c] = NoRequest /\ resp[c] = NoAnswer
    BY <2>1 DEF Init
  <2>5. Held(req[c].rows) = {} /\ Held(resp[c].rows) = {}
    BY <2>4, Blanks DEF NoAnswer
  <2>. QED
    BY <2>3, <2>4, <2>5 DEF NativeOK, RefusedOK, Native
<1>. QED
  BY <1>2, <1>3 DEF RefusedInv, SeedKept, Native

\* The endpoint refuses a pushed row only if it, or a row it hangs from, was deleted: the
\* device that loses the row is told why by the tombstone.  (Parents that are created while dirty
\* rows are read may stay behind, and what hangs from them is refused for good: half_read.)
THEOREM RefusalsAreExplained == Apart => (Spec => []RefusedWasDeleted)
<1> SUFFICES ASSUME Apart PROVE Spec => []RefusedWasDeleted
  OBVIOUS
<1>0. RootsRest /\ Undisturbed
  BY DEF Apart
<1>1. Init => RefusedInv
  BY <1>0, RefusedInit
<1>2. /\ TypeOK /\ TypeOK' /\ CursorInv /\ (CanonWhole /\ RootsInv /\ ReadersInv)
      /\ (WorkInv /\ FilesWhole /\ AuthorsInv) /\ RefusedInv /\ [Next]_vars
      => RefusedInv'
  BY RefusedStep
<1>3. (CanonWhole /\ RootsInv /\ ReadersInv) /\ RefusedInv => RefusedWasDeleted
  BY DEF RootsInv, RootsOK, RefusedInv, RefusedOK, RefusedWasDeleted
<1>4. Spec => [](CanonWhole /\ RootsInv /\ ReadersInv)
  BY <1>0, ReadersAreTold
<1>5. Spec => [](WorkInv /\ FilesWhole /\ AuthorsInv)
  BY AuthorsFollow
<1>. QED
  BY <1>1, <1>2, <1>3, <1>4, <1>5, TypeCorrect, CursorsBelowCounter, PTL DEF Spec

===============================================================================
