---------------------------- MODULE DictSyncProofs ----------------------------
(***************************************************************************)
(* Type correctness, the cursor protocol and the fate of deletions and of  *)
(* unpushed work in DictSync, for any number of devices, rows and faults.  *)
(***************************************************************************)
EXTENDS DictSyncProps, TLAPS

-------------------------------------------------------------------------------
(* Foreign keys.                                                            *)

\* The rows every parent-closed set around r has.
Above(r) == {x \in Row : \A S \in SUBSET Row :
               r \in S /\ (\A y \in S : Parents[y] \subseteq S) => x \in S}

\* The recursive definition of Lineage has a solution, so Lineage is one.
LEMMA LineageIs ==
    Lineage = [r \in Row |-> {r} \cup UNION {Lineage[p] : p \in Parents[r]}]
<1> DEFINE F(g) == [r \in Row |-> {r} \cup UNION {g[p] : p \in Parents[r]}]
           A == [r \in Row |-> Above(r)]
<1>1. \A r \in Row : Parents[r] \subseteq Row
  BY SchemaAssumption
<1>2. ASSUME NEW r \in Row
      PROVE  Above(r) = {r} \cup UNION {Above(p) : p \in Parents[r]}
  <2> DEFINE U == {r} \cup UNION {Above(p) : p \in Parents[r]}
  <2>1. U \subseteq Above(r)
    <3>1. r \in Above(r)
      BY DEF Above
    <3>2. ASSUME NEW p \in Parents[r] PROVE Above(p) \subseteq Above(r)
      <4>1. p \in Row
        BY <1>1
      <4>. QED
        BY <4>1 DEF Above
    <3>. QED
      BY <3>1, <3>2
  <2>2. r \in U /\ U \subseteq Row
    BY <1>1 DEF Above
  <2>3. ASSUME NEW y \in U PROVE Parents[y] \subseteq U
    <3>1. CASE y = r
      <4>1. \A p \in Parents[r] : p \in Above(p)
        BY <1>1 DEF Above
      <4>. QED
        BY <4>1, <3>1
    <3>2. ASSUME NEW p \in Parents[r], y \in Above(p) PROVE Parents[y] \subseteq Above(p)
      <4>1. y \in Row
        BY <3>2 DEF Above
      <4>. QED
        BY <3>2, <4>1, <1>1 DEF Above
    <3>. QED
      BY <3>1, <3>2
  <2>4. Above(r) \subseteq U
    <3>1. U \in SUBSET Row
      BY <2>2
    <3>. HIDE DEF U
    <3>. QED
      BY <3>1, <2>2, <2>3 DEF Above
  <2>. QED
    BY <2>1, <2>4
<1>3. A = F(A)
  <2>1. \A r \in Row : A[r] = {r} \cup UNION {A[p] : p \in Parents[r]}
    BY <1>1, <1>2, Zenon
  <2>. QED
    BY <2>1, Zenon
<1>4. (CHOOSE g : g = F(g)) = F(CHOOSE g : g = F(g))
  <2>. HIDE DEF F, A
  <2>. QED
    BY <1>3, Zenon
<1>5. Lineage = CHOOSE g : g = F(g)
  BY DEF Lineage
<1>6. Lineage = F(Lineage)
  <2>. HIDE DEF F
  <2>. QED
    BY <1>4, <1>5, Zenon
<1>. QED
  BY <1>6

LEMMA LineageReflexive == \A r \in Row : r \in Lineage[r]
BY LineageIs


-------------------------------------------------------------------------------
(* What the operators on tables of rows return.                             *)

\* Hard-deleting rows leaves every other row as it is.
LEMMA CullType ==
    ASSUME NEW S, NEW rows \in [Row -> Opt(S)], NEW dead
    PROVE  /\ Cull(rows, dead) \in [Row -> Opt(S)]
           /\ \A r \in Row : Cull(rows, dead)[r] \in {rows[r], Nil}
BY DEF Cull, Opt

\* A batch of pushed rows keeps a row or replaces it under the new number.
LEMMA MergeType ==
    ASSUME NEW base \in [Row -> Opt(CanonRow)], NEW q \in Request,
           NEW pushed, pushed \subseteq Held(q.rows), NEW seq \in Nat
    PROVE  /\ Merge(base, q, pushed, seq) \in [Row -> Opt(CanonRow)]
           /\ \A x \in Row :
                 \/ Merge(base, q, pushed, seq)[x] = base[x]
                 \/ /\ Merge(base, q, pushed, seq)[x] \in CanonRow
                    /\ Merge(base, q, pushed, seq)[x].seq = seq
                    /\ Writers(base, q, pushed, x) # {}
<1> DEFINE M == Merge(base, q, pushed, seq)
           W(x) == Writers(base, q, pushed, x)
           w(x) == CHOOSE r \in W(x) : TRUE
<1>1. ASSUME NEW x \in Row, W(x) # {}
      PROVE  q.rows[w(x)] \in Version
  <2>1. w(x) \in W(x)
    BY <1>1
  <2>2. w(x) \in Held(q.rows)
    BY <2>1 DEF Writers
  <2>. QED
    BY <2>2 DEF Held, Request, Opt
<1>2. ASSUME NEW x \in Row
      PROVE  M[x] = IF W(x) = {} THEN base[x] ELSE [v |-> q.rows[w(x)], seq |-> seq]
  BY DEF Merge
<1>3. ASSUME NEW x \in Row
      PROVE  M[x] \in Opt(CanonRow)
  <2> HIDE DEF M, W, w
  <2>1. CASE W(x) = {}
    BY <2>1, <1>2 DEF Opt
  <2>2. CASE W(x) # {}
    <3>1. M[x] = [v |-> q.rows[w(x)], seq |-> seq]
      BY <2>2, <1>2
    <3>2. q.rows[w(x)] \in Version
      BY <2>2, <1>1
    <3>. QED
      BY <3>1, <3>2 DEF Opt, CanonRow
  <2>. QED
    BY <2>1, <2>2
<1>4. M \in [Row -> Opt(CanonRow)]
  BY <1>3 DEF Merge
<1>5. ASSUME NEW x \in Row
      PROVE  M[x] = base[x] \/ (M[x] \in CanonRow /\ M[x].seq = seq /\ W(x) # {})
  <2> HIDE DEF M, W, w
  <2>1. CASE W(x) = {}
    BY <2>1, <1>2
  <2>2. CASE W(x) # {}
    <3>1. M[x] = [v |-> q.rows[w(x)], seq |-> seq]
      BY <2>2, <1>2
    <3>2. q.rows[w(x)] \in Version
      BY <2>2, <1>1
    <3>. QED
      BY <2>2, <3>1, <3>2 DEF CanonRow
  <2>. QED
    BY <2>1, <2>2
<1>. QED
  BY <1>4, <1>5

\* A request stays a request when its push is dropped.
LEMMA GrantedType ==
    ASSUME NEW q \in Request, NEW editor \in BOOLEAN
    PROVE  Granted(q, editor) \in Request
BY DEF Granted, Request, NoRows, Opt

\* The store and the tombstones after a push.
LEMMA PushType ==
    ASSUME NEW old \in [Row -> Opt(CanonRow)], NEW marks \in [Row -> Nat],
           NEW q \in Request, NEW seq \in Nat
    PROVE  /\ Pushed(old, q, seq) \in [Row -> Opt(CanonRow)]
           /\ Graves(marks, old, q, seq) \in [Row -> Nat]
           /\ \A x \in Row :
                 Pushed(old, q, seq)[x] # Nil =>
                    \/ Pushed(old, q, seq)[x] = old[x]
                    \/ Pushed(old, q, seq)[x].seq = seq /\ Writes(old, q, seq)
           /\ \A x \in Row :
                 \/ Graves(marks, old, q, seq)[x] = marks[x]
                 \/ Graves(marks, old, q, seq)[x] = seq /\ Writes(old, q, seq)
<1> DEFINE base == Cull(old, q.tombs)
           acc == Accepted(old, q, seq)
<1>1. /\ base \in [Row -> Opt(CanonRow)]
      /\ \A x \in Row : base[x] \in {old[x], Nil}
  BY CullType
<1>2. acc \subseteq Held(q.rows)
  BY DEF Accepted
<1>3. /\ Merge(base, q, acc, seq) \in [Row -> Opt(CanonRow)]
      /\ \A x \in Row :
            \/ Merge(base, q, acc, seq)[x] = base[x]
            \/ /\ Merge(base, q, acc, seq)[x] \in CanonRow
               /\ Merge(base, q, acc, seq)[x].seq = seq
               /\ Writers(base, q, acc, x) # {}
  <2> HIDE DEF base, acc
  <2>1. base \in [Row -> Opt(CanonRow)]
    BY <1>1
  <2>. QED
    BY <1>2, <2>1, MergeType, SMTT(60)
<1>4. Pushed(old, q, seq) = Merge(base, q, acc, seq)
  BY DEF Pushed
<1>5. \A x \in Row : Writers(base, q, acc, x) # {} => Writes(old, q, seq)
  BY DEF Writes
<1>6. /\ Graves(marks, old, q, seq) \in [Row -> Nat]
      /\ \A x \in Row :
            \/ Graves(marks, old, q, seq)[x] = marks[x]
            \/ Graves(marks, old, q, seq)[x] = seq /\ Writes(old, q, seq)
  BY DEF Graves, Writes
<1> HIDE DEF base, acc
<1>7. ASSUME NEW x \in Row, Pushed(old, q, seq)[x] # Nil
      PROVE  \/ Pushed(old, q, seq)[x] = old[x]
             \/ Pushed(old, q, seq)[x].seq = seq /\ Writes(old, q, seq)
  <2>1. \/ Pushed(old, q, seq)[x] = base[x]
        \/ Pushed(old, q, seq)[x].seq = seq /\ Writers(base, q, acc, x) # {}
    BY <1>3, <1>4
  <2>. QED
    BY <1>1, <1>5, <1>7, <2>1
<1>. QED
  BY <1>3, <1>4, <1>6, <1>7

\* Every answer is an answer.
LEMMA AnswerType ==
    ASSUME NEW old \in [Row -> Opt(CanonRow)], NEW new \in [Row -> Opt(CanonRow)],
           NEW marks \in [Row -> Nat], NEW q \in Request, NEW editor \in BOOLEAN,
           NEW seq \in Nat, NEW mark \in Nat
    PROVE  /\ FullAnswer(old, new, marks, q, editor, seq, mark) \in Answer
           /\ FullAnswer(old, new, marks, q, editor, seq, mark).cursor = mark
<1> DEFINE g == Granted(q, editor)
           losers == Losers(Cull(old, g.tombs), Accepted(old, g, seq))
           orphans == Orphans(old, g, seq)
           news == Changes(new, q.cursor, Held(q.rows) \ orphans, Echoed(old, g, seq))
<1>1. losers \subseteq Row /\ orphans \subseteq Row
  BY DEF Losers, Accepted, Orphans, Held
<1>2. news \in [Row -> Opt(Version)]
  BY DEF Changes, Opt, CanonRow
<1>3. Deletions(new, marks, q.cursor) \subseteq Row
  BY DEF Deletions
<1>4. Redundant(new, q.probes) \subseteq Row
  BY DEF Redundant, Held
<1>5. Held(q.rows) \cup q.tombs \subseteq Row
  BY DEF Held, Request
<1>6. FullAnswer(old, new, marks, q, editor, seq, mark) =
        [kind |-> "ok", rows |-> news,
         dels |-> losers \cup Deletions(new, marks, q.cursor),
         cursor |-> mark, redundant |-> Redundant(new, q.probes),
         rejected |-> IF editor THEN losers \cup orphans ELSE Held(q.rows) \cup q.tombs]
  BY DEF FullAnswer
<1> HIDE DEF g, losers, orphans, news
<1>. QED
  BY <1>1, <1>2, <1>3, <1>4, <1>5, <1>6 DEF Answer

\* Applying an answer leaves a table of local rows.
LEMMA AppliedType ==
    ASSUME NEW rows \in [Row -> Opt(LocalRow)], NEW q \in Request, NEW a \in Answer,
           NEW editor \in BOOLEAN
    PROVE  Applied(rows, q, a, editor) \in [Row -> Opt(LocalRow)]
<1>1. AfterDeletes(rows, q, a) \in [Row -> Opt(LocalRow)]
  BY CullType DEF AfterDeletes
<1>2. AfterUpserts(rows, q, a) \in [Row -> Opt(LocalRow)]
  <2> DEFINE kept == AfterDeletes(rows, q, a)
             up(r) == IF a.rows[r] = Nil THEN kept[r]
                      ELSE [v |-> a.rows[r], dirty |-> kept[r] # Nil /\ kept[r].dirty]
  <2>1. ASSUME NEW r \in Row
        PROVE  up(r) \in Opt(LocalRow)
    <3>1. CASE a.rows[r] = Nil
      BY <1>1, <3>1
    <3>2. CASE a.rows[r] # Nil
      <4>1. a.rows[r] \in Version
        BY <3>2 DEF Answer, Opt
      <4>2. (kept[r] # Nil /\ kept[r].dirty) \in BOOLEAN
        BY <1>1 DEF Opt, LocalRow
      <4> HIDE DEF kept
      <4>. QED
        BY <3>2, <4>1, <4>2 DEF Opt, LocalRow
    <3>. QED
      BY <3>1, <3>2
  <2>2. AfterUpserts(rows, q, a) = [r \in Row |-> up(r)]
    BY DEF AfterUpserts
  <2> HIDE DEF up
  <2>. QED
    BY <2>1, <2>2
<1>3. AfterPrune(rows, q, a) \in [Row -> Opt(LocalRow)]
  BY <1>2, CullType DEF AfterPrune
<1>4. ASSUME NEW kept \in [Row -> Opt(LocalRow)]
      PROVE  [r \in Row |-> IF kept[r] # Nil /\ r \in Cleared(q, a, editor)
                            THEN [v |-> kept[r].v, dirty |-> FALSE]
                            ELSE kept[r]] \in [Row -> Opt(LocalRow)]
  BY DEF Opt, LocalRow
<1>. QED
  BY <1>3, <1>4 DEF Applied

-------------------------------------------------------------------------------
(* Type correctness.                                                        *)

LEMMA NothingType == /\ NoRows \in [Row -> Opt(Version)]
                     /\ NoRequest \in Request
                     /\ NoAnswer \in Answer
BY DEF NoRows, NoRequest, NoAnswer, Request, Answer, Opt

\* The rows a request holds are rows of its device.
LEMMA ReadType ==
    ASSUME TypeOK, NEW c \in Client, NEW rows \in [Row -> Opt(Version)], NEW S
    PROVE  Read(c, rows, S) \in [Row -> Opt(Version)]
<1>1. local[c] \in [Row -> Opt(LocalRow)]
  BY DEF TypeOK
<1>2. \A r \in DirtyIn(c, S) : local[c][r].v \in Version
  BY <1>1 DEF DirtyIn, Held, Opt, LocalRow
<1>. QED
  BY <1>2 DEF Read, Opt

LEMMA FileType ==
    ASSUME NEW c \in Client, NEW f \in InitialFiles(c)
    PROVE  f \in [Row -> Opt(LocalRow)]
<1>1. SeedVersion \in Version /\ [at |-> 1, by |-> c] \in Version
  BY DEF SeedVersion, Version
<1>2. Boot[c] \in {"snapshot", "legacy", "lapsed"}
  BY EnvironmentAssumption
<1>3. CASE Boot[c] = "snapshot"
  <2>1. f = [r \in Row |-> IF r \in Seed THEN [v |-> SeedVersion, dirty |-> FALSE] ELSE Nil]
    BY <1>3 DEF InitialFiles
  <2>. QED
    BY <1>1, <2>1 DEF Opt, LocalRow
<1>4. CASE Boot[c] = "legacy"
  <2>1. PICK S : f = [r \in Row |-> IF r \in S THEN [v |-> SeedVersion, dirty |-> FALSE] ELSE Nil]
    BY <1>4 DEF InitialFiles
  <2>. QED
    BY <1>1, <2>1 DEF Opt, LocalRow
<1>5. CASE Boot[c] = "lapsed"
  <2> DEFINE g(F, W) ==
               [r \in Row |->
                 IF r \notin Seed THEN Nil
                 ELSE [v |-> IF r \in F \cap W THEN [at |-> 1, by |-> c] ELSE SeedVersion,
                       dirty |-> r \in F]]
  <2>0. InitialFiles(c) = {g(F, W) : F \in SUBSET Seed, W \in SUBSET Seed}
    BY <1>5 DEF InitialFiles
  <2>1. PICK F \in SUBSET Seed, W \in SUBSET Seed : f = g(F, W)
    <3> HIDE DEF g
    <3>. QED
      BY <2>0
  <2>2. \A r \in Row : (IF r \in F \cap W THEN [at |-> 1, by |-> c] ELSE SeedVersion) \in Version
    BY <1>1
  <2>. QED
    BY <2>1, <2>2 DEF Opt, LocalRow
<1>. QED
  BY <1>2, <1>3, <1>4, <1>5

LEMMA TypeInit == Init => TypeOK
<1> SUFFICES ASSUME Init PROVE TypeOK
  OBVIOUS
<1>1. canon \in [Row -> Opt(CanonRow)]
  BY DEF Init, SeedVersion, Version, Opt, CanonRow
<1>2. local \in [Client -> [Row -> Opt(LocalRow)]]
  <2>1. local \in [Client -> UNION {InitialFiles(c) : c \in Client}]
    BY DEF Init
  <2>2. \A c \in Client : local[c] \in [Row -> Opt(LocalRow)]
    BY FileType DEF Init
  <2>. QED
    BY <2>1, <2>2
<1>3. /\ req \in [Client -> Request]
      /\ resp \in [Client -> Answer]
  BY NothingType DEF Init
<1>4. /\ graves \in [Row -> Nat]
      /\ counter \in Nat /\ pruned \in Nat
      /\ grant \in [Client -> BOOLEAN]
      /\ minted \subseteq Row
      /\ clock \in [Client -> Nat]
      /\ queue \in [Client -> SUBSET Row]
      /\ cursor \in [Client -> Opt(Nat)]
  BY EnvironmentAssumption DEF Init, Opt
<1>5. /\ shelf \in [Client -> SUBSET Shelved]
      /\ role \in [Client -> BOOLEAN]
      /\ probe \in [Client -> BOOLEAN]
      /\ streak \in [Client -> Kinds \X Nat]
      /\ phase \in [Client -> Phases]
      /\ page \in [Client -> Nat]
      /\ faults \in Nat /\ prunes \in Nat
  BY DEF Init, Kinds, Phases
<1>. QED
  BY <1>1, <1>2, <1>3, <1>4, <1>5 DEF TypeOK

LEMMA UserType ==
    ASSUME TypeOK, NEW c \in Client, UserStep(c)
    PROVE  TypeOK'
<1> PICK r \in Row : Insert(c, r) \/ Edit(c, r) \/ Drop(c, r)
  BY DEF UserStep
<1>1. ASSUME Stamp(c, r)
      PROVE  /\ clock' \in [Client -> Nat]
             /\ local' \in [Client -> [Row -> Opt(LocalRow)]]
  <2>1. [v |-> [at |-> clock[c] + 1, by |-> c], dirty |-> TRUE] \in LocalRow
    BY DEF TypeOK, LocalRow, Version
  <2>. QED
    BY <1>1, <2>1 DEF Stamp, TypeOK, Opt
<1>2. CASE Insert(c, r)
  <2>1. Stamp(c, r)
    BY <1>2 DEF Insert
  <2>. QED
    BY <1>1, <1>2, <2>1 DEF Insert, TypeOK, serverVars, engineVars, roundVars
<1>3. CASE Edit(c, r)
  <2>1. Stamp(c, r)
    BY <1>3 DEF Edit
  <2>. QED
    BY <1>1, <1>3, <2>1 DEF Edit, TypeOK, serverVars, engineVars, roundVars
<1>4. CASE Drop(c, r)
  <2>1. Cull(local[c], {r}) \in [Row -> Opt(LocalRow)]
    BY CullType DEF TypeOK
  <2>2. local' \in [Client -> [Row -> Opt(LocalRow)]]
    BY <1>4, <2>1 DEF Drop, TypeOK
  <2>3. queue' \in [Client -> SUBSET Row]
    BY <1>4 DEF Drop, TypeOK
  <2>. QED
    BY <1>4, <2>2, <2>3 DEF Drop, TypeOK, serverVars, engineVars, roundVars, worldVars
<1>. QED
  BY <1>2, <1>3, <1>4

LEMMA RequestType ==
    ASSUME TypeOK, NEW c \in Client,
           BeginPush(c) \/ ReadPage(c) \/ SendPush(c) \/ SendPull(c)
    PROVE  TypeOK'
<1>1. CASE BeginPush(c)
  <2>1. Read(c, NoRows, OnPage(1)) \in [Row -> Opt(Version)]
    BY NothingType, ReadType
  <2>2. [NoRequest EXCEPT !.cursor = cursor[c], !.rows = Read(c, NoRows, OnPage(1))] \in Request
    BY <2>1, NothingType DEF Request, TypeOK
  <2>. QED
    BY <1>1, <2>2 DEF BeginPush, TypeOK, serverVars, fileVars, engineVars, worldVars, Phases
<1>2. CASE ReadPage(c)
  <2>1. req[c].rows \in [Row -> Opt(Version)]
    BY DEF TypeOK, Request
  <2>2. Read(c, req[c].rows, OnPage(page[c])) \in [Row -> Opt(Version)]
    BY <2>1, ReadType
  <2>3. req' \in [Client -> Request]
    BY <1>2, <2>2 DEF ReadPage, TypeOK, Request
  <2>. QED
    BY <1>2, <2>3 DEF ReadPage, TypeOK, serverVars, fileVars, engineVars, worldVars
<1>3. CASE SendPush(c)
  <2>1. req' \in [Client -> Request]
    BY <1>3 DEF SendPush, TypeOK, Request
  <2>. QED
    BY <1>3, <2>1 DEF SendPush, TypeOK, serverVars, fileVars, engineVars, worldVars, Phases
<1>4. CASE SendPull(c)
  <2>1. (IF probe[c] THEN Read(c, NoRows, Row) ELSE NoRows) \in [Row -> Opt(Version)]
    BY NothingType, ReadType
  <2>2. [NoRequest EXCEPT !.cursor = cursor[c],
                          !.probes = IF probe[c] THEN Read(c, NoRows, Row) ELSE NoRows]
           \in Request
    BY <2>1, NothingType DEF Request, TypeOK
  <2>. QED
    BY <1>4, <2>2 DEF SendPull, TypeOK, serverVars, fileVars, worldVars, Phases
<1>. QED
  BY <1>1, <1>2, <1>3, <1>4

\* An answer to a request and a store leave the rest of the state in its types.
LEMMA ReplyType ==
    ASSUME TypeOK, NEW c \in Client, NEW a \in Answer, Reply(c, a),
           canon' \in [Row -> Opt(CanonRow)], graves' \in [Row -> Nat], counter' \in Nat
    PROVE  TypeOK'
BY DEF Reply, TypeOK, fileVars, engineVars, worldVars, Phases

LEMMA ServerType ==
    ASSUME TypeOK, NEW c \in Client, ServerStep(c)
    PROVE  TypeOK'
<1> DEFINE q == Granted(req[c], grant[c])
<1>1. req[c] \in Request /\ grant[c] \in BOOLEAN /\ q \in Request
  BY GrantedType DEF TypeOK
<1>2. CASE ServeBail(c)
  <2>1. req[c].cursor \in Nat
    BY <1>1, <1>2 DEF ServeBail, FastBail, Request, Opt
  <2>2. Held(req[c].rows) \cup req[c].tombs \subseteq Row
    BY <1>1 DEF Held, Request
  <2>3. BailAnswer(req[c], grant[c]) \in Answer
    BY <2>1, <2>2, NothingType DEF BailAnswer, Answer
  <2>. QED
    BY <1>2, <2>3, ReplyType DEF ServeBail, TypeOK
<1>3. CASE ServeExpired(c)
  <2>1. [NoAnswer EXCEPT !.kind = "expired"] \in Answer
    BY NothingType DEF Answer
  <2>. QED
    BY <1>3, <2>1, ReplyType DEF ServeExpired, TypeOK
<1>4. CASE Serve(c)
  <2>1. /\ canon \in [Row -> Opt(CanonRow)] /\ graves \in [Row -> Nat]
        /\ counter \in Nat /\ counter + 1 \in Nat
    BY DEF TypeOK
  <2>2. canon' \in [Row -> Opt(CanonRow)] /\ graves' \in [Row -> Nat]
    <3>1. canon' = Pushed(canon, q, counter + 1) /\ graves' = Graves(graves, canon, q, counter + 1)
      BY <1>4 DEF Serve
    <3> HIDE DEF q
    <3>. QED
      BY <1>1, <2>1, <3>1, PushType
  <2>3. counter' \in Nat
    BY <1>4, <2>1 DEF Serve
  <2>4. FullAnswer(canon, canon', graves', req[c], grant[c], counter + 1, counter') \in Answer
    BY <1>1, <2>1, <2>2, <2>3, AnswerType
  <2>. QED
    BY <1>4, <2>2, <2>3, <2>4, ReplyType DEF Serve
<1>5. CASE ServeFails(c)
  BY <1>5, NothingType, ReplyType DEF ServeFails, TypeOK
<1>. QED
  BY <1>2, <1>3, <1>4, <1>5 DEF ServerStep

\* Counting a failure keeps the streaks in their type.
LEMMA RecordType ==
    ASSUME TypeOK, NEW c \in Client, NEW kind \in Kinds, Record(c, kind)
    PROVE  streak' \in [Client -> Kinds \X Nat]
<1>1. streak[c] \in Kinds \X Nat
  BY DEF TypeOK
<1>2. <<kind, IF streak[c][1] = kind THEN streak[c][2] + 1 ELSE 1>> \in Kinds \X Nat
  BY <1>1
<1>. QED
  BY <1>2 DEF Record, TypeOK

LEMMA EndRoundType ==
    ASSUME TypeOK, NEW c \in Client, EndRound(c)
    PROVE  /\ phase' \in [Client -> Phases]
           /\ req' \in [Client -> Request]
           /\ resp' \in [Client -> Answer]
BY NothingType DEF EndRound, TypeOK, Phases

LEMMA FailType ==
    ASSUME TypeOK, NEW c \in Client, NEW kind \in Kinds, Fail(c, kind)
    PROVE  TypeOK'
<1>1. streak' \in [Client -> Kinds \X Nat]
  BY RecordType DEF Fail
<1>2. phase' \in [Client -> Phases] /\ req' \in [Client -> Request] /\ resp' \in [Client -> Answer]
  BY EndRoundType DEF Fail
<1>. QED
  BY <1>1, <1>2 DEF Fail, TypeOK, serverVars, fileVars, worldVars

LEMMA AnswerStepType ==
    ASSUME TypeOK, NEW c \in Client, AnswerStep(c)
    PROVE  TypeOK'
<1>0. <<"none", 0>> \in Kinds \X Nat
  BY DEF Kinds
<1>1. CASE Apply(c)
  <2>1. /\ local[c] \in [Row -> Opt(LocalRow)] /\ req[c] \in Request
        /\ resp[c] \in Answer /\ role[c] \in BOOLEAN
    BY DEF TypeOK
  <2>2. Applied(local[c], req[c], resp[c], role[c]) \in [Row -> Opt(LocalRow)]
    BY <2>1, AppliedType
  <2>3. Refused(req[c], resp[c]) \subseteq Shelved
    BY <2>1 DEF Refused, Shelved, Held, Request, Opt
  <2>4. local' \in [Client -> [Row -> Opt(LocalRow)]]
    BY <1>1, <2>2 DEF Apply, TypeOK
  <2>5. shelf' \in [Client -> SUBSET Shelved]
    BY <1>1, <2>3 DEF Apply, TypeOK
  <2>6. queue' \in [Client -> SUBSET Row]
    BY <1>1 DEF Apply, TypeOK
  <2>7. cursor' \in [Client -> Opt(Nat)]
    BY <1>1, <2>1 DEF Apply, TypeOK, Opt, Answer
  <2>8. probe' \in [Client -> BOOLEAN]
    BY <1>1 DEF Apply, TypeOK
  <2>9. streak' \in [Client -> Kinds \X Nat]
    BY <1>0, <1>1 DEF Apply, TypeOK
  <2>10. phase' \in [Client -> Phases] /\ req' \in [Client -> Request] /\ resp' \in [Client -> Answer]
    BY <1>1, EndRoundType DEF Apply
  <2>. QED
    BY <1>1, <2>4, <2>5, <2>6, <2>7, <2>8, <2>9, <2>10
    DEF Apply, TypeOK, serverVars, worldVars
<1>2. CASE ServerFault(c)
  BY <1>2, FailType DEF ServerFault, Kinds
<1>3. CASE ApplyClashes(c)
  BY <1>3, FailType DEF ApplyClashes, Kinds
<1>4. CASE ApplyDangles(c)
  BY <1>4, FailType DEF ApplyDangles, Kinds
<1>5. CASE LearnExpired(c)
  BY <1>0, <1>5, NothingType
  DEF LearnExpired, TypeOK, serverVars, fileVars, worldVars, Phases
<1>6. CASE Reset(c)
  <2>1. [r \in Row |-> IF canon[r] = Nil THEN Nil ELSE [v |-> canon[r].v, dirty |-> FALSE]]
          \in [Row -> Opt(LocalRow)]
    BY DEF TypeOK, Opt, CanonRow, LocalRow
  <2>2. local' \in [Client -> [Row -> Opt(LocalRow)]]
    BY <1>6, <2>1 DEF Reset, TypeOK
  <2>3. /\ queue' \in [Client -> SUBSET Row] /\ cursor' \in [Client -> Opt(Nat)]
        /\ shelf' \in [Client -> SUBSET Shelved] /\ probe' \in [Client -> BOOLEAN]
        /\ phase' \in [Client -> Phases] /\ streak' \in [Client -> Kinds \X Nat]
    BY <1>0, <1>6 DEF Reset, TypeOK, Opt, Phases
  <2>. QED
    BY <1>6, <2>2, <2>3 DEF Reset, TypeOK, serverVars, worldVars
<1>. QED
  BY <1>1, <1>2, <1>3, <1>4, <1>5, <1>6 DEF AnswerStep

LEMMA WorldType ==
    ASSUME TypeOK, NEW c \in Client, Lose(c) \/ Reload(c) \/ SetRole(c) \/ Revoke(c)
    PROVE  TypeOK'
<1>0. <<"none", 0>> \in Kinds \X Nat
  BY DEF Kinds
<1>1. CASE Lose(c)
  BY <1>0, <1>1, NothingType DEF Lose, TypeOK, serverVars, fileVars, Phases
<1>2. CASE Reload(c)
  <2>1. phase' \in [Client -> Phases] /\ req' \in [Client -> Request] /\ resp' \in [Client -> Answer]
    BY <1>2, EndRoundType DEF Reload
  <2>2. /\ faults' \in Nat /\ page' \in [Client -> Nat] /\ role' \in [Client -> BOOLEAN]
        /\ probe' \in [Client -> BOOLEAN] /\ streak' \in [Client -> Kinds \X Nat]
    BY <1>0, <1>2 DEF Reload, TypeOK
  <2>. QED
    BY <1>2, <2>1, <2>2 DEF Reload, TypeOK, serverVars, fileVars
<1>3. CASE SetRole(c)
  BY <1>3 DEF SetRole, TypeOK, serverVars, fileVars, roundVars, worldVars
<1>4. CASE Revoke(c)
  BY <1>4 DEF Revoke, TypeOK, serverVars, fileVars, engineVars, roundVars
<1>. QED
  BY <1>1, <1>2, <1>3, <1>4

LEMMA PruneType == TypeOK /\ Prune => TypeOK'
BY DEF TypeOK, Prune, fileVars, engineVars, roundVars

LEMMA TypeStep == TypeOK /\ [Next]_vars => TypeOK'
<1> SUFFICES ASSUME TypeOK, [Next]_vars PROVE TypeOK'
  OBVIOUS
<1>1. CASE UNCHANGED vars
  BY <1>1 DEF TypeOK, vars, serverVars, fileVars, engineVars, roundVars, worldVars
<1>2. CASE Prune
  BY <1>2, PruneType
<1>3. ASSUME NEW c \in Client,
             \/ UserStep(c) \/ EngineStep(c) \/ ServerStep(c)
             \/ Lose(c) \/ Reload(c) \/ SetRole(c) \/ Revoke(c)
      PROVE  TypeOK'
  BY <1>3, UserType, RequestType, ServerType, AnswerStepType, WorldType DEF EngineStep
<1>. QED
  BY <1>1, <1>2, <1>3 DEF Next

\* Every variable stays in the values the code's types allow.
THEOREM TypeCorrect == Spec => []TypeOK
BY TypeInit, TypeStep, PTL DEF Spec

-------------------------------------------------------------------------------
(* The cursor protocol.                                                     *)

\* What a step does to the server's numbers: a row or a tombstone keeps its own,
\* goes away, or takes the one the step has just drawn from the counter.
Numbers ==
    /\ counter' \in {counter, counter + 1}
    /\ \A r \in Row :
          canon'[r] # Nil =>
              \/ canon'[r] = canon[r]
              \/ canon'[r].seq = counter + 1 /\ counter' = counter + 1
    /\ \A r \in Row :
          \/ graves'[r] \in {graves[r], 0}
          \/ graves'[r] = counter + 1 /\ counter' = counter + 1
    /\ pruned' = pruned \/ \E r \in Row : pruned' = graves[r]

\* What a step does to a device's cursors: it copies one, or takes the counter.
MarksOf(c) ==
    Cursors(c)' \subseteq Cursors(c) \cup {counter', 0}

LEMMA ServeNumbers ==
    ASSUME TypeOK, NEW c \in Client, Serve(c)
    PROVE  Numbers
<1> DEFINE q == Granted(req[c], grant[c])
           seq == counter + 1
<1>1. q \in Request
  BY GrantedType DEF TypeOK
<1>2. /\ canon' = Pushed(canon, q, seq)
      /\ graves' = Graves(graves, canon, q, seq)
      /\ counter' = IF Writes(canon, q, seq) THEN seq ELSE counter
      /\ pruned' = pruned
  BY DEF Serve, Reply
<1>3. seq \in Nat
  BY DEF TypeOK
<1>4. /\ canon \in [Row -> Opt(CanonRow)]
      /\ graves \in [Row -> Nat]
  BY DEF TypeOK
<1> HIDE DEF q, seq
<1>5. /\ \A x \in Row :
            canon'[x] # Nil =>
                \/ canon'[x] = canon[x]
                \/ canon'[x].seq = seq /\ Writes(canon, q, seq)
      /\ \A x \in Row :
            \/ graves'[x] = graves[x]
            \/ graves'[x] = seq /\ Writes(canon, q, seq)
  BY <1>1, <1>2, <1>3, <1>4, PushType
<1>. QED
  BY <1>2, <1>5 DEF Numbers, seq

LEMMA QuietNumbers == UNCHANGED serverVars => Numbers
BY DEF Numbers, serverVars

\* Only Serve and Prune write to the server.
LEMMA QuietStep ==
    ASSUME [Next]_vars, ~Prune, \A c \in Client : ~Serve(c)
    PROVE  UNCHANGED serverVars
<1>1. CASE UNCHANGED vars
  BY <1>1 DEF vars
<1>2. ASSUME NEW c \in Client,
             ServeBail(c) \/ ServeExpired(c) \/ ServeFails(c)
      PROVE  UNCHANGED serverVars
  BY <1>2 DEF ServeBail, ServeExpired, ServeFails, Reply, serverVars
<1>3. ASSUME NEW c \in Client,
             UserStep(c) \/ EngineStep(c) \/ Lose(c) \/ Reload(c) \/ SetRole(c) \/ Revoke(c)
      PROVE  UNCHANGED serverVars
  <2>1. CASE UserStep(c)
    BY <2>1 DEF UserStep, Insert, Edit, Drop
  <2>2. CASE BeginPush(c) \/ ReadPage(c) \/ SendPush(c) \/ SendPull(c)
    BY <2>2 DEF BeginPush, ReadPage, SendPush, SendPull
  <2>3. CASE AnswerStep(c)
    BY <2>3 DEF AnswerStep, Apply, ServerFault, ApplyClashes, ApplyDangles, Fail,
                LearnExpired, Reset
  <2>4. CASE Lose(c) \/ Reload(c) \/ SetRole(c) \/ Revoke(c)
    BY <2>4 DEF Lose, Reload, SetRole, Revoke
  <2>. QED
    BY <1>3, <2>1, <2>2, <2>3, <2>4 DEF EngineStep
<1>. QED
  BY <1>1, <1>2, <1>3 DEF Next, ServerStep

LEMMA NumberStep == TypeOK /\ [Next]_vars => Numbers
<1> SUFFICES ASSUME TypeOK, [Next]_vars PROVE Numbers
  OBVIOUS
<1>1. CASE Prune
  BY <1>1 DEF Prune, Numbers, TypeOK
<1>2. ASSUME NEW c \in Client, Serve(c)
      PROVE  Numbers
  BY <1>2, ServeNumbers
<1>3. CASE ~Prune /\ \A c \in Client : ~Serve(c)
  BY <1>3, QuietStep, QuietNumbers
<1>. QED
  BY <1>1, <1>2, <1>3

\* Only the device of a step has its cursors changed.
LEMMA MarkStep ==
    ASSUME TypeOK, [Next]_vars, NEW d \in Client
    PROVE  MarksOf(d)
<1> USE DEF MarksOf, Cursors
<1>0. NoRequest.cursor = Nil /\ NoAnswer.cursor = 0
  BY DEF NoRequest, NoAnswer
<1>1. CASE UNCHANGED vars
  BY <1>1 DEF vars, fileVars, roundVars
<1>2. CASE Prune
  BY <1>2 DEF Prune, fileVars, roundVars
<1>3. ASSUME NEW c \in Client, UserStep(c)
      PROVE  MarksOf(d)
  BY <1>3 DEF UserStep, Insert, Edit, Drop, roundVars
<1>4. ASSUME NEW c \in Client, EngineStep(c)
      PROVE  MarksOf(d)
  <2>1. CASE BeginPush(c)
    BY <1>0, <2>1 DEF BeginPush, NoRequest, fileVars, TypeOK
  <2>2. CASE ReadPage(c)
    BY <2>2 DEF ReadPage, fileVars, TypeOK, Request
  <2>3. CASE SendPush(c)
    BY <2>3 DEF SendPush, fileVars, TypeOK, Request
  <2>4. CASE SendPull(c)
    BY <2>4 DEF SendPull, NoRequest, fileVars, TypeOK
  <2>5. CASE Apply(c)
    BY <1>0, <2>5 DEF Apply, EndRound, TypeOK
  <2>6. CASE ServerFault(c) \/ ApplyClashes(c) \/ ApplyDangles(c)
    <3>1. ASSUME NEW kind, Fail(c, kind)
          PROVE  /\ cursor' = cursor
                 /\ req' = [req EXCEPT ![c] = NoRequest]
                 /\ resp' = [resp EXCEPT ![c] = NoAnswer]
      BY <3>1 DEF Fail, EndRound, fileVars
    <3>2. /\ cursor' = cursor
          /\ req' = [req EXCEPT ![c] = NoRequest]
          /\ resp' = [resp EXCEPT ![c] = NoAnswer]
      BY <2>6, <3>1 DEF ServerFault, ApplyClashes, ApplyDangles
    <3>. QED
      BY <1>0, <3>2 DEF TypeOK
  <2>7. CASE LearnExpired(c)
    BY <1>0, <2>7 DEF LearnExpired, fileVars, TypeOK
  <2>8. CASE Reset(c)
    BY <2>8 DEF Reset, TypeOK, serverVars
  <2>. QED
    BY <1>4, <2>1, <2>2, <2>3, <2>4, <2>5, <2>6, <2>7, <2>8 DEF EngineStep, AnswerStep
<1>5. ASSUME NEW c \in Client, ServerStep(c)
      PROVE  MarksOf(d)
  <2>1. ASSUME NEW a, Reply(c, a), a.cursor \in {req[c].cursor, counter', 0}
        PROVE  MarksOf(d)
    BY <2>1 DEF Reply, fileVars, TypeOK
  <2>2. CASE ServeBail(c)
    <3>1. BailAnswer(req[c], grant[c]).cursor = req[c].cursor
      BY DEF BailAnswer, NoAnswer
    <3>. QED
      BY <2>1, <2>2, <3>1 DEF ServeBail
  <2>3. CASE ServeExpired(c)
    <3>1. [NoAnswer EXCEPT !.kind = "expired"].cursor = 0
      BY DEF NoAnswer
    <3>. QED
      BY <2>1, <2>3, <3>1 DEF ServeExpired
  <2>4. CASE Serve(c)
    <3> DEFINE a == FullAnswer(canon, canon', graves', req[c], grant[c], counter + 1, counter')
    <3>1. a.cursor = counter'
      BY DEF FullAnswer
    <3>2. Reply(c, a)
      BY <2>4 DEF Serve
    <3> HIDE DEF a
    <3>. QED
      BY <2>1, <3>1, <3>2
  <2>5. CASE ServeFails(c)
    BY <1>0, <2>1, <2>5 DEF ServeFails
  <2>. QED
    BY <1>5, <2>2, <2>3, <2>4, <2>5 DEF ServerStep
<1>6. ASSUME NEW c \in Client, Lose(c) \/ Reload(c) \/ SetRole(c) \/ Revoke(c)
      PROVE  MarksOf(d)
  <2>1. CASE Lose(c) \/ Reload(c)
    BY <1>0, <2>1 DEF Lose, Reload, EndRound, fileVars, TypeOK
  <2>2. CASE SetRole(c) \/ Revoke(c)
    BY <2>2 DEF SetRole, Revoke, fileVars, roundVars
  <2>. QED
    BY <1>6, <2>1, <2>2
<1>. QED
  BY <1>1, <1>2, <1>3, <1>4, <1>5, <1>6 DEF Next

LEMMA CursorInit == Init => CursorInv
<1> SUFFICES ASSUME Init PROVE CursorInv
  OBVIOUS
<1>1. \A c \in Client : cursor[c] \in {1, Nil} /\ req[c].cursor = Nil /\ resp[c].cursor = 0
  BY DEF Init, NoRequest, NoAnswer
<1>2. counter = 1 /\ pruned = 0 /\ \A r \in Row : graves[r] = 0
  BY DEF Init
<1>3. \A r \in Row : canon[r] # Nil => canon[r].seq = 1
  BY DEF Init
<1>. QED
  BY <1>1, <1>2, <1>3 DEF CursorInv, Cursors

\* Cursors are numbers.
LEMMA CursorsAreNumbers ==
    ASSUME TypeOK, NEW c \in Client
    PROVE  Cursors(c) \subseteq Nat
<1>1. cursor[c] \in Opt(Nat) /\ req[c] \in Request /\ resp[c] \in Answer
  BY DEF TypeOK
<1>. QED
  BY <1>1 DEF Cursors, Request, Answer, Opt

LEMMA CursorStep == TypeOK /\ CursorInv /\ [Next]_vars => CursorInv'
<1> SUFFICES ASSUME TypeOK, CursorInv, [Next]_vars PROVE CursorInv'
  OBVIOUS
<1>1. Numbers
  BY NumberStep
<1>2. /\ canon \in [Row -> Opt(CanonRow)] /\ graves \in [Row -> Nat]
      /\ counter \in Nat /\ pruned \in Nat
  BY DEF TypeOK
<1>3. /\ \A r \in Row : canon[r] # Nil => canon[r].seq \in Nat
      /\ \A r \in Row : canon[r] # Nil => canon[r].seq <= counter
      /\ \A r \in Row : graves[r] <= counter
      /\ pruned <= counter
  BY <1>2 DEF CursorInv, Opt, CanonRow
<1>4. counter' \in Nat /\ counter <= counter'
  BY <1>1, <1>2 DEF Numbers
<1>5. \A r \in Row : canon'[r] # Nil => canon'[r].seq <= counter'
  BY <1>1, <1>2, <1>3, <1>4 DEF Numbers
<1>6. \A r \in Row : graves'[r] <= counter'
  BY <1>1, <1>2, <1>3, <1>4 DEF Numbers
<1>7. pruned' <= counter'
  BY <1>1, <1>2, <1>3, <1>4 DEF Numbers
<1>8. ASSUME NEW c \in Client, NEW n \in Cursors(c)'
      PROVE  n <= counter'
  <2>1. n \in Cursors(c) \/ n = counter' \/ n = 0
    BY <1>8, MarkStep DEF MarksOf
  <2>2. \A m \in Cursors(c) : m \in Nat /\ m <= counter
    BY CursorsAreNumbers DEF CursorInv
  <2>. QED
    BY <1>2, <1>4, <2>1, <2>2
<1>. QED
  BY <1>5, <1>6, <1>7, <1>8 DEF CursorInv

\* No row, tombstone, pruning mark or cursor is numbered above the counter.
THEOREM CursorsBelowCounter == Spec => []CursorInv
BY TypeInit, TypeStep, CursorInit, CursorStep, PTL DEF Spec

\* A change is numbered above every cursor any device holds, has sent or is
\* about to be handed, so the next pull of each of them carries it.
THEOREM ChangesAboveCursors == Spec => NothingBelowCursor
<1> DEFINE Higher ==
        \A c \in Client : \A n \in Cursors(c) :
            /\ \A r \in Rewritten : canon'[r].seq > n
            /\ \A r \in Reburied : graves'[r] > n
<1>1. TypeOK /\ CursorInv /\ [Next]_vars => Higher
  <2> SUFFICES ASSUME TypeOK, CursorInv, [Next]_vars, NEW c \in Client, NEW n \in Cursors(c)
               PROVE  /\ \A r \in Rewritten : canon'[r].seq > n
                      /\ \A r \in Reburied : graves'[r] > n
    OBVIOUS
  <2>1. Numbers
    BY NumberStep
  <2>2. n \in Nat /\ n <= counter /\ counter \in Nat
    BY CursorsAreNumbers DEF CursorInv, TypeOK
  <2>3. \A r \in Rewritten : canon'[r].seq = counter + 1
    BY <2>1 DEF Numbers, Rewritten
  <2>4. \A r \in Reburied : graves'[r] = counter + 1
    BY <2>1 DEF Numbers, Reburied
  <2>. QED
    BY <2>2, <2>3, <2>4
<1>2. TypeOK /\ CursorInv /\ [Next]_vars => [Higher]_vars
  BY <1>1
<1>. QED
  BY <1>2, TypeCorrect, CursorsBelowCounter, PTL DEF Spec, NothingBelowCursor

-------------------------------------------------------------------------------
(* Deletions.                                                               *)

\* No row is deleted on a device while its engine reads the dirty rows.
QuietReads == <<"reading", "delete">> \notin Racing

\* The row was deleted under the request after it was read.
Withdrawn(c, r) == Lineage[r] \cap (queue[c] \ req[c].tombs) # {}

\* The rows a request carries are on its device, or withdrawn since.
DeletesInv ==
    \A c \in Client :
        /\ phase[c] = "reading" =>
              req[c].tombs = {} /\ Held(req[c].rows) \subseteq Held(local[c])
        /\ phase[c] = "sent" =>
              /\ req[c].tombs \subseteq queue[c]
              /\ \A r \in Held(req[c].rows) : r \in Held(local[c]) \/ Withdrawn(c, r)

LEMMA DeletesInit == Init => DeletesInv
BY DEF Init, DeletesInv

\* Writing a row keeps the others, and deleting one leaves a tombstone above
\* every row that went.
LEMMA DeletesUser ==
    ASSUME QuietReads, TypeOK, DeletesInv, NEW c \in Client, UserStep(c)
    PROVE  DeletesInv'
<1> PICK r \in Row : Insert(c, r) \/ Edit(c, r) \/ Drop(c, r)
  BY DEF UserStep
<1>0. UNCHANGED <<phase, req>>
  BY DEF Insert, Edit, Drop, roundVars
<1>1. ASSUME Stamp(c, r), queue' = queue
      PROVE  DeletesInv'
  <2>1. [v |-> [at |-> clock[c] + 1, by |-> c], dirty |-> TRUE] # Nil
    <3>1. [v |-> [at |-> clock[c] + 1, by |-> c], dirty |-> TRUE] \in [v : Version, dirty : BOOLEAN]
      BY DEF TypeOK, Version
    <3>. QED
      BY <3>1, CellAssumption
  <2>2. \A d \in Client : Held(local[d]) \subseteq Held(local'[d])
    BY <1>1, <2>1 DEF Stamp, TypeOK, Held
  <2>. QED
    BY <1>0, <1>1, <2>2 DEF DeletesInv, Withdrawn
<1>2. CASE Insert(c, r) \/ Edit(c, r)
  BY <1>1, <1>2 DEF Insert, Edit
<1>3. CASE Drop(c, r)
  <2>1. phase[c] # "reading"
    BY <1>3 DEF Drop, MayWrite, QuietReads
  <2>2. /\ r \in Held(local[c]) \ queue[c]
        /\ local' = [local EXCEPT ![c] = Cull(local[c], {r})]
        /\ queue' = [queue EXCEPT ![c] = queue[c] \cup {r}]
    BY <1>3 DEF Drop
  <2>3. \A d \in Client \ {c} : local'[d] = local[d] /\ queue'[d] = queue[d]
    BY <2>2 DEF TypeOK
  <2>4. queue'[c] = queue[c] \cup {r} /\ local'[c] = Cull(local[c], {r})
    BY <2>2 DEF TypeOK
  <2>5. \A x \in Held(local[c]) : x \in Held(local'[c]) \/ r \in Lineage[x]
    BY <2>4 DEF Cull, Held
  <2>6. ASSUME phase[c] = "sent"
        PROVE  /\ req[c].tombs \subseteq queue'[c]
               /\ \A x \in Held(req[c].rows) : x \in Held(local'[c]) \/ Withdrawn(c, x)'
    <3>1. req[c].tombs \subseteq queue[c] /\ req'[c] = req[c]
      BY <1>0, <2>6 DEF DeletesInv
    <3>2. r \in queue'[c] \ req'[c].tombs
      BY <2>2, <2>4, <3>1
    <3>3. ASSUME NEW x \in Held(req[c].rows)
          PROVE  x \in Held(local'[c]) \/ Lineage[x] \cap (queue'[c] \ req'[c].tombs) # {}
      <4>1. x \in Held(local[c]) \/ Lineage[x] \cap (queue[c] \ req[c].tombs) # {}
        BY <2>6, <3>3 DEF DeletesInv, Withdrawn
      <4>. QED
        BY <2>4, <2>5, <3>1, <3>2, <4>1
    <3>. QED
      BY <2>4, <3>1, <3>3 DEF Withdrawn
  <2>. QED
    BY <1>0, <2>1, <2>3, <2>6 DEF DeletesInv, Withdrawn
<1>. QED
  BY <1>2, <1>3

\* A request carries rows its device holds.
LEMMA DeletesRequest ==
    ASSUME TypeOK, DeletesInv, NEW c \in Client,
           BeginPush(c) \/ ReadPage(c) \/ SendPush(c) \/ SendPull(c)
    PROVE  DeletesInv'
<1>0. UNCHANGED <<local, queue>>
  BY DEF BeginPush, ReadPage, SendPush, SendPull, fileVars
<1>1. \A d \in Client \ {c} : req'[d] = req[d] /\ phase'[d] = phase[d]
  BY DEF BeginPush, ReadPage, SendPush, SendPull, TypeOK
<1>2. ASSUME NEW rows, NEW S
      PROVE  Held(Read(c, rows, S)) \subseteq Held(local[c]) \cup Held(rows)
  BY DEF Read, DirtyIn, Held
<1>3. Held(NoRows) = {}
  BY DEF Held, NoRows
<1>4. CASE BeginPush(c)
  <2>1. phase'[c] = "reading"
    BY <1>4 DEF BeginPush, TypeOK
  <2>2. req'[c].tombs = {} /\ req'[c].rows = Read(c, NoRows, OnPage(1))
    BY <1>4 DEF BeginPush, TypeOK, NoRequest
  <2>. QED
    BY <1>0, <1>1, <1>2, <1>3, <2>1, <2>2 DEF DeletesInv, Withdrawn
<1>5. CASE ReadPage(c)
  <2>1. phase[c] = "reading" /\ phase'[c] = "reading"
    BY <1>5 DEF ReadPage
  <2>2. req'[c].tombs = req[c].tombs /\ req'[c].rows = Read(c, req[c].rows, OnPage(page[c]))
    BY <1>5 DEF ReadPage, TypeOK, Request
  <2>. QED
    BY <1>0, <1>1, <1>2, <2>1, <2>2 DEF DeletesInv, Withdrawn
<1>6. CASE SendPush(c)
  <2>1. phase[c] = "reading" /\ phase'[c] = "sent"
    BY <1>6 DEF SendPush, TypeOK
  <2>2. req'[c].tombs = queue[c] /\ req'[c].rows = req[c].rows
    BY <1>6 DEF SendPush, TypeOK, Request
  <2>. QED
    BY <1>0, <1>1, <2>1, <2>2 DEF DeletesInv, Withdrawn
<1>7. CASE SendPull(c)
  <2>1. phase'[c] = "sent"
    BY <1>7 DEF SendPull, TypeOK
  <2>2. req'[c].tombs = {} /\ req'[c].rows = NoRows
    BY <1>7 DEF SendPull, TypeOK, NoRequest
  <2>. QED
    BY <1>0, <1>1, <1>3, <2>1, <2>2 DEF DeletesInv, Withdrawn
<1>. QED
  BY <1>4, <1>5, <1>6, <1>7

\* Whatever ends a round or a file leaves no request of that device behind.
LEMMA DeletesRest ==
    ASSUME TypeOK, DeletesInv, NEW c \in Client,
           \/ ServerStep(c) \/ AnswerStep(c)
           \/ Lose(c) \/ Reload(c) \/ SetRole(c) \/ Revoke(c)
    PROVE  DeletesInv'
<1>1. ASSUME phase'[c] \in {"idle", "answered", "resetting"},
             \A d \in Client \ {c} : /\ local'[d] = local[d] /\ queue'[d] = queue[d]
                                     /\ req'[d] = req[d] /\ phase'[d] = phase[d]
      PROVE  DeletesInv'
  BY <1>1 DEF DeletesInv, Withdrawn
<1>2. CASE ServerStep(c)
  <2>1. PICK a : Reply(c, a)
    BY <1>2 DEF ServerStep, ServeBail, ServeExpired, Serve, ServeFails
  <2>. QED
    BY <1>1, <2>1 DEF Reply, fileVars, TypeOK
<1>3. CASE AnswerStep(c)
  <2>1. CASE Apply(c)
    BY <1>1, <2>1 DEF Apply, EndRound, TypeOK
  <2>2. CASE ServerFault(c) \/ ApplyClashes(c) \/ ApplyDangles(c)
    BY <1>1, <2>2 DEF ServerFault, ApplyClashes, ApplyDangles, Fail, EndRound, fileVars, TypeOK
  <2>3. CASE LearnExpired(c)
    <3>1. PICK next \in {"idle", "resetting"} : phase' = [phase EXCEPT ![c] = next]
      BY <2>3 DEF LearnExpired
    <3>. QED
      BY <1>1, <2>3, <3>1 DEF LearnExpired, fileVars, TypeOK
  <2>4. CASE Reset(c)
    BY <1>1, <2>4 DEF Reset, TypeOK
  <2>. QED
    BY <1>3, <2>1, <2>2, <2>3, <2>4 DEF AnswerStep
<1>4. CASE Lose(c) \/ Reload(c)
  BY <1>1, <1>4 DEF Lose, Reload, EndRound, fileVars, TypeOK
<1>5. CASE SetRole(c) \/ Revoke(c)
  BY <1>5 DEF SetRole, Revoke, fileVars, roundVars, DeletesInv, Withdrawn
<1>. QED
  BY <1>2, <1>3, <1>4, <1>5

LEMMA DeletesStep == QuietReads /\ TypeOK /\ DeletesInv /\ [Next]_vars => DeletesInv'
<1> SUFFICES ASSUME QuietReads, TypeOK, DeletesInv, [Next]_vars PROVE DeletesInv'
  OBVIOUS
<1>1. CASE UNCHANGED vars
  BY <1>1 DEF DeletesInv, Withdrawn, vars, fileVars, roundVars
<1>2. CASE Prune
  BY <1>2 DEF Prune, DeletesInv, Withdrawn, fileVars, roundVars
<1>3. ASSUME NEW c \in Client,
             \/ UserStep(c) \/ EngineStep(c) \/ ServerStep(c)
             \/ Lose(c) \/ Reload(c) \/ SetRole(c) \/ Revoke(c)
      PROVE  DeletesInv'
  BY <1>3, DeletesUser, DeletesRequest, DeletesRest DEF EngineStep
<1>. QED
  BY <1>1, <1>2, <1>3 DEF Next

\* The merge puts a tombstoned row back only if the push carries the row.
LEMMA TombstonesBite ==
    ASSUME NEW store \in [Row -> Opt(CanonRow)], NEW q \in Request, NEW seq,
           NEW r \in q.tombs, Pushed(store, q, seq)[r] # Nil
    PROVE  r \in Held(q.rows)
<1> DEFINE base == Cull(store, q.tombs)
           acc == Accepted(store, q, seq)
<1>1. r \in Row
  BY DEF Request
<1>2. base[r] = Nil
  BY <1>1, LineageReflexive DEF Cull
<1>3. acc \subseteq Held(q.rows)
  BY DEF Accepted
<1>4. Writers(base, q, acc, r) # {}
  <2> HIDE DEF base, acc
  <2>1. Pushed(store, q, seq) = Merge(base, q, acc, seq)
    BY DEF Pushed, base, acc
  <2>. QED
    BY <1>1, <1>2, <2>1 DEF Merge
<1>5. PICK x \in acc : Target(base, x) = r
  BY <1>4 DEF Writers
<1>6. CASE base[x] = Nil /\ KeyOwners(base, x) # {}
  <2>1. Target(base, x) \in KeyOwners(base, x)
    BY <1>6 DEF Target
  <2>. QED
    BY <1>2, <1>5, <2>1 DEF KeyOwners, Held
<1>7. CASE ~(base[x] = Nil /\ KeyOwners(base, x) # {})
  BY <1>3, <1>5, <1>7 DEF Target
<1>. QED
  BY <1>6, <1>7

\* An acknowledged tombstone has taken the row off the server.
THEOREM DeletionsStick == QuietReads => (Spec => DeletesStick)
<1> SUFFICES ASSUME QuietReads PROVE Spec => DeletesStick
  OBVIOUS
<1> DEFINE Gone ==
      \A c \in Client :
          phase[c] = "sent" /\ phase'[c] = "answered" /\ resp'[c].kind = "ok" /\ grant[c] =>
              \A r \in req[c].tombs :
                  \/ canon'[r] = Nil
                  \/ r \in Held(local[c])
                  \/ Lineage[r] \cap (queue[c] \ req[c].tombs) # {}
<1>1. TypeOK /\ DeletesInv /\ [Next]_vars => Gone
  <2> SUFFICES ASSUME TypeOK, DeletesInv, [Next]_vars, NEW c \in Client,
                      phase[c] = "sent", phase'[c] = "answered", resp'[c].kind = "ok",
                      grant[c], NEW r \in req[c].tombs, canon'[r] # Nil
               PROVE  r \in Held(local[c]) \/ Withdrawn(c, r)
    BY DEF Withdrawn
  <2>0. req[c] \in Request /\ Granted(req[c], grant[c]) = req[c]
    BY DEF TypeOK, Granted
  <2>1. ASSUME NEW d \in Client, ServerStep(d)
        PROVE  Serve(c)
    <3>1. PICK a : Reply(d, a)
      BY <2>1 DEF ServerStep, ServeBail, ServeExpired, Serve, ServeFails
    <3>2. d = c
      BY <3>1 DEF Reply, TypeOK
    <3>3. ~ServeExpired(c) /\ ~ServeFails(c)
      <4>1. \A b : Reply(c, b) => resp'[c] = b
        BY DEF Reply, TypeOK
      <4>2. NoAnswer.kind # "ok" /\ [NoAnswer EXCEPT !.kind = "expired"].kind # "ok"
        BY DEF NoAnswer
      <4>. QED
        BY <4>1, <4>2 DEF ServeExpired, ServeFails
    <3>4. ~ServeBail(c)
      BY <2>0 DEF ServeBail, FastBail
    <3>. QED
      BY <2>1, <3>2, <3>3, <3>4 DEF ServerStep
  <2>2. Serve(c)
    <3>1. ASSUME NEW d \in Client,
                 UserStep(d) \/ EngineStep(d) \/ Lose(d) \/ Reload(d) \/ SetRole(d) \/ Revoke(d)
          PROVE  FALSE
      <4>1. CASE UserStep(d)
        BY <4>1 DEF UserStep, Insert, Edit, Drop, roundVars
      <4>2. CASE BeginPush(d) \/ ReadPage(d) \/ SendPush(d) \/ SendPull(d)
        BY <4>2 DEF BeginPush, ReadPage, SendPush, SendPull, TypeOK
      <4>3. CASE AnswerStep(d)
        BY <4>3 DEF AnswerStep, Apply, ServerFault, ApplyClashes, ApplyDangles, Fail,
                    LearnExpired, Reset, EndRound, TypeOK
      <4>4. CASE Lose(d) \/ Reload(d) \/ SetRole(d) \/ Revoke(d)
        BY <4>4 DEF Lose, Reload, SetRole, Revoke, EndRound, roundVars, TypeOK
      <4>. QED
        BY <3>1, <4>1, <4>2, <4>3, <4>4 DEF EngineStep
    <3>2. ~Prune /\ ~UNCHANGED vars
      BY DEF Prune, vars, roundVars
    <3>. QED
      BY <2>1, <3>1, <3>2 DEF Next
  <2>3. canon' = Pushed(canon, req[c], counter + 1)
    BY <2>0, <2>2 DEF Serve
  <2>4. r \in Held(req[c].rows)
    BY <2>0, <2>3, TombstonesBite DEF TypeOK
  <2>. QED
    BY <2>4 DEF DeletesInv
<1>2. TypeOK /\ DeletesInv /\ [Next]_vars => [Gone]_vars
  BY <1>1
<1>3. Spec => []DeletesInv
  BY TypeCorrect, DeletesInit, DeletesStep, PTL DEF Spec
<1>. QED
  BY <1>2, <1>3, TypeCorrect, PTL DEF Spec, DeletesStick

-------------------------------------------------------------------------------
(* One device moves at a time.                                              *)

\* What a device's engine and file hold.
Own(c) == <<local[c], cursor[c], role[c], phase[c], page[c], req[c], resp[c], grant[c],
            queue[c], clock[c], streak[c]>>

StepOf(c) ==
    \/ UserStep(c) \/ EngineStep(c) \/ ServerStep(c)
    \/ Lose(c) \/ Reload(c) \/ SetRole(c) \/ Revoke(c)

LEMMA OthersStay ==
    ASSUME TypeOK, NEW c \in Client, StepOf(c), NEW d \in Client \ {c}
    PROVE  Own(d)' = Own(d)
<1> USE DEF Own
<1>1. CASE UserStep(c)
  BY <1>1 DEF UserStep, Insert, Edit, Drop, Stamp, TypeOK, engineVars, roundVars, worldVars
<1>2. CASE BeginPush(c) \/ ReadPage(c) \/ SendPush(c) \/ SendPull(c)
  BY <1>2 DEF BeginPush, ReadPage, SendPush, SendPull, TypeOK, fileVars, engineVars, worldVars
<1>3. CASE Apply(c)
  BY <1>3 DEF Apply, EndRound, TypeOK, worldVars
<1>4. CASE ServerFault(c) \/ ApplyClashes(c) \/ ApplyDangles(c)
  BY <1>4 DEF ServerFault, ApplyClashes, ApplyDangles, Fail, Record, EndRound, TypeOK,
      fileVars, worldVars
<1>5. CASE LearnExpired(c)
  BY <1>5 DEF LearnExpired, TypeOK, fileVars, worldVars
<1>6. CASE Reset(c)
  BY <1>6 DEF Reset, TypeOK, worldVars
<1>7. CASE ServerStep(c)
  <2>1. PICK a : Reply(c, a)
    BY <1>7 DEF ServerStep, ServeBail, ServeExpired, Serve, ServeFails
  <2>. QED
    BY <2>1 DEF Reply, TypeOK, fileVars, engineVars, worldVars
<1>8. CASE Lose(c) \/ Reload(c)
  BY <1>8 DEF Lose, Reload, EndRound, TypeOK, fileVars
<1>9. CASE SetRole(c) \/ Revoke(c)
  BY <1>9 DEF SetRole, Revoke, TypeOK, fileVars, engineVars, roundVars, worldVars
<1>. QED
  BY <1>1, <1>2, <1>3, <1>4, <1>5, <1>6, <1>7, <1>8, <1>9 DEF StepOf, EngineStep, AnswerStep

LEMMA NobodyMoves ==
    ASSUME UNCHANGED vars \/ Prune, NEW d \in Client
    PROVE  Own(d)' = Own(d)
BY DEF Own, vars, Prune, fileVars, engineVars, roundVars, worldVars

\* A file that is not inherited from a lapsed role is clean.
LEMMA CleanFiles ==
    ASSUME NEW c \in Client, Boot[c] # "lapsed", NEW f \in InitialFiles(c), NEW r \in Row
    PROVE  /\ f[r] # Nil => f[r] = [v |-> SeedVersion, dirty |-> FALSE]
           /\ Boot[c] = "snapshot" => (f[r] # Nil <=> r \in Seed)
<1>0. [v |-> SeedVersion, dirty |-> FALSE] # Nil
  <2>1. [v |-> SeedVersion, dirty |-> FALSE] \in [v : Version, dirty : BOOLEAN]
    BY DEF SeedVersion, Version
  <2>. QED
    BY <2>1, CellAssumption
<1>1. CASE Boot[c] = "snapshot"
  BY <1>0, <1>1 DEF InitialFiles
<1>2. CASE Boot[c] = "legacy"
  <2>1. PICK S : f = [x \in Row |-> IF x \in S THEN [v |-> SeedVersion, dirty |-> FALSE] ELSE Nil]
    BY <1>2 DEF InitialFiles
  <2>. QED
    BY <1>2, <2>1
<1>3. Boot[c] \in {"snapshot", "legacy", "lapsed"}
  BY EnvironmentAssumption
<1>. QED
  BY <1>1, <1>2, <1>3

-------------------------------------------------------------------------------
(* Unpushed work.                                                           *)

\* Rows are edited between round trips only and not deleted while they are read, nobody
\* loses a role, no tombstone is pruned, and who may write starts from a snapshot.
Undisturbed ==
    /\ \A p \in Phases \ {"idle"} : <<p, "edit">> \notin Racing
    /\ QuietReads /\ Revocable = {} /\ MaxPrunes = 0
    /\ \A c \in Client : Boot[c] # "lapsed"
    /\ \A c \in Editors \cup Promotable : Boot[c] = "snapshot"

\* No two rows have the same natural key.
Unique(rows) == \A r, o \in Held(rows) : KeyOf[r] = KeyOf[o] /\ KeyOf[r] # Nil => r = o

\* Neither the server nor a device of D has heard of row r.
Unknown(r, D) ==
    /\ canon[r] = Nil
    /\ \A d \in D : local[d][r] = Nil /\ req[d].rows[r] = Nil /\ resp[d].rows[r] = Nil

\* Row r has never left device c.
Fresh(c, r) == r \in minted /\ Unknown(r, Client \ {c}) /\ resp[c].rows[r] = Nil

\* The server has version v of row r or a later one, or saw its lineage deleted.
Done(r, v) ==
    \/ canon[r] # Nil /\ canon[r].v.at >= v.at
    \/ \E p \in Lineage[r] \cap Row : graves[p] > 0

\* Who writes has a role, a cursor and a file that respects the natural keys.
WriterOK(c) ==
    /\ role[c] => grant[c]
    /\ phase[c] = "reading" => role[c]
    /\ ~role[c] => DirtyIn(c, Row) = {}
    /\ grant[c] => /\ cursor[c] # Nil /\ Unique(local[c])
                   /\ phase[c] # "idle" => req[c].cursor # Nil

\* A request carries the flagged rows as they are, but for those deleted since, and what it
\* leaves out is still to be read or has never left the device.
RequestOK(c) ==
    /\ Held(req[c].probes) = {} /\ Unique(req[c].rows)
    /\ phase[c] = "idle" => req[c].rows = NoRows
    /\ phase[c] = "reading" => Held(req[c].rows) \subseteq Held(local[c])
    /\ \A r \in Held(req[c].rows) \cap Held(local[c]) :
          local[c][r] = [v |-> req[c].rows[r], dirty |-> TRUE]
    /\ \A r \in DirtyIn(c, Row) \ Held(req[c].rows) :
          \/ phase[c] = "idle" \/ Fresh(c, r)
          \/ phase[c] = "reading" /\ Table[r] >= page[c]

\* An answer reports deletions that happened, and accounts for what was pushed.
AnswerOK(c) ==
    phase[c] = "answered" /\ resp[c].kind = "ok" =>
        /\ \A r \in resp[c].dels : graves[r] > 0
        /\ \A r \in Held(req[c].rows) : r \in resp[c].rejected \/ Done(r, req[c].rows[r])

NeverExpires ==
    /\ pruned = 0 /\ prunes = 0
    /\ \A c \in Client : phase[c] # "resetting" /\ resp[c].kind # "expired"

WorkInv ==
    /\ NeverExpires
    /\ \A r \in Row \ minted : Unknown(r, Client)
    /\ \A c \in Client : WriterOK(c) /\ RequestOK(c) /\ AnswerOK(c)

-------------------------------------------------------------------------------
(* What the endpoint does to rows and their tombstones.                     *)

\* What the server settled stays settled.
Lasts ==
    /\ \A r \in Row : graves[r] > 0 => graves'[r] > 0
    /\ \A r \in Row : \A v \in Version : Done(r, v) => Done(r, v)'

\* A row is merged onto an absent one only under its own id.
LEMMA OwnTarget ==
    ASSUME NEW base, NEW r \in Row, NEW o \in Row, Target(base, o) = r, base[r] = Nil
    PROVE  o = r
<1>1. CASE base[o] = Nil /\ KeyOwners(base, o) # {}
  <2>1. Target(base, o) \in KeyOwners(base, o)
    BY <1>1 DEF Target
  <2>. QED
    BY <2>1 DEF KeyOwners, Held
<1>2. CASE ~(base[o] = Nil /\ KeyOwners(base, o) # {})
  BY <1>2 DEF Target
<1>. QED
  BY <1>1, <1>2

\* Rows of a batch that share no key are not merged onto one another.
LEMMA OneTarget ==
    ASSUME NEW base, NEW rows, Unique(rows), NEW r \in Held(rows), NEW o \in Held(rows),
           Target(base, o) = r
    PROVE  o = r
<1>1. CASE base[o] = Nil /\ KeyOwners(base, o) # {}
  <2>1. Target(base, o) \in KeyOwners(base, o)
    BY <1>1 DEF Target
  <2>. QED
    BY <2>1 DEF KeyOwners, Unique
<1>2. CASE ~(base[o] = Nil /\ KeyOwners(base, o) # {})
  BY <1>2 DEF Target
<1>. QED
  BY <1>1, <1>2

\* A batch replaces a row only by one as late, and keeps the rows it does not replace.
LEMMA MergeLater ==
    ASSUME NEW base \in [Row -> Opt(CanonRow)], NEW q \in Request,
           NEW pushed \in SUBSET Held(q.rows), NEW seq \in Nat, NEW x \in Row
    PROVE  LET y == Merge(base, q, pushed, seq)[x]
           IN  /\ Writers(base, q, pushed, x) = {} => y = base[x]
               /\ Writers(base, q, pushed, x) # {} =>
                     /\ y # Nil
                     /\ \E w \in Writers(base, q, pushed, x) : y.v = q.rows[w]
               /\ base[x] # Nil => y # Nil /\ y.v.at >= base[x].v.at
<1>. DEFINE W == Writers(base, q, pushed, x)
            w == CHOOSE r \in W : TRUE
            y == Merge(base, q, pushed, seq)[x]
<1>1. y = IF W = {} THEN base[x] ELSE [v |-> q.rows[w], seq |-> seq]
  BY DEF Merge
<1>2. base[x] # Nil => base[x].v.at \in Nat
  BY DEF Opt, CanonRow, Version
<1>3. CASE W = {}
  BY <1>1, <1>2, <1>3
<1>4. CASE W # {}
  <2>1. w \in W
    BY <1>4
  <2>2. w \in pushed /\ Target(base, w) = x /\ Wins(base, w, q.rows[w])
    BY <2>1 DEF Writers
  <2>3. q.rows[w] \in Version
    BY <2>2 DEF Held, Request, Opt
  <2>. HIDE DEF W, w, y
  <2>4. y = [v |-> q.rows[w], seq |-> seq]
    BY <1>1, <1>4
  <2>5. y # Nil /\ y.v = q.rows[w]
    <3>1. y \in [v : Version, seq : Nat]
      BY <2>3, <2>4
    <3>. QED
      BY <2>4, <3>1, CellAssumption
  <2>6. base[x] # Nil => y.v.at >= base[x].v.at
    <3>1. base[x] # Nil => base[x].v.at <= q.rows[w].at
      BY <2>2 DEF Wins
    <3>2. q.rows[w].at \in Nat
      BY <2>3 DEF Version
    <3>. QED
      BY <1>2, <2>5, <3>1, <3>2
  <2>. QED
    BY <1>4, <2>1, <2>5, <2>6 DEF W, y
<1>. QED
  BY <1>3, <1>4

LEMMA ServeLasts ==
    ASSUME TypeOK, NEW c \in Client, Serve(c)
    PROVE  Lasts
<1>. DEFINE q == Granted(req[c], grant[c])
            seq == counter + 1
            base == Cull(canon, q.tombs)
            acc == Accepted(canon, q, seq)
<1>1. /\ q \in Request /\ seq \in Nat /\ seq > 0
      /\ canon \in [Row -> Opt(CanonRow)] /\ graves \in [Row -> Nat]
  BY GrantedType DEF TypeOK
<1>2. /\ canon' = Merge(base, q, acc, seq) /\ graves' = Graves(graves, canon, q, seq)
      /\ acc \in SUBSET Held(q.rows)
  BY DEF Serve, Pushed, Accepted
<1>3. base \in [Row -> Opt(CanonRow)]
  BY <1>1, CullType
<1>4. ASSUME NEW r \in Row PROVE /\ graves'[r] = graves[r] \/ graves'[r] = seq
                                 /\ r \in q.tombs => graves'[r] = seq
  BY <1>2 DEF Graves, Buried
<1>5. ASSUME NEW r \in Row, graves[r] > 0 PROVE graves'[r] > 0
  BY <1>1, <1>4, <1>5
<1>6. ASSUME NEW r \in Row, NEW v \in Version, Done(r, v) PROVE Done(r, v)'
  <2>2. CASE \E p \in Lineage[r] \cap Row : graves[p] > 0
    BY <1>5, <2>2 DEF Done
  <2>3. CASE canon[r] # Nil /\ canon[r].v.at >= v.at /\ Lineage[r] \cap q.tombs = {}
    <3>1. base[r] = canon[r] /\ base[r] # Nil
      BY <2>3 DEF Cull
    <3>. HIDE DEF q, seq, base, acc
    <3>2. canon'[r] # Nil /\ canon'[r].v.at >= base[r].v.at
      BY <1>1, <1>2, <1>3, <3>1, MergeLater
    <3>3. canon'[r].v.at >= v.at
      <4>1. canon[r] # Nil /\ canon[r].v.at >= v.at
        BY <2>3
      <4>2. canon'[r] \in Opt(CanonRow)
        BY <1>1, <1>2, <1>3, MergeType
      <4>3. canon'[r].v.at \in Nat /\ canon[r].v.at \in Nat
        BY <1>1, <3>2, <4>1, <4>2 DEF Opt, CanonRow, Version
      <4>4. v.at \in Nat
        BY DEF Version
      <4>. QED
        BY <3>1, <3>2, <4>1, <4>3, <4>4
    <3>. QED
      BY <3>2, <3>3 DEF Done
  <2>4. CASE Lineage[r] \cap q.tombs # {}
    <3>1. q.tombs \subseteq Row
      BY <1>1 DEF Request
    <3>. QED
      BY <1>1, <1>4, <2>4, <3>1 DEF Done
  <2>. QED
    BY <1>6, <2>2, <2>3, <2>4 DEF Done
<1>. QED
  BY <1>5, <1>6 DEF Lasts

\* A row the server lacks and the request does not carry stays unknown.
LEMMA ServeUnknown ==
    ASSUME TypeOK, NEW c \in Client, Serve(c),
           NEW r \in Row, canon[r] = Nil, req[c].rows[r] = Nil
    PROVE  canon'[r] = Nil /\ resp'[c].rows[r] = Nil
<1>. DEFINE q == Granted(req[c], grant[c])
            seq == counter + 1
            base == Cull(canon, q.tombs)
            acc == Accepted(canon, q, seq)
<1>1. /\ q \in Request /\ seq \in Nat
      /\ canon \in [Row -> Opt(CanonRow)] /\ base \in [Row -> Opt(CanonRow)]
  <2>1. q \in Request /\ canon \in [Row -> Opt(CanonRow)] /\ counter \in Nat
    BY GrantedType DEF TypeOK
  <2>. QED
    BY <2>1, CullType
<1>2. canon' = Merge(base, q, acc, seq) /\ acc \in SUBSET Held(q.rows)
  BY DEF Serve, Pushed, Accepted
<1>3. base[r] = Nil /\ q.rows[r] = Nil
  BY DEF Cull, Granted, NoRows, TypeOK, Request
<1>4. Writers(base, q, acc, r) = {}
  <2>1. SUFFICES ASSUME NEW w \in Writers(base, q, acc, r) PROVE FALSE
    OBVIOUS
  <2>. HIDE DEF base, q, acc
  <2>2. w \in acc /\ Target(base, w) = r
    BY DEF Writers
  <2>3. w \in Row /\ q.rows[w] # Nil
    BY <1>2, <2>2 DEF Held
  <2>. QED
    BY <1>3, <2>2, <2>3, OwnTarget
<1>5. canon'[r] = Nil
  <2>. HIDE DEF base, q, acc, seq
  <2>. QED
    BY <1>1, <1>2, <1>3, <1>4, MergeLater
<1>6. resp'[c].rows[r] = Nil
  <2>1. PICK a, b, d, e : resp'[c].rows = Changes(canon', a, b, d)
    BY DEF Serve, Reply, TypeOK, FullAnswer
  <2>. QED
    BY <1>5, <2>1 DEF Changes
<1>. QED
  BY <1>5, <1>6

\* The answer accounts for every row of a request that respects the natural keys.
LEMMA ServeDone ==
    ASSUME TypeOK, NEW c \in Client, Serve(c), Unique(req[c].rows)
    PROVE  AnswerOK(c)'
<1>. DEFINE q == Granted(req[c], grant[c])
            seq == counter + 1
            base == Cull(canon, q.tombs)
            acc == Accepted(canon, q, seq)
            a == resp'[c]
<1>1. /\ q \in Request /\ seq \in Nat /\ seq > 0
      /\ canon \in [Row -> Opt(CanonRow)] /\ base \in [Row -> Opt(CanonRow)]
  <2>1. q \in Request /\ canon \in [Row -> Opt(CanonRow)] /\ counter \in Nat
    BY GrantedType DEF TypeOK
  <2>. QED
    BY <2>1, CullType
<1>2. /\ canon' = Merge(base, q, acc, seq) /\ acc \in SUBSET Held(q.rows)
      /\ graves' = Graves(graves, canon, q, seq) /\ req'[c] = req[c]
  BY DEF Serve, Pushed, Accepted, Reply
<1>3. a = FullAnswer(canon, canon', graves', req[c], grant[c], seq, counter')
  BY DEF Serve, Reply, TypeOK
<1>4. ASSUME NEW r \in a.dels PROVE graves'[r] > 0
  <2>1. CASE r \in Losers(base, acc)
    <3>1. r \in Row
      BY <1>2, <2>1 DEF Losers, Held
    <3>2. graves'[r] = seq
      BY <1>2, <2>1, <3>1 DEF Graves, Buried
    <3>. QED
      BY <1>1, <3>2
  <2>2. CASE r \in Deletions(canon', graves', req[c].cursor)
    <3>1. req[c].cursor \in Nat
      BY <2>2 DEF Deletions, TypeOK, Request, Opt
    <3>2. r \in Row /\ graves'[r] > req[c].cursor
      BY <2>2, <3>1 DEF Deletions
    <3>3. graves' \in [Row -> Nat]
      BY <1>1, <1>2, PushType DEF TypeOK
    <3>. QED
      BY <3>1, <3>2, <3>3
  <2>. QED
    BY <1>3, <2>1, <2>2 DEF FullAnswer
<1>5. ASSUME NEW r \in Held(req[c].rows) PROVE r \in a.rejected \/ Done(r, req[c].rows[r])'
  <2>1. CASE ~grant[c]
    BY <1>3, <2>1 DEF FullAnswer
  <2>2. CASE grant[c]
    <3>1. q = req[c]
      BY <2>2 DEF Granted
    <3>2. CASE r \in Orphans(canon, q, seq) \/ Target(base, r) # r
      <4>1. a.rejected = Losers(base, acc) \cup Orphans(canon, q, seq)
        BY <1>3, <2>2 DEF FullAnswer
      <4>2. r \in Orphans(canon, q, seq) \/ r \in acc
        BY <1>5, <3>1 DEF Accepted
      <4>. HIDE DEF base, acc, q, seq, a
      <4>. QED
        BY <3>2, <4>1, <4>2 DEF Losers
    <3>3. CASE r \in acc /\ Target(base, r) = r
      <4>1. r \in Row /\ q.rows[r] \in Version
        BY <1>1, <3>1 DEF Held, Request, Opt
      <4>2. \A w \in Writers(base, q, acc, r) : w = r
        <5>1. TAKE w \in Writers(base, q, acc, r)
        <5>. HIDE DEF base, acc, q
        <5>2. w \in Held(q.rows) /\ Target(base, w) = r
          BY <1>2 DEF Writers
        <5>. QED
          BY <3>1, <5>2, OneTarget
      <4>3. CASE Wins(base, r, q.rows[r])
        <5>. HIDE DEF base, acc, q, seq
        <5>1. r \in Writers(base, q, acc, r)
          BY <3>3, <4>3 DEF Writers
        <5>2. canon'[r] # Nil /\ canon'[r].v = q.rows[r]
          <6>1. /\ base \in [Row -> Opt(CanonRow)] /\ q \in Request /\ seq \in Nat /\ r \in Row
                /\ acc \in SUBSET Held(q.rows) /\ canon' = Merge(base, q, acc, seq)
            BY <1>1, <1>2, <4>1
          <6>2. Writers(base, q, acc, r) # {} =>
                   /\ Merge(base, q, acc, seq)[r] # Nil
                   /\ \E w \in Writers(base, q, acc, r) :
                         Merge(base, q, acc, seq)[r].v = q.rows[w]
            BY <6>1, MergeLater
          <6>. QED
            BY <4>2, <5>1, <6>1, <6>2
        <5>3. q.rows[r].at \in Nat
          BY <4>1 DEF Version
        <5>4. canon'[r].v.at >= q.rows[r].at
          BY <5>2, <5>3
        <5>5. q.rows[r] = req'[c].rows[r]
          BY <1>2, <3>1
        <5>. QED
          BY <5>2, <5>4, <5>5 DEF Done
      <4>4. CASE ~Wins(base, r, q.rows[r])
        <5>1. base[r] # Nil /\ ~(base[r].v.at <= q.rows[r].at)
          BY <3>3, <4>4 DEF Wins
        <5>. HIDE DEF base, acc, q, seq
        <5>2. canon'[r] # Nil /\ canon'[r].v.at >= base[r].v.at
          BY <1>1, <1>2, <4>1, <5>1, MergeLater
        <5>3. base[r].v.at \in Nat /\ q.rows[r].at \in Nat
          BY <1>1, <4>1, <5>1 DEF Opt, CanonRow, Version
        <5>4. canon'[r].v.at \in Nat
          <6>1. acc \subseteq Held(q.rows)
            BY <1>2
          <6>2. Merge(base, q, acc, seq) \in [Row -> Opt(CanonRow)]
            BY <1>1, <6>1, MergeType
          <6>. QED
            BY <1>2, <4>1, <5>2, <6>2 DEF Opt, CanonRow, Version
        <5>5. canon'[r].v.at >= q.rows[r].at
          BY <5>1, <5>2, <5>3, <5>4
        <5>. QED
          BY <1>2, <3>1, <5>2, <5>5 DEF Done
      <4>. QED
        BY <4>3, <4>4
    <3>. QED
      BY <1>5, <3>1, <3>2, <3>3 DEF Accepted
  <2>. QED
    BY <1>1, <2>1, <2>2 DEF TypeOK
<1>. QED
  BY <1>2, <1>4, <1>5 DEF AnswerOK

-------------------------------------------------------------------------------
(* What a step of one device leaves of the others' work.                    *)

\* The step tells neither the server nor device c of a row they had not heard of, unless
\* it mints the row.
NoNews(c) ==
    /\ minted \subseteq minted'
    /\ \A r \in Row : (r \in minted \/ r \notin minted') /\ Unknown(r, {c}) => Unknown(r, {c})'

LEMMA StaysUnknown ==
    ASSUME TypeOK, NEW c \in Client, StepOf(c), NoNews(c), NEW D \in SUBSET Client, c \in D,
           NEW r \in Row, r \in minted \/ r \notin minted', Unknown(r, D)
    PROVE  Unknown(r, D)'
<1>1. Unknown(r, {c})
  BY DEF Unknown
<1>2. Unknown(r, {c})'
  BY <1>1 DEF NoNews
<1>3. ASSUME NEW d \in D \ {c}
      PROVE  local'[d][r] = Nil /\ req'[d].rows[r] = Nil /\ resp'[d].rows[r] = Nil
  <2>1. local'[d] = local[d] /\ req'[d] = req[d] /\ resp'[d] = resp[d]
    BY OthersStay DEF Own
  <2>. QED
    BY <2>1 DEF Unknown
<1>. QED
  BY <1>2, <1>3 DEF Unknown

LEMMA OthersKeep ==
    ASSUME TypeOK, WorkInv, NEW c \in Client, StepOf(c), Lasts, NoNews(c),
           NEW d \in Client \ {c}
    PROVE  WriterOK(d)' /\ RequestOK(d)' /\ AnswerOK(d)'
<1>1. /\ local'[d] = local[d] /\ cursor'[d] = cursor[d] /\ role'[d] = role[d]
      /\ phase'[d] = phase[d] /\ page'[d] = page[d] /\ req'[d] = req[d]
      /\ resp'[d] = resp[d] /\ grant'[d] = grant[d]
  BY OthersStay DEF Own
<1>2. WriterOK(d) /\ RequestOK(d) /\ AnswerOK(d)
  BY DEF WorkInv
<1>3. WriterOK(d)'
  BY <1>1, <1>2 DEF WriterOK, DirtyIn, Unique, Held
<1>4. ASSUME NEW r \in Row, Fresh(d, r) PROVE Fresh(d, r)'
  <2>1. Unknown(r, Client \ {d})'
    BY <1>4, StaysUnknown DEF Fresh
  <2>. QED
    BY <1>1, <1>4, <2>1 DEF Fresh, NoNews
<1>5. RequestOK(d)'
  <2>1. /\ Held(req[d].probes)' = Held(req[d].probes) /\ Held(req[d].rows)' = Held(req[d].rows)
        /\ Held(local[d])' = Held(local[d]) /\ DirtyIn(d, Row)' = DirtyIn(d, Row)
        /\ Unique(req[d].rows)' = Unique(req[d].rows)
    BY <1>1 DEF Held, DirtyIn, Unique
  <2>2. DirtyIn(d, Row) \subseteq Row
    BY DEF DirtyIn
  <2>3. ASSUME NEW r \in DirtyIn(d, Row) \ Held(req[d].rows)
        PROVE  \/ phase'[d] = "idle" \/ Fresh(d, r)'
               \/ phase'[d] = "reading" /\ Table[r] >= page'[d]
    BY <1>1, <1>2, <1>4, <2>2 DEF RequestOK
  <2>. QED
    BY <1>1, <1>2, <2>1, <2>3 DEF RequestOK
<1>6. AnswerOK(d)'
  <2>1. /\ resp[d].dels \subseteq Row /\ Held(req[d].rows) \subseteq Row
        /\ \A r \in Held(req[d].rows) : req[d].rows[r] \in Version
    BY DEF TypeOK, Request, Answer, Held, Opt
  <2>2. \A r \in Held(req[d].rows) : Done(r, req[d].rows[r]) => Done(r, req[d].rows[r])'
    <3>1. TAKE r \in Held(req[d].rows)
    <3>2. \A v \in Version : Done(r, v) => Done(r, v)'
      BY <2>1 DEF Lasts
    <3>3. HAVE Done(r, req[d].rows[r])
    <3>4. \A v \in Version : v = req[d].rows[r] => Done(r, v)'
      BY <3>2, <3>3
    <3>. QED
      BY <1>1, <2>1, <3>4 DEF Done
  <2>3. Held(req[d].rows)' = Held(req[d].rows)
    BY <1>1 DEF Held
  <2>. QED
    BY <1>1, <1>2, <2>1, <2>2, <2>3 DEF AnswerOK, Lasts
<1>. QED
  BY <1>3, <1>5, <1>6

\* A step that keeps the server and the counts of prunings keeps the rest of WorkInv, if it
\* keeps the own part of its device.
LEMMA WorkFrom ==
    ASSUME TypeOK, WorkInv, NEW c \in Client, StepOf(c), Lasts, NoNews(c),
           pruned' = pruned, prunes' = prunes,
           phase'[c] # "resetting", resp'[c].kind # "expired",
           WriterOK(c)', RequestOK(c)', AnswerOK(c)'
    PROVE  WorkInv'
<1>1. NeverExpires'
  <2>1. ASSUME NEW d \in Client PROVE phase'[d] # "resetting" /\ resp'[d].kind # "expired"
    <3>1. CASE d = c
      BY <3>1
    <3>2. CASE d # c
      <4>1. phase'[d] = phase[d] /\ resp'[d] = resp[d]
        BY <3>2, OthersStay DEF Own
      <4>. QED
        BY <4>1 DEF WorkInv, NeverExpires
    <3>. QED
      BY <3>1, <3>2
  <2>. QED
    BY <2>1 DEF WorkInv, NeverExpires
<1>2. ASSUME NEW r \in Row \ minted' PROVE Unknown(r, Client)'
  <2>1. r \in Row \ minted
    BY DEF NoNews
  <2>2. Unknown(r, Client)
    BY <2>1 DEF WorkInv
  <2>. QED
    BY <2>2, StaysUnknown
<1>3. ASSUME NEW d \in Client PROVE WriterOK(d)' /\ RequestOK(d)' /\ AnswerOK(d)'
  BY OthersKeep
<1>. QED
  BY <1>1, <1>2, <1>3 DEF WorkInv

-------------------------------------------------------------------------------
(* The user's writes.                                                       *)

\* A step that leaves the server alone keeps what it settled.
LEMMA QuietLasts == UNCHANGED <<canon, graves>> => Lasts
BY DEF Lasts, Done

LEMMA WorkUser ==
    ASSUME Undisturbed, TypeOK, WorkInv, NEW c \in Client, UserStep(c)
    PROVE  WorkInv'
<1>. PICK r \in Row : Insert(c, r) \/ Edit(c, r) \/ Drop(c, r)
  BY DEF UserStep
<1>1. UNCHANGED <<serverVars, engineVars, roundVars, cursor, grant, prunes>>
  BY DEF Insert, Edit, Drop, worldVars
<1>2. /\ canon' = canon /\ graves' = graves /\ req' = req /\ resp' = resp /\ phase' = phase
      /\ page' = page /\ role' = role /\ grant' = grant /\ cursor' = cursor
      /\ pruned' = pruned /\ prunes' = prunes
  BY <1>1 DEF serverVars, engineVars, roundVars
<1>3. WriterOK(c) /\ RequestOK(c) /\ AnswerOK(c) /\ role[c] /\ phase[c] \in Phases
  BY DEF WorkInv, Insert, Edit, Drop, MayWrite, TypeOK
<1>4. AnswerOK(c)'
  BY <1>2, <1>3 DEF AnswerOK, Done, Held
<1>5. phase'[c] # "resetting" /\ resp'[c].kind # "expired"
  BY <1>2 DEF WorkInv, NeverExpires
<1>6. StepOf(c) /\ Lasts
  BY <1>2, QuietLasts DEF StepOf, Lasts
<1>7. local \in [Client -> [Row -> Opt(LocalRow)]]
  BY DEF TypeOK
<1>8. SUFFICES NoNews(c) /\ WriterOK(c)' /\ RequestOK(c)'
  BY <1>2, <1>4, <1>5, <1>6, WorkFrom
<1>9. CASE Insert(c, r)
  <2>. DEFINE new == [v |-> [at |-> clock[c] + 1, by |-> c], dirty |-> TRUE]
  <2>1. /\ r \notin minted /\ minted' = minted \cup {r}
        /\ KeyOwners(local[c], r) = {}
    BY <1>9 DEF Insert
  <2>2. /\ local'[c][r] = new
        /\ \A o \in Row \ {r} : local'[c][o] = local[c][o]
        /\ \A d \in Client \ {c} : local'[d] = local[d]
    BY <1>7, <1>9 DEF Insert, Stamp
  <2>3. new # Nil
    <3>1. new \in [v : Version, dirty : BOOLEAN]
      BY DEF Version, TypeOK
    <3>. QED
      BY <3>1, CellAssumption
  <2>. HIDE DEF new
  <2>4. NoNews(c)
    BY <1>2, <2>1, <2>2 DEF NoNews, Unknown
  <2>5. Held(local[c])' = Held(local[c]) \cup {r}
    BY <2>2, <2>3 DEF Held
  <2>6. Unique(local[c])'
    <3>1. Unique(local[c])
      BY <1>3 DEF WriterOK
    <3>2. \A o \in Held(local[c]) : KeyOf[o] = KeyOf[r] /\ KeyOf[r] # Nil => o = r
      BY <2>1 DEF KeyOwners
    <3>. QED
      BY <2>5, <3>1, <3>2 DEF Unique
  <2>7. WriterOK(c)'
    BY <1>2, <1>3, <2>6 DEF WriterOK
  <2>8. Unknown(r, Client)
    BY <2>1 DEF WorkInv
  <2>9. ASSUME NEW o \in Row, Fresh(c, o) \/ o = r PROVE Fresh(c, o)'
    BY <1>2, <2>1, <2>2, <2>8, <2>9 DEF Fresh, Unknown
  <2>10. /\ Held(req[c].rows)' = Held(req[c].rows)
         /\ r \notin Held(req[c].rows)
    BY <1>2, <2>8 DEF Held, Unknown
  <2>11. \A o \in Held(req[c].rows) \cap Held(local'[c]) :
            local'[c][o] = [v |-> req[c].rows[o], dirty |-> TRUE]
    <3>1. TAKE o \in Held(req[c].rows) \cap Held(local'[c])
    <3>2. o \in Held(local[c]) /\ o # r /\ o \in Row
      BY <2>5, <2>10 DEF Held
    <3>. QED
      BY <1>3, <2>2, <3>2 DEF RequestOK
  <2>12. \A o \in DirtyIn(c, Row)' \ Held(req[c].rows) :
            \/ phase[c] = "idle" \/ Fresh(c, o)'
            \/ phase[c] = "reading" /\ Table[o] >= page[c]
    <3>1. TAKE o \in DirtyIn(c, Row)' \ Held(req[c].rows)
    <3>2. o \in Row
      BY DEF DirtyIn
    <3>3. CASE o # r
      <4>1. o \in DirtyIn(c, Row)
        BY <2>2, <3>2, <3>3 DEF DirtyIn, Held
      <4>. QED
        BY <1>3, <2>9, <3>2, <4>1 DEF RequestOK
    <3>. QED
      BY <2>9, <3>3
  <2>13. RequestOK(c)'
    BY <1>2, <1>3, <2>5, <2>10, <2>11, <2>12 DEF RequestOK, Held, Unique
  <2>. QED
    BY <2>4, <2>7, <2>13
<1>10. CASE Edit(c, r)
  <2>1. r \in Held(local[c]) /\ minted' = minted
    BY <1>10 DEF Edit
  <2>2. /\ local'[c][r] = [v |-> [at |-> clock[c] + 1, by |-> c], dirty |-> TRUE]
        /\ \A o \in Row \ {r} : local'[c][o] = local[c][o]
    BY <1>7, <1>10, <2>1 DEF Edit, Stamp, Held
  <2>3. NoNews(c)
    <3>1. local[c][r] # Nil
      BY <2>1 DEF Held
    <3>. QED
      BY <1>2, <2>1, <2>2, <3>1 DEF NoNews, Unknown
  <2>4. phase[c] = "idle"
    BY <1>3, <1>10 DEF Edit, MayWrite, Undisturbed
  <2>5. Held(local[c])' \subseteq Held(local[c])
    BY <2>1, <2>2 DEF Held
  <2>6. Unique(local[c])'
    BY <1>3, <2>5 DEF WriterOK, Unique
  <2>7. WriterOK(c)'
    BY <1>2, <1>3, <2>6 DEF WriterOK
  <2>8. Held(req[c].rows) = {}
    BY <1>3, <2>4 DEF RequestOK, Held, NoRows
  <2>9. RequestOK(c)'
    BY <1>2, <1>3, <2>4, <2>8 DEF RequestOK, Held, Unique
  <2>. QED
    BY <2>3, <2>7, <2>9
<1>11. CASE Drop(c, r)
  <2>1. minted' = minted /\ local'[c] = Cull(local[c], {r})
    BY <1>7, <1>11 DEF Drop, worldVars
  <2>2. \A o \in Row : local'[c][o] \in {local[c][o], Nil}
    BY <2>1 DEF Cull
  <2>3. NoNews(c)
    BY <1>2, <2>1, <2>2 DEF NoNews, Unknown
  <2>4. phase[c] # "reading"
    BY <1>3, <1>11 DEF Drop, MayWrite, Undisturbed, QuietReads
  <2>5. /\ Held(local[c])' \subseteq Held(local[c])
        /\ \A o \in Held(local[c])' : local'[c][o] = local[c][o]
    BY <2>2 DEF Held
  <2>6. Unique(local[c])'
    BY <1>3, <2>5 DEF WriterOK, Unique
  <2>7. WriterOK(c)'
    BY <1>2, <1>3, <2>6 DEF WriterOK
  <2>8. DirtyIn(c, Row)' \subseteq DirtyIn(c, Row)
    BY <2>5 DEF DirtyIn
  <2>9. Held(req[c].rows)' = Held(req[c].rows)
    BY <1>2 DEF Held
  <2>10. \A o \in Row : Fresh(c, o) => Fresh(c, o)'
    <3>1. \A d \in Client \ {c} : local'[d] = local[d]
      BY <1>7, <1>11 DEF Drop
    <3>. QED
      BY <1>2, <2>1, <3>1 DEF Fresh, Unknown
  <2>11. DirtyIn(c, Row) \subseteq Row
    BY DEF DirtyIn
  <2>12. \A o \in Held(req[c].rows) \cap Held(local'[c]) :
            local'[c][o] = [v |-> req[c].rows[o], dirty |-> TRUE]
    BY <1>3, <2>5 DEF RequestOK
  <2>13. \A o \in DirtyIn(c, Row)' \ Held(req[c].rows) :
            phase[c] = "idle" \/ Fresh(c, o)'
    BY <1>3, <2>4, <2>8, <2>10, <2>11 DEF RequestOK
  <2>14. RequestOK(c)'
    BY <1>2, <1>3, <2>4, <2>9, <2>12, <2>13 DEF RequestOK, Held, Unique
  <2>. QED
    BY <2>3, <2>7, <2>14
<1>. QED
  BY <1>9, <1>10, <1>11

-------------------------------------------------------------------------------
(* Building a request.                                                      *)

\* Reading a table adds the rows flagged in it, as they are.
LEMMA ReadHolds ==
    ASSUME TypeOK, NEW c \in Client, NEW rows, NEW S
    PROVE  /\ Held(Read(c, rows, S)) = Held(rows) \cup DirtyIn(c, S)
           /\ \A r \in DirtyIn(c, S) : local[c][r] = [v |-> Read(c, rows, S)[r], dirty |-> TRUE]
           /\ \A r \in Row \ DirtyIn(c, S) : Read(c, rows, S)[r] = rows[r]
<1>1. ASSUME NEW r \in DirtyIn(c, S)
      PROVE  /\ Read(c, rows, S)[r] # Nil
             /\ local[c][r] = [v |-> Read(c, rows, S)[r], dirty |-> TRUE]
  <2>1. r \in Row /\ local[c][r] # Nil /\ local[c][r].dirty
    BY DEF DirtyIn, Held
  <2>2. local[c][r] \in [v : Version, dirty : BOOLEAN]
    <3>1. local[c] \in [Row -> Opt(LocalRow)]
      BY DEF TypeOK
    <3>. QED
      BY <2>1, <3>1 DEF Opt, LocalRow
  <2>3. Read(c, rows, S)[r] = local[c][r].v
    BY <2>1 DEF Read
  <2>4. local[c][r].v \in Version
    BY <2>2
  <2>5. local[c][r] = [v |-> local[c][r].v, dirty |-> TRUE]
    BY <2>1, <2>2
  <2>. QED
    BY <2>3, <2>4, <2>5, CellAssumption
<1>2. \A r \in Row \ DirtyIn(c, S) : Read(c, rows, S)[r] = rows[r]
  BY DEF Read
<1>3. DirtyIn(c, S) \subseteq Row
  BY DEF DirtyIn, Held
<1>. QED
  BY <1>1, <1>2, <1>3 DEF Held

LEMMA LastIsLast == \A r \in Row : Table[r] <= LastPage
<1>1. PICK r \in Row : \A o \in Row : Table[o] <= Table[r]
  BY SchemaAssumption
<1>2. \E n \in {Table[x] : x \in Row} : \A x \in Row : Table[x] <= n
  BY <1>1
<1>. QED
  BY <1>2 DEF LastPage

LEMMA WorkRequest ==
    ASSUME TypeOK, WorkInv, NEW c \in Client,
           BeginPush(c) \/ ReadPage(c) \/ SendPush(c) \/ SendPull(c)
    PROVE  WorkInv'
<1>1. UNCHANGED <<serverVars, fileVars, role, resp, worldVars>>
  BY DEF BeginPush, ReadPage, SendPush, SendPull, engineVars
<1>2. /\ canon' = canon /\ graves' = graves /\ resp' = resp /\ local' = local
      /\ role' = role /\ grant' = grant /\ cursor' = cursor /\ minted' = minted
      /\ pruned' = pruned /\ prunes' = prunes
  BY <1>1 DEF serverVars, fileVars, worldVars
<1>3. WriterOK(c) /\ RequestOK(c)
  BY DEF WorkInv
<1>4. AnswerOK(c)' /\ phase'[c] # "resetting"
  BY DEF BeginPush, ReadPage, SendPush, SendPull, TypeOK, AnswerOK
<1>5. resp'[c].kind # "expired"
  BY <1>2 DEF WorkInv, NeverExpires
<1>6. StepOf(c) /\ Lasts
  BY <1>2, QuietLasts DEF StepOf, EngineStep
<1>7. /\ req \in [Client -> Request] /\ phase \in [Client -> Phases] /\ page \in [Client -> Nat]
      /\ Table \in [Row -> Nat \ {0}]
  BY SchemaAssumption DEF TypeOK
<1>8. Held(NoRows) = {} /\ \A r \in Row : NoRows[r] = Nil
  BY DEF Held, NoRows
<1>9. /\ DirtyIn(c, Row) \subseteq Held(local[c])
      /\ \A S : DirtyIn(c, S) = DirtyIn(c, Row) \cap S
  BY DEF DirtyIn, Held
<1>10. SUFFICES NoNews(c) /\ WriterOK(c)' /\ RequestOK(c)'
  BY <1>2, <1>4, <1>5, <1>6, WorkFrom
<1>11. \A r \in Row : Fresh(c, r) => Fresh(c, r)'
  <2>1. \A d \in Client \ {c} : req'[d] = req[d]
    BY <1>7 DEF BeginPush, ReadPage, SendPush, SendPull
  <2>. QED
    BY <1>2, <2>1 DEF Fresh, Unknown
<1>12. ASSUME \A r \in Row : local[c][r] = Nil /\ req[c].rows[r] = Nil => req'[c].rows[r] = Nil
       PROVE  NoNews(c)
  BY <1>2, <1>12 DEF NoNews, Unknown
<1>13. CASE BeginPush(c)
  <2>. DEFINE got == Read(c, NoRows, OnPage(1))
  <2>1. /\ req'[c].rows = got /\ req'[c].probes = NoRows /\ req'[c].cursor = cursor[c]
        /\ phase'[c] = "reading" /\ page'[c] = 2 /\ role[c]
    BY <1>7, <1>13 DEF BeginPush, NoRequest
  <2>2. /\ Held(got) = DirtyIn(c, OnPage(1))
        /\ \A r \in Held(got) : local[c][r] = [v |-> got[r], dirty |-> TRUE]
    BY <1>8, ReadHolds
  <2>. HIDE DEF got
  <2>3. \A r \in Row : local[c][r] = Nil => got[r] = Nil
    BY <1>9, <2>2 DEF Held
  <2>4. NoNews(c)
    BY <1>12, <2>1, <2>3
  <2>5. WriterOK(c)'
    BY <1>2, <1>3, <2>1 DEF WriterOK, DirtyIn, Held, Unique
  <2>6. Held(got) \subseteq Held(local[c])
    BY <1>9, <2>2
  <2>7. Unique(got)
    BY <1>3, <2>1, <2>6 DEF WriterOK, Unique
  <2>8. \A r \in DirtyIn(c, Row) \ Held(got) : Table[r] >= 2
    <3>1. TAKE r \in DirtyIn(c, Row) \ Held(got)
    <3>2. r \in Row /\ Table[r] # 1
      BY <1>9, <2>2 DEF OnPage, DirtyIn, Held
    <3>. QED
      BY <1>7, <3>2
  <2>9. Held(req'[c].rows) = Held(got) /\ Held(req'[c].probes) = {}
    BY <1>8, <2>1
  <2>10. DirtyIn(c, Row)' = DirtyIn(c, Row) /\ Held(local[c])' = Held(local[c])
    BY <1>2 DEF DirtyIn, Held
  <2>11. RequestOK(c)'
    BY <1>2, <2>1, <2>2, <2>6, <2>7, <2>8, <2>9, <2>10 DEF RequestOK
  <2>. QED
    BY <2>4, <2>5, <2>11
<1>14. CASE ReadPage(c)
  <2>. DEFINE got == Read(c, req[c].rows, OnPage(page[c]))
  <2>1. /\ req'[c].rows = got /\ req'[c].probes = req[c].probes
        /\ req'[c].cursor = req[c].cursor /\ phase' = phase
        /\ phase[c] = "reading" /\ page'[c] = page[c] + 1
    BY <1>7, <1>14 DEF ReadPage, Request
  <2>2. /\ Held(got) = Held(req[c].rows) \cup DirtyIn(c, OnPage(page[c]))
        /\ \A r \in DirtyIn(c, OnPage(page[c])) : local[c][r] = [v |-> got[r], dirty |-> TRUE]
        /\ \A r \in Row \ DirtyIn(c, OnPage(page[c])) : got[r] = req[c].rows[r]
    BY ReadHolds
  <2>. HIDE DEF got
  <2>3. \A r \in Row : local[c][r] = Nil /\ req[c].rows[r] = Nil => got[r] = Nil
    BY <1>9, <2>2 DEF Held
  <2>4. NoNews(c)
    BY <1>12, <2>1, <2>3
  <2>5. WriterOK(c)'
    BY <1>2, <1>3, <2>1 DEF WriterOK, DirtyIn, Held, Unique
  <2>6. Held(got) \subseteq Held(local[c])
    BY <1>3, <1>9, <2>1, <2>2 DEF RequestOK
  <2>7. Unique(got)
    BY <1>3, <2>1, <2>6 DEF WriterOK, Unique
  <2>8. \A r \in Held(got) : local[c][r] = [v |-> got[r], dirty |-> TRUE]
    <3>1. TAKE r \in Held(got)
    <3>2. CASE r \in DirtyIn(c, OnPage(page[c]))
      BY <2>2, <3>2
    <3>3. CASE r \notin DirtyIn(c, OnPage(page[c]))
      <4>1. r \in Held(req[c].rows) /\ r \in Held(local[c]) /\ got[r] = req[c].rows[r]
        BY <2>2, <2>6, <3>3 DEF Held
      <4>. QED
        BY <1>3, <4>1 DEF RequestOK
    <3>. QED
      BY <3>2, <3>3
  <2>9. \A r \in DirtyIn(c, Row) \ Held(got) : Fresh(c, r)' \/ Table[r] >= page[c] + 1
    <3>1. TAKE r \in DirtyIn(c, Row) \ Held(got)
    <3>2. r \in Row /\ r \notin Held(req[c].rows) /\ Table[r] # page[c]
      BY <1>9, <2>2 DEF OnPage, DirtyIn, Held
    <3>3. Fresh(c, r) \/ Table[r] >= page[c]
      BY <1>3, <2>1, <3>2 DEF RequestOK
    <3>. QED
      BY <1>7, <1>11, <3>2, <3>3
  <2>10. Held(req'[c].rows) = Held(got) /\ Held(req'[c].probes) = {}
    BY <1>3, <2>1 DEF RequestOK
  <2>11. DirtyIn(c, Row)' = DirtyIn(c, Row) /\ Held(local[c])' = Held(local[c])
    BY <1>2 DEF DirtyIn, Held
  <2>12. RequestOK(c)'
    BY <1>2, <2>1, <2>6, <2>7, <2>8, <2>9, <2>10, <2>11 DEF RequestOK
  <2>. QED
    BY <2>4, <2>5, <2>12
<1>15. CASE SendPush(c)
  <2>1. /\ req'[c].rows = req[c].rows /\ req'[c].probes = req[c].probes
        /\ req'[c].cursor = req[c].cursor
        /\ phase[c] = "reading" /\ phase'[c] = "sent" /\ page[c] > LastPage
    BY <1>7, <1>15 DEF SendPush, Request
  <2>2. NoNews(c)
    BY <1>12, <2>1
  <2>3. WriterOK(c)'
    BY <1>2, <1>3, <2>1 DEF WriterOK, DirtyIn, Held, Unique
  <2>4. \A r \in DirtyIn(c, Row) \ Held(req[c].rows) : Fresh(c, r)'
    <3>1. TAKE r \in DirtyIn(c, Row) \ Held(req[c].rows)
    <3>2. r \in Row /\ (Fresh(c, r) \/ Table[r] >= page[c])
      BY <1>3, <1>9, <2>1 DEF RequestOK, Held
    <3>3. ~(Table[r] >= page[c])
      <4>1. LastPage \in Nat
        <5>1. \E n \in {Table[x] : x \in Row} : \A x \in Row : Table[x] <= n
          BY SchemaAssumption
        <5>2. LastPage \in {Table[x] : x \in Row}
          BY <5>1 DEF LastPage
        <5>. QED
          BY <1>7, <5>2
      <4>2. Table[r] <= LastPage /\ Table[r] \in Nat /\ page[c] \in Nat
        BY <1>7, <3>2, LastIsLast
      <4>. QED
        BY <2>1, <4>1, <4>2
    <3>. QED
      BY <1>11, <3>2, <3>3
  <2>5. Held(req'[c].rows) = Held(req[c].rows) /\ Held(req'[c].probes) = {}
    BY <1>3, <2>1 DEF RequestOK
  <2>6. DirtyIn(c, Row)' = DirtyIn(c, Row) /\ Held(local[c])' = Held(local[c])
    BY <1>2 DEF DirtyIn, Held
  <2>7. RequestOK(c)'
    BY <1>2, <1>3, <2>1, <2>4, <2>5, <2>6 DEF RequestOK
  <2>. QED
    BY <2>2, <2>3, <2>7
<1>16. CASE SendPull(c)
  <2>1. /\ req'[c].rows = NoRows /\ req'[c].cursor = cursor[c] /\ phase'[c] = "sent"
        /\ req'[c].probes \in {NoRows, Read(c, NoRows, Row)} /\ ~role[c]
    BY <1>7, <1>16 DEF SendPull, NoRequest
  <2>2. DirtyIn(c, Row) = {}
    BY <1>3, <2>1 DEF WriterOK
  <2>3. NoNews(c)
    BY <1>8, <1>12, <2>1
  <2>4. WriterOK(c)'
    BY <1>2, <1>3, <2>1 DEF WriterOK, DirtyIn, Held, Unique
  <2>5. Held(req'[c].probes) = {}
    BY <1>8, <2>1, <2>2, ReadHolds
  <2>6. Held(req'[c].rows) = {}
    BY <1>8, <2>1
  <2>7. DirtyIn(c, Row)' = {} /\ Held(local[c])' = Held(local[c])
    BY <1>2, <2>2 DEF DirtyIn, Held
  <2>8. RequestOK(c)'
    BY <2>1, <2>5, <2>6, <2>7 DEF RequestOK, Unique
  <2>. QED
    BY <2>3, <2>4, <2>8
<1>. QED
  BY <1>13, <1>14, <1>15, <1>16

-------------------------------------------------------------------------------
(* The endpoint's answer.                                                   *)

LEMMA WorkServer ==
    ASSUME TypeOK, WorkInv, NEW c \in Client, ServerStep(c)
    PROVE  WorkInv'
<1>1. PICK a : Reply(c, a)
  BY DEF ServerStep, ServeBail, ServeExpired, Serve, ServeFails
<1>2. /\ req' = req /\ local' = local /\ role' = role /\ grant' = grant /\ cursor' = cursor
      /\ minted' = minted /\ pruned' = pruned /\ prunes' = prunes
      /\ phase[c] = "sent" /\ phase'[c] = "answered" /\ resp'[c] = a
      /\ \A d \in Client \ {c} : resp'[d] = resp[d]
  BY <1>1 DEF Reply, TypeOK, fileVars, engineVars, worldVars,
              ServerStep, ServeBail, ServeExpired, Serve, ServeFails
<1>3. WriterOK(c) /\ RequestOK(c) /\ req[c] \in Request /\ grant[c] \in BOOLEAN
  BY DEF WorkInv, TypeOK
<1>4. ~Expired(req[c], pruned)
  BY <1>3 DEF Expired, WorkInv, NeverExpires, Request, Opt
<1>5. /\ Lasts /\ AnswerOK(c)' /\ resp'[c].kind # "expired"
      /\ \A r \in Row : canon[r] = Nil /\ req[c].rows[r] = Nil =>
            canon'[r] = Nil /\ resp'[c].rows[r] = Nil
  <2>1. CASE ServeBail(c)
    <3>1. UNCHANGED <<canon, graves>>
      BY <2>1 DEF ServeBail
    <3>2. /\ resp'[c].kind = "ok" /\ resp'[c].rows = NoRows /\ resp'[c].dels = {}
          /\ ~grant[c] => Held(req[c].rows) \subseteq resp'[c].rejected
      BY <2>1 DEF ServeBail, Reply, TypeOK, BailAnswer, NoAnswer
    <3>3. grant[c] => Held(req[c].rows) = {}
      BY <2>1 DEF ServeBail, FastBail, Granted
    <3>4. AnswerOK(c)'
      <4>1. Held(req'[c].rows) = Held(req[c].rows)
        BY <1>2
      <4>. QED
        BY <1>2, <1>3, <3>2, <3>3, <4>1 DEF AnswerOK
    <3>5. \A r \in Row : NoRows[r] = Nil
      BY DEF NoRows
    <3>. QED
      BY <3>1, <3>2, <3>4, <3>5, QuietLasts
  <2>2. CASE Serve(c)
    <3>1. Unique(req[c].rows)
      BY <1>3 DEF RequestOK
    <3>2. resp'[c].kind = "ok"
      BY <2>2 DEF Serve, Reply, TypeOK, FullAnswer
    <3>. QED
      BY <2>2, <3>1, <3>2, ServeLasts, ServeDone, ServeUnknown
  <2>3. CASE ServeFails(c)
    <3>1. UNCHANGED <<canon, graves>>
      BY <2>3 DEF ServeFails
    <3>2. resp'[c].kind = "error" /\ resp'[c].rows = NoRows
      BY <2>3 DEF ServeFails, Reply, TypeOK, NoAnswer
    <3>3. AnswerOK(c)'
      BY <3>2 DEF AnswerOK
    <3>4. \A r \in Row : NoRows[r] = Nil
      BY DEF NoRows
    <3>. QED
      BY <3>1, <3>2, <3>3, <3>4, QuietLasts
  <2>. QED
    BY <1>4, <2>1, <2>2, <2>3 DEF ServerStep, ServeExpired
<1>6. NoNews(c)
  BY <1>2, <1>5 DEF NoNews, Unknown
<1>7. WriterOK(c)'
  BY <1>2, <1>3 DEF WriterOK, DirtyIn, Held, Unique
<1>8. \A r \in DirtyIn(c, Row) \ Held(req[c].rows) : Fresh(c, r)'
  <2>1. TAKE r \in DirtyIn(c, Row) \ Held(req[c].rows)
  <2>2. r \in Row /\ req[c].rows[r] = Nil /\ Fresh(c, r)
    BY <1>2, <1>3 DEF RequestOK, DirtyIn, Held
  <2>3. canon'[r] = Nil /\ resp'[c].rows[r] = Nil
    BY <1>5, <2>2 DEF Fresh, Unknown
  <2>. QED
    BY <1>2, <2>2, <2>3 DEF Fresh, Unknown
<1>9. RequestOK(c)'
  <2>1. /\ DirtyIn(c, Row)' = DirtyIn(c, Row) /\ Held(local[c])' = Held(local[c])
        /\ Held(req[c].rows)' = Held(req[c].rows)
    BY <1>2 DEF DirtyIn, Held
  <2>. QED
    BY <1>2, <1>3, <1>8, <2>1 DEF RequestOK, Unique, Held
<1>10. StepOf(c)
  BY DEF StepOf
<1>. QED
  BY <1>2, <1>5, <1>6, <1>7, <1>9, <1>10, WorkFrom

-------------------------------------------------------------------------------
(* The end of a round.                                                      *)

\* Applying an answer flags nothing, and a row comes from the file or from the answer.
LEMMA AppliedFrom ==
    ASSUME NEW rows, NEW q, NEW a, NEW editor, NEW r \in Row
    PROVE  LET y == Applied(rows, q, a, editor)[r]
           IN  /\ rows[r] = Nil /\ a.rows[r] = Nil => y = Nil
               /\ y # Nil => AfterUpserts(rows, q, a)[r] # Nil
               /\ y # Nil /\ y.dirty => rows[r] # Nil /\ rows[r].dirty
<1>. DEFINE up == AfterUpserts(rows, q, a)[r]
            kept == AfterPrune(rows, q, a)[r]
            y == Applied(rows, q, a, editor)[r]
<1>1. AfterDeletes(rows, q, a)[r] \in {rows[r], Nil}
  BY DEF AfterDeletes, Cull
<1>2. /\ rows[r] = Nil /\ a.rows[r] = Nil => up = Nil
      /\ up # Nil /\ up.dirty => rows[r] # Nil /\ rows[r].dirty
  BY <1>1 DEF AfterUpserts
<1>3. kept \in {up, Nil}
  BY DEF AfterPrune, Cull, Held
<1>4. y # kept => kept # Nil /\ y = [v |-> kept.v, dirty |-> FALSE]
  BY DEF Applied
<1>. HIDE DEF up, kept, y
<1>5. /\ rows[r] = Nil /\ a.rows[r] = Nil => y = Nil
      /\ y # Nil => up # Nil
      /\ y # Nil /\ y.dirty => rows[r] # Nil /\ rows[r].dirty
  BY <1>2, <1>3, <1>4
<1>. QED
  BY <1>5 DEF up, y

\* What is applied respects the natural keys, or the transaction is rolled back.
LEMMA AppliedUnique ==
    ASSUME NEW rows, NEW q, NEW a, NEW editor, Unique(rows), ~UniqueClash(rows, q, a)
    PROVE  Unique(Applied(rows, q, a, editor))
<1>. DEFINE up == AfterUpserts(rows, q, a)
<1>1. SUFFICES ASSUME NEW r \in Held(up), NEW o \in Held(up),
                      KeyOf[r] = KeyOf[o], KeyOf[r] # Nil
               PROVE  r = o
  <2>1. Held(Applied(rows, q, a, editor)) \subseteq Held(up)
    BY AppliedFrom DEF Held
  <2>. QED
    BY <1>1, <2>1 DEF Unique
<1>2. CASE r \in Held(a.rows) \/ o \in Held(a.rows)
  BY <1>1, <1>2 DEF UniqueClash, KeyOwners
<1>3. CASE r \notin Held(a.rows) /\ o \notin Held(a.rows)
  <2>1. \A x \in Held(up) : x \notin Held(a.rows) => x \in Held(rows)
    BY DEF AfterUpserts, AfterDeletes, Cull, Held
  <2>. QED
    BY <1>1, <1>3, <2>1 DEF Unique
<1>. QED
  BY <1>2, <1>3

LEMMA WorkEnds ==
    ASSUME TypeOK, WorkInv, NEW c \in Client, StepOf(c),
           UNCHANGED <<canon, graves, pruned, prunes, minted>>,
           phase'[c] = "idle", req'[c] = NoRequest, resp'[c] = NoAnswer,
           \A r \in Row : local[c][r] = Nil /\ resp[c].rows[r] = Nil => local'[c][r] = Nil,
           WriterOK(c)'
    PROVE  WorkInv'
<1>1. /\ Held(NoRequest.rows) = {} /\ Held(NoRequest.probes) = {} /\ NoRequest.rows = NoRows
      /\ \A r \in Row : NoRequest.rows[r] = Nil /\ NoAnswer.rows[r] = Nil
      /\ NoAnswer.kind = "error"
  BY DEF NoRequest, NoAnswer, NoRows, Held
<1>2. RequestOK(c)' /\ AnswerOK(c)'
  BY <1>1 DEF RequestOK, AnswerOK, Unique
<1>3. NoNews(c)
  BY <1>1 DEF NoNews, Unknown
<1>. QED
  BY <1>1, <1>2, <1>3, QuietLasts, WorkFrom

LEMMA WorkApply ==
    ASSUME TypeOK, WorkInv, NEW c \in Client, Apply(c)
    PROVE  WorkInv'
<1>. DEFINE new == Applied(local[c], req[c], resp[c], role[c])
<1>1. /\ local'[c] = new /\ cursor'[c] = resp[c].cursor
      /\ role' = role /\ grant' = grant /\ ~UniqueClash(local[c], req[c], resp[c])
      /\ phase'[c] = "idle" /\ req'[c] = NoRequest /\ resp'[c] = NoAnswer
      /\ UNCHANGED <<canon, graves, pruned, prunes, minted>>
  BY DEF Apply, EndRound, TypeOK, serverVars, worldVars
<1>2. resp[c].cursor # Nil
  BY NilAssumption DEF TypeOK, Answer
<1>3. WriterOK(c)
  BY DEF WorkInv
<1>4. grant[c] => Unique(new)
  BY <1>1, <1>3, AppliedUnique DEF WriterOK
<1>. HIDE DEF new
<1>5. DirtyIn(c, Row)' \subseteq DirtyIn(c, Row)
  <2>1. \A r \in Row : new[r] # Nil /\ new[r].dirty => local[c][r] # Nil /\ local[c][r].dirty
    BY AppliedFrom DEF new
  <2>. QED
    BY <1>1, <2>1 DEF DirtyIn, Held
<1>6. WriterOK(c)'
  <2>1. Unique(local[c])' = Unique(new)
    BY <1>1 DEF Unique, Held
  <2>. QED
    BY <1>1, <1>2, <1>3, <1>4, <1>5, <2>1 DEF WriterOK
<1>7. \A r \in Row : local[c][r] = Nil /\ resp[c].rows[r] = Nil => new[r] = Nil
  BY AppliedFrom DEF new
<1>8. StepOf(c)
  BY DEF StepOf, EngineStep, AnswerStep
<1>. QED
  BY <1>1, <1>6, <1>7, <1>8, WorkEnds

LEMMA WorkRest ==
    ASSUME Undisturbed, TypeOK, WorkInv, NEW c \in Client,
           AnswerStep(c) \/ Lose(c) \/ Reload(c) \/ SetRole(c) \/ Revoke(c)
    PROVE  WorkInv'
<1>1. WriterOK(c)
  BY DEF WorkInv
<1>2. CASE Apply(c)
  BY <1>2, WorkApply
<1>3. CASE ServerFault(c) \/ ApplyClashes(c) \/ ApplyDangles(c) \/ Lose(c) \/ Reload(c)
  <2>1. /\ UNCHANGED <<canon, graves, pruned, prunes, minted>>
        /\ local' = local /\ cursor' = cursor /\ grant' = grant
        /\ role'[c] \in {role[c], grant[c]}
        /\ phase'[c] = "idle" /\ req'[c] = NoRequest /\ resp'[c] = NoAnswer
    BY <1>3 DEF ServerFault, ApplyClashes, ApplyDangles, Fail, Lose, Reload, EndRound, TypeOK,
                serverVars, fileVars, worldVars
  <2>2. WriterOK(c)'
    <3>1. DirtyIn(c, Row)' = DirtyIn(c, Row) /\ Unique(local[c])' = Unique(local[c])
      BY <2>1 DEF DirtyIn, Unique, Held
    <3>. QED
      BY <1>1, <2>1, <3>1 DEF WriterOK
  <2>3. StepOf(c)
    BY <1>3 DEF StepOf, EngineStep, AnswerStep
  <2>. QED
    BY <2>1, <2>2, <2>3, WorkEnds
<1>4. CASE SetRole(c)
  <2>1. /\ UNCHANGED <<canon, graves, pruned, prunes, minted, local, cursor, grant,
                       phase, page, req, resp>>
        /\ role'[c] /\ grant[c]
    BY <1>4 DEF SetRole, TypeOK, serverVars, fileVars, roundVars, worldVars
  <2>2. WriterOK(c)'
    BY <1>1, <2>1 DEF WriterOK, DirtyIn, Unique, Held
  <2>3. RequestOK(c)' /\ AnswerOK(c)' /\ NoNews(c)
    <3>1. RequestOK(c) /\ AnswerOK(c)
      BY DEF WorkInv
    <3>2. RequestOK(c)'
      BY <2>1, <3>1 DEF RequestOK, DirtyIn, Unique, Held, Fresh, Unknown
    <3>3. AnswerOK(c)'
      BY <2>1, <3>1 DEF AnswerOK, Done, Held
    <3>4. NoNews(c)
      BY <2>1 DEF NoNews, Unknown
    <3>. QED
      BY <3>2, <3>3, <3>4
  <2>4. StepOf(c) /\ phase'[c] # "resetting" /\ resp'[c].kind # "expired"
    BY <1>4, <2>1 DEF StepOf, WorkInv, NeverExpires
  <2>. QED
    BY <2>1, <2>2, <2>3, <2>4, QuietLasts, WorkFrom
<1>5. ~LearnExpired(c) /\ ~Reset(c) /\ ~Revoke(c)
  BY DEF LearnExpired, Reset, Revoke, WorkInv, NeverExpires, Undisturbed
<1>. QED
  BY <1>2, <1>3, <1>4, <1>5 DEF AnswerStep

-------------------------------------------------------------------------------
(* No work is lost.                                                         *)

LEMMA WorkInit == Undisturbed /\ Init => WorkInv
<1>. SUFFICES ASSUME Undisturbed, Init PROVE WorkInv
  OBVIOUS
<1>1. /\ \A c \in Client : Boot[c] # "lapsed" /\ local[c] \in InitialFiles(c)
      /\ \A c \in Client : /\ phase[c] = "idle" /\ req[c] = NoRequest /\ resp[c] = NoAnswer
                           /\ cursor[c] = IF Boot[c] = "legacy" THEN Nil ELSE 1
                           /\ grant[c] = (c \in Editors \cup Promotable)
                           /\ role[c] = (c \in Editors)
      /\ minted = Seed \cup Ghost /\ pruned = 0 /\ prunes = 0
      /\ \A r \in Row \ Seed : canon[r] = Nil
  BY DEF Init, Undisturbed
<1>2. /\ NoRequest.rows = NoRows /\ Held(NoRequest.rows) = {} /\ Held(NoRequest.probes) = {}
      /\ \A r \in Row : NoRequest.rows[r] = Nil /\ NoAnswer.rows[r] = Nil
      /\ NoAnswer.kind = "error"
  BY DEF NoRequest, NoAnswer, NoRows, Held
<1>3. ASSUME NEW c \in Client
      PROVE  /\ DirtyIn(c, Row) = {}
             /\ \A r \in Row \ minted : local[c][r] = Nil
             /\ c \in Editors \cup Promotable => Held(local[c]) \subseteq Seed
  <2>1. ASSUME NEW r \in Row, local[c][r] # Nil
        PROVE  /\ local[c][r] = [v |-> SeedVersion, dirty |-> FALSE]
               /\ Boot[c] = "snapshot" => r \in Seed
    BY <1>1, <2>1, CleanFiles
  <2>2. DirtyIn(c, Row) = {}
    BY <2>1 DEF DirtyIn, Held
  <2>3. Held(local[c]) \subseteq Seed \cup Ghost
    <3>1. CASE Boot[c] = "snapshot"
      BY <2>1, <3>1 DEF Held
    <3>2. CASE Boot[c] = "legacy"
      <4>. DEFINE file(S) == [x \in Row |-> IF x \in S THEN [v |-> SeedVersion, dirty |-> FALSE]
                                            ELSE Nil]
      <4>1. InitialFiles(c) = {file(S) : S \in {T \in SUBSET (Seed \cup Ghost) : Closed(T)}}
        BY <3>2 DEF InitialFiles
      <4>. HIDE DEF file
      <4>2. PICK S \in SUBSET (Seed \cup Ghost) : local[c] = file(S)
        BY <1>1, <4>1
      <4>. QED
        BY <4>2 DEF file, Held
    <3>. QED
      BY <1>1, <3>1, <3>2, EnvironmentAssumption
  <2>4. c \in Editors \cup Promotable => Held(local[c]) \subseteq Seed
    BY <2>1 DEF Held, Undisturbed
  <2>. QED
    BY <1>1, <2>2, <2>3, <2>4 DEF Held
<1>4. ASSUME NEW c \in Client PROVE WriterOK(c)
  <2>1. c \in Editors \cup Promotable => Boot[c] = "snapshot" /\ Unique(local[c])
    <3>1. \A r, o \in Seed : KeyOf[r] = KeyOf[o] /\ KeyOf[r] # Nil => r = o
      BY EnvironmentAssumption
    <3>. QED
      BY <1>3, <3>1 DEF Unique, Undisturbed
  <2>2. 1 # Nil
    BY NilAssumption
  <2>. QED
    BY <1>1, <1>3, <2>1, <2>2 DEF WriterOK
<1>5. ASSUME NEW c \in Client PROVE RequestOK(c) /\ AnswerOK(c)
  BY <1>1, <1>2 DEF RequestOK, AnswerOK, Unique
<1>6. \A r \in Row \ minted : Unknown(r, Client)
  BY <1>1, <1>2, <1>3 DEF Unknown
<1>. QED
  BY <1>1, <1>2, <1>4, <1>5, <1>6 DEF WorkInv, NeverExpires

LEMMA WorkStep == Undisturbed /\ TypeOK /\ WorkInv /\ [Next]_vars => WorkInv'
<1>. SUFFICES ASSUME Undisturbed, TypeOK, WorkInv, [Next]_vars PROVE WorkInv'
  OBVIOUS
<1>1. CASE UNCHANGED vars
  BY <1>1 DEF WorkInv, NeverExpires, WriterOK, RequestOK, AnswerOK, Fresh, Unknown, Done, Unique,
              DirtyIn, Held, vars, serverVars, fileVars, engineVars, roundVars, worldVars
<1>2. ~Prune
  BY DEF Prune, Undisturbed, WorkInv, NeverExpires
<1>3. ASSUME NEW c \in Client, StepOf(c) PROVE WorkInv'
  BY <1>3, WorkUser, WorkRequest, WorkServer, WorkRest DEF StepOf, EngineStep
<1>. QED
  BY <1>1, <1>2, <1>3 DEF Next, StepOf

\* Work that an answer unflags was put aside, accounted for, or never in the request: then
\* it is left as it is, unless its lineage was deleted.
LEMMA ApplySettles ==
    ASSUME TypeOK, WorkInv, NEW c \in Client, Apply(c),
           NEW r \in DirtyIn(c, Row), NEW v, v = local[c][r].v
    PROVE  \/ local'[c][r] = local[c][r]
           \/ Settled(r, v)'
           \/ [row |-> r, v |-> v] \in shelf'[c]
<1>. DEFINE q == req[c]
            a == resp[c]
            old == local[c]
<1>1. /\ WriterOK(c) /\ RequestOK(c) /\ AnswerOK(c)
      /\ phase[c] = "answered" /\ a.kind = "ok"
  BY DEF WorkInv, Apply
<1>2. /\ q.cursor # Nil /\ Held(q.probes) = {}
      /\ r \in Row /\ old[r] # Nil /\ old[r].dirty
  BY <1>1 DEF WriterOK, RequestOK, DirtyIn, Held, TypeOK
<1>3. /\ local'[c] = Applied(old, q, a, role[c])
      /\ shelf'[c] = shelf[c] \cup Refused(q, a)
      /\ canon' = canon /\ graves' = graves
  BY DEF Apply, TypeOK, serverVars
<1>4. ASSUME NEW p \in Lineage[r] \cap Row, graves[p] > 0 PROVE Settled(r, v)'
  BY <1>3, <1>4 DEF Settled
<1>5. CASE r \in Held(q.rows)
  <2>1. v = q.rows[r]
    <3>1. old[r] = [v |-> q.rows[r], dirty |-> TRUE]
      BY <1>1, <1>2, <1>5 DEF RequestOK, Held
    <3>. QED
      BY <3>1
  <2>2. CASE r \in a.rejected
    <3>1. [row |-> r, v |-> q.rows[r]] \in Refused(q, a)
      BY <1>5, <2>2 DEF Refused
    <3>. QED
      BY <1>3, <2>1, <3>1
  <2>3. CASE Done(r, v)
    <3>1. CASE canon[r] # Nil /\ canon[r].v.at >= v.at
      BY <1>3, <3>1 DEF Settled
    <3>. QED
      BY <1>4, <2>3, <3>1 DEF Done
  <2>. QED
    BY <1>1, <1>5, <2>1, <2>2, <2>3 DEF AnswerOK
<1>6. CASE r \notin Held(q.rows)
  <2>1. a.rows[r] = Nil
    BY <1>1, <1>6 DEF RequestOK, Fresh
  <2>2. CASE Lineage[r] \cap a.dels # {}
    <3>1. \A p \in a.dels : p \in Row /\ graves[p] > 0
      BY <1>1 DEF AnswerOK, TypeOK, Answer
    <3>. QED
      BY <1>4, <2>2, <3>1
  <2>3. CASE Lineage[r] \cap a.dels = {}
    <3>1. AfterDeletes(old, q, a)[r] = old[r]
      BY <1>2, <2>3 DEF AfterDeletes, Cull
    <3>2. AfterUpserts(old, q, a)[r] = old[r]
      BY <1>2, <2>1, <3>1 DEF AfterUpserts
    <3>3. AfterPrune(old, q, a)[r] = old[r]
      BY <1>2, <3>2 DEF AfterPrune
    <3>4. Applied(old, q, a, role[c])[r] = old[r]
      BY <1>2, <1>6, <3>3 DEF Applied, Cleared
    <3>. QED
      BY <1>3, <3>4
  <2>. QED
    BY <2>2, <2>3
<1>. QED
  BY <1>5, <1>6

\* A flagged version stops being flagged only because the user wrote again, because the
\* server accounts for it or because it was put aside: as long as rows are edited between
\* round trips only and nobody loses a role, no step forgets it.
THEOREM WorkIsNeverLost == Undisturbed => (Spec => NoWorkLost)
<1>. SUFFICES ASSUME Undisturbed PROVE Spec => NoWorkLost
  OBVIOUS
<1>. DEFINE Kept ==
        \A c \in Client : \A r \in DirtyIn(c, Row) : \A v \in {local[c][r].v} :
            \/ local'[c][r] = local[c][r]
            \/ clock'[c] # clock[c]
            \/ queue'[c] \ queue[c] # {}
            \/ Settled(r, v)'
            \/ [row |-> r, v |-> v] \in shelf'[c]
<1>1. TypeOK /\ WorkInv /\ [Next]_vars => Kept
  <2>. SUFFICES ASSUME TypeOK, WorkInv, [Next]_vars,
                       NEW c \in Client, NEW r \in DirtyIn(c, Row),
                       NEW v, v = local[c][r].v
                PROVE  \/ local'[c][r] = local[c][r]
                       \/ clock'[c] # clock[c]
                       \/ queue'[c] \ queue[c] # {}
                       \/ Settled(r, v)'
                       \/ [row |-> r, v |-> v] \in shelf'[c]
    BY DEF Kept
  <2>1. CASE UNCHANGED vars \/ Prune
    BY <2>1, NobodyMoves DEF Own
  <2>2. ASSUME NEW d \in Client \ {c}, StepOf(d) PROVE local'[c] = local[c]
    BY <2>2, OthersStay DEF Own
  <2>3. ASSUME NEW o \in Row, Insert(c, o) \/ Edit(c, o) PROVE clock'[c] # clock[c]
    BY <2>3 DEF Insert, Edit, Stamp, TypeOK
  <2>4. ASSUME NEW o \in Row, Drop(c, o) PROVE queue'[c] \ queue[c] # {}
    BY <2>4 DEF Drop, TypeOK
  <2>5. ASSUME BeginPush(c) \/ ReadPage(c) \/ SendPush(c) \/ SendPull(c) \/ ServerStep(c)
        PROVE  local'[c] = local[c]
    BY <2>5 DEF BeginPush, ReadPage, SendPush, SendPull, ServerStep, ServeBail, ServeExpired,
                Serve, ServeFails, Reply, fileVars
  <2>6. ASSUME \/ ServerFault(c) \/ ApplyClashes(c) \/ ApplyDangles(c)
               \/ Lose(c) \/ Reload(c) \/ SetRole(c) \/ Revoke(c)
        PROVE  local'[c] = local[c]
    BY <2>6 DEF ServerFault, ApplyClashes, ApplyDangles, Fail, Lose, Reload, SetRole, Revoke,
                fileVars
  <2>7. ~LearnExpired(c) /\ ~Reset(c)
    BY DEF LearnExpired, Reset, WorkInv, NeverExpires
  <2>8. CASE Apply(c)
    BY <2>8, ApplySettles
  <2>. QED
    BY <2>1, <2>2, <2>3, <2>4, <2>5, <2>6, <2>7, <2>8 DEF Next, StepOf, UserStep, EngineStep, AnswerStep
<1>2. Undisturbed /\ Init => WorkInv
  BY WorkInit
<1>3. TypeOK /\ WorkInv /\ [Next]_vars => WorkInv'
  BY WorkStep
<1>4. Init => TypeOK
  BY TypeInit
<1>5. TypeOK /\ [Next]_vars => TypeOK'
  BY TypeStep
<1>. QED
  BY <1>1, <1>2, <1>3, <1>4, <1>5, PTL DEF Spec, NoWorkLost

===============================================================================
