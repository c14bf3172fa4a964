----------------------------- MODULE AdminSyncProofs -----------------------------
(***************************************************************************)
(* What an admin's copy of the shared database may be taken for, for any   *)
(* rows, admins, starts and budgets: whatever the admins, the server's own *)
(* writes and the jobs do, and wherever a round stands.                    *)
(***************************************************************************)
EXTENDS CatalogueProofs

-------------------------------------------------------------------------------
(* The inductive invariant.  Its parts speak of a server s, a file f and a   *)
(* round r, so that a step is a fact about two servers, or two files.        *)

Servers == [row : [Row -> Version], seq : [Row -> Nat], grave : [Row -> Nat], counter : Nat]
Server == [row |-> row, seq |-> seq, grave |-> grave, counter |-> counter]

\* Nothing is kept of a row that is not there.
Blanked(rows) == \A q \in Row : ~rows[q].live => rows[q] = Absent

Valid(s) ==
    /\ \A q \in Row : s.seq[q] <= s.counter /\ s.grave[q] <= s.counter
    /\ \A q \in Row : s.grave[q] # 0 => ~s.row[q].live
    /\ FkHolds(s.row) /\ Unique(s.row) /\ Blanked(s.row)

\* A tombstone above n, the row's own or its parent's, tells of its deletion.
Explained(s, q, n) == s.grave[q] > n \/ (q \in Child /\ s.grave[Parent[q]] > n)

\* The parent's deletion was passed over for its flag, in D; the next push is refused.
Passed(s, q, D) == q \in Child /\ Parent[q] \in D /\ s.grave[Parent[q]] # 0

\* A clean version v of q, in a file that has heard of everything up to n.
Level(s, q, v, n) ==
    s.row[q].live /\ s.seq[q] <= n =>
        \/ v.text = s.row[q].text /\ v.tag = s.row[q].tag
        \/ v.text > s.row[q].stamp
Agrees(s, q, v, D, n) ==
    Level(s, q, v, n) /\ (~s.row[q].live => Explained(s, q, n) \/ Passed(s, q, D))

FileAgrees(s, f) ==
    /\ f.cursor <= s.counter
    /\ \A q \in Row : f.row[q].live /\ q \notin f.dirty => Agrees(s, q, f.row[q], f.dirty, f.cursor)

\* What the database itself keeps.
Keyed(f) == Unique(f.row) /\ Blanked(f.row)

\* A row read by the round is flagged still, or deleted since.
ReadOK(f, r) ==
    \A q \in r.read :
        IF f.row[q].live
        THEN q \in f.dirty /\ (f.row[q] = r.rows[q] \/ f.row[q].text > r.rows[q].text)
        ELSE q \in WithChildren(f.queue)

\* All grants are read at once.
GrantsRead(r) ==
    /\ r.phase = "reading" /\ r.table <= 2 => r.read \cap Role = {}
    /\ \A q, p \in r.read \cap Role : ~SameGrant(q, r.rows[q], p, r.rows[p])

RequestOK(f, r) ==
    /\ r.cursor \in {0, f.cursor} /\ r.queue \subseteq f.queue
    /\ r.full => r.cursor = 0

\* The answer accounts for every row the server had.
AnswerOK(r) ==
    /\ \A q \in r.answer.changes : r.answer.rows[q].live
    /\ \A q \in Row : r.answer.rows[q].live =>
          \/ q \in r.answer.changes
          \/ q \in r.read /\ r.answer.rows[q] = r.rows[q]
          \/ q \notin r.read /\ r.cursor # 0 /\ r.answer.seqs[q] <= r.cursor
    /\ \A q \in r.read : ~r.answer.rows[q].live => q \in r.answer.refused
    /\ r.answer.refused \subseteq r.answer.deletes
    /\ \A q \in r.read \cap r.answer.changes : r.answer.rows[q].stamp > r.rows[q].stamp
    /\ \A q \in r.answer.deletes \cup r.queue : ~r.answer.rows[q].live
    /\ Unique(r.answer.rows) /\ FkHolds(r.answer.rows) /\ Blanked(r.answer.rows)

\* What has happened since has a number above the answer's.
AnswerNow(s, r) ==
    /\ r.answer.cursor <= s.counter
    /\ \A q \in Row : s.row[q].live /\ s.seq[q] <= r.answer.cursor =>
          s.row[q] = r.answer.rows[q] /\ s.seq[q] = r.answer.seqs[q]
    /\ \A q \in Row : ~s.row[q].live /\ r.answer.rows[q].live => Explained(s, q, r.answer.cursor)
    /\ r.cursor # 0 =>
          \A p \in Row : s.grave[p] > r.cursor => p \in r.answer.deletes \/ s.grave[p] > r.answer.cursor

\* The flags the commit leaves, and the rows it leaves: the others are ghosts.
Left(f, r) == f.dirty \ r.read
Stands(f, r, q) ==
    /\ f.row[q].live
    /\ r.cursor = 0 => q \in r.answer.changes \cup Left(f, r) \cup r.read

\* A row the file lacked before the transaction, or held in a version it forgot to push.
Lacked(s, u, q) == s.seq[q] <= u.cursor /\ ~u.row[q].live /\ q \notin WithChildren(u.queue)
Forgot(s, u, q) ==
    q \in Role /\ u.row[q].live /\ q \notin u.dirty /\ u.row[q].text > s.row[q].stamp

Shelved(r) == {<<q, r.rows[q].text>> : q \in r.answer.refused}

\* Inside the transaction: the file as its commit would leave it agrees with the server.
ApplyingOK(s, f, r) ==
    /\ r.undo.cursor = f.cursor /\ r.undo.queue \subseteq f.queue /\ r.queue \subseteq r.undo.queue
    /\ \A q \in Row : Stands(f, r, q) /\ q \notin Left(f, r) =>
          Agrees(s, q, f.row[q], Left(f, r), r.answer.cursor)
    /\ \A q \in Row : s.row[q].live /\ s.seq[q] <= r.answer.cursor /\ ~f.row[q].live =>
          q \in WithChildren(f.queue) \/ Lacked(s, r.undo, q) \/ Forgot(s, r.undo, q)
    /\ Shelved(r) \subseteq f.kept
    /\ \A q \in Child : f.row[q].live /\ ~f.row[Parent[q]].live =>
          q \in r.answer.changes /\ Parent[q] \notin r.answer.changes

\* The file as the last transaction left it.
Settled(f, r) == IF r.phase = "applying" THEN r.undo ELSE f

Asking == {"asked", "answered", "applying"}
Reading == {"reading", "asked", "answered"}
After == {"answered", "applying"}

CopyOK(s, f, r) ==
    /\ FileAgrees(s, Settled(f, r)) /\ FkHolds(Settled(f, r).row)
    /\ Keyed(f) /\ Keyed(r.undo)
    /\ GrantsRead(r)
    /\ r.phase \in Asking => RequestOK(f, r)
    /\ r.phase \in Reading => ReadOK(f, r)
    /\ r.phase \in After => AnswerOK(r) /\ AnswerNow(s, r)
    /\ r.phase = "applying" => ApplyingOK(s, f, r)

\* No stamp is ahead of the clock.
Timely ==
    /\ \A q \in Row : row[q].stamp <= clock
    /\ \A d \in Dict : content[d] <= clock
    /\ \A q \in Message : outbox[q].now <= clock
    /\ Epoch <= clock

\* The second foreign key failure spent the page's one attempt to heal.
HealedOK(e) == e.strikes.kind = "fk" /\ e.strikes.n >= 2 => e.healed

CopyInv ==
    /\ WholeInv
    /\ Valid(Server) /\ Timely
    /\ \A a \in Admin : CopyOK(Server, file[a], round[a]) /\ HealedOK(engine[a])

-------------------------------------------------------------------------------
(* Rows and families.                                                        *)

LEMMA Families ==
    /\ \A q \in Child : q \in Row /\ Parent[q] \in Row /\ Parent[q] \notin Child
    /\ \A S : \A q : q \in WithChildren(S) <=> q \in S \/ (q \in Child /\ Parent[q] \in S)
    /\ \A S : \A q \in Child : Parent[q] \in WithChildren(S) => Parent[q] \in S
<1>1. \A q \in Child : q \in Row /\ Parent[q] \in Row /\ Parent[q] \notin Child
  BY Children, CatalogAssumption DEF Child, Row
<1>2. \A S : \A q : q \in WithChildren(S) <=> q \in S \/ (q \in Child /\ Parent[q] \in S)
  BY DEF WithChildren
<1>. QED
  BY <1>1, <1>2

LEMMA AbsentParts == ~Absent.live /\ Absent.text = 0
BY DEF Absent

\* Deleting rows with their children breaks no rule of the tables.
LEMMA WithoutKeeps ==
    ASSUME NEW rows \in [Row -> Version], NEW S
    PROVE  /\ \A q \in Row : Without(rows, S)[q] = IF q \in WithChildren(S) THEN Absent ELSE rows[q]
           /\ FkHolds(rows) => FkHolds(Without(rows, S))
           /\ Unique(rows) => Unique(Without(rows, S))
           /\ Blanked(rows) => Blanked(Without(rows, S))
<1>. DEFINE kept == Without(rows, S)
<1>1. \A q \in Row : kept[q] = IF q \in WithChildren(S) THEN Absent ELSE rows[q]
  BY DEF Without
<1>. HIDE DEF kept
<1>2. FkHolds(rows) => FkHolds(kept)
  <2>1. SUFFICES ASSUME FkHolds(rows), NEW q \in Child, kept[q].live PROVE kept[Parent[q]].live
    BY DEF FkHolds
  <2>2. q \notin WithChildren(S) /\ rows[q].live
    BY <1>1, <2>1, Families, AbsentParts
  <2>3. Parent[q] \notin WithChildren(S) /\ rows[Parent[q]].live
    BY <2>1, <2>2, Families DEF FkHolds
  <2>. QED
    BY <1>1, <2>3, Families
<1>3. Unique(rows) => Unique(kept)
  <2>1. \A q \in Role : q \in Row /\ (kept[q].live => kept[q] = rows[q])
    BY <1>1, AbsentParts DEF Row
  <2>. QED
    BY <2>1 DEF Unique, SameGrant
<1>4. Blanked(rows) => Blanked(kept)
  BY <1>1 DEF Blanked
<1>. QED
  BY <1>1, <1>2, <1>3, <1>4 DEF kept

-------------------------------------------------------------------------------
(* The server moves on.                                                      *)

\* What any step does to the server's rows: whatever it writes or deletes takes a number that
\* nobody has seen.
Moved(s, t) ==
    /\ s.counter <= t.counter
    /\ \A q \in Row :
        /\ t.seq[q] = s.seq[q] \/ t.seq[q] > s.counter
        /\ t.grave[q] = s.grave[q] \/ t.grave[q] > s.counter
        /\ t.row[q].live => t.row[q] = s.row[q] \/ t.seq[q] > s.counter
        /\ s.row[q].live /\ ~t.row[q].live => Explained(t, q, s.counter)

\* Then a copy agrees with it no less.
LEMMA StillAgrees ==
    ASSUME NEW s \in Servers, NEW t \in Servers, Moved(s, t), NEW n \in Nat, n <= s.counter
    PROVE  /\ \A q \in Row : t.row[q].live /\ t.seq[q] <= n
                             => t.row[q] = s.row[q] /\ t.seq[q] = s.seq[q]
           /\ \A q \in Row : Explained(s, q, n) => Explained(t, q, n)
           /\ \A q \in Row : s.row[q].live /\ ~t.row[q].live => Explained(t, q, n)
           /\ \A q \in Row : \A v \in Version : \A D : Agrees(s, q, v, D, n) => Agrees(t, q, v, D, n)
<1>1. /\ s.counter \in Nat /\ t.counter \in Nat
      /\ \A q \in Row : /\ s.seq[q] \in Nat /\ t.seq[q] \in Nat
                        /\ s.grave[q] \in Nat /\ t.grave[q] \in Nat
  BY DEF Servers
<1>2. \A q \in Row : t.row[q].live /\ t.seq[q] <= n => t.row[q] = s.row[q] /\ t.seq[q] = s.seq[q]
  BY <1>1 DEF Moved
<1>3. \A q \in Row : s.grave[q] > n => t.grave[q] > n
  BY <1>1 DEF Moved
<1>4. \A q \in Row : Explained(s, q, n) => Explained(t, q, n)
  BY <1>3, Families DEF Explained
<1>5. \A q \in Row : s.row[q].live /\ ~t.row[q].live => Explained(t, q, n)
  <2>1. ASSUME NEW q \in Row, Explained(t, q, s.counter) PROVE Explained(t, q, n)
    BY <1>1, <2>1, Families DEF Explained
  <2>. QED
    BY <2>1 DEF Moved
<1>6. ASSUME NEW q \in Row, NEW v \in Version, NEW D, Agrees(s, q, v, D, n)
      PROVE  Agrees(t, q, v, D, n)
  <2>1. Level(t, q, v, n)
    BY <1>2, <1>6 DEF Agrees, Level
  <2>2. Passed(s, q, D) => Passed(t, q, D)
    BY <1>1, Families DEF Passed, Moved
  <2>. QED
    BY <1>4, <1>5, <1>6, <2>1, <2>2 DEF Agrees
<1>. QED
  BY <1>2, <1>4, <1>5, <1>6

LEMMA ServerMoves ==
    ASSUME NEW s \in Servers, NEW t \in Servers, Moved(s, t),
           NEW f \in Files, NEW r \in Rounds, CopyOK(s, f, r)
    PROVE  CopyOK(t, f, r)
<1>1. s.counter \in Nat /\ t.counter \in Nat /\ s.counter <= t.counter
  BY DEF Servers, Moved
<1>2. ASSUME NEW g \in Files, FileAgrees(s, g) PROVE FileAgrees(t, g)
  <2>1. g.cursor \in Nat /\ g.cursor <= s.counter /\ \A q \in Row : g.row[q] \in Version
    BY <1>2 DEF FileAgrees, Files
  <2>2. g.cursor <= t.counter
    BY <1>1, <2>1
  <2>. QED
    BY <1>2, <2>1, <2>2, StillAgrees DEF FileAgrees
<1>3. Settled(f, r) \in Files
  BY DEF Settled, Rounds
<1>4. FileAgrees(t, Settled(f, r))
  BY <1>2, <1>3 DEF CopyOK
<1>5. ASSUME r.phase \in After PROVE AnswerNow(t, r)
  <2>. DEFINE n == r.answer.cursor
  <2>1. AnswerNow(s, r) /\ n \in Nat
    BY <1>5 DEF CopyOK, Rounds, Answers
  <2>2. n <= s.counter /\ n <= t.counter
    BY <1>1, <2>1 DEF AnswerNow
  <2>3. \A q \in Row : t.row[q].live /\ t.seq[q] <= n =>
            t.row[q] = r.answer.rows[q] /\ t.seq[q] = r.answer.seqs[q]
    BY <2>1, <2>2, StillAgrees DEF AnswerNow
  <2>4. \A q \in Row : ~t.row[q].live /\ r.answer.rows[q].live => Explained(t, q, n)
    BY <2>1, <2>2, StillAgrees DEF AnswerNow
  <2>5. ASSUME r.cursor # 0, NEW p \in Row, t.grave[p] > r.cursor
        PROVE  p \in r.answer.deletes \/ t.grave[p] > n
    <3>1. CASE t.grave[p] = s.grave[p]
      BY <2>1, <2>5, <3>1 DEF AnswerNow
    <3>2. CASE t.grave[p] > s.counter
      <4>1. t.grave[p] \in Nat
        BY DEF Servers
      <4>. QED
        BY <1>1, <2>1, <2>2, <3>2, <4>1
    <3>. QED
      BY <3>1, <3>2 DEF Moved
  <2>. QED
    BY <2>2, <2>3, <2>4, <2>5 DEF AnswerNow
<1>6. ASSUME r.phase = "applying" PROVE ApplyingOK(t, f, r)
  <2>. DEFINE n == r.answer.cursor
  <2>1. ApplyingOK(s, f, r) /\ n \in Nat /\ n <= s.counter
    BY <1>6 DEF CopyOK, AnswerNow, After, Rounds, Answers
  <2>2. \A q \in Row : Stands(f, r, q) /\ q \notin Left(f, r) =>
            Agrees(t, q, f.row[q], Left(f, r), n)
    BY <2>1, StillAgrees DEF ApplyingOK, Files
  <2>3. \A q \in Row : t.row[q].live /\ t.seq[q] <= n /\ ~f.row[q].live =>
            q \in WithChildren(f.queue) \/ Lacked(t, r.undo, q) \/ Forgot(t, r.undo, q)
    BY <2>1, StillAgrees DEF ApplyingOK, Lacked, Forgot
  <2>. QED
    BY <2>1, <2>2, <2>3 DEF ApplyingOK
<1>. QED
  BY <1>4, <1>5, <1>6 DEF CopyOK

-------------------------------------------------------------------------------
(* The page's writes.                                                        *)

\* An edit, whose text is later than everything there is.
LEMMA SaveKeeps ==
    ASSUME NEW s \in Servers, NEW f \in Files, NEW g \in Files, NEW r \in Rounds, CopyOK(s, f, r),
           NEW q \in Row, NEW v \in Version, f.row[q].live, v.live,
           \A p \in Row : s.row[p].stamp < v.text /\ r.rows[p].text < v.text,
           g.row = [f.row EXCEPT ![q] = v], g.dirty = f.dirty \cup {q},
           g.queue = f.queue, g.cursor = f.cursor, g.kept = f.kept, Unique(g.row)
    PROVE  CopyOK(s, g, r)
<1>1. /\ \A p \in Row : g.row[p] = IF p = q THEN v ELSE f.row[p]
      /\ \A p \in Row : g.row[p].live <=> f.row[p].live
  <2>1. f.row \in [Row -> Version]
    BY DEF Files
  <2>. QED
    BY <2>1
<1>2. Keyed(g)
  BY <1>1 DEF CopyOK, Keyed, Blanked
<1>3. ASSUME NEW p \in Row, NEW w \in Version, NEW D, NEW E, NEW n, D \subseteq E, Agrees(s, p, w, D, n)
      PROVE  Agrees(s, p, w, E, n)
  BY <1>3 DEF Agrees, Passed
<1>4. ASSUME r.phase # "applying" PROVE FileAgrees(s, g) /\ FkHolds(g.row)
  <2>1. FileAgrees(s, f) /\ FkHolds(f.row)
    BY <1>4 DEF CopyOK, Settled
  <2>2. FkHolds(g.row)
    BY <1>1, <2>1, Families DEF FkHolds
  <2>3. ASSUME NEW p \in Row, g.row[p].live, p \notin g.dirty
        PROVE  Agrees(s, p, g.row[p], g.dirty, g.cursor)
    BY <1>1, <1>3, <2>1, <2>3 DEF FileAgrees, Files
  <2>. QED
    BY <2>1, <2>2, <2>3 DEF FileAgrees
<1>5. ASSUME r.phase \in Reading PROVE ReadOK(g, r)
  BY <1>1, <1>5 DEF CopyOK, ReadOK, Rounds
<1>6. ASSUME r.phase \in Asking PROVE RequestOK(g, r)
  BY <1>6 DEF CopyOK, RequestOK
<1>7. ASSUME r.phase = "applying" PROVE ApplyingOK(s, g, r)
  <2>. DEFINE n == r.answer.cursor
  <2>1. ApplyingOK(s, f, r)
    BY <1>7 DEF CopyOK
  <2>2. Left(f, r) \subseteq Left(g, r) /\ Left(g, r) \subseteq Left(f, r) \cup {q}
    BY DEF Left
  <2>3. ASSUME NEW p \in Row, Stands(g, r, p), p \notin Left(g, r)
        PROVE  Agrees(s, p, g.row[p], Left(g, r), n)
    <3>1. Stands(f, r, p) /\ p \notin Left(f, r)
      BY <1>1, <2>2, <2>3 DEF Stands
    <3>2. Agrees(s, p, f.row[p], Left(f, r), n)
      BY <2>1, <3>1 DEF ApplyingOK
    <3>3. Agrees(s, p, f.row[p], Left(g, r), n)
      BY <1>3, <2>2, <3>2 DEF Files
    <3>4. p = q => Level(s, p, v, n)
      <4>1. s.row[q].stamp \in Nat /\ v.text \in Nat
        BY DEF Servers, Version
      <4>. QED
        BY <4>1 DEF Level
    <3>. QED
      BY <1>1, <3>3, <3>4 DEF Agrees
  <2>. QED
    BY <1>1, <2>1, <2>3, Families DEF ApplyingOK
<1>. QED
  BY <1>2, <1>4, <1>5, <1>6, <1>7 DEF CopyOK, Settled

\* A deletion, with the children.
LEMMA DeleteKeeps ==
    ASSUME NEW s \in Servers, NEW f \in Files, NEW g \in Files, NEW r \in Rounds, CopyOK(s, f, r),
           NEW q \in Row, g.row = Without(f.row, {q}), g.dirty = f.dirty \ WithChildren({q}),
           g.queue = f.queue \cup {q}, g.cursor = f.cursor, g.kept = f.kept
    PROVE  CopyOK(s, g, r)
<1>1. /\ \A p \in Row : g.row[p] = IF p \in WithChildren({q}) THEN Absent ELSE f.row[p]
      /\ FkHolds(f.row) => FkHolds(g.row)
      /\ Keyed(g)
  BY WithoutKeeps DEF CopyOK, Keyed, Files
<1>2. \A p \in Row : g.row[p].live <=> f.row[p].live /\ p \notin WithChildren({q})
  BY <1>1, AbsentParts
<1>3. ASSUME NEW p \in Row, p \notin WithChildren({q}), NEW w, NEW D, NEW n, Agrees(s, p, w, D, n)
      PROVE  Agrees(s, p, w, D \ WithChildren({q}), n)
  <2>1. p \in Child => Parent[p] \notin WithChildren({q})
    BY <1>3, Families
  <2>. QED
    BY <1>3, <2>1 DEF Agrees, Passed
<1>4. ASSUME r.phase # "applying" PROVE FileAgrees(s, g) /\ FkHolds(g.row)
  <2>1. FileAgrees(s, f) /\ FkHolds(f.row)
    BY <1>4 DEF CopyOK, Settled
  <2>2. ASSUME NEW p \in Row, g.row[p].live, p \notin g.dirty
        PROVE  Agrees(s, p, g.row[p], g.dirty, g.cursor)
    <3>1. p \notin WithChildren({q}) /\ f.row[p].live /\ p \notin f.dirty /\ g.row[p] = f.row[p]
      BY <1>1, <1>2, <2>2
    <3>2. Agrees(s, p, f.row[p], f.dirty, f.cursor)
      BY <2>1, <3>1 DEF FileAgrees
    <3>3. Agrees(s, p, f.row[p], f.dirty \ WithChildren({q}), f.cursor)
      BY <1>3, <3>1, <3>2
    <3>. QED
      BY <3>1, <3>3
  <2>. QED
    BY <1>1, <2>1, <2>2 DEF FileAgrees
<1>5. WithChildren(f.queue) \subseteq WithChildren(g.queue)
      /\ WithChildren({q}) \subseteq WithChildren(g.queue)
  BY Families
<1>6. ASSUME r.phase \in Reading PROVE ReadOK(g, r)
  <2>1. r.read \subseteq Row /\ ReadOK(f, r)
    BY <1>6 DEF CopyOK, Rounds
  <2>. QED
    BY <1>1, <1>2, <1>5, <2>1 DEF ReadOK
<1>7. ASSUME r.phase \in Asking PROVE RequestOK(g, r)
  BY <1>7 DEF CopyOK, RequestOK
<1>8. ASSUME r.phase = "applying" PROVE ApplyingOK(s, g, r)
  <2>. DEFINE n == r.answer.cursor
  <2>1. ApplyingOK(s, f, r)
    BY <1>8 DEF CopyOK
  <2>2. Left(g, r) = Left(f, r) \ WithChildren({q})
    BY DEF Left
  <2>3. ASSUME NEW p \in Row, Stands(g, r, p), p \notin Left(g, r)
        PROVE  Agrees(s, p, g.row[p], Left(g, r), n)
    <3>1. f.row[p].live /\ p \notin WithChildren({q}) /\ g.row[p] = f.row[p]
      BY <1>1, <1>2, <2>3 DEF Stands
    <3>2. Stands(f, r, p) /\ p \notin Left(f, r)
      BY <2>2, <2>3, <3>1 DEF Stands
    <3>3. Agrees(s, p, f.row[p], Left(f, r), n)
      BY <2>1, <3>2 DEF ApplyingOK
    <3>4. Agrees(s, p, f.row[p], Left(f, r) \ WithChildren({q}), n)
      BY <1>3, <3>1, <3>3
    <3>. QED
      BY <2>2, <3>1, <3>4
  <2>4. \A p \in Row : s.row[p].live /\ s.seq[p] <= n /\ ~g.row[p].live =>
            p \in WithChildren(g.queue) \/ Lacked(s, r.undo, p) \/ Forgot(s, r.undo, p)
    BY <1>2, <1>5, <2>1 DEF ApplyingOK
  <2>5. ASSUME NEW p \in Child, g.row[p].live, ~g.row[Parent[p]].live
        PROVE  p \in r.answer.changes /\ Parent[p] \notin r.answer.changes
    <3>1. f.row[p].live /\ p \notin WithChildren({q}) /\ Parent[p] \notin WithChildren({q})
      BY <1>2, <2>5, Families
    <3>2. ~f.row[Parent[p]].live
      BY <1>2, <2>5, <3>1, Families
    <3>. QED
      BY <2>1, <3>1, <3>2 DEF ApplyingOK
  <2>. QED
    BY <2>1, <2>3, <2>4, <2>5 DEF ApplyingOK
<1>. QED
  BY <1>1, <1>4, <1>6, <1>7, <1>8 DEF CopyOK, Settled

-------------------------------------------------------------------------------
(* A round begins, reads and asks; a round ends.                             *)

\* With no transaction under way, a round that has not asked stands on the file alone.
LEMMA FreshRound ==
    ASSUME NEW s \in Servers, NEW f \in Files, FileAgrees(s, f), FkHolds(f.row), Keyed(f)
    PROVE  CopyOK(s, f, NoRound) /\ \A full \in BOOLEAN : CopyOK(s, f, Begun(full))
<1>1. Keyed(NoFile)
  <2>1. /\ \A q \in Row : NoFile.row[q] = Absent
        /\ \A q \in Role : q \in Row
    BY DEF NoFile, Row
  <2>. QED
    BY <2>1, AbsentParts DEF Keyed, Unique, SameGrant, Blanked
<1>2. ASSUME NEW r, r.phase \in {"idle", "reading"}, r.read = {}, r.undo = NoFile
      PROVE  CopyOK(s, f, r)
  <2>1. GrantsRead(r) /\ ReadOK(f, r)
    BY <1>2 DEF GrantsRead, ReadOK
  <2>2. Settled(f, r) = f /\ r.phase \notin Asking /\ r.phase \notin After
    BY <1>2 DEF Settled, Asking, After
  <2>. QED
    BY <1>1, <1>2, <2>1, <2>2 DEF CopyOK, After
<1>3. NoRound.phase = "idle" /\ NoRound.read = {} /\ NoRound.undo = NoFile
  BY DEF NoRound
<1>4. ASSUME NEW full \in BOOLEAN
      PROVE  Begun(full).phase = "reading" /\ Begun(full).read = {} /\ Begun(full).undo = NoFile
  BY DEF Begun, NoRound
<1>. QED
  BY <1>2, <1>3, <1>4

\* A table is read.
LEMMA ReadKeeps ==
    ASSUME NEW s \in Servers, NEW f \in Files, NEW r \in Rounds, NEW z \in Rounds, CopyOK(s, f, r),
           r.phase = "reading", r.table <= LastTable,
           \A q \in f.dirty : Flag(q, f.row[q]),
           NEW S, S = Table(r.table) \cap f.dirty,
           z.phase = r.phase, z.table = r.table + 1, z.read = r.read \cup S, z.undo = r.undo,
           z.rows = [q \in Row |-> IF q \in S THEN f.row[q] ELSE r.rows[q]]
    PROVE  CopyOK(s, f, z)
<1>1. S \subseteq Row /\ r.read \subseteq Row /\ r.table \in Nat /\ f.dirty \subseteq Row
  <2>1. r.table \in 1..(LastTable + 1)
    BY DEF Rounds
  <2>2. r.table \in Nat
    BY <2>1 DEF LastTable
  <2>. QED
    BY <2>2 DEF Files, Rounds
<1>2. ReadOK(f, z)
  <2>1. ReadOK(f, r)
    BY DEF CopyOK, Reading
  <2>2. \A q \in S : f.row[q].live /\ q \in f.dirty /\ z.rows[q] = f.row[q]
    BY <1>1 DEF Flag
  <2>. QED
    BY <1>1, <2>1, <2>2 DEF ReadOK
<1>3. GrantsRead(z)
  <2>1. /\ r.table <= 2 => r.read \cap Role = {}
        /\ \A q, p \in r.read \cap Role : ~SameGrant(q, r.rows[q], p, r.rows[p])
        /\ Unique(f.row)
    BY DEF CopyOK, GrantsRead, Keyed
  <2>2. r.table # 2 => S \cap Role = {}
    BY CatalogAssumption DEF Table
  <2>3. CASE r.table = 2
    <3>1. \A q \in z.read \cap Role : z.rows[q] = f.row[q]
      BY <1>1, <2>1, <2>3
    <3>. QED
      BY <2>1, <2>3, <3>1 DEF GrantsRead, Unique
  <2>4. CASE r.table # 2
    <3>1. z.read \cap Role = r.read \cap Role /\ \A q \in r.read \cap Role : z.rows[q] = r.rows[q]
      BY <1>1, <2>2, <2>4
    <3>2. z.table <= 2 => r.table <= 2
      BY <1>1
    <3>. QED
      BY <2>1, <3>1, <3>2 DEF GrantsRead
  <2>. QED
    BY <2>3, <2>4
<1>4. Settled(f, r) = f /\ Settled(f, z) = f /\ z.phase \notin Asking /\ z.phase \notin After
      /\ z.phase # "applying"
  BY DEF Settled, Asking, After
<1>. QED
  BY <1>2, <1>3, <1>4 DEF CopyOK

\* The request leaves.
LEMMA AskKeeps ==
    ASSUME NEW s \in Servers, NEW f \in Files, NEW r \in Rounds, NEW z \in Rounds, CopyOK(s, f, r),
           r.phase = "reading", z.phase = "asked", z.read = r.read, z.rows = r.rows, z.undo = r.undo,
           z.full = r.full, z.queue = f.queue, z.cursor = IF r.full THEN 0 ELSE f.cursor
    PROVE  CopyOK(s, f, z)
<1>1. Settled(f, r) = f /\ Settled(f, z) = f /\ z.phase \notin After
      /\ r.phase \in Reading
  BY DEF Settled, Reading, After
<1>2. ReadOK(f, z) /\ RequestOK(f, z) /\ GrantsRead(z)
  BY <1>1 DEF CopyOK, ReadOK, RequestOK, GrantsRead
<1>. QED
  BY <1>1, <1>2 DEF CopyOK, After

-------------------------------------------------------------------------------
(* The answer is applied.                                                    *)

\* The grants deleted to make way, and the file after the upserts.
LEMMA Upserts ==
    ASSUME NEW h \in Files, NEW ans \in Answers, Keyed(h), Unique(ans.rows), Blanked(ans.rows)
    PROVE  /\ \A q \in Row : Upserted(h, ans).row[q] =
                  IF q \in ans.changes THEN ans.rows[q]
                  ELSE IF q \in Collisions(h, ans) THEN Absent ELSE h.row[q]
           /\ Upserted(h, ans).dirty = h.dirty \ ans.changes
           /\ Upserted(h, ans).queue = h.queue /\ Upserted(h, ans).cursor = h.cursor
           /\ Upserted(h, ans).kept = h.kept
           /\ \A q \in Collisions(h, ans) : q \in Role /\ h.row[q].live
                  /\ \E c \in ans.changes : SameGrant(q, h.row[q], c, ans.rows[c])
           /\ Keyed(Upserted(h, ans))
<1>. DEFINE g == Upserted(h, ans)
            out == Collisions(h, ans)
<1>1. /\ \A q \in Row : g.row[q] = IF q \in ans.changes THEN ans.rows[q]
                                   ELSE IF q \in out THEN Absent ELSE h.row[q]
      /\ g.dirty = h.dirty \ ans.changes /\ g.queue = h.queue /\ g.cursor = h.cursor
      /\ g.kept = h.kept
  BY DEF Upserted, Files
<1>2. \A q \in out : q \in Role /\ h.row[q].live
                     /\ \E c \in ans.changes : SameGrant(q, h.row[q], c, ans.rows[c])
  <2>1. ASSUME NEW q \in out
        PROVE  \E c \in ans.changes : q \in Role /\ SameGrant(q, h.row[q], c, ans.rows[c])
    BY <2>1 DEF Collisions, InTheWay
  <2>. QED
    BY <2>1 DEF SameGrant
<1>3. \A q, p \in Role : q \in ans.changes /\ p \notin ans.changes
                         /\ SameGrant(p, h.row[p], q, ans.rows[q]) => p \in out
  BY DEF Collisions, InTheWay
<1>. HIDE DEF g, out
<1>4. Unique(g.row)
  <2>1. SUFFICES ASSUME NEW q \in Role, NEW p \in Role, SameGrant(q, g.row[q], p, g.row[p]) PROVE FALSE
    BY DEF Unique
  <2>2. q \in Row /\ p \in Row
    BY DEF Row
  <2>3. \A o \in {p, q} : IF o \in ans.changes THEN g.row[o] = ans.rows[o]
                          ELSE o \notin out /\ g.row[o] = h.row[o]
    BY <1>1, <2>1, <2>2, AbsentParts DEF SameGrant
  <2>4. SameGrant(p, g.row[p], q, g.row[q])
    BY <2>1 DEF SameGrant
  <2>5. CASE q \in ans.changes /\ p \in ans.changes
    BY <2>1, <2>3, <2>5 DEF Unique
  <2>6. CASE q \notin ans.changes /\ p \notin ans.changes
    BY <2>1, <2>3, <2>6 DEF Keyed, Unique
  <2>7. CASE q \in ans.changes /\ p \notin ans.changes
    BY <1>3, <2>3, <2>4, <2>7
  <2>8. CASE q \notin ans.changes /\ p \in ans.changes
    BY <1>3, <2>1, <2>3, <2>8
  <2>. QED
    BY <2>5, <2>6, <2>7, <2>8
<1>5. Blanked(g.row)
  BY <1>1 DEF Blanked, Keyed
<1>. QED
  BY <1>1, <1>2, <1>4, <1>5 DEF g, out, Keyed

LEMMA ApplyKeeps ==
    ASSUME NEW s \in Servers, NEW f \in Files, NEW h \in Files, NEW g \in Files,
           NEW r \in Rounds, NEW z \in Rounds, CopyOK(s, f, r), r.phase = "answered",
           Valid(s), \A q \in r.read : Flag(q, r.rows[q]),
           NEW B, B = r.answer.deletes \ (f.dirty \ r.read),
           h.row = Without(f.row, B), h.dirty = f.dirty \ WithChildren(B),
           h.queue = f.queue, h.cursor = f.cursor, h.kept = f.kept \cup Shelved(r),
           Collisions(h, r.answer) \cap h.dirty = {}, g = Upserted(h, r.answer),
           z.phase = "applying", z.undo = f, z.answer = r.answer, z.read = r.read, z.rows = r.rows,
           z.queue = r.queue, z.cursor = r.cursor, z.full = r.full
    PROVE  CopyOK(s, g, z)
<1>. DEFINE ans == r.answer
            n == ans.cursor
            D == Left(g, z)
            out == Collisions(h, ans)
<1>1. /\ FileAgrees(s, f) /\ FkHolds(f.row) /\ Keyed(f) /\ GrantsRead(r) /\ RequestOK(f, r)
      /\ ReadOK(f, r) /\ AnswerOK(r) /\ AnswerNow(s, r)
  BY DEF CopyOK, Settled, Asking, Reading, After
<1>2. /\ ans \in Answers /\ n \in Nat /\ f.cursor \in Nat
      /\ ans.changes \subseteq Row /\ ans.deletes \subseteq Row /\ r.read \subseteq Row /\ f.dirty \subseteq Row
      /\ \A q \in Row : /\ s.row[q] \in Version /\ f.row[q] \in Version /\ r.rows[q] \in Version
                        /\ s.seq[q] \in Nat /\ s.grave[q] \in Nat
  BY DEF Rounds, Answers, Files, Servers
<1>3. /\ \A q \in Row : h.row[q] = IF q \in WithChildren(B) THEN Absent ELSE f.row[q]
      /\ FkHolds(h.row) /\ Keyed(h)
  BY <1>1, WithoutKeeps DEF Keyed, Files
<1>4. /\ \A q \in Row : g.row[q] = IF q \in ans.changes THEN ans.rows[q]
                                   ELSE IF q \in out THEN Absent ELSE h.row[q]
      /\ g.dirty = h.dirty \ ans.changes /\ g.queue = f.queue /\ g.cursor = f.cursor
      /\ g.kept = f.kept \cup Shelved(r) /\ Keyed(g)
      /\ \A q \in out : /\ q \in Role /\ h.row[q].live
                        /\ \E c \in ans.changes : SameGrant(q, h.row[q], c, ans.rows[c])
  <2>1. Unique(ans.rows) /\ Blanked(ans.rows)
    BY <1>1 DEF AnswerOK
  <2>2. g = Upserted(h, ans)
    OBVIOUS
  <2>. HIDE DEF ans
  <2>3. /\ \A q \in Row : g.row[q] = IF q \in ans.changes THEN ans.rows[q]
                                     ELSE IF q \in out THEN Absent ELSE h.row[q]
        /\ g.dirty = h.dirty \ ans.changes /\ g.queue = h.queue /\ g.cursor = h.cursor
        /\ g.kept = h.kept /\ Keyed(g)
        /\ \A q \in out : /\ q \in Role /\ h.row[q].live
                          /\ \E c \in ans.changes : SameGrant(q, h.row[q], c, ans.rows[c])
    <3>1. ans \in Answers /\ Keyed(h)
      BY <1>2, <1>3
    <3>. HIDE DEF out
    <3>2. /\ \A q \in Row : Upserted(h, ans).row[q] =
                  IF q \in ans.changes THEN ans.rows[q]
                  ELSE IF q \in out THEN Absent ELSE h.row[q]
          /\ Upserted(h, ans).dirty = h.dirty \ ans.changes
          /\ Upserted(h, ans).queue = h.queue /\ Upserted(h, ans).cursor = h.cursor
          /\ Upserted(h, ans).kept = h.kept
          /\ \A q \in out : q \in Role /\ h.row[q].live
                  /\ \E c \in ans.changes : SameGrant(q, h.row[q], c, ans.rows[c])
          /\ Keyed(Upserted(h, ans))
      BY <2>1, <3>1, Upserts, Zenon DEF out
    <3>. QED
      BY ONLY <2>2, <3>2
  <2>. QED
    BY <2>3
<1>5. D = (((f.dirty \ WithChildren(B)) \ ans.changes) \ r.read)
  BY <1>4 DEF Left
<1>6. B \subseteq ans.deletes /\ \A q \in B : ~ans.rows[q].live
  BY <1>1 DEF AnswerOK
<1>. HIDE DEF out, D
\* What the server has at n is what it answered.
<1>7. \A q \in Row : s.row[q].live /\ s.seq[q] <= n =>
          s.row[q] = ans.rows[q] /\ s.seq[q] = ans.seqs[q] /\ ans.rows[q].live
  BY <1>1 DEF AnswerNow
<1>8. ASSUME NEW q \in Row, g.row[q].live, q \notin ans.changes
      PROVE  g.row[q] = f.row[q] /\ f.row[q].live /\ q \notin WithChildren(B)
  <2>1. g.row[q] = IF q \in out THEN Absent ELSE h.row[q]
    BY <1>4, <1>8
  <2>2. g.row[q] = h.row[q] /\ h.row[q].live
    BY <1>8, <2>1, AbsentParts
  <2>. QED
    BY <1>3, <2>2, AbsentParts
\* A deletion the file had not heard of is heard of, or passed over for the parent's flag.
<1>9. ASSUME NEW q \in Child, q \notin WithChildren(B), Parent[q] \in f.dirty,
             s.grave[Parent[q]] # 0, ~s.row[Parent[q]].live
      PROVE  Explained(s, q, n) \/ Passed(s, q, D)
  <2>. DEFINE p == Parent[q]
  <2>1. p \in Row /\ p \notin Child /\ p \notin B
    BY <1>9, Families
  <2>2. CASE ans.rows[p].live
    BY <1>1, <1>9, <2>1, <2>2 DEF AnswerNow, Explained
  <2>3. CASE ~ans.rows[p].live
    <3>1. p \notin ans.changes
      BY <1>1, <2>3 DEF AnswerOK
    <3>2. p \notin r.read
      BY <1>1, <2>1, <2>3 DEF AnswerOK
    <3>3. p \notin WithChildren(B)
      BY <2>1, <1>9, Families
    <3>. QED
      BY <1>5, <1>9, <3>1, <3>2, <3>3 DEF Passed
  <2>. QED
    BY <2>2, <2>3
<1>10. ASSUME NEW q \in Row, Stands(g, z, q), q \notin D
       PROVE  Agrees(s, q, g.row[q], D, n)
  <2>1. g.row[q].live
    BY <1>10 DEF Stands
  <2>2. ~s.row[q].live /\ ans.rows[q].live => Explained(s, q, n)
    BY <1>1 DEF AnswerNow
  <2>3. CASE q \in ans.changes
    <3>1. g.row[q] = ans.rows[q] /\ ans.rows[q].live
      BY <1>1, <1>4, <2>3 DEF AnswerOK
    <3>. QED
      BY <1>7, <2>2, <3>1 DEF Agrees, Level
  <2>4. CASE q \notin ans.changes /\ q \in r.read
    <3>1. g.row[q] = f.row[q] /\ f.row[q].live /\ q \notin WithChildren(B)
      BY <1>8, <2>1, <2>4
    <3>2. q \in f.dirty /\ (f.row[q] = r.rows[q] \/ f.row[q].text > r.rows[q].text)
      BY <1>1, <2>4, <3>1 DEF ReadOK
    <3>3. ans.rows[q].live
      <4>1. q \in ans.deletes => q \in B
        BY <2>4
      <4>2. q \notin B
        BY <3>1, Families
      <4>. QED
        BY <1>1, <2>4, <4>1, <4>2 DEF AnswerOK
    <3>4. ans.rows[q] = r.rows[q] /\ r.rows[q].text = r.rows[q].stamp
      BY <1>1, <2>4, <3>3 DEF AnswerOK, Flag
    <3>5. Level(s, q, f.row[q], n)
      BY <1>7, <3>2, <3>4 DEF Level
    <3>. QED
      BY <2>2, <3>1, <3>3, <3>5 DEF Agrees
  <2>5. CASE q \notin ans.changes /\ q \notin r.read
    <3>1. g.row[q] = f.row[q] /\ f.row[q].live /\ q \notin WithChildren(B)
      BY <1>8, <2>1, <2>5
    <3>2. q \notin f.dirty
      BY <1>5, <1>10, <2>5, <3>1
    <3>3. r.cursor # 0 /\ r.cursor = f.cursor
      BY <1>1, <1>10, <2>5 DEF Stands, RequestOK, D
    <3>4. Agrees(s, q, f.row[q], f.dirty, f.cursor)
      BY <1>1, <3>1, <3>2 DEF FileAgrees
    <3>5. Level(s, q, f.row[q], n)
      <4>1. SUFFICES ASSUME s.row[q].live, s.seq[q] <= n PROVE s.seq[q] <= f.cursor
        BY <3>4 DEF Agrees, Level
      <4>2. ans.rows[q].live /\ s.seq[q] = ans.seqs[q]
        BY <1>7, <4>1
      <4>. QED
        BY <1>1, <2>5, <3>3, <4>2 DEF AnswerOK
    <3>6. ASSUME ~s.row[q].live PROVE Explained(s, q, n) \/ Passed(s, q, D)
      <4>1. CASE s.grave[q] > f.cursor
        <5>1. q \notin ans.deletes
          BY <2>5, <3>1, <3>2, Families
        <5>. QED
          BY <1>1, <3>3, <4>1, <5>1 DEF AnswerNow, Explained
      <4>2. CASE q \in Child /\ s.grave[Parent[q]] > f.cursor
        <5>1. Parent[q] \in Row /\ s.grave[Parent[q]] # 0
          BY <1>2, <4>2, Families
        <5>2. CASE s.grave[Parent[q]] > n
          BY <4>2, <5>2 DEF Explained
        <5>3. CASE Parent[q] \in ans.deletes
          <6>1. Parent[q] \notin B
            BY <3>1, <4>2, Families
          <6>2. Parent[q] \in f.dirty /\ Parent[q] \notin r.read /\ ~ans.rows[Parent[q]].live
            BY <1>1, <5>3, <6>1 DEF AnswerOK
          <6>3. Parent[q] \notin ans.changes /\ Parent[q] \notin WithChildren(B)
            BY <1>1, <4>2, <6>1, <6>2, Families DEF AnswerOK
          <6>. QED
            BY <1>5, <4>2, <5>1, <6>2, <6>3 DEF Passed
        <5>. QED
          BY <1>1, <3>3, <4>2, <5>1, <5>2, <5>3 DEF AnswerNow
      <4>3. CASE Passed(s, q, f.dirty)
        <5>1. q \in Child /\ Parent[q] \in f.dirty /\ s.grave[Parent[q]] # 0
          BY <4>3 DEF Passed
        <5>2. ~s.row[Parent[q]].live
          BY <5>1, Families DEF Valid
        <5>. QED
          BY <1>9, <3>1, <5>1, <5>2
      <4>. QED
        BY <3>4, <3>6, <4>1, <4>2, <4>3 DEF Agrees, Explained
    <3>. QED
      BY <3>1, <3>5, <3>6 DEF Agrees
  <2>. QED
    BY <2>3, <2>4, <2>5
<1>11. ASSUME NEW q \in Row, s.row[q].live, s.seq[q] <= n, ~g.row[q].live
       PROVE  q \in WithChildren(f.queue) \/ Lacked(s, f, q) \/ Forgot(s, f, q)
  <2>1. ans.rows[q].live /\ s.row[q] = ans.rows[q] /\ s.seq[q] = ans.seqs[q] /\ q \notin ans.changes
    BY <1>1, <1>4, <1>7, <1>11 DEF AnswerOK
  <2>2. \/ q \in r.read
        \/ q \notin r.read /\ r.cursor = f.cursor /\ s.seq[q] <= f.cursor
    BY <1>1, <2>1 DEF AnswerOK, RequestOK
  <2>3. q \notin WithChildren(B)
    BY <1>1, <1>6, <2>1, Families DEF AnswerOK, FkHolds
  <2>4. CASE ~f.row[q].live
    BY <1>1, <2>2, <2>4 DEF ReadOK, Lacked
  <2>5. CASE f.row[q].live
    <3>0. h.row[q] = f.row[q]
      BY <1>3, <2>3
    <3>1. h.row[q] = f.row[q] /\ q \in out
      <4>0. q \notin ans.changes
        BY <2>1
      <4>1. g.row[q] = IF q \in out THEN Absent ELSE h.row[q]
        BY <1>4, <4>0
      <4>. QED
        BY <1>11, <2>5, <3>0, <4>1
    <3>2. PICK c \in ans.changes : SameGrant(q, f.row[q], c, ans.rows[c])
      BY <1>4, <3>1
    <3>3. q \in Role /\ q \notin f.dirty
      BY <1>4, <2>3, <3>1 DEF out
    <3>4. s.seq[q] <= f.cursor
      BY <1>1, <2>2, <2>5, <3>3 DEF ReadOK
    <3>5. Level(s, q, f.row[q], f.cursor)
      BY <1>1, <2>5, <3>3 DEF FileAgrees, Agrees
    <3>6. f.row[q].tag # ans.rows[q].tag
      <4>1. c \in Role /\ ~SameGrant(q, ans.rows[q], c, ans.rows[c])
        BY <1>1, <3>2, <3>3 DEF SameGrant, AnswerOK, Unique
      <4>. QED
        BY <2>1, <3>2, <4>1 DEF SameGrant
    <3>. QED
      BY <1>11, <2>1, <2>5, <3>3, <3>4, <3>5, <3>6 DEF Level, Forgot
  <2>. QED
    BY <2>4, <2>5
<1>12. ASSUME NEW q \in Child, g.row[q].live, ~g.row[Parent[q]].live
       PROVE  q \in ans.changes /\ Parent[q] \notin ans.changes
  <2>1. q \in Row /\ Parent[q] \in Row /\ Parent[q] \notin Role
    BY Families DEF Child
  <2>2. Parent[q] \notin ans.changes
    BY <1>1, <1>4, <1>12, <2>1 DEF AnswerOK
  <2>3. ~h.row[Parent[q]].live
    BY <1>4, <1>12, <2>1, <2>2
  <2>4. ~h.row[q].live
    BY <1>3, <2>3 DEF FkHolds
  <2>. QED
    BY <1>4, <1>12, <2>1, <2>2, <2>4, AbsentParts
<1>13. ApplyingOK(s, g, z)
  <2>1. z.undo.cursor = g.cursor /\ z.undo.queue \subseteq g.queue /\ z.queue \subseteq z.undo.queue
    BY <1>1, <1>4 DEF RequestOK
  <2>2. Shelved(z) \subseteq g.kept
    BY <1>4 DEF Shelved
  <2>. QED
    BY <1>4, <1>10, <1>11, <1>12, <2>1, <2>2 DEF ApplyingOK, D
<1>14. Settled(g, z) = f /\ z.phase \in Asking /\ z.phase \notin Reading
  BY DEF Settled, Asking, Reading
<1>15. AnswerOK(z) /\ AnswerNow(s, z) /\ GrantsRead(z) /\ RequestOK(g, z)
  <2>1. AnswerOK(z)
    BY <1>1 DEF AnswerOK
  <2>2. AnswerNow(s, z)
    BY <1>1 DEF AnswerNow
  <2>3. GrantsRead(z)
    BY <1>1 DEF GrantsRead
  <2>4. RequestOK(g, z)
    BY <1>1, <1>4 DEF RequestOK
  <2>. QED
    BY <2>1, <2>2, <2>3, <2>4
<1>. QED
  BY <1>1, <1>4, <1>13, <1>14, <1>15 DEF CopyOK

-------------------------------------------------------------------------------
(* The transaction commits.                                                  *)

LEMMA CommitKeeps ==
    ASSUME NEW s \in Servers, NEW f \in Files, NEW g \in Files, NEW r \in Rounds, CopyOK(s, f, r),
           r.phase = "applying",
           NEW G, G = IF r.cursor # 0 THEN {}
                      ELSE {q \in Row : f.row[q].live
                                        /\ q \notin r.answer.changes \cup Left(f, r) \cup r.read},
           g.row = Without(f.row, G), g.dirty = Left(f, r) \ WithChildren(G),
           g.cursor = r.answer.cursor
    PROVE  FileAgrees(s, g) /\ Keyed(g)
<1>. DEFINE n == r.answer.cursor
<1>1. ApplyingOK(s, f, r) /\ n <= s.counter /\ Keyed(f)
  BY DEF CopyOK, AnswerNow, After
<1>2. /\ \A q \in Row : g.row[q] = IF q \in WithChildren(G) THEN Absent ELSE f.row[q]
      /\ Keyed(g)
  BY <1>1, WithoutKeeps DEF Keyed, Files
<1>3. ASSUME NEW q \in Row, g.row[q].live, q \notin g.dirty
      PROVE  Agrees(s, q, g.row[q], g.dirty, n)
  <2>1. q \notin WithChildren(G) /\ g.row[q] = f.row[q] /\ f.row[q].live /\ q \notin Left(f, r)
    BY <1>2, <1>3, AbsentParts
  <2>2. q \notin G /\ (q \in Child => Parent[q] \notin WithChildren(G))
    BY <2>1, Families
  <2>3. Stands(f, r, q)
    BY <2>1, <2>2 DEF Stands
  <2>4. Agrees(s, q, f.row[q], Left(f, r), n)
    BY <1>1, <2>1, <2>3 DEF ApplyingOK
  <2>5. Passed(s, q, Left(f, r)) => Passed(s, q, g.dirty)
    BY <2>2 DEF Passed
  <2>. QED
    BY <2>1, <2>4, <2>5 DEF Agrees
<1>. QED
  BY <1>1, <1>2, <1>3 DEF FileAgrees

-------------------------------------------------------------------------------
(* The server answers.                                                       *)

LEMMA AnswerMoves ==
    ASSUME IInv, TypeOK', Valid(Server), SoundServer', NEW a \in Admin, Answer(a)
    PROVE  Valid(Server)' /\ Moved(Server, Server')
<1>. DEFINE req == round[a]
<1>1. /\ TypeOK /\ SoundServer /\ req \in Rounds /\ SoundRound(req, Seen, Gone, clock)
      /\ Unique(Merged(req)) /\ Merge(req)
  BY TypeParts DEF IInv, AdminTypes, Answer
<1>2. /\ ServerTypes /\ ServerTypes' /\ req.read \subseteq Row /\ req.queue \subseteq Row
      /\ Written(req) \subseteq req.read
  <2>1. ServerTypes /\ ServerTypes'
    BY <1>1 DEF TypeOK, ServerTypes
  <2>. QED
    BY <1>1, <2>1 DEF Rounds, Written
<1>. HIDE DEF req
<1>3. /\ counter \in Nat /\ counter' \in Nat
      /\ \A q \in Row : /\ seq[q] \in Nat /\ grave[q] \in Nat /\ seq'[q] \in Nat /\ grave'[q] \in Nat
  BY <1>2 DEF ServerTypes
<1>4. /\ \A q \in Row : seq'[q] = IF q \in Written(req) THEN counter + 1 ELSE seq[q]
      /\ \A q \in Row : grave'[q] = IF q \in req.queue THEN counter + 1 ELSE grave[q]
      /\ counter' = IF Writes(req) THEN counter + 1 ELSE counter
      /\ row' = Merged(req)
  BY <1>1 DEF Merge
<1>5. /\ \A q \in Row : row'[q] = IF q \in Written(req) THEN req.rows[q] ELSE Base(req)[q]
      /\ \A q \in Row : Base(req)[q] = IF q \in WithChildren(req.queue) THEN Absent ELSE row[q]
  BY <1>4 DEF Merged, Base, Without
<1>6. \A q \in Written(req) : req.rows[q].live /\ row[q].live
  BY <1>1, <1>2, NothingInserted DEF SoundRound, Flag
<1>7. /\ \A q \in Row : seq[q] <= counter /\ grave[q] <= counter
      /\ Blanked(row)
  BY DEF Valid, Server
<1>8. \A q \in Row : seq'[q] <= counter' /\ grave'[q] <= counter'
  <2>1. \A q \in Row : q \in Written(req) \/ q \in req.queue => Writes(req)
    BY DEF Writes
  <2>. QED
    BY <1>3, <1>4, <1>7, <2>1
<1>9. Blanked(row')
  <2>1. ASSUME NEW q \in Row, ~row'[q].live PROVE row'[q] = Absent
    BY <1>5, <1>6, <1>7, <2>1 DEF Blanked
  <2>. QED
    BY <2>1 DEF Blanked
<1>10. Unique(row') /\ FkHolds(row') /\ \A q \in Row : grave'[q] # 0 => ~row'[q].live
  BY <1>1, <1>4 DEF SoundServer
<1>11. Valid(Server)'
  BY <1>8, <1>9, <1>10 DEF Valid, Server
<1>12. ASSUME NEW q \in Row
       PROVE  /\ seq'[q] = seq[q] \/ seq'[q] > counter
              /\ grave'[q] = grave[q] \/ grave'[q] > counter
              /\ row'[q].live => row'[q] = row[q] \/ seq'[q] > counter
              /\ row[q].live /\ ~row'[q].live =>
                     grave'[q] > counter \/ (q \in Child /\ grave'[Parent[q]] > counter)
  <2>1. /\ seq'[q] = seq[q] \/ seq'[q] > counter
        /\ grave'[q] = grave[q] \/ grave'[q] > counter
    BY <1>3, <1>4
  <2>2. row'[q].live => row'[q] = row[q] \/ seq'[q] > counter
    BY <1>3, <1>4, <1>5, AbsentParts
  <2>3. ASSUME row[q].live, ~row'[q].live
        PROVE  grave'[q] > counter \/ (q \in Child /\ grave'[Parent[q]] > counter)
    <3>1. q \in WithChildren(req.queue)
      BY <1>5, <1>6, <2>3
    <3>. QED
      BY <1>3, <1>4, <3>1, Families
  <2>. QED
    BY <2>1, <2>2, <2>3
<1>13. counter <= counter'
  BY <1>3, <1>4
<1>14. Moved(Server, Server')
  BY <1>12, <1>13 DEF Moved, Explained, Server
<1>. QED
  BY <1>11, <1>14

\* The answer holds what a pull from the request's cursor must bring.
LEMMA AnswerTells ==
    ASSUME IInv, TypeOK', Valid(Server)', NEW a \in Admin, Answer(a),
           NEW z, z.answer = AnswerTo(round[a]), z.read = round[a].read, z.rows = round[a].rows,
           z.queue = round[a].queue, z.cursor = round[a].cursor
    PROVE  AnswerOK(z) /\ AnswerNow(Server', z)
<1>. DEFINE req == round[a]
            ans == z.answer
<1>1. /\ TypeOK /\ SoundServer /\ req \in Rounds /\ SoundRound(req, Seen, Gone, clock)
      /\ Merge(req)
  BY TypeParts DEF IInv, AdminTypes, Answer
<1>2. /\ ServerTypes /\ ServerTypes' /\ req.read \subseteq Row /\ req.queue \subseteq Row
      /\ Written(req) \subseteq req.read /\ req.cursor \in Nat
  <2>1. ServerTypes /\ ServerTypes'
    BY <1>1 DEF TypeOK, ServerTypes
  <2>. QED
    BY <1>1, <2>1 DEF Rounds, Written
<1>. HIDE DEF req
<1>3. /\ ans.changes = Changed(req) /\ ans.rows = row' /\ ans.seqs = seq' /\ ans.deletes = Removed(req)
      /\ ans.refused = Buried(req) /\ ans.cursor = counter'
      /\ z.read = req.read /\ z.rows = req.rows /\ z.queue = req.queue /\ z.cursor = req.cursor
  BY DEF AnswerTo, req
<1>. HIDE DEF ans
<1>4. /\ \A q \in Row : row'[q] = IF q \in Written(req) THEN req.rows[q] ELSE Base(req)[q]
      /\ \A q \in Row : Base(req)[q] = IF q \in WithChildren(req.queue) THEN Absent ELSE row[q]
  BY <1>1 DEF Merge, Merged, Base, Without
<1>5. \A q \in Written(req) : q \notin WithChildren(req.queue) /\ Base(req)[q] = row[q] /\ row[q].live
  BY <1>1, NothingInserted
<1>6. /\ \A q \in Row : /\ seq'[q] <= counter' /\ grave'[q] <= counter'
                        /\ seq'[q] \in Nat /\ grave'[q] \in Nat
                        /\ grave'[q] # 0 => ~row'[q].live
      /\ Unique(row') /\ FkHolds(row') /\ Blanked(row') /\ counter' \in Nat
  BY <1>2 DEF Valid, Server, ServerTypes
<1>7. ASSUME NEW q \in Row
      PROVE  /\ q \in Losing(req) => q \in req.read /\ row'[q].live /\ row'[q].stamp > req.rows[q].stamp
             /\ q \in Buried(req) => q \in req.read /\ ~row'[q].live
             /\ q \in req.read => q \in Losing(req) \/ q \in Buried(req) \/ row'[q] = req.rows[q]
             /\ q \in req.queue => ~row'[q].live
             /\ q \in req.read => req.rows[q].live
  <2>1. q \in Losing(req) => q \in req.read /\ row'[q].live /\ row'[q].stamp > req.rows[q].stamp
    BY <1>4 DEF Losing, Written
  <2>2. q \in Buried(req) => q \in req.read /\ ~row'[q].live
    BY <1>4 DEF Buried, Written
  <2>3. q \in req.read => q \in Losing(req) \/ q \in Buried(req) \/ row'[q] = req.rows[q]
    BY <1>4 DEF Written
  <2>4. q \in req.queue => ~row'[q].live
    BY <1>4, <1>5, Families, AbsentParts
  <2>5. q \in req.read => req.rows[q].live
    BY <1>1 DEF SoundRound, Flag
  <2>. QED
    BY <2>1, <2>2, <2>3, <2>4, <2>5
<1>8. /\ Changed(req) = {q \in Row : row'[q].live /\ (req.cursor = 0 \/ seq'[q] > req.cursor)
                                     /\ q \notin req.read} \cup Losing(req)
      /\ Removed(req) = {q \in Row : req.cursor # 0 /\ grave'[q] > req.cursor /\ ~row'[q].live}
                        \cup Buried(req)
      /\ Losing(req) \subseteq Row /\ Buried(req) \subseteq Row
  BY <1>2 DEF Changed, Removed, Losing, Buried
<1>9. \A q \in ans.changes : ans.rows[q].live
  BY <1>3, <1>7, <1>8
<1>10. ASSUME NEW q \in Row, ans.rows[q].live
       PROVE  \/ q \in ans.changes
              \/ q \in z.read /\ ans.rows[q] = z.rows[q]
              \/ q \notin z.read /\ z.cursor # 0 /\ ans.seqs[q] <= z.cursor
  <2>1. CASE q \in req.read
    BY <1>3, <1>7, <1>8, <1>10, <2>1
  <2>2. CASE q \notin req.read
    BY <1>2, <1>3, <1>6, <1>8, <1>10, <2>2
  <2>. QED
    BY <2>1, <2>2
<1>11. \A q \in z.read : ~ans.rows[q].live => q \in ans.refused
  <2>1. SUFFICES ASSUME NEW q \in req.read, ~row'[q].live PROVE q \in Buried(req)
    BY <1>3
  <2>. QED
    BY <1>2, <1>7, <2>1
<1>12. ans.refused \subseteq ans.deletes
  BY <1>3, <1>8
<1>13. \A q \in z.read \cap ans.changes : ans.rows[q].stamp > z.rows[q].stamp
  BY <1>2, <1>3, <1>7, <1>8
<1>14. \A q \in ans.deletes \cup z.queue : ~ans.rows[q].live
  <2>1. ASSUME NEW q \in Removed(req) \cup req.queue PROVE ~row'[q].live
    BY <1>2, <1>7, <1>8, <2>1
  <2>. QED
    BY <1>3, <2>1
<1>15. AnswerOK(z)
  BY <1>3, <1>6, <1>9, <1>10, <1>11, <1>12, <1>13, <1>14 DEF AnswerOK, ans
<1>16. AnswerNow(Server', z)
  <2>1. ASSUME NEW p \in Row, z.cursor # 0, grave'[p] > z.cursor PROVE p \in ans.deletes
    <3>1. grave'[p] # 0
      BY <1>2, <1>3, <1>6, <2>1
    <3>. QED
      BY <1>3, <1>6, <1>8, <2>1, <3>1
  <2>2. /\ Server'.row = row' /\ Server'.seq = seq' /\ Server'.grave = grave'
        /\ Server'.counter = counter'
    BY DEF Server
  <2>3. ans.cursor <= counter'
    BY <1>3, <1>6
  <2>. HIDE DEF Server
  <2>. QED
    BY <1>3, <2>1, <2>2, <2>3 DEF AnswerNow, ans
<1>. QED
  BY <1>15, <1>16

-------------------------------------------------------------------------------
(* The server's own writes.                                                  *)

\* The rows of S are written, each with the next number.
Wrote(S) ==
    /\ \A q \in Row \ S : row'[q] = row[q] /\ seq'[q] = seq[q]
    /\ \A q \in S : row'[q].live /\ seq'[q] = counter + 1 /\ row'[q].stamp <= clock'
    /\ counter' \in {counter, counter + 1} /\ (S # {} => counter' = counter + 1)
    /\ grave' = grave /\ clock <= clock'

LEMMA UniqueKept ==
    ASSUME Unique(row), \A q \in Role : row'[q].live => row[q].live /\ row'[q].tag = row[q].tag
    PROVE  Unique(row')
BY DEF Unique, SameGrant

LEMMA WriteMoves ==
    ASSUME TypeOK, TypeOK', SoundServer', Valid(Server), Timely, NEW S \in SUBSET Row, Wrote(S),
           \/ Unique(row')
           \/ \A q \in S \cap Role : row[q].live /\ row'[q].tag = row[q].tag
    PROVE  /\ Valid(Server)' /\ Moved(Server, Server')
           /\ \A q \in Row : row'[q].stamp <= clock'
<1>1. /\ counter \in Nat /\ counter' \in Nat /\ clock \in Nat /\ clock' \in Nat
      /\ \A q \in Row : /\ seq[q] \in Nat /\ grave[q] \in Nat /\ seq'[q] \in Nat
                        /\ row[q] \in Version /\ row'[q] \in Version
  BY DEF TypeOK
<1>2. /\ \A q \in Row : seq[q] <= counter /\ grave[q] <= counter
      /\ Blanked(row) /\ Unique(row)
  BY DEF Valid, Server
<1>3. \A q \in Row : row'[q].stamp <= clock'
  <2>1. \A q \in Row : row[q].stamp \in Nat /\ row[q].stamp <= clock
    BY <1>1 DEF Timely, Version
  <2>. QED
    BY <1>1, <2>1 DEF Wrote
<1>4. \A q \in Row : seq'[q] <= counter' /\ grave'[q] <= counter'
  BY <1>1, <1>2 DEF Wrote
<1>5. Blanked(row')
  BY <1>2 DEF Blanked, Wrote
<1>6. Unique(row')
  <2>1. SUFFICES ASSUME \A q \in S \cap Role : row[q].live /\ row'[q].tag = row[q].tag
                 PROVE  Unique(row')
    OBVIOUS
  <2>2. \A q \in Role : row'[q].live => row[q].live /\ row'[q].tag = row[q].tag
    BY <2>1 DEF Wrote, Row
  <2>. QED
    BY <1>2, <2>2, UniqueKept
<1>7. Valid(Server)'
  BY <1>4, <1>5, <1>6 DEF Valid, Server, SoundServer
<1>8. ASSUME NEW q \in Row
      PROVE  /\ seq'[q] = seq[q] \/ seq'[q] > counter
             /\ grave'[q] = grave[q]
             /\ row'[q].live => row'[q] = row[q] \/ seq'[q] > counter
             /\ row[q].live => row'[q].live
  BY <1>1 DEF Wrote
<1>9. counter <= counter'
  BY <1>1 DEF Wrote
<1>10. Moved(Server, Server')
  BY <1>8, <1>9 DEF Moved, Server
<1>. QED
  BY <1>3, <1>7, <1>10

LEMMA GrantMoves ==
    ASSUME TypeOK, TypeOK', SoundServer', Valid(Server), Timely,
           NEW q \in Role, NEW tag \in Tags(q), Grant(q, tag)
    PROVE  /\ Valid(Server)' /\ Moved(Server, Server')
           /\ \A p \in Row : row'[p].stamp <= clock'
<1>1. /\ counter \in Nat /\ clock \in Nat /\ row \in [Row -> Version] /\ seq \in [Row -> Nat]
      /\ clock' = clock + 1 /\ grave' = grave /\ clock <= clock'
      /\ \A p \in Role : p \in Row
  BY DEF TypeOK, Grant, Row
<1>. DEFINE v == Fresh(clock + 1, tag)
            same == {p \in Role : SameGrant(p, row[p], q, v)}
<1>2. v.live /\ v.stamp = clock + 1
  BY DEF Fresh
<1>3. \/ same = {} /\ row' = [row EXCEPT ![q] = v] /\ Numbered(q)
      \/ \E p \in same : row' = [row EXCEPT ![p].stamp = clock + 1, ![p].text = clock + 1]
                         /\ Numbered(p)
  BY DEF Grant
<1>. HIDE DEF v
<1>4. CASE same = {} /\ row' = [row EXCEPT ![q] = v] /\ Numbered(q)
  <2>1. \A p \in Row : row'[p] = IF p = q THEN v ELSE row[p]
    BY <1>1, <1>4
  <2>2. Wrote({q})
    BY <1>1, <1>2, <1>4, <2>1 DEF Wrote, Numbered
  <2>3. Unique(row')
    <3>1. SUFFICES ASSUME NEW o \in Role, NEW p \in Role, SameGrant(o, row'[o], p, row'[p]) PROVE FALSE
      BY DEF Unique
    <3>2. SameGrant(p, row'[p], o, row'[o]) /\ o # p
      BY <3>1 DEF SameGrant
    <3>3. CASE o # q /\ p # q
      BY <1>1, <2>1, <3>1, <3>3 DEF Valid, Server, Unique
    <3>4. CASE o = q
      BY <1>1, <1>4, <2>1, <3>2, <3>4
    <3>5. CASE p = q
      BY <1>1, <1>4, <2>1, <3>1, <3>2, <3>5
    <3>. QED
      BY <3>3, <3>4, <3>5
  <2>. QED
    BY <1>1, <2>2, <2>3, WriteMoves
<1>5. ASSUME NEW p \in same, Numbered(p),
             row' = [row EXCEPT ![p].stamp = clock + 1, ![p].text = clock + 1]
      PROVE  Wrote({p}) /\ row[p].live /\ row'[p].tag = row[p].tag /\ p \in Row
  <2>1. p \in Row /\ row[p] \in Version /\ row[p].live
    BY <1>1 DEF SameGrant
  <2>. DEFINE u == [row[p] EXCEPT !.stamp = clock + 1, !.text = clock + 1]
  <2>2. u.live = row[p].live /\ u.tag = row[p].tag /\ u.stamp = clock + 1
    BY <2>1 DEF Version
  <2>3. \A o \in Row : row'[o] = IF o = p THEN u ELSE row[o]
    BY <1>1, <1>5, <2>1
  <2>. HIDE DEF u
  <2>4. Wrote({p})
    BY <1>1, <1>5, <2>1, <2>2, <2>3 DEF Wrote, Numbered
  <2>. QED
    BY <2>1, <2>2, <2>3, <2>4
<1>6. CASE \E p \in same : row' = [row EXCEPT ![p].stamp = clock + 1, ![p].text = clock + 1]
                           /\ Numbered(p)
  <2>1. PICK p \in same : row' = [row EXCEPT ![p].stamp = clock + 1, ![p].text = clock + 1]
                          /\ Numbered(p)
    BY <1>6
  <2>2. Wrote({p}) /\ row[p].live /\ row'[p].tag = row[p].tag /\ p \in Row
    BY <1>5, <2>1
  <2>. HIDE DEF same
  <2>3. \A o \in {p} \cap Role : row[o].live /\ row'[o].tag = row[o].tag
    BY <2>2
  <2>. QED
    BY <2>2, <2>3, WriteMoves
<1>. QED
  BY <1>3, <1>4, <1>6

LEMMA RemovalMoves ==
    ASSUME TypeOK, TypeOK', SoundServer', Valid(Server), Timely, NEW d,
           (d \in Role /\ Revoke(d)) \/ (d \in Dict /\ TearDown(d))
    PROVE  /\ Valid(Server)' /\ Moved(Server, Server')
           /\ \A p \in Row : row'[p].stamp <= clock'
<1>1. /\ counter \in Nat /\ clock \in Nat /\ row \in [Row -> Version] /\ seq \in [Row -> Nat]
      /\ grave \in [Row -> Nat] /\ d \in Row
  BY DEF TypeOK, Row
<1>2. /\ row' = Without(row, {d}) /\ seq' = seq /\ clock' = clock /\ counter' = counter + 1
      /\ grave'[d] = counter + 1
      /\ \A q \in Row : grave'[q] = grave[q] \/ grave'[q] = counter + 1
  BY <1>1 DEF Revoke, TearDown
<1>3. \A q \in Row : row'[q] = IF q \in WithChildren({d}) THEN Absent ELSE row[q]
  BY <1>2 DEF Without
<1>4. /\ \A q \in Row : seq[q] <= counter /\ grave[q] <= counter
      /\ \A q \in Row : seq[q] \in Nat /\ grave[q] \in Nat
      /\ Blanked(row) /\ Unique(row)
  BY <1>1 DEF Valid, Server
<1>5. Unique(row') /\ Blanked(row')
  BY <1>1, <1>2, <1>4, WithoutKeeps
<1>6. \A q \in Row : seq'[q] <= counter' /\ grave'[q] <= counter'
  BY <1>1, <1>2, <1>4
<1>7. Valid(Server)'
  BY <1>5, <1>6 DEF Valid, Server, SoundServer
<1>8. ASSUME NEW q \in Row
      PROVE  /\ seq'[q] = seq[q]
             /\ grave'[q] = grave[q] \/ grave'[q] > counter
             /\ row'[q].live => row'[q] = row[q]
             /\ row[q].live /\ ~row'[q].live =>
                    grave'[q] > counter \/ (q \in Child /\ grave'[Parent[q]] > counter)
  <2>1. row'[q].live => row'[q] = row[q]
    BY <1>3, AbsentParts
  <2>2. row[q].live /\ ~row'[q].live => q = d \/ (q \in Child /\ Parent[q] = d)
    BY <1>3, Families
  <2>3. counter + 1 > counter
    BY <1>1
  <2>. QED
    BY <1>2, <2>1, <2>2, <2>3
<1>9. counter <= counter'
  BY <1>1, <1>2
<1>10. Moved(Server, Server')
  BY <1>8, <1>9 DEF Moved, Server, Explained
<1>11. \A q \in Row : row'[q].stamp <= clock'
  <2>1. Absent.stamp <= clock /\ \A q \in Row : row[q].stamp <= clock
    BY <1>1 DEF Absent, Timely
  <2>2. ASSUME NEW q \in Row PROVE row'[q].stamp <= clock'
    BY <1>2, <1>3, <2>1
  <2>. QED
    BY <2>2
<1>. QED
  BY <1>7, <1>10, <1>11

LEMMA Stamps ==
    ASSUME NEW rows \in [Row -> Version], NEW p \in Row, NEW x \in Nat
    PROVE  /\ \A o \in Row : o # p \/ ~rows[p].live => Stamped(rows, p, x)[o] = rows[o]
           /\ rows[p].live => Stamped(rows, p, x)[p].live /\ Stamped(rows, p, x)[p].stamp = x
           /\ \A o \in Row : Stamped(rows, p, x)[o].live <=> rows[o].live
<1>1. CASE rows[p].live
  <2>. DEFINE v == [rows[p] EXCEPT !.stamp = x]
  <2>1. v.live = rows[p].live /\ v.stamp = x
    BY DEF Version
  <2>2. Stamped(rows, p, x) = [rows EXCEPT ![p] = v]
    BY <1>1 DEF Stamped
  <2>. HIDE DEF v
  <2>3. \A o \in Row : Stamped(rows, p, x)[o] = IF o = p THEN v ELSE rows[o]
    BY <2>2
  <2>. QED
    BY <1>1, <2>1, <2>3
<1>2. CASE ~rows[p].live
  BY <1>2 DEF Stamped
<1>. QED
  BY <1>1, <1>2

\* Messages: the handlers write the message, its thread or both.
LEMMA PostMoves ==
    ASSUME TypeOK, TypeOK', SoundServer', Valid(Server), Timely, NEW q \in Message,
           Post(q) \/ Reply(q) \/ ReplyBumps(q) \/ ReplySent(q) \/ ReplyFails(q)
    PROVE  /\ Valid(Server)' /\ Moved(Server, Server')
           /\ \A o \in Row : row'[o].stamp <= clock'
           /\ \A o \in Message : outbox'[o].now <= clock'
<1>. DEFINE p == Parent[q]
<1>1. /\ row \in [Row -> Version] /\ seq \in [Row -> Nat] /\ clock \in Nat /\ counter \in Nat
      /\ outbox[q].now \in Nat /\ clock + 1 \in Nat /\ outbox[q].now <= clock
      /\ content \in [Dict -> Nat]
      /\ \A o \in Message : outbox[o].now \in Nat
  BY DEF TypeOK, Timely
<1>2. q \in Row /\ p \in Row /\ p # q /\ q \notin Role /\ p \notin Role
  BY Children, CatalogAssumption DEF Row, Child
<1>. HIDE DEF p
<1>3. ASSUME NEW S \in SUBSET {p, q}, Wrote(S)
      PROVE  /\ Valid(Server)' /\ Moved(Server, Server')
             /\ \A o \in Row : row'[o].stamp <= clock'
  <2>1. S \in SUBSET Row /\ S \cap Role = {}
    BY <1>2
  <2>. QED
    BY <1>3, <2>1, WriteMoves
<1>4. \E S \in SUBSET {p, q} : Wrote(S)
  <2>1. CASE Post(q)
    <3>1. /\ row[p].live /\ clock' = clock + 1 /\ grave' = grave /\ counter' = counter + 1
          /\ seq' = [seq EXCEPT ![q] = counter + 1, ![p] = counter + 1]
      BY <2>1 DEF Post, p
    <3>2. PICK x \in {clock + 1, row[p].text} :
              row' = [row EXCEPT ![q] = Fresh(clock + 1, "plain"),
                                 ![p].stamp = clock + 1, ![p].text = x]
      BY <2>1 DEF Post, p
    <3>. DEFINE v == Fresh(clock + 1, "plain")
                w == [row EXCEPT ![q] = v]
                u == [w[p] EXCEPT !.stamp = clock + 1, !.text = x]
    <3>3. v.live /\ v.stamp = clock + 1
      BY DEF Fresh
    <3>4. v \in Version
      BY <1>1, RowTypes DEF Tag
    <3>5. row' = [w EXCEPT ![p] = u]
      BY <1>1, <1>2, <3>2, <3>4
    <3>. HIDE DEF v
    <3>6. w \in [Row -> Version] /\ w[q] = v /\ \A o \in Row : o # q => w[o] = row[o]
      BY <1>1, <1>2, <3>4
    <3>. HIDE DEF w
    <3>7. u.live = row[p].live /\ u.stamp = clock + 1
      BY <1>1, <1>2, <3>6 DEF Version
    <3>. HIDE DEF u
    <3>8. /\ row'[q] = v /\ row'[p] = u
          /\ \A o \in Row : o # q /\ o # p => row'[o] = row[o]
      BY <1>2, <3>5, <3>6
    <3>9. /\ seq'[q] = counter + 1 /\ seq'[p] = counter + 1
          /\ \A o \in Row : o # q /\ o # p => seq'[o] = seq[o]
      BY <1>1, <1>2, <3>1
    <3>10. \A o \in {p, q} : row'[o].live /\ seq'[o] = counter + 1 /\ row'[o].stamp <= clock'
      <4>1. clock + 1 <= clock'
        BY <1>1, <3>1
      <4>2. row'[q].live /\ row'[q].stamp <= clock'
        BY <3>3, <3>8, <4>1
      <4>3. row'[p].live /\ row'[p].stamp <= clock'
        BY <3>1, <3>7, <3>8, <4>1
      <4>. QED
        BY <3>9, <4>2, <4>3
    <3>11. \A o \in Row \ {p, q} : row'[o] = row[o] /\ seq'[o] = seq[o]
      BY <3>8, <3>9
    <3>12. clock <= clock'
      BY <1>1, <3>1
    <3>13. Wrote({p, q})
      BY <3>1, <3>10, <3>11, <3>12 DEF Wrote
    <3>. QED
      BY <3>13
  <2>2. CASE Reply(q)
    <3>. DEFINE v == Fresh(clock + 1, "plain")
    <3>1. /\ clock' = clock + 1 /\ grave' = grave /\ counter' = counter + 1
          /\ row' = [row EXCEPT ![q] = v] /\ seq' = [seq EXCEPT ![q] = counter + 1]
      BY <2>2 DEF Reply, Numbered
    <3>2. v.live /\ v.stamp = clock + 1
      BY DEF Fresh
    <3>. HIDE DEF v
    <3>3. Wrote({q})
      BY <1>1, <1>2, <3>1, <3>2 DEF Wrote
    <3>. QED
      BY <3>3
  <2>3. ASSUME NEW S \in SUBSET {p, q}, Numbers(S), grave' = grave,
               clock' = clock \/ clock' = clock + 1,
               \A o \in Row : o \notin S \/ ~row[o].live => row'[o] = row[o],
               \A o \in S : row[o].live => row'[o].live /\ row'[o].stamp <= clock'
        PROVE  \E T \in SUBSET {p, q} : Wrote(T)
    <3>. DEFINE T == {o \in S : row[o].live}
    <3>1. /\ \A o \in Row : seq'[o] = IF o \in T THEN counter + 1 ELSE seq[o]
          /\ counter' = IF T = {} THEN counter ELSE counter + 1
      BY <2>3 DEF Numbers
    <3>2. S \subseteq Row
      BY <1>2
    <3>3. Wrote(T)
      BY <1>1, <2>3, <3>1, <3>2 DEF Wrote
    <3>. QED
      BY <3>3
  <2>4. CASE ReplyBumps(q)
    <3>1. /\ row' = Stamped(row, p, outbox[q].now) /\ Numbers({p}) /\ grave' = grave /\ clock' = clock
      BY <2>4 DEF ReplyBumps, p
    <3>2. /\ \A o \in Row : o \notin {p} \/ ~row[o].live => row'[o] = row[o]
          /\ \A o \in {p} : row[o].live => row'[o].live /\ row'[o].stamp <= clock'
      BY <1>1, <1>2, <3>1, Stamps
    <3>3. {p} \in SUBSET {p, q}
      OBVIOUS
    <3>. QED
      BY <2>3, <3>1, <3>2, <3>3
  <2>5. CASE ReplySent(q)
    <3>. DEFINE w == Stamped(row, q, clock + 1)
    <3>1. /\ row' = Stamped(w, p, clock + 1) /\ Numbers({q, p}) /\ grave' = grave
          /\ clock' = clock + 1
      BY <2>5 DEF ReplySent, p
    <3>2. /\ w \in [Row -> Version]
          /\ \A o \in Row : o # q \/ ~row[q].live => w[o] = row[o]
          /\ row[q].live => w[q].live /\ w[q].stamp = clock + 1
          /\ \A o \in Row : w[o].live <=> row[o].live
      <4>1. w \in [Row -> Version]
        BY <1>1, <1>2, RowTypes
      <4>2. /\ \A o \in Row : o # q \/ ~row[q].live => Stamped(row, q, clock + 1)[o] = row[o]
            /\ row[q].live => /\ Stamped(row, q, clock + 1)[q].live
                               /\ Stamped(row, q, clock + 1)[q].stamp = clock + 1
            /\ \A o \in Row : Stamped(row, q, clock + 1)[o].live <=> row[o].live
        BY <1>1, <1>2, Stamps, Zenon
      <4>. QED
        BY <4>1, <4>2
    <3>. HIDE DEF w
    <3>3. /\ \A o \in Row : o # p \/ ~w[p].live => row'[o] = w[o]
          /\ w[p].live => row'[p].live /\ row'[p].stamp = clock + 1
      <4>1. clock + 1 \in Nat /\ p \in Row
        BY <1>1, <1>2
      <4>2. /\ \A o \in Row : o # p \/ ~w[p].live => Stamped(w, p, clock + 1)[o] = w[o]
            /\ w[p].live => /\ Stamped(w, p, clock + 1)[p].live
                            /\ Stamped(w, p, clock + 1)[p].stamp = clock + 1
        BY <3>2, <4>1, Stamps
      <4>. QED
        BY <3>1, <4>2
    <3>4. \A o \in Row : o \notin {q, p} \/ ~row[o].live => row'[o] = row[o]
      BY <1>2, <3>2, <3>3
    <3>5. \A o \in {q, p} : row[o].live => row'[o].live /\ row'[o].stamp <= clock'
      BY <1>1, <1>2, <3>1, <3>2, <3>3
    <3>. QED
      BY <2>3, <3>1, <3>4, <3>5
  <2>6. CASE ReplyFails(q)
    <3>1. /\ row' = Stamped(row, q, clock + 1) /\ Numbers({q}) /\ grave' = grave
          /\ clock' = clock + 1
      BY <2>6 DEF ReplyFails
    <3>2. /\ \A o \in Row : o \notin {q} \/ ~row[o].live => row'[o] = row[o]
          /\ \A o \in {q} : row[o].live => row'[o].live /\ row'[o].stamp <= clock'
      BY <1>1, <1>2, <3>1, Stamps
    <3>. QED
      BY <2>3, <3>1, <3>2
  <2>. QED
    BY <2>1, <2>2, <2>4, <2>5, <2>6
<1>5. clock <= clock' /\ clock' \in Nat
  BY <1>1 DEF Post, Reply, ReplyBumps, ReplySent, ReplyFails
<1>6. \A o \in Message : outbox'[o].now <= clock'
  <2>1. \A o \in Message : outbox[o].now <= clock'
    BY <1>1, <1>5 DEF Timely
  <2>2. outbox \in [Message -> Outboxes]
    BY TypeParts
  <2>3. CASE Post(q)
    BY <2>1, <2>3 DEF Post
  <2>4. CASE Reply(q)
    BY <1>1, <2>1, <2>2, <2>4 DEF Reply
  <2>5. CASE ReplyBumps(q)
    BY <2>1, <2>2, <2>5 DEF ReplyBumps, Outboxes
  <2>6. CASE ReplySent(q) \/ ReplyFails(q)
    BY <1>5, <2>1, <2>2, <2>6 DEF ReplySent, ReplyFails, NoReply
  <2>. QED
    BY <2>3, <2>4, <2>5, <2>6
<1>7. Valid(Server)' /\ Moved(Server, Server') /\ \A o \in Row : row'[o].stamp <= clock'
  BY <1>3, <1>4
<1>. QED
  BY <1>6, <1>7

\* A dictionary's row is written: a stamp or a mark.
LEMMA DictMoves ==
    ASSUME TypeOK, TypeOK', SoundServer', Valid(Server), Timely, NEW d \in Dict, row[d].live,
           NEW v \in Version, v.live, v.stamp <= clock', row' = [row EXCEPT ![d] = v], Numbered(d),
           grave' = grave, clock <= clock'
    PROVE  /\ Valid(Server)' /\ Moved(Server, Server')
           /\ \A q \in Row : row'[q].stamp <= clock'
<1>1. d \in Row /\ d \notin Role /\ row \in [Row -> Version] /\ seq \in [Row -> Nat]
  BY CatalogAssumption DEF TypeOK, Row
<1>2. Wrote({d})
  BY <1>1 DEF Wrote, Numbered
<1>3. \A q \in {d} \cap Role : row[q].live /\ row'[q].tag = row[q].tag
  BY <1>1
<1>. QED
  BY <1>1, <1>2, <1>3, WriteMoves

\* Nothing is written.
LEMMA StillMoves ==
    ASSUME TypeOK, TypeOK', Valid(Server), Timely, UNCHANGED <<row, seq, grave, counter>>,
           clock <= clock'
    PROVE  /\ Valid(Server)' /\ Moved(Server, Server')
           /\ \A q \in Row : row'[q].stamp <= clock'
<1>1. Valid(Server)'
  BY DEF Valid, Server
<1>2. Moved(Server, Server')
  BY DEF Moved, Server, TypeOK
<1>3. \A q \in Row : row[q].stamp \in Nat /\ row[q].stamp <= clock /\ clock \in Nat /\ clock' \in Nat
  BY DEF TypeOK, Timely, Version
<1>. QED
  BY <1>1, <1>2, <1>3

LEMMA ContentMoves ==
    ASSUME TypeOK, TypeOK', SoundServer', Valid(Server), Timely, NEW d \in Dict,
           Push(d) \/ PushUnmirrored(d) \/ PushInVain(d) \/ Remove(d)
    PROVE  /\ Valid(Server)' /\ Moved(Server, Server')
           /\ \A q \in Row : row'[q].stamp <= clock'
           /\ clock <= clock' /\ \A c \in Dict : content'[c] <= clock'
<1>1. /\ row \in [Row -> Version] /\ clock \in Nat /\ content \in [Dict -> Nat] /\ d \in Row
      /\ \A c \in Dict : content[c] <= clock
      /\ Epoch <= clock
  BY DEF TypeOK, Timely, Row
<1>2. ASSUME NEW x \in Nat, row' = Mirrored(d, x), row[d].live
      PROVE  \E v \in Version : v.live /\ v.stamp = x /\ row' = [row EXCEPT ![d] = v]
  <2>. DEFINE v == [row[d] EXCEPT !.stamp = x]
  <2>1. v \in Version /\ v.live /\ v.stamp = x
    BY <1>1, <1>2 DEF Version
  <2>2. row' = [row EXCEPT ![d] = v]
    BY <1>2 DEF Mirrored
  <2>. QED
    BY <2>1, <2>2
<1>3. CASE Push(d)
  <2>1. /\ row[d].live /\ clock' = clock + 1 /\ content' = [content EXCEPT ![d] = clock + 1]
        /\ row' = Mirrored(d, clock + 1) /\ Numbered(d) /\ grave' = grave
    BY <1>3 DEF Push
  <2>2. PICK v \in Version : v.live /\ v.stamp = clock + 1 /\ row' = [row EXCEPT ![d] = v]
    BY <1>1, <1>2, <2>1
  <2>3. v.stamp <= clock' /\ clock <= clock' /\ \A c \in Dict : content'[c] <= clock'
    BY <1>1, <2>1, <2>2
  <2>. QED
    BY <2>1, <2>2, <2>3, DictMoves
<1>4. CASE PushUnmirrored(d)
  <2>1. /\ clock' = clock + 1 /\ content' = [content EXCEPT ![d] = clock + 1]
        /\ UNCHANGED <<row, seq, grave, counter>>
    BY <1>4 DEF PushUnmirrored
  <2>2. clock <= clock' /\ \A c \in Dict : content'[c] <= clock'
    BY <1>1, <2>1
  <2>. QED
    BY <2>1, <2>2, StillMoves
<1>5. CASE PushInVain(d)
  <2>1. /\ row[d].live /\ row' = Mirrored(d, content[d]) /\ Numbered(d)
        /\ grave' = grave /\ clock' = clock /\ content' = content
    BY <1>5 DEF PushInVain, sweepVars
  <2>2. PICK v \in Version : v.live /\ v.stamp = content[d] /\ row' = [row EXCEPT ![d] = v]
    BY <1>1, <1>2, <2>1
  <2>3. v.stamp <= clock' /\ clock <= clock' /\ \A c \in Dict : content'[c] <= clock'
    BY <1>1, <2>1, <2>2
  <2>. QED
    BY <2>1, <2>2, <2>3, DictMoves
<1>6. CASE Remove(d)
  <2>1. TearDown(d) /\ clock' = clock /\ content' = [content EXCEPT ![d] = Blank]
    BY <1>6 DEF Remove, TearDown
  <2>2. clock <= clock' /\ \A c \in Dict : content'[c] <= clock'
    BY <1>1, <2>1 DEF Blank, Epoch
  <2>. QED
    BY <2>1, <2>2, RemovalMoves
<1>. QED
  BY <1>3, <1>4, <1>5, <1>6

LEMMA SweepMoves ==
    ASSUME TypeOK, TypeOK', SoundServer', Valid(Server), Timely,
           Sweep \/ Restart \/ \E d \in Dict : \/ WithdrawFails(d) \/ BuildFails(d)
                                               \/ RemoveSnapshot(d) \/ RemoveSnapshotFails(d)
    PROVE  /\ Valid(Server)' /\ Moved(Server, Server')
           /\ \A q \in Row : row'[q].stamp <= clock'
           /\ clock' = clock /\ content' = content
<1>1. /\ row \in [Row -> Version] /\ clock \in Nat /\ content \in [Dict -> Nat]
      /\ seq \in [Row -> Nat] /\ sweep.ts \in Nat
      /\ \A c \in Dict : content[c] <= clock
      /\ \A q \in Row : row[q].stamp <= clock
  BY DEF TypeOK, Timely, Sweeps
<1>2. clock' = clock /\ content' = content
  BY DEF Sweep, SweepBegins, WithdrawObject, WithdrawMark, Marks, List, BuildBegins, Copy, Upload, Mark,
         Restart, WithdrawFails, BuildFails, RemoveSnapshot, RemoveSnapshotFails, serverVars
<1>3. CASE UNCHANGED serverVars
  BY <1>1, <1>2, <1>3, StillMoves DEF serverVars
<1>4. ASSUME NEW d \in Dict, NEW ts \in Nat, Marks(d, ts), row[d].live
      PROVE  /\ Valid(Server)' /\ Moved(Server, Server')
             /\ \A q \in Row : row'[q].stamp <= clock'
  <2>. DEFINE v == [row[d] EXCEPT !.uploaded = ts]
  <2>1. d \in Row
    BY DEF Row
  <2>2. v \in Version /\ v.live /\ v.stamp = row[d].stamp
    BY <1>1, <1>4, <2>1 DEF Version
  <2>3. row' = [row EXCEPT ![d] = v] /\ Numbered(d) /\ grave' = grave
    BY <1>1, <1>4, <2>1 DEF Marks
  <2>. HIDE DEF v
  <2>4. v.stamp <= clock' /\ clock <= clock'
    BY <1>1, <1>2, <2>1, <2>2
  <2>. QED
    BY <1>4, <2>2, <2>3, <2>4, DictMoves
<1>5. CASE SweepBegins
  <2>. DEFINE late == IF reconciled THEN {} ELSE Behind
  <2>1. late \subseteq Dict /\ \A d \in late : row[d].live
    BY DEF Behind
  <2>2. /\ \A q \in Row : row'[q] = IF q \in late THEN [row[q] EXCEPT !.stamp = content[q]] ELSE row[q]
        /\ \A q \in Row : seq'[q] = IF q \in late THEN counter + 1 ELSE seq[q]
        /\ counter' = IF late = {} THEN counter ELSE counter + 1
        /\ grave' = grave
    BY <1>5 DEF SweepBegins
  <2>. HIDE DEF late
  <2>3. ASSUME NEW d \in late
        PROVE  row'[d].live /\ seq'[d] = counter + 1 /\ row'[d].stamp <= clock' /\ d \notin Role
    <3>1. d \in Dict /\ d \in Row /\ row[d] \in Version /\ row[d].live /\ d \notin Role
      BY <1>1, <2>1, CatalogAssumption DEF Row
    <3>2. row'[d] = [row[d] EXCEPT !.stamp = content[d]]
      BY <2>2, <3>1
    <3>3. row'[d].live /\ row'[d].stamp = content[d]
      BY <3>1, <3>2 DEF Version
    <3>. QED
      BY <1>1, <1>2, <2>2, <3>1, <3>3
  <2>4. Wrote(late)
    <3>1. clock <= clock'
      BY <1>1, <1>2
    <3>2. \A q \in Row \ late : row'[q] = row[q] /\ seq'[q] = seq[q]
      BY <2>2
    <3>3. counter' \in {counter, counter + 1} /\ (late # {} => counter' = counter + 1)
      BY <2>2
    <3>. QED
      BY <2>2, <2>3, <3>1, <3>2, <3>3 DEF Wrote
  <2>5. late \in SUBSET Row /\ \A q \in late \cap Role : row[q].live /\ row'[q].tag = row[q].tag
    BY <2>1, <2>3 DEF Row
  <2>. QED
    BY <1>2, <2>4, <2>5, WriteMoves
<1>6. \/ UNCHANGED serverVars \/ SweepBegins
      \/ \E d \in Dict : \E ts \in Nat : Marks(d, ts) /\ row[d].live
  BY <1>1 DEF Sweep, WithdrawObject, WithdrawMark, Marks, List, BuildBegins, Copy, Upload, Mark,
         Restart, WithdrawFails, BuildFails, RemoveSnapshot, RemoveSnapshotFails
<1>. QED
  BY <1>2, <1>3, <1>4, <1>5, <1>6

\* The steps that are not the admins'.
LEMMA ServerGoes ==
    ASSUME TypeOK, TypeOK', SoundServer', Valid(Server), Timely,
           ServerStep \/ DictStep \/ SweepStep \/ MediaStep \/ UNCHANGED vars
    PROVE  /\ Valid(Server)' /\ Moved(Server, Server') /\ Timely' /\ UNCHANGED adminVars
<1>1. /\ clock \in Nat /\ clock' \in Nat /\ content \in [Dict -> Nat]
      /\ outbox \in [Message -> Outboxes] /\ Epoch <= clock
      /\ \A d \in Dict : content[d] <= clock
      /\ \A q \in Message : outbox[q].now <= clock /\ outbox[q].now \in Nat
  BY DEF TypeOK, Timely, Outboxes
<1>2. UNCHANGED adminVars
  BY DEF ServerStep, DictStep, SweepStep, MediaStep, vars
<1>3. ASSUME \A q \in Row : row'[q].stamp <= clock', clock <= clock',
             \A d \in Dict : content'[d] <= clock', \A q \in Message : outbox'[q].now <= clock'
      PROVE  Timely'
  BY <1>1, <1>3 DEF Timely, Epoch
<1>4. ASSUME clock <= clock'
      PROVE  /\ content' = content => \A d \in Dict : content'[d] <= clock'
             /\ outbox' = outbox => \A q \in Message : outbox'[q].now <= clock'
  BY <1>1, <1>4
<1>5. CASE ServerStep
  <2>1. content' = content
    BY <1>5 DEF ServerStep, sweepVars
  <2>2. clock <= clock'
    <3>1. clock' = clock \/ clock' = clock + 1
      BY <1>5 DEF ServerStep, Grant, Revoke, Post, Reply, ReplyBumps, ReplySent, ReplyFails
    <3>. QED
      BY <1>1, <3>1
  <2>3. CASE (\E q \in Role : \E tag \in Tags(q) : Grant(q, tag)) /\ outbox' = outbox
    BY <1>2, <1>3, <1>4, <2>1, <2>2, <2>3, GrantMoves
  <2>4. CASE (\E q \in Role : Revoke(q)) /\ outbox' = outbox
    BY <1>2, <1>3, <1>4, <2>1, <2>2, <2>4, RemovalMoves
  <2>5. CASE \E q \in Message : Post(q) \/ Reply(q) \/ ReplyBumps(q) \/ ReplySent(q) \/ ReplyFails(q)
    BY <1>2, <1>3, <1>4, <2>1, <2>2, <2>5, PostMoves
  <2>. QED
    BY <1>5, <2>3, <2>4, <2>5 DEF ServerStep
<1>6. CASE DictStep
  <2>1. outbox' = outbox
    BY <1>6 DEF DictStep
  <2>2. PICK d \in Dict : Push(d) \/ PushUnmirrored(d) \/ PushInVain(d) \/ Remove(d) \/ RemoveSnapshot(d)
    BY <1>6 DEF DictStep
  <2>3. CASE RemoveSnapshot(d)
    BY <1>1, <1>2, <1>3, <1>4, <2>1, <2>3, SweepMoves
  <2>4. CASE ~RemoveSnapshot(d)
    BY <1>2, <1>3, <1>4, <2>1, <2>2, <2>4, ContentMoves
  <2>. QED
    BY <2>3, <2>4
<1>7. CASE SweepStep
  <2>1. Sweep \/ Restart \/ \E d \in Dict : WithdrawFails(d) \/ BuildFails(d) \/ RemoveSnapshotFails(d)
    BY <1>7 DEF SweepStep
  <2>2. outbox' = outbox \/ outbox' = [q \in Message |-> NoReply]
    BY <1>7 DEF SweepStep
  <2>3. /\ Valid(Server)' /\ Moved(Server, Server')
        /\ \A q \in Row : row'[q].stamp <= clock'
        /\ clock' = clock /\ content' = content
    BY <2>1, SweepMoves
  <2>4. \A q \in Message : outbox'[q].now <= clock'
    BY <1>1, <2>2, <2>3 DEF NoReply
  <2>. QED
    BY <1>1, <1>2, <1>3, <1>4, <2>3, <2>4
<1>8. CASE MediaStep \/ UNCHANGED vars
  <2>1. UNCHANGED <<row, seq, grave, counter>> /\ clock' = clock /\ content' = content /\ outbox' = outbox
    BY <1>8 DEF MediaStep, vars, serverVars, sweepVars
  <2>2. clock <= clock'
    BY <1>1, <2>1
  <2>. QED
    BY <1>2, <1>3, <1>4, <2>1, <2>2, StillMoves
<1>. QED
  BY <1>5, <1>6, <1>7, <1>8

-------------------------------------------------------------------------------
(* The steps of an admin.                                                    *)

\* A step of one admin is nothing to the others.
LEMMA Alone ==
    ASSUME TypeOK, NEW a \in Admin, Edited(a) \/ Disturbed(a) \/ Runs(a), NEW b \in Admin, b # a
    PROVE  file'[b] = file[b] /\ round'[b] = round[b] /\ engine'[b] = engine[b]
<1>1. /\ file \in [Admin -> Files] /\ round \in [Admin -> Rounds] /\ engine \in [Admin -> Engines]
  BY DEF TypeOK
<1>. DEFINE Same == file'[b] = file[b] /\ round'[b] = round[b] /\ engine'[b] = engine[b]
<1>2. ASSUME NEW kind, Struck(a, kind) PROVE round'[b] = round[b] /\ engine'[b] = engine[b]
  BY <1>1, <1>2 DEF Struck
<1>3. Excused(a) \/ Succeeded(a) => round'[b] = round[b] /\ engine'[b] = engine[b]
  BY <1>1 DEF Excused, Succeeded
<1>4. Begin(a) => Same
  BY <1>1 DEF Begin
<1>5. ASSUME NEW q \in Row, NEW tag \in Tags(q), Save(a, q, tag) PROVE Same
  BY <1>1, <1>5 DEF Save, Marked
<1>6. ASSUME NEW q, Delete(a, q) PROVE Same
  BY <1>1, <1>6 DEF Delete, Marked
<1>7. Sync(a) \/ Flush(a) \/ Reload(a) \/ Disconnect(a) \/ Reconnect(a) => Same
  BY <1>1, <1>4 DEF Sync, Flush, Reload, Disconnect, Reconnect
<1>8. ReadTable(a) \/ Ask(a) \/ Answer(a) => Same
  BY <1>1 DEF ReadTable, Ask, Answer
<1>9. Refuse(a) \/ Lose(a) => Same
  BY <1>2, <1>3 DEF Refuse, Lose
<1>10. Apply(a) => Same
  <2>1. SUFFICES ASSUME Apply(a) PROVE Same
    OBVIOUS
  <2>2. CASE Struck(a, "unique") /\ file' = file
    BY <1>2, <2>2
  <2>3. CASE /\ file' = [file EXCEPT ![a] = Upserted(Cleared(a), round[a].answer)]
             /\ round' = [round EXCEPT ![a].phase = "applying", ![a].undo = file[a]]
             /\ engine' = engine
    BY <1>1, <2>3
  <2>. QED
    BY <2>1, <2>2, <2>3, Zenon DEF Apply
<1>11. Commit(a) => Same
  <2>1. SUFFICES ASSUME Commit(a) PROVE Same
    OBVIOUS
  <2>2. \/ file' = [file EXCEPT ![a] = Applied(a)] /\ Succeeded(a)
        \/ file' = [file EXCEPT ![a] = round[a].undo] /\ Struck(a, "fk")
    BY <2>1, Zenon DEF Commit
  <2>. QED
    BY <1>1, <1>2, <1>3, <2>2
<1>. HIDE DEF Same
<1>12. Same
  BY <1>5, <1>6, <1>7, <1>8, <1>9, <1>10, <1>11 DEF Edited, Disturbed, Runs, Step, Row
<1>. QED
  BY <1>12 DEF Same

\* How a round that fails is counted.
LEMMA StruckKeeps ==
    ASSUME AdminTypes, NEW a \in Admin, NEW kind, HealedOK(engine[a]), Struck(a, kind)
    PROVE  HealedOK(engine'[a]) /\ round'[a] \in {NoRound, Begun(TRUE)}
<1>. DEFINE n == IF engine[a].strikes.kind = kind THEN engine[a].strikes.n + 1 ELSE 1
            heals == kind = "fk" /\ n >= 2 /\ ~engine[a].healed
            starts == heals /\ engine[a].online
<1>1. engine \in [Admin -> Engines] /\ round \in [Admin -> Rounds]
  BY DEF AdminTypes
<1>2. /\ round' = [round EXCEPT ![a] = IF starts THEN Begun(TRUE) ELSE NoRound]
      /\ engine'[a].strikes = [kind |-> kind, n |-> n]
      /\ engine'[a].healed <=> engine[a].healed \/ heals
  BY <1>1 DEF Struck, Engines
<1>. HIDE DEF n
<1>3. round'[a] \in {NoRound, Begun(TRUE)}
  BY <1>1, <1>2
<1>4. engine'[a].strikes.kind = "fk" /\ engine'[a].strikes.n >= 2 => engine'[a].healed
  BY <1>2
<1>. QED
  BY <1>3, <1>4 DEF HealedOK

LEMMA EndKeeps ==
    ASSUME AdminTypes, NEW a \in Admin, Excused(a) \/ Succeeded(a)
    PROVE  HealedOK(engine'[a]) /\ round'[a] = NoRound
BY DEF AdminTypes, Engines, Excused, Succeeded, HealedOK, NoStrikes

\* What a step of an admin starts from.
Starting(a) ==
    /\ IInv /\ TypeOK' /\ Valid(Server) /\ Timely
    /\ CopyOK(Server, file[a], round[a]) /\ HealedOK(engine[a])

LEMMA StartParts ==
    ASSUME NEW a \in Admin, Starting(a)
    PROVE  /\ TypeOK /\ AdminTypes /\ Server \in Servers
           /\ file[a] \in Files /\ round[a] \in Rounds /\ engine[a] \in Engines
           /\ file'[a] \in Files /\ round'[a] \in Rounds /\ engine'[a] \in Engines
           /\ SoundFile(file[a], Seen, Gone, clock) /\ SoundRound(round[a], Seen, Gone, clock)
<1>1. TypeOK /\ AdminTypes /\ Server \in Servers
  BY TypeParts DEF Starting, IInv, ServerTypes, Server, Servers
<1>2. /\ file' \in [Admin -> Files] /\ round' \in [Admin -> Rounds] /\ engine' \in [Admin -> Engines]
  BY DEF Starting, TypeOK
<1>. QED
  BY <1>1, <1>2 DEF AdminTypes, Starting, IInv

LEMMA PageCopies ==
    ASSUME NEW a \in Admin, Starting(a),
           \/ \E q \in Row : \E tag \in Tags(q) : Save(a, q, tag)
           \/ \E q \in Row : Delete(a, q)
           \/ Sync(a) \/ Flush(a) \/ Reload(a) \/ Disconnect(a) \/ Reconnect(a)
    PROVE  CopyOK(Server, file'[a], round'[a]) /\ HealedOK(engine'[a])
<1>1. /\ Server \in Servers /\ file \in [Admin -> Files] /\ round \in [Admin -> Rounds]
      /\ engine \in [Admin -> Engines] /\ file[a] \in Files /\ round[a] \in Rounds
      /\ file'[a] \in Files /\ round'[a] \in Rounds /\ clock \in Nat
      /\ CopyOK(Server, file[a], round[a]) /\ HealedOK(engine[a])
  BY StartParts DEF AdminTypes, TypeOK, Starting
<1>2. /\ FileAgrees(Server, Settled(file[a], round[a])) /\ FkHolds(Settled(file[a], round[a]).row)
      /\ Keyed(Settled(file[a], round[a])) /\ Settled(file[a], round[a]) \in Files
  BY <1>1 DEF CopyOK, Settled, Rounds
<1>3. HealedOK(Marked(a)[a])
  BY <1>1 DEF Marked, HealedOK, Engines
<1>4. ASSUME NEW q \in Row, NEW tag \in Tags(q), Save(a, q, tag)
      PROVE  CopyOK(Server, file'[a], round'[a]) /\ HealedOK(engine'[a])
  <2>. DEFINE v == [file[a].row[q] EXCEPT !.stamp = clock + 1, !.text = clock + 1, !.tag = tag]
  <2>1. /\ file[a].row[q].live /\ Unique([file[a].row EXCEPT ![q] = v])
        /\ file' = [file EXCEPT ![a].row[q] = v, ![a].dirty = @ \cup {q}]
        /\ engine' = Marked(a) /\ round' = round
    BY <1>4 DEF Save
  <2>2. file[a].row[q] \in Version /\ file[a].row[q].live /\ tag \in Tag /\ clock + 1 \in Nat
    BY <1>1, <2>1 DEF Files, Tags, Tag
  <2>3. v \in Version /\ v.live /\ v.text = clock + 1
    <3>. HIDE DEF Tag
    <3>. QED
      BY <2>2 DEF Version
  <2>. HIDE DEF v
  <2>4. /\ file'[a].row = [file[a].row EXCEPT ![q] = v] /\ file'[a].dirty = file[a].dirty \cup {q}
        /\ file'[a].queue = file[a].queue /\ file'[a].cursor = file[a].cursor
        /\ file'[a].kept = file[a].kept
    BY <1>1, <2>1 DEF Files
  <2>5. \A p \in Row : row[p].stamp < v.text /\ round[a].rows[p].text < v.text
    <3>1. \A p \in Row : row[p] \in Version /\ round[a].rows[p] \in Version
      BY <1>1, StartParts DEF TypeOK, Rounds
    <3>2. \A p \in Row : row[p].stamp <= clock /\ round[a].rows[p].text <= clock
      BY StartParts DEF Starting, Timely, SoundRound, Sound
    <3>. QED
      BY <1>1, <2>3, <3>1, <3>2 DEF Version
  <2>6. \A p \in Row : Server.row[p].stamp < v.text /\ round[a].rows[p].text < v.text
    BY <2>5 DEF Server
  <2>7. Unique(file'[a].row)
    BY <2>1, <2>4
  <2>. HIDE DEF Server
  <2>8. CopyOK(Server, file'[a], round[a])
    BY <1>1, <2>1, <2>3, <2>4, <2>6, <2>7, SaveKeeps
  <2>. QED
    BY <1>3, <2>1, <2>8
<1>5. ASSUME NEW q \in Row, Delete(a, q)
      PROVE  CopyOK(Server, file'[a], round'[a]) /\ HealedOK(engine'[a])
  <2>. DEFINE g == Dropped(file[a], {q})
  <2>1. /\ file' = [file EXCEPT ![a] = [g EXCEPT !.queue = file[a].queue \cup {q}]]
        /\ engine' = Marked(a) /\ round' = round
    BY <1>5 DEF Delete
  <2>2. /\ g \in Files
        /\ g.row = Without(file[a].row, {q}) /\ g.dirty = file[a].dirty \ WithChildren({q})
        /\ g.cursor = file[a].cursor /\ g.kept = file[a].kept
    <3>1. g \in Files
      BY <1>1, FileTypes
    <3>2. g.row = Without(file[a].row, {q}) /\ g.dirty = file[a].dirty \ WithChildren({q})
      BY <1>1, DroppedParts
    <3>3. g.cursor = file[a].cursor /\ g.kept = file[a].kept
      BY <1>1 DEF Dropped, Files
    <3>. QED
      BY <3>1, <3>2, <3>3
  <2>. HIDE DEF g
  <2>3. /\ file'[a].row = g.row /\ file'[a].dirty = g.dirty
        /\ file'[a].queue = file[a].queue \cup {q} /\ file'[a].cursor = g.cursor
        /\ file'[a].kept = g.kept
    BY <1>1, <2>1, <2>2 DEF Files
  <2>4. CopyOK(Server, file'[a], round[a])
    BY <1>1, <2>2, <2>3, DeleteKeeps
  <2>. QED
    BY <1>3, <2>1, <2>4
<1>6. ASSUME Begin(a) PROVE CopyOK(Server, file'[a], round'[a]) /\ HealedOK(engine'[a])
  <2>1. /\ round[a].phase = "idle" /\ round'[a] = Begun(FALSE) /\ file' = file
        /\ engine' = [engine EXCEPT ![a].armed = FALSE, ![a].last = "none", ![a].missed = FALSE]
    BY <1>1, <1>6 DEF Begin, Idle
  <2>2. Settled(file[a], round[a]) = file[a]
    BY <2>1 DEF Settled
  <2>3. HealedOK(engine'[a])
    BY <1>1, <2>1 DEF HealedOK, Engines
  <2>. QED
    BY <1>1, <1>2, <2>1, <2>2, <2>3, FreshRound
<1>7. CASE Sync(a)
  BY <1>6, <1>7 DEF Sync
<1>8. CASE Flush(a)
  <2>1. CASE Begin(a)
    BY <1>6, <2>1
  <2>2. CASE ~Begin(a)
    <3>1. /\ \E b : engine' = [engine EXCEPT ![a].armed = FALSE, ![a].missed = b]
          /\ file' = file /\ round' = round
      BY <1>8, <2>2 DEF Flush
    <3>2. HealedOK(engine'[a])
      BY <1>1, <3>1 DEF HealedOK, Engines
    <3>. QED
      BY <1>1, <3>1, <3>2
  <2>. QED
    BY <2>1, <2>2
<1>9. CASE Reload(a)
  <2>1. /\ file'[a] = Settled(file[a], round[a]) /\ round'[a] \in {NoRound, Begun(FALSE)}
        /\ engine'[a] = [NewEngine EXCEPT !.online = engine[a].online]
    BY <1>1, <1>9 DEF Reload, Settled
  <2>2. HealedOK(engine'[a])
    BY <2>1 DEF HealedOK, NewEngine, NoStrikes
  <2>. QED
    BY <1>1, <1>2, <2>1, <2>2, FreshRound
<1>10. CASE Disconnect(a) \/ Reconnect(a)
  <2>1. /\ \E b : engine' = [engine EXCEPT ![a].online = b]
        /\ file' = file /\ round' = round
    BY <1>10 DEF Disconnect, Reconnect
  <2>2. HealedOK(engine'[a])
    BY <1>1, <2>1 DEF HealedOK, Engines
  <2>. QED
    BY <1>1, <2>1, <2>2
<1>. QED
  BY <1>4, <1>5, <1>7, <1>8, <1>9, <1>10

\* A round that ends with no commit leaves the file as its last transaction did.
LEMMA StoppedCopies ==
    ASSUME NEW a \in Admin, Starting(a), file'[a] = Settled(file[a], round[a]),
           Excused(a) \/ \E kind : Struck(a, kind)
    PROVE  CopyOK(Server, file'[a], round'[a]) /\ HealedOK(engine'[a])
<1>1. /\ Server \in Servers /\ AdminTypes /\ file[a] \in Files /\ round[a] \in Rounds
      /\ CopyOK(Server, file[a], round[a]) /\ HealedOK(engine[a])
  BY StartParts DEF Starting
<1>2. /\ FileAgrees(Server, file'[a]) /\ FkHolds(file'[a].row) /\ Keyed(file'[a]) /\ file'[a] \in Files
  BY <1>1 DEF CopyOK, Settled, Rounds
<1>3. HealedOK(engine'[a]) /\ round'[a] \in {NoRound, Begun(TRUE)}
  BY <1>1, StruckKeeps, EndKeeps
<1>. QED
  BY <1>1, <1>2, <1>3, FreshRound

LEMMA StepCopies ==
    ASSUME NEW a \in Admin, Starting(a), Step(a) \/ Lose(a), ~Answer(a)
    PROVE  CopyOK(Server, file'[a], round'[a]) /\ HealedOK(engine'[a])
<1>. DEFINE f == file[a]
            r == round[a]
            z == round'[a]
<1>1. /\ Server \in Servers /\ file \in [Admin -> Files] /\ round \in [Admin -> Rounds]
      /\ engine \in [Admin -> Engines] /\ AdminTypes /\ f \in Files /\ r \in Rounds
      /\ file'[a] \in Files /\ z \in Rounds
      /\ CopyOK(Server, f, r) /\ HealedOK(engine[a]) /\ Valid(Server)
      /\ SoundFile(f, Seen, Gone, clock) /\ SoundRound(r, Seen, Gone, clock)
  BY StartParts DEF AdminTypes, Starting
<1>. HIDE DEF Server
<1>2. CASE ReadTable(a)
  <2>. DEFINE S == Table(r.table) \cap f.dirty
  <2>1. /\ r.phase = "reading" /\ r.table <= LastTable /\ file' = file /\ engine' = engine
        /\ round' = [round EXCEPT ![a].table = @ + 1, ![a].read = @ \cup S,
                         ![a].rows = [q \in Row |-> IF q \in S THEN f.row[q] ELSE r.rows[q]]]
    BY <1>1, <1>2 DEF ReadTable
  <2>2. /\ z.phase = r.phase /\ z.table = r.table + 1 /\ z.read = r.read \cup S /\ z.undo = r.undo
        /\ z.rows = [q \in Row |-> IF q \in S THEN f.row[q] ELSE r.rows[q]]
    BY <1>1, <2>1 DEF Rounds
  <2>3. \A q \in f.dirty : Flag(q, f.row[q])
    BY <1>1 DEF SoundFile
  <2>. HIDE DEF f, r, z, S
  <2>4. CopyOK(Server, f, z)
    BY <1>1, <2>1, <2>2, <2>3, ReadKeeps DEF S
  <2>. QED
    BY <1>1, <2>1, <2>4 DEF f, z
<1>3. CASE Ask(a)
  <2>1. /\ r.phase = "reading" /\ file' = file /\ engine' = engine
        /\ round' = [round EXCEPT ![a].phase = "asked", ![a].queue = f.queue,
                              ![a].cursor = IF r.full THEN 0 ELSE f.cursor]
    BY <1>3 DEF Ask
  <2>2. /\ z.phase = "asked" /\ z.read = r.read /\ z.rows = r.rows /\ z.undo = r.undo
        /\ z.full = r.full /\ z.queue = f.queue /\ z.cursor = IF r.full THEN 0 ELSE f.cursor
    BY <1>1, <2>1 DEF Rounds
  <2>. HIDE DEF f, r, z
  <2>3. CopyOK(Server, f, z)
    BY <1>1, <2>1, <2>2, AskKeeps
  <2>. QED
    BY <1>1, <2>1, <2>3 DEF f, z
<1>4. CASE Refuse(a) \/ Lose(a)
  <2>1. f = Settled(f, r) /\ file' = file /\ (Excused(a) \/ Struck(a, "refused"))
    BY <1>4 DEF Refuse, Lose, Settled
  <2>. QED
    BY <2>1, StoppedCopies
<1>5. CASE Apply(a)
  <2>. DEFINE h == Cleared(a)
              ans == r.answer
              B == DeletesApplied(a)
              k == Dropped(f, B)
  <2>1. r.phase = "answered"
    BY <1>5 DEF Apply
  <2>2. CASE Struck(a, "unique") /\ file' = file
    <3>1. f = Settled(f, r)
      BY <2>1 DEF Settled
    <3>. QED
      BY <2>2, <3>1, StoppedCopies
  <2>3. CASE /\ Collisions(h, ans) \cap h.dirty = {}
             /\ file' = [file EXCEPT ![a] = Upserted(h, ans)]
             /\ round' = [round EXCEPT ![a].phase = "applying", ![a].undo = f]
             /\ engine' = engine
    <3>1. /\ z.phase = "applying" /\ z.undo = f /\ z.answer = ans /\ z.read = r.read
          /\ z.rows = r.rows /\ z.queue = r.queue /\ z.cursor = r.cursor /\ z.full = r.full
      BY <1>1, <2>3 DEF Rounds
    <3>2. /\ k \in Files /\ k.row = Without(f.row, B) /\ k.dirty = f.dirty \ WithChildren(B)
          /\ k.queue = f.queue /\ k.cursor = f.cursor /\ k.kept = f.kept
      <4>1. k \in Files
        BY <1>1, FileTypes
      <4>2. k.row = Without(f.row, B) /\ k.dirty = f.dirty \ WithChildren(B) /\ k.queue = f.queue
        BY <1>1, DroppedParts
      <4>3. k.cursor = f.cursor /\ k.kept = f.kept
        BY <1>1 DEF Dropped, Files
      <4>. QED
        BY <4>1, <4>2, <4>3
    <3>3. h = [k EXCEPT !.kept = @ \cup Shelved(r)] /\ B = ans.deletes \ (f.dirty \ r.read)
      BY DEF Cleared, Shelved, DeletesApplied
    <3>4. /\ h \in Files /\ h.row = Without(f.row, B) /\ h.dirty = f.dirty \ WithChildren(B)
          /\ h.queue = f.queue /\ h.cursor = f.cursor /\ h.kept = f.kept \cup Shelved(r)
      <4>1. h \in Files
        BY <1>1, ClearedTypes
      <4>. HIDE DEF k, h, B
      <4>. QED
        BY <3>2, <3>3, <4>1 DEF Files
    <3>5. file'[a] = Upserted(h, ans)
      BY <1>1, <2>3
    <3>6. \A q \in r.read : Flag(q, r.rows[q])
      BY <1>1 DEF SoundRound
    <3>. DEFINE g == file'[a]
    <3>7. g \in Files /\ g = Upserted(h, ans)
      BY <1>1, <3>5
    <3>8. Collisions(h, ans) \cap h.dirty = {}
      BY <2>3
    <3>a. B = ans.deletes \ (f.dirty \ r.read)
      BY <3>3
    <3>b. /\ Server \in Servers /\ f \in Files /\ r \in Rounds /\ z \in Rounds
          /\ CopyOK(Server, f, r) /\ Valid(Server)
      BY <1>1
    <3>. HIDE DEF f, r, z, h, B, k, g
    <3>9. CopyOK(Server, g, z)
      BY <2>1, <3>1, <3>a, <3>b, <3>4, <3>6, <3>7, <3>8, ApplyKeeps, Zenon
    <3>. QED
      BY <1>1, <2>3, <3>9 DEF g, z
  <2>. QED
    BY <1>5, <2>2, <2>3, Zenon DEF Apply
<1>6. CASE Commit(a)
  <2>1. r.phase = "applying"
    BY <1>6 DEF Commit
  <2>2. CASE file' = [file EXCEPT ![a] = r.undo] /\ Struck(a, "fk")
    <3>1. file'[a] = Settled(f, r)
      BY <1>1, <2>1, <2>2 DEF Settled
    <3>. QED
      BY <2>2, <3>1, StoppedCopies
  <2>3. CASE FkHolds(Applied(a).row) /\ file' = [file EXCEPT ![a] = Applied(a)] /\ Succeeded(a)
    <3>. DEFINE G == Ghosts(a)
                e == [f EXCEPT !.dirty = Flagged(a)]
                k == Dropped(e, G)
                g == Applied(a)
    <3>1. Flagged(a) = Left(f, r) /\ Flagged(a) \subseteq f.dirty /\ f.dirty \subseteq Row
      BY <1>1 DEF Flagged, Left, Files
    <3>2. /\ G = IF r.cursor # 0 THEN {}
                 ELSE {q \in Row : f.row[q].live
                                   /\ q \notin r.answer.changes \cup Left(f, r) \cup r.read}
          /\ g = [k EXCEPT !.cursor = r.answer.cursor, !.queue = @ \ r.queue]
      BY <3>1 DEF Ghosts, Applied
    <3>3. e \in Files /\ e.row = f.row /\ e.dirty = Left(f, r)
      BY <1>1, <3>1 DEF Files
    <3>. HIDE DEF e
    <3>4. k \in Files /\ k.row = Without(f.row, G) /\ k.dirty = Left(f, r) \ WithChildren(G)
      BY <3>3, FileTypes, DroppedParts
    <3>. HIDE DEF k
    <3>5. g.row = k.row /\ g.dirty = k.dirty /\ g.cursor = r.answer.cursor
      <4>. HIDE DEF g
      <4>. QED
        BY <3>2, <3>4 DEF Files
    <3>6. file'[a] = g /\ g \in Files /\ FkHolds(g.row)
      BY <1>1, <2>3
    <3>7. HealedOK(engine'[a]) /\ round'[a] = NoRound
      BY <1>1, <2>3, EndKeeps
    <3>a. /\ g.row = Without(f.row, G) /\ g.dirty = Left(f, r) \ WithChildren(G)
      BY <3>4, <3>5
    <3>b. /\ Server \in Servers /\ f \in Files /\ r \in Rounds /\ CopyOK(Server, f, r)
          /\ G = IF r.cursor # 0 THEN {}
                 ELSE {q \in Row : f.row[q].live
                                   /\ q \notin r.answer.changes \cup Left(f, r) \cup r.read}
      BY <1>1, <3>2
    <3>. HIDE DEF f, r, z, g, G
    <3>8. FileAgrees(Server, g) /\ Keyed(g)
      BY <2>1, <3>a, <3>b, <3>5, <3>6, CommitKeeps, Zenon
    <3>. QED
      BY <1>1, <3>6, <3>7, <3>8, FreshRound
  <2>. QED
    BY <1>6, <2>2, <2>3, Zenon DEF Commit
<1>. QED
  BY <1>2, <1>3, <1>4, <1>5, <1>6 DEF Step

\* The answer comes in.
LEMMA AnswerCopies ==
    ASSUME NEW a \in Admin, Starting(a), SoundServer', Answer(a)
    PROVE  CopyOK(Server', file'[a], round'[a]) /\ HealedOK(engine'[a])
<1>. DEFINE f == file[a]
            r == round[a]
            z == round'[a]
<1>1. /\ Server \in Servers /\ round \in [Admin -> Rounds] /\ f \in Files /\ r \in Rounds
      /\ CopyOK(Server, f, r) /\ HealedOK(engine[a])
  BY StartParts DEF AdminTypes, Starting
<1>2. Server' \in Servers
  BY DEF Starting, TypeOK, Server, Servers
<1>3. Valid(Server)' /\ Moved(Server, Server')
  BY AnswerMoves DEF Starting
<1>4. /\ r.phase = "asked" /\ file' = file /\ engine' = engine
      /\ round' = [round EXCEPT ![a].phase = "answered", ![a].answer = AnswerTo(r)]
  BY DEF Answer
<1>5. /\ z.phase = "answered" /\ z.answer = AnswerTo(r) /\ z.read = r.read /\ z.rows = r.rows
      /\ z.queue = r.queue /\ z.cursor = r.cursor /\ z.full = r.full /\ z.undo = r.undo
  BY <1>1, <1>4 DEF Rounds
<1>6. AnswerOK(z) /\ AnswerNow(Server', z)
  <2>. HIDE DEF z
  <2>. QED
    BY <1>3, <1>5, AnswerTells DEF Starting
<1>. HIDE DEF Server, f, r, z
<1>7. CopyOK(Server', f, r)
  BY <1>1, <1>2, <1>3, ServerMoves
<1>8. Settled(f, r) = f /\ Settled(f, z) = f
  BY <1>4, <1>5 DEF Settled
<1>9. GrantsRead(z) /\ RequestOK(f, z) /\ ReadOK(f, z)
  BY <1>4, <1>5, <1>7 DEF CopyOK, GrantsRead, RequestOK, ReadOK, Asking, Reading
<1>10. CopyOK(Server', f, z)
  BY <1>5, <1>6, <1>7, <1>8, <1>9 DEF CopyOK
<1>. QED
  BY <1>1, <1>4, <1>10 DEF f, z

-------------------------------------------------------------------------------
(* Every state.                                                              *)

LEMMA FirstCopies == Init => CopyInv
<1>1. SUFFICES ASSUME Init PROVE CopyInv
  OBVIOUS
<1>2. WholeInv
  BY <1>1, WholeStarts
<1>3. PICK s \in Starts :
          /\ row = FirstRows(s.live) /\ seq = [q \in Row |-> IF q \in s.live THEN 1 ELSE 0]
          /\ grave = [q \in Row |-> 0] /\ counter = 1 /\ clock = Epoch
          /\ file = [a \in Admin |-> FirstFile(s, a)] /\ round = [a \in Admin |-> NoRound]
          /\ engine = [a \in Admin |-> NewEngine]
          /\ content = [d \in Dict |-> IF d \in s.live THEN Epoch ELSE Blank]
          /\ outbox = [q \in Message |-> NoReply]
  BY <1>1 DEF Init
<1>4. \A S : \A q \in Row :
          /\ FirstRows(S)[q].live <=> q \in S
          /\ q \notin S => FirstRows(S)[q] = Absent
          /\ FirstRows(S)[q].stamp <= Epoch
  BY DEF FirstRows, Absent, Epoch
<1>5. \A S, T : \A q \in Row : q \in S /\ q \in T => FirstRows(S)[q] = FirstRows(T)[q]
  BY DEF FirstRows
<1>6. /\ s.live \subseteq Row
      /\ \A q \in s.live \cap Child : Parent[q] \in s.live
      /\ \A q, p \in s.live \cap Role : q # p => Parent[q] # Parent[p]
  BY CatalogueAssumption
<1>7. ASSUME NEW S, S \subseteq s.live PROVE Unique(FirstRows(S)) /\ Blanked(FirstRows(S))
  <2>1. ASSUME NEW q \in Role, NEW p \in Role PROVE ~SameGrant(q, FirstRows(S)[q], p, FirstRows(S)[p])
    BY <1>4, <1>6, <1>7 DEF SameGrant, Row
  <2>. QED
    BY <1>4, <2>1 DEF Unique, Blanked
<1>8. Valid(Server)
  <2>1. FkHolds(row)
    BY <1>2 DEF WholeInv, IInv, SoundServer
  <2>. QED
    BY <1>3, <1>7, <2>1 DEF Valid, Server
<1>9. Timely
  BY <1>3, <1>4 DEF Timely, Blank, Epoch, NoReply
<1>10. Server \in Servers /\ file \in [Admin -> Files]
  BY <1>2 DEF WholeInv, IInv, TypeOK, Server, Servers
<1>11. ASSUME NEW a \in Admin
       PROVE  FileAgrees(Server, file[a]) /\ FkHolds(file[a].row) /\ Keyed(file[a])
  <2>1. CASE a \in s.fresh
    <3>1. file[a] = NoFile /\ counter = 1
      BY <1>3, <2>1 DEF FirstFile
    <3>2. /\ \A q \in Row : NoFile.row[q] = Absent
          /\ NoFile.cursor = 0 /\ \A q \in Role : q \in Row
      BY DEF NoFile, Row
    <3>3. \A q \in Row : file[a].row[q] = Absent /\ ~file[a].row[q].live
      BY <3>1, <3>2, AbsentParts
    <3>4. FkHolds(file[a].row)
      BY <3>3, Families DEF FkHolds
    <3>5. Keyed(file[a])
      BY <3>2, <3>3 DEF Keyed, Unique, SameGrant, Blanked
    <3>6. FileAgrees(Server, file[a])
      BY <3>1, <3>2, <3>3 DEF FileAgrees, Server
    <3>. QED
      BY <3>4, <3>5, <3>6
  <2>2. CASE a \notin s.fresh
    <3>. DEFINE S == IF a \in s.broken THEN s.live \ WithChildren(Dict) ELSE s.live
    <3>1. /\ S \subseteq s.live
          /\ \A q \in Child : q \in S => Parent[q] \in S
      <4>1. \A q \in Child : q \notin WithChildren(Dict) => Parent[q] \notin WithChildren(Dict)
        BY Families
      <4>. QED
        BY <1>6, <4>1
    <3>2. file[a] = [NoFile EXCEPT !.row = FirstRows(S), !.cursor = 1]
      BY <1>3, <2>2 DEF FirstFile
    <3>. HIDE DEF S
    <3>3. file[a].row = FirstRows(S) /\ file[a].cursor = 1
      BY <3>2 DEF NoFile
    <3>4. FkHolds(file[a].row)
      BY <1>4, <3>1, <3>3, Families DEF FkHolds
    <3>5. ASSUME NEW q \in Row, file[a].row[q].live PROVE file[a].row[q] = row[q]
      <4>1. q \in S /\ q \in s.live
        BY <1>4, <3>1, <3>3, <3>5
      <4>2. FirstRows(S)[q] = FirstRows(s.live)[q]
        BY <1>5, <4>1
      <4>3. row = FirstRows(s.live)
        BY <1>3
      <4>. QED
        BY <3>3, <4>2, <4>3
    <3>6. FileAgrees(Server, file[a])
      BY <1>3, <3>3, <3>5 DEF FileAgrees, Agrees, Level, Server
    <3>. QED
      BY <1>7, <3>1, <3>3, <3>4, <3>6 DEF Keyed
  <2>. QED
    BY <2>1, <2>2
<1>12. ASSUME NEW a \in Admin PROVE CopyOK(Server, file[a], round[a]) /\ HealedOK(engine[a])
  <2>1. round[a] = NoRound /\ engine[a] = NewEngine
    BY <1>3
  <2>2. HealedOK(engine[a])
    BY <2>1 DEF HealedOK, NewEngine, NoStrikes
  <2>. HIDE DEF Server
  <2>3. file[a] \in Files
    BY <1>10
  <2>. QED
    BY <1>10, <1>11, <2>1, <2>2, <2>3, FreshRound
<1>. QED
  BY <1>2, <1>8, <1>9, <1>12 DEF CopyInv

\* Only an answer touches the server.
LEMMA ServerWaits ==
    ASSUME NEW a \in Admin, Edited(a) \/ Disturbed(a) \/ Runs(a), ~Answer(a)
    PROVE  UNCHANGED <<row, seq, grave, counter>> /\ (clock' = clock \/ clock' = clock + 1)
<1>1. ASSUME NEW q \in Row, NEW tag \in Tags(q), Save(a, q, tag)
      PROVE  UNCHANGED <<row, seq, grave, counter>> /\ clock' = clock + 1
  BY <1>1, Zenon DEF Save
<1>2. ASSUME NEW q, Delete(a, q) PROVE UNCHANGED serverVars
  BY <1>2, Zenon DEF Delete
<1>3. ASSUME Begin(a) PROVE UNCHANGED serverVars
  BY <1>3, Zenon DEF Begin
<1>4. ASSUME Sync(a) \/ Flush(a) \/ Reload(a) \/ Disconnect(a) \/ Reconnect(a)
      PROVE  UNCHANGED serverVars
  BY <1>3, <1>4, Zenon DEF Sync, Flush, Reload, Disconnect, Reconnect
<1>5. ASSUME Lose(a) \/ Step(a) PROVE UNCHANGED serverVars
  BY <1>5, Zenon DEF Step, ReadTable, Ask, Refuse, Lose, Apply, Commit
<1>. QED
  BY <1>1, <1>2, <1>4, <1>5 DEF Edited, Disturbed, Runs, serverVars

\* What the steps of an admin do to the server.
LEMMA AdminGoes ==
    ASSUME NEW a \in Admin, Starting(a), SoundServer', Edited(a) \/ Disturbed(a) \/ Runs(a),
           UNCHANGED <<sweepVars, outbox>>
    PROVE  Valid(Server)' /\ Moved(Server, Server') /\ Timely'
<1>1. TypeOK /\ TypeOK' /\ Valid(Server) /\ Timely
  BY StartParts DEF Starting
<1>2. clock \in Nat /\ clock' \in Nat /\ content' = content /\ outbox' = outbox
  BY <1>1 DEF TypeOK, sweepVars
<1>3. ASSUME clock <= clock', \A q \in Row : row'[q].stamp <= clock' PROVE Timely'
  <2>1. /\ \A d \in Dict : content[d] \in Nat /\ content[d] <= clock
        /\ \A q \in Message : outbox[q].now \in Nat /\ outbox[q].now <= clock
        /\ Epoch <= clock
    BY <1>1 DEF TypeOK, Timely
  <2>. QED
    BY <1>2, <1>3, <2>1 DEF Timely, Epoch
<1>4. CASE Answer(a)
  <2>. DEFINE req == round[a]
  <2>1. /\ Valid(Server)' /\ Moved(Server, Server')
    BY <1>4, AnswerMoves DEF Starting
  <2>2. clock' = clock /\ row' = Merged(req) /\ Merge(req)
    BY <1>4 DEF Answer, Merge
  <2>3. SoundRound(req, Seen, Gone, clock) /\ req \in Rounds
    BY StartParts
  <2>. HIDE DEF req
  <2>4. ASSUME NEW q \in Row PROVE row'[q].stamp <= clock'
    <3>1. row'[q] = IF q \in Written(req) THEN req.rows[q]
                    ELSE IF q \in WithChildren(req.queue) THEN Absent ELSE row[q]
      BY <2>2 DEF Merged, Base, Without
    <3>2. q \in Written(req) => req.rows[q].stamp <= clock
      BY <2>3 DEF Written, SoundRound, Flag, Sound
    <3>3. Absent.stamp <= clock /\ row[q].stamp <= clock
      BY <1>1, <1>2 DEF Absent, Timely
    <3>. QED
      BY <2>2, <3>1, <3>2, <3>3
  <2>. QED
    BY <1>2, <1>3, <2>1, <2>2, <2>4
<1>5. CASE ~Answer(a)
  <2>1. UNCHANGED <<row, seq, grave, counter>> /\ (clock' = clock \/ clock' = clock + 1)
    BY <1>5, ServerWaits
  <2>2. clock <= clock'
    BY <1>2, <2>1
  <2>. QED
    BY <1>1, <1>3, <2>1, <2>2, StillMoves
<1>. QED
  BY <1>4, <1>5

LEMMA CopiesKeep == CopyInv /\ [Next]_vars => CopyInv'
<1>1. SUFFICES ASSUME CopyInv, [Next]_vars PROVE CopyInv'
  OBVIOUS
<1>2. WholeInv /\ WholeInv' /\ IInv /\ TypeOK /\ TypeOK' /\ SoundServer'
  BY <1>1, WholeKeeps DEF CopyInv, WholeInv, IInv
<1>3. Valid(Server) /\ Timely /\ Server \in Servers /\ Server' \in Servers
  BY <1>1, <1>2 DEF CopyInv, TypeOK, Server, Servers
<1>4. \A a \in Admin : file[a] \in Files /\ round[a] \in Rounds
  BY <1>2 DEF TypeOK
<1>5. \A a \in Admin : Starting(a)
  BY <1>1, <1>2 DEF CopyInv, Starting
<1>6. SUFFICES /\ Valid(Server)' /\ Timely'
               /\ \A a \in Admin : CopyOK(Server', file'[a], round'[a]) /\ HealedOK(engine'[a])
  BY <1>2 DEF CopyInv
<1>7. CASE AdminStep
  <2>1. PICK a \in Admin : (Edited(a) \/ Disturbed(a) \/ Runs(a)) /\ UNCHANGED <<sweepVars, outbox>>
    BY <1>7 DEF AdminStep
  <2>2. Starting(a)
    BY <1>5
  <2>3. Valid(Server)' /\ Moved(Server, Server') /\ Timely'
    BY <1>2, <2>1, <2>2, AdminGoes
  <2>4. CopyOK(Server', file'[a], round'[a]) /\ HealedOK(engine'[a])
    <3>1. CASE Answer(a)
      BY <1>2, <2>2, <3>1, AnswerCopies
    <3>2. CASE ~Answer(a)
      <4>1. CopyOK(Server, file'[a], round'[a]) /\ HealedOK(engine'[a])
        BY <2>1, <2>2, <3>2, PageCopies, StepCopies DEF Edited, Disturbed, Runs, Row
      <4>2. file'[a] \in Files /\ round'[a] \in Rounds
        BY <2>2, StartParts
      <4>. HIDE DEF Server
      <4>. QED
        BY <1>3, <2>3, <4>1, <4>2, ServerMoves
    <3>. QED
      BY <3>1, <3>2
  <2>5. ASSUME NEW b \in Admin, b # a
        PROVE  CopyOK(Server', file'[b], round'[b]) /\ HealedOK(engine'[b])
    <3>1. file'[b] = file[b] /\ round'[b] = round[b] /\ engine'[b] = engine[b]
      BY <1>2, <2>1, <2>5, Alone
    <3>2. CopyOK(Server, file[b], round[b]) /\ HealedOK(engine[b])
      BY <1>1 DEF CopyInv
    <3>. HIDE DEF Server
    <3>3. CopyOK(Server', file[b], round[b])
      BY <1>3, <1>4, <2>3, <3>2, ServerMoves
    <3>. QED
      BY <3>1, <3>2, <3>3
  <2>. QED
    BY <2>3, <2>4, <2>5
<1>8. CASE ServerStep \/ DictStep \/ SweepStep \/ MediaStep \/ UNCHANGED vars
  <2>1. Valid(Server)' /\ Moved(Server, Server') /\ Timely' /\ UNCHANGED adminVars
    BY <1>2, <1>3, <1>8, ServerGoes
  <2>2. ASSUME NEW a \in Admin
        PROVE  CopyOK(Server', file[a], round[a]) /\ HealedOK(engine[a])
    <3>1. CopyOK(Server, file[a], round[a]) /\ HealedOK(engine[a])
      BY <1>1 DEF CopyInv
    <3>. HIDE DEF Server
    <3>. QED
      BY <1>3, <1>4, <2>1, <3>1, ServerMoves
  <2>. QED
    BY <2>1, <2>2 DEF adminVars
<1>. QED
  BY <1>1, <1>7, <1>8 DEF Next

\* A clean row in a browser's file is the server's, or a later text, or one whose tombstone the
\* cursor has not passed; an answer accounts for every row below the cursor it brings, whatever
\* has happened since; and a file inside a transaction is as the commit would leave it.
THEOREM CopiesHold == Spec => []CopyInv
BY FirstCopies, CopiesKeep, PTL DEF Spec

-------------------------------------------------------------------------------
(* What follows.                                                             *)

\* An admin at rest, level with the server's counter, with nothing to push or delete, shows what
\* the server has: pulls and pushes leave no row in an older text, and none that is gone, unless
\* it was edited while a round was under way.
THEOREM LevelCopiesAgree == Spec => []AdminsAgree
<1>1. ASSUME CopyInv PROVE AdminsAgree
  <2>. DEFINE At(a) == /\ Idle(a) /\ file[a].cursor = counter /\ file[a].dirty = {}
                       /\ file[a].queue = {} /\ Missing(a) = {}
  <2>1. SUFFICES ASSUME NEW a \in Admin, At(a), NEW q \in Row
                 PROVE  /\ file[a].row[q].live = row[q].live
                        /\ \/ file[a].row[q].text = row[q].text
                           \/ file[a].row[q].text > row[q].stamp
    BY DEF AdminsAgree
  <2>2. /\ TypeOK /\ file[a] \in Files /\ Valid(Server) /\ CopyOK(Server, file[a], round[a])
    BY <1>1 DEF CopyInv, WholeInv, IInv, TypeOK
  <2>3. /\ counter \in Nat /\ row[q] \in Version /\ file[a].row[q] \in Version
        /\ \A p \in Row : grave[p] \in Nat /\ grave[p] <= counter /\ seq[p] <= counter
    BY <2>2 DEF TypeOK, Files, Valid, Server
  <2>4. Settled(file[a], round[a]) = file[a] /\ Committed(a) = file[a]
    BY <2>1 DEF Settled, Committed, Idle
  <2>5. ~Explained(Server, q, counter) /\ ~Passed(Server, q, {})
    BY <2>3, Families DEF Explained, Passed, Server
  <2>6. file[a].row[q].live => Agrees(Server, q, file[a].row[q], {}, counter)
    BY <2>1, <2>2, <2>4 DEF CopyOK, FileAgrees
  <2>7. CASE file[a].row[q].live
    <3>1. row[q].live
      BY <2>5, <2>6, <2>7 DEF Agrees, Server
    <3>2. Level(Server, q, file[a].row[q], counter)
      BY <2>6, <2>7 DEF Agrees
    <3>3. \/ file[a].row[q].text = row[q].text
          \/ file[a].row[q].text > row[q].stamp
      BY <2>3, <3>1, <3>2 DEF Level, Server
    <3>. QED
      BY <2>3, <2>7, <3>1, <3>3 DEF Version
  <2>8. CASE ~file[a].row[q].live
    <3>1. WithChildren(file[a].queue) = {}
      BY <2>1, Families
    <3>2. ~row[q].live
      BY <2>1, <2>3, <2>4, <2>8, <3>1 DEF Missing
    <3>3. row[q] = Absent /\ file[a].row[q] = Absent
      BY <2>2, <2>8, <3>2 DEF CopyOK, Keyed, Blanked, Valid, Server
    <3>. QED
      BY <3>3
  <2>. QED
    BY <2>7, <2>8
<1>. QED
  BY <1>1, CopiesHold, PTL

\* What a step finds, and how it leaves an admin.
LEMMA Turns ==
    ASSUME CopyInv, [Next]_vars, NEW a \in Admin
    PROVE  /\ TypeOK /\ TypeOK' /\ Starting(a) /\ Moved(Server, Server')
           /\ Server \in Servers /\ Server' \in Servers /\ SoundServer
           /\ CopyOK(Server, file[a], round[a]) /\ CopyOK(Server', file[a], round[a])
           /\ \/ file'[a] = file[a] /\ round'[a] = round[a] /\ engine'[a] = engine[a]
              \/ Edited(a) \/ Disturbed(a) \/ Runs(a)
<1>1. WholeInv /\ WholeInv' /\ IInv /\ TypeOK /\ TypeOK' /\ SoundServer /\ SoundServer'
  BY WholeKeeps DEF CopyInv, WholeInv, IInv
<1>2. Server \in Servers /\ Server' \in Servers /\ file[a] \in Files /\ round[a] \in Rounds
  BY <1>1 DEF TypeOK, Server, Servers
<1>3. \A b \in Admin : Starting(b)
  BY <1>1 DEF CopyInv, Starting
<1>4. Moved(Server, Server')
  <2>1. CASE AdminStep
    <3>1. PICK b \in Admin : (Edited(b) \/ Disturbed(b) \/ Runs(b)) /\ UNCHANGED <<sweepVars, outbox>>
      BY <2>1 DEF AdminStep
    <3>. QED
      BY <1>1, <1>3, <3>1, AdminGoes
  <2>2. CASE ServerStep \/ DictStep \/ SweepStep \/ MediaStep \/ UNCHANGED vars
    BY <1>1, <2>2, ServerGoes DEF CopyInv
  <2>. QED
    BY <2>1, <2>2 DEF Next
<1>5. \/ file'[a] = file[a] /\ round'[a] = round[a] /\ engine'[a] = engine[a]
      \/ Edited(a) \/ Disturbed(a) \/ Runs(a)
  <2>1. CASE AdminStep
    BY <1>1, <2>1, Alone DEF AdminStep
  <2>2. CASE ServerStep \/ DictStep \/ SweepStep \/ MediaStep \/ UNCHANGED vars
    BY <2>2 DEF ServerStep, DictStep, SweepStep, MediaStep, vars, adminVars
  <2>. QED
    BY <2>1, <2>2 DEF Next
<1>6. CopyOK(Server, file[a], round[a])
  BY DEF CopyInv
<1>7. CopyOK(Server', file[a], round[a])
  <2>. HIDE DEF Server
  <2>. QED
    BY <1>2, <1>4, <1>6, ServerMoves
<1>. QED
  BY <1>1, <1>2, <1>3, <1>4, <1>5, <1>6, <1>7

\* The file that a commit leaves.
LEMMA Commitment ==
    ASSUME TypeOK, NEW a \in Admin
    PROVE  /\ \A q \in Row : Applied(a).row[q] = IF q \in WithChildren(Ghosts(a)) THEN Absent
                                                 ELSE file[a].row[q]
           /\ Applied(a).dirty = Left(file[a], round[a]) \ WithChildren(Ghosts(a))
           /\ Applied(a).queue = file[a].queue \ round[a].queue
           /\ Applied(a).cursor = round[a].answer.cursor /\ Applied(a).kept = file[a].kept
<1>. DEFINE f == file[a]
            r == round[a]
            G == Ghosts(a)
            e == [f EXCEPT !.dirty = Flagged(a)]
            k == Dropped(e, G)
<1>1. f \in Files
  BY TypeParts DEF AdminTypes
<1>2. Flagged(a) = Left(f, r) /\ Flagged(a) \subseteq Row
  BY <1>1 DEF Flagged, Left, Files
<1>3. e \in Files /\ e.row = f.row /\ e.dirty = Left(f, r) /\ e.queue = f.queue /\ e.kept = f.kept
  BY <1>1, <1>2 DEF Files
<1>4. Applied(a) = [k EXCEPT !.cursor = r.answer.cursor, !.queue = @ \ r.queue]
  BY DEF Applied
<1>. HIDE DEF e, f
<1>5. /\ k \in Files /\ k.row = Without(f.row, G) /\ k.dirty = Left(f, r) \ WithChildren(G)
      /\ k.queue = f.queue /\ k.kept = f.kept
  <2>1. k \in Files
    BY <1>3, FileTypes
  <2>2. k.row = Without(f.row, G) /\ k.dirty = Left(f, r) \ WithChildren(G) /\ k.queue = f.queue
    BY <1>3, DroppedParts
  <2>3. k.kept = f.kept
    BY <1>3 DEF Dropped, Files
  <2>. QED
    BY <2>1, <2>2, <2>3
<1>. HIDE DEF k, G
<1>6. /\ Applied(a).row = Without(f.row, G) /\ Applied(a).dirty = k.dirty
      /\ Applied(a).queue = f.queue \ r.queue
      /\ Applied(a).cursor = r.answer.cursor /\ Applied(a).kept = f.kept
  BY <1>4, <1>5 DEF Files
<1>7. \A q \in Row : Without(f.row, G)[q] = IF q \in WithChildren(G) THEN Absent ELSE f.row[q]
  BY DEF Without
<1>. QED
  BY <1>5, <1>6, <1>7 DEF f, G

\* No step but a commit changes the file as its last transaction left it, except that the page
\* edits rows and deletes rows.
LEMMA CommittedStays ==
    ASSUME CopyInv, [Next]_vars, NEW a \in Admin
    PROVE  \/ /\ Committed(a)'.cursor = Committed(a).cursor
              /\ \A q \in Row : Committed(a).row[q].live /\ q \notin WithChildren(Committed(a)'.queue)
                                => Committed(a)'.row[q].live
              /\ WithChildren(Committed(a).queue) \subseteq WithChildren(Committed(a)'.queue)
           \/ /\ Commit(a) /\ FkHolds(Applied(a).row)
              /\ Committed(a)' = Applied(a)
<1>. DEFINE u == Committed(a)
            w == Committed(a)'
            Same == /\ w.cursor = u.cursor
                    /\ \A q \in Row : u.row[q].live /\ q \notin WithChildren(w.queue) => w.row[q].live
                    /\ WithChildren(u.queue) \subseteq WithChildren(w.queue)
<1>1. /\ TypeOK /\ file \in [Admin -> Files] /\ round \in [Admin -> Rounds] /\ file[a] \in Files
      /\ \/ file'[a] = file[a] /\ round'[a] = round[a]
         \/ Edited(a) \/ Disturbed(a) \/ Runs(a)
  BY Turns DEF TypeOK
<1>2. /\ u = IF round[a].phase = "applying" THEN round[a].undo ELSE file[a]
      /\ w = IF round'[a].phase = "applying" THEN round'[a].undo ELSE file'[a]
  BY DEF Committed
<1>0. SUFFICES Same \/ (Commit(a) /\ FkHolds(Applied(a).row) /\ w = Applied(a))
  OBVIOUS
<1>. HIDE DEF u, w
<1>3. w = u => Same
  OBVIOUS
<1>. HIDE DEF Same
<1>4. CASE file'[a] = file[a] /\ round'[a] = round[a]
  BY <1>2, <1>3, <1>4
<1>5. ASSUME NEW q \in Row, NEW tag \in Tags(q), Save(a, q, tag) PROVE Same
  <2>. DEFINE v == [file[a].row[q] EXCEPT !.stamp = clock + 1, !.text = clock + 1, !.tag = tag]
  <2>1. /\ file[a].row[q].live /\ round' = round
        /\ file' = [file EXCEPT ![a].row[q] = v, ![a].dirty = @ \cup {q}]
    BY <1>5 DEF Save
  <2>2. file[a].row[q] \in Version
    BY <1>1 DEF Files
  <2>3. v.live
    BY <2>1, <2>2 DEF Version
  <2>. HIDE DEF v
  <2>4. /\ file'[a].row = [file[a].row EXCEPT ![q] = v]
        /\ file'[a].queue = file[a].queue /\ file'[a].cursor = file[a].cursor
    BY <1>1, <2>1 DEF Files
  <2>5. \A p \in Row : file[a].row[p].live => file'[a].row[p].live
    BY <1>1, <2>3, <2>4 DEF Files
  <2>. QED
    BY <1>2, <2>1, <2>4, <2>5 DEF Same
<1>6. ASSUME NEW q \in Row, Delete(a, q) PROVE Same
  <2>. DEFINE g == Dropped(file[a], {q})
  <2>1. /\ file' = [file EXCEPT ![a] = [g EXCEPT !.queue = file[a].queue \cup {q}]] /\ round' = round
    BY <1>6 DEF Delete
  <2>2. /\ g \in Files /\ g.row = Without(file[a].row, {q}) /\ g.cursor = file[a].cursor
    <3>1. g \in Files
      BY <1>1, FileTypes
    <3>2. g.row = Without(file[a].row, {q})
      BY <1>1, DroppedParts
    <3>. QED
      BY <1>1, <3>1, <3>2 DEF Dropped, Files
  <2>. HIDE DEF g
  <2>3. /\ file'[a].row = g.row /\ file'[a].queue = file[a].queue \cup {q}
        /\ file'[a].cursor = g.cursor
    BY <1>1, <2>1, <2>2 DEF Files
  <2>4. \A p \in Row : file'[a].row[p] = IF p \in WithChildren({q}) THEN Absent ELSE file[a].row[p]
    BY <2>2, <2>3 DEF Without
  <2>5. /\ WithChildren({q}) \subseteq WithChildren(file'[a].queue)
        /\ WithChildren(file[a].queue) \subseteq WithChildren(file'[a].queue)
    BY <2>3, Families
  <2>. QED
    BY <1>2, <2>1, <2>2, <2>3, <2>4, <2>5 DEF Same
<1>7. NoRound.phase # "applying" /\ \A full : Begun(full).phase # "applying"
  BY DEF NoRound, Begun
<1>8. ASSUME Begin(a) PROVE Same
  <2>1. round[a].phase = "idle" /\ round'[a] = Begun(FALSE) /\ file' = file
    BY <1>1, <1>8 DEF Begin, Idle
  <2>. QED
    BY <1>2, <1>3, <1>7, <2>1
<1>9. CASE Sync(a) \/ Flush(a) \/ Disconnect(a) \/ Reconnect(a)
  <2>1. CASE Begin(a)
    BY <1>8, <2>1
  <2>2. CASE ~Begin(a)
    <3>1. file' = file /\ round' = round
      BY <1>9, <2>2 DEF Sync, Flush, Disconnect, Reconnect
    <3>. QED
      BY <1>2, <1>3, <3>1
  <2>. QED
    BY <2>1, <2>2
<1>10. CASE Reload(a)
  <2>1. file'[a] = u /\ round'[a] \in {NoRound, Begun(FALSE)}
    BY <1>1, <1>2, <1>10 DEF Reload
  <2>. QED
    BY <1>2, <1>3, <1>7, <2>1
<1>11. CASE ReadTable(a) \/ Ask(a) \/ Answer(a)
  <2>1. round[a].phase # "applying" /\ round'[a].phase # "applying" /\ file' = file
    BY <1>1, <1>11 DEF ReadTable, Ask, Answer, Rounds
  <2>. QED
    BY <1>2, <1>3, <2>1
<1>12. ASSUME Excused(a) \/ \E kind : Struck(a, kind) PROVE round'[a].phase # "applying"
  <2>1. engine[a] \in Engines
    BY TypeParts, Turns DEF AdminTypes
  <2>2. CASE Excused(a)
    BY <1>1, <1>7, <2>2 DEF Excused
  <2>3. ASSUME NEW kind, Struck(a, kind) PROVE round'[a].phase # "applying"
    <3>. DEFINE n == IF engine[a].strikes.kind = kind THEN engine[a].strikes.n + 1 ELSE 1
                starts == kind = "fk" /\ n >= 2 /\ ~engine[a].healed /\ engine[a].online
    <3>1. round' = [round EXCEPT ![a] = IF starts THEN Begun(TRUE) ELSE NoRound]
      BY <2>3 DEF Struck
    <3>. HIDE DEF starts
    <3>. QED
      BY <1>1, <1>7, <3>1
  <2>. QED
    BY <1>12, <2>2, <2>3
<1>13. CASE Refuse(a) \/ Lose(a)
  <2>1. round[a].phase # "applying" /\ file' = file /\ (Excused(a) \/ Struck(a, "refused"))
    BY <1>13 DEF Refuse, Lose
  <2>. QED
    BY <1>2, <1>3, <1>12, <2>1
<1>14. CASE Apply(a)
  <2>1. round[a].phase = "answered"
    BY <1>14 DEF Apply
  <2>2. CASE Struck(a, "unique") /\ file' = file
    BY <1>2, <1>3, <1>12, <2>1, <2>2
  <2>3. CASE round' = [round EXCEPT ![a].phase = "applying", ![a].undo = file[a]]
    <3>1. round'[a].phase = "applying" /\ round'[a].undo = file[a]
      BY <1>1, <2>3 DEF Rounds
    <3>. QED
      BY <1>2, <1>3, <2>1, <3>1
  <2>. QED
    BY <1>14, <2>2, <2>3, Zenon DEF Apply
<1>15. CASE Commit(a)
  <2>1. round[a].phase = "applying"
    BY <1>15 DEF Commit
  <2>2. CASE file' = [file EXCEPT ![a] = round[a].undo] /\ Struck(a, "fk")
    BY <1>1, <1>2, <1>3, <1>12, <2>1, <2>2
  <2>3. CASE FkHolds(Applied(a).row) /\ file' = [file EXCEPT ![a] = Applied(a)] /\ Succeeded(a)
    <3>1. file'[a] = Applied(a)
      BY <1>1, <2>3
    <3>2. round'[a].phase # "applying"
      BY <1>1, <1>7, <2>3 DEF Succeeded
    <3>. QED
      BY <1>2, <1>15, <2>3, <3>1, <3>2
  <2>. QED
    BY <1>15, <2>2, <2>3, Zenon DEF Commit
<1>. QED
  BY <1>1, <1>4, <1>5, <1>6, <1>9, <1>10, <1>11, <1>13, <1>14, <1>15
  DEF Edited, Disturbed, Runs, Step, Row

\* No step of anybody makes an admin miss a row below the cursor: the answer's cursor is above
\* whatever the answer leaves out, and what the file drops it drops for a deletion; a grant that
\* makes way for another is one that was renamed on the server, or forgotten in the file.
THEOREM NobodyMissesMore == Spec => MissesNothingMore
<1>. DEFINE A == \A a \in Admin : Missing(a)' \subseteq Missing(a) \cup Forgotten(a)
<1>1. ASSUME CopyInv, [Next]_vars PROVE A
  <2>. SUFFICES ASSUME NEW a \in Admin, NEW q \in Missing(a)'
                PROVE  q \in Missing(a) \/ q \in Forgotten(a)
    OBVIOUS
  <2>. DEFINE f == file[a]
              r == round[a]
              u == Committed(a)
              n == r.answer.cursor
  <2>1. /\ Server \in Servers /\ Server' \in Servers /\ Moved(Server, Server') /\ TypeOK
        /\ CopyOK(Server, f, r) /\ CopyOK(Server', f, r) /\ f \in Files /\ r \in Rounds
    BY <1>1, Turns DEF TypeOK
  <2>2. /\ q \in Row /\ row'[q].live /\ seq'[q] <= Committed(a)'.cursor
        /\ ~Committed(a)'.row[q].live /\ q \notin WithChildren(Committed(a)'.queue)
    BY DEF Missing
  <2>3. u = Settled(f, r) /\ u.cursor \in Nat /\ u.cursor <= counter
    BY <2>1 DEF Committed, Settled, CopyOK, FileAgrees, Server, Files, Rounds
  <2>4. CASE /\ Committed(a)'.cursor = u.cursor
             /\ \A p \in Row : u.row[p].live /\ p \notin WithChildren(Committed(a)'.queue)
                               => Committed(a)'.row[p].live
             /\ WithChildren(u.queue) \subseteq WithChildren(Committed(a)'.queue)
    <3>1. ~u.row[q].live /\ q \notin WithChildren(u.queue)
      BY <2>2, <2>4
    <3>2. row'[q] = row[q] /\ seq'[q] = seq[q]
      <4>1. \A p \in Row : Server'.row[p].live /\ Server'.seq[p] <= u.cursor
                           => Server'.row[p] = Server.row[p] /\ Server'.seq[p] = Server.seq[p]
        <5>1. u.cursor <= Server.counter
          BY <2>3 DEF Server
        <5>. HIDE DEF Server, u
        <5>. QED
          BY <2>1, <2>3, <5>1, StillAgrees
      <4>. QED
        BY <2>2, <2>4, <4>1 DEF Server
    <3>. QED
      BY <2>2, <2>4, <3>1, <3>2 DEF Missing
  <2>5. CASE Commit(a) /\ FkHolds(Applied(a).row) /\ Committed(a)' = Applied(a)
    <3>. DEFINE G == Ghosts(a)
    <3>1. r.phase = "applying" /\ u = r.undo /\ row' = row /\ seq' = seq
      BY <2>5 DEF Commit, serverVars, Committed
    <3>2. /\ \A p \in Row : Applied(a).row[p] = IF p \in WithChildren(G) THEN Absent ELSE f.row[p]
          /\ Applied(a).queue = f.queue \ r.queue /\ Applied(a).cursor = n
      BY <2>1, Commitment
    <3>3. AnswerOK(r) /\ AnswerNow(Server, r) /\ ApplyingOK(Server, f, r)
      BY <2>1, <3>1 DEF CopyOK, After
    <3>4. row[q].live /\ seq[q] <= n /\ q \notin WithChildren(f.queue \ r.queue)
          /\ ~Applied(a).row[q].live
      BY <2>2, <2>5, <3>1, <3>2
    <3>5. r.answer.rows[q].live
      BY <2>2, <3>3, <3>4 DEF AnswerNow, Server
    <3>6. q \in Child => r.answer.rows[Parent[q]].live
      BY <3>3, <3>5 DEF AnswerOK, FkHolds
    <3>7. q \notin WithChildren(r.queue)
      BY <3>3, <3>5, <3>6, Families DEF AnswerOK
    <3>8. q \notin WithChildren(f.queue)
      BY <3>4, <3>7, Families
    <3>9. \A p \in G : ~r.answer.rows[p].live
      BY <3>3 DEF Ghosts, AnswerOK
    <3>10. q \notin WithChildren(G)
      BY <3>5, <3>6, <3>9, Families
    <3>11. ~f.row[q].live
      BY <2>2, <3>2, <3>4, <3>10
    <3>12. Lacked(Server, u, q) \/ Forgot(Server, u, q)
      BY <2>2, <3>1, <3>3, <3>4, <3>8, <3>11 DEF ApplyingOK, Server
    <3>. QED
      BY <2>2, <3>4, <3>12 DEF Lacked, Forgot, Missing, Forgotten, Server
  <2>. QED
    BY <1>1, <2>4, <2>5, CommittedStays
<1>. HIDE DEF A
<1>2. CopyInv /\ [Next]_vars => [A]_vars
  BY <1>1
<1>3. Spec => [][A]_vars
  BY <1>2, CopiesHold, PTL DEF Spec
<1>. QED
  BY <1>3 DEF A, MissesNothingMore

\* What becomes of the edit x of row q, no longer waiting to be sent.
Accounted(a, q, x) ==
    LET v == Told(a)[q]
    IN  \/ q \in file'[a].dirty /\ file'[a].row[q].text > x
        \/ v.live /\ (v.text >= x \/ v.stamp > x)
        \/ q \in WithChildren(file'[a].queue)
        \/ <<q, x>> \in file'[a].kept
        \/ CaughtMidRound(a, q, x)
        \/ RolledBack(a, q, x)

\* A text that the round read is on the server, or later than what it read, or put aside.
LEMMA ReadAccounted ==
    ASSUME NEW a \in Admin, AnswerOK(round[a]), round[a].phase \in After, NEW q \in Row, NEW x,
           SoundRound(round[a], Seen, Gone, clock), round[a] \in Rounds,
           q \in round[a].read, round[a].rows[q].text = x,
           Shelved(round[a]) \subseteq file'[a].kept
    PROVE  Accounted(a, q, x)
<1>. DEFINE r == round[a]
<1>1. r.rows[q].stamp = x /\ Told(a) = r.answer.rows /\ x \in Nat /\ r.answer.rows[q] \in Version
  BY DEF SoundRound, Flag, Told, After, Rounds, Version, Answers
<1>2. CASE ~r.answer.rows[q].live
  <2>1. q \in r.answer.refused
    BY <1>2 DEF AnswerOK
  <2>2. <<q, x>> \in Shelved(r)
    BY <2>1 DEF Shelved
  <2>. QED
    BY <2>2 DEF Accounted
<1>3. CASE r.answer.rows[q].live /\ q \in r.answer.changes
  <2>1. r.answer.rows[q].stamp > x
    BY <1>1, <1>3 DEF AnswerOK
  <2>. QED
    BY <1>1, <1>3, <2>1 DEF Accounted
<1>4. CASE r.answer.rows[q].live /\ q \notin r.answer.changes
  <2>1. r.answer.rows[q].text >= x
    BY <1>1, <1>4 DEF AnswerOK, Version
  <2>. QED
    BY <1>1, <1>4, <2>1 DEF Accounted
<1>. QED
  BY <1>2, <1>3, <1>4

LEMMA PageAccounted ==
    ASSUME TypeOK, NEW a \in Admin, NEW q \in file[a].dirty, NEW x, x = file[a].row[q].text,
           SoundFile(file[a], Seen, Gone, clock),
           ~(q \in file'[a].dirty /\ file'[a].row[q].text = x),
           \/ \E p \in Row : \E tag \in Tags(p) : Save(a, p, tag)
           \/ \E p \in Row : Delete(a, p)
           \/ Sync(a) \/ Flush(a) \/ Reload(a) \/ Disconnect(a) \/ Reconnect(a)
    PROVE  Accounted(a, q, x)
<1>1. /\ file \in [Admin -> Files] /\ file[a] \in Files /\ q \in Row /\ clock \in Nat
      /\ x \in Nat /\ x <= clock
  <2>1. file \in [Admin -> Files] /\ file[a] \in Files /\ clock \in Nat
    BY DEF TypeOK
  <2>2. q \in Row /\ x \in Nat
    BY <2>1 DEF Files, Version
  <2>. QED
    BY <2>1, <2>2 DEF SoundFile, Sound
<1>2. ASSUME NEW p \in Row, NEW tag \in Tags(p), Save(a, p, tag) PROVE Accounted(a, q, x)
  <2>. DEFINE v == [file[a].row[p] EXCEPT !.stamp = clock + 1, !.text = clock + 1, !.tag = tag]
  <2>1. file' = [file EXCEPT ![a].row[p] = v, ![a].dirty = @ \cup {p}]
    BY <1>2 DEF Save
  <2>2. file[a].row[p] \in Version
    BY <1>1 DEF Files
  <2>3. v.text = clock + 1
    BY <2>2 DEF Version
  <2>. HIDE DEF v
  <2>4. /\ file'[a].row = [file[a].row EXCEPT ![p] = v] /\ file'[a].dirty = file[a].dirty \cup {p}
    BY <1>1, <2>1 DEF Files
  <2>5. file'[a].row[q] = IF q = p THEN v ELSE file[a].row[q]
    BY <1>1, <2>4 DEF Files
  <2>6. q = p
    BY <2>4, <2>5
  <2>7. file'[a].row[q].text > x
    BY <1>1, <2>3, <2>5, <2>6
  <2>. QED
    BY <2>4, <2>7 DEF Accounted
<1>3. ASSUME NEW p \in Row, Delete(a, p) PROVE Accounted(a, q, x)
  <2>. DEFINE g == Dropped(file[a], {p})
  <2>1. /\ file' = [file EXCEPT ![a] = [g EXCEPT !.queue = file[a].queue \cup {p}]]
    BY <1>3 DEF Delete
  <2>2. /\ g \in Files /\ g.row = Without(file[a].row, {p})
        /\ g.dirty = file[a].dirty \ WithChildren({p})
    BY <1>1, FileTypes, DroppedParts
  <2>. HIDE DEF g
  <2>3. /\ file'[a].row = g.row /\ file'[a].queue = file[a].queue \cup {p}
        /\ file'[a].dirty = g.dirty
    BY <1>1, <2>1, <2>2 DEF Files
  <2>4. file'[a].row[q] = IF q \in WithChildren({p}) THEN Absent ELSE file[a].row[q]
    BY <1>1, <2>2, <2>3 DEF Without
  <2>5. q \in WithChildren({p})
    BY <2>2, <2>3, <2>4
  <2>6. q \in WithChildren(file'[a].queue)
    BY <2>3, <2>5, Families
  <2>. QED
    BY <2>6 DEF Accounted
<1>4. CASE Sync(a) \/ Flush(a) \/ Disconnect(a) \/ Reconnect(a)
  <2>1. file' = file
    BY <1>4 DEF Sync, Flush, Begin, Disconnect, Reconnect
  <2>. QED
    BY <2>1
<1>5. CASE Reload(a)
  <2>1. file'[a] = IF round[a].phase = "applying" THEN round[a].undo ELSE file[a]
    BY <1>1, <1>5 DEF Reload
  <2>. QED
    BY <2>1 DEF Accounted, RolledBack
<1>. QED
  BY <1>2, <1>3, <1>4, <1>5

LEMMA StepAccounted ==
    ASSUME TypeOK, NEW a \in Admin, NEW q \in file[a].dirty, NEW x, x = file[a].row[q].text,
           CopyOK(Server, file[a], round[a]), SoundRound(round[a], Seen, Gone, clock),
           ~(q \in file'[a].dirty /\ file'[a].row[q].text = x),
           Step(a) \/ Lose(a)
    PROVE  Accounted(a, q, x)
<1>. DEFINE f == file[a]
            r == round[a]
            ans == r.answer
<1>1. /\ file \in [Admin -> Files] /\ f \in Files /\ r \in Rounds /\ q \in Row /\ ans \in Answers
      /\ ans.changes \subseteq Row
  <2>1. file \in [Admin -> Files] /\ f \in Files /\ r \in Rounds
    BY DEF TypeOK
  <2>. QED
    BY <2>1 DEF Files, Rounds, Answers
<1>2. Told(a) = ans.rows \/ r.phase \notin After
  BY DEF Told, After
<1>3. CASE Apply(a)
  <2>. DEFINE h == Cleared(a)
              B == DeletesApplied(a)
              k == Dropped(f, B)
  <2>1. r.phase = "answered" /\ r.phase \in After
    BY <1>3 DEF Apply, After
  <2>2. AnswerOK(r)
    BY <2>1 DEF CopyOK
  <2>3. /\ Collisions(h, ans) \cap h.dirty = {}
        /\ file' = [file EXCEPT ![a] = Upserted(h, ans)]
    BY <1>3 DEF Apply
  <2>4. /\ h.row = Without(f.row, B) /\ h.dirty = f.dirty \ WithChildren(B)
        /\ h.kept = f.kept \cup Shelved(r) /\ h \in Files
    <3>1. /\ k \in Files /\ k.row = Without(f.row, B) /\ k.dirty = f.dirty \ WithChildren(B)
      BY <1>1, FileTypes, DroppedParts
    <3>2. k.kept = f.kept
      BY <1>1 DEF Dropped, Files
    <3>3. h = [k EXCEPT !.kept = @ \cup Shelved(r)] /\ h \in Files
      BY ClearedTypes, TypeParts DEF Cleared, Shelved
    <3>. HIDE DEF k, h, B
    <3>. QED
      BY <3>1, <3>2, <3>3 DEF Files
  <2>5. /\ \A p \in Row : file'[a].row[p] = IF p \in ans.changes THEN ans.rows[p]
                                            ELSE IF p \in Collisions(h, ans) THEN Absent ELSE h.row[p]
        /\ file'[a].dirty = h.dirty \ ans.changes /\ file'[a].kept = h.kept
    <3>1. file'[a] = Upserted(h, ans)
      BY <1>1, <2>3
    <3>. HIDE DEF h, f, r
    <3>. QED
      BY <2>4, <3>1 DEF Upserted, Files
  <2>6. \A p \in Row : h.row[p] = IF p \in WithChildren(B) THEN Absent ELSE f.row[p]
    BY <2>4 DEF Without
  <2>7. Shelved(r) \subseteq file'[a].kept
    BY <2>4, <2>5
  <2>8. B = ans.deletes \ (f.dirty \ r.read)
    BY DEF DeletesApplied
  <2>. HIDE DEF h, B
  <2>9. q \in WithChildren(B) \/ q \in ans.changes
    BY <1>1, <2>3, <2>4, <2>5, <2>6
  <2>10. CASE q \in r.read /\ r.rows[q].text = x
    BY <1>1, <2>1, <2>2, <2>7, <2>10, ReadAccounted
  <2>11. CASE ~(q \in r.read /\ r.rows[q].text = x)
    <3>1. q \in B => q \in r.read
      BY <2>8
    <3>2. q \in Child /\ Parent[q] \in B => ~ans.rows[Parent[q]].live
      BY <2>2, <2>8 DEF AnswerOK
    <3>3. \/ q \in r.read \cup ans.changes
          \/ q \in Child /\ ~ans.rows[Parent[q]].live
      BY <2>9, <3>1, <3>2, Families
    <3>. QED
      BY <2>1, <2>11, <3>3 DEF Accounted, CaughtMidRound
  <2>. QED
    BY <2>10, <2>11
<1>4. CASE Commit(a)
  <2>1. r.phase = "applying" /\ r.phase \in After
    BY <1>4 DEF Commit, After
  <2>2. AnswerOK(r) /\ Shelved(r) \subseteq f.kept
    BY <2>1 DEF CopyOK, ApplyingOK
  <2>3. CASE file' = [file EXCEPT ![a] = r.undo]
    <3>1. file'[a] = r.undo
      BY <1>1, <2>3
    <3>. QED
      BY <2>1, <3>1 DEF Accounted, RolledBack
  <2>4. CASE file' = [file EXCEPT ![a] = Applied(a)]
    <3>. DEFINE G == Ghosts(a)
    <3>1. file'[a] = Applied(a)
      BY <1>1, <2>4
    <3>2. /\ \A p \in Row : file'[a].row[p] = IF p \in WithChildren(G) THEN Absent ELSE f.row[p]
          /\ file'[a].dirty = Left(f, r) \ WithChildren(G) /\ file'[a].kept = f.kept
      BY <3>1, Commitment
    <3>3. CASE q \in r.read /\ r.rows[q].text = x
      BY <1>1, <2>1, <2>2, <3>2, <3>3, ReadAccounted
    <3>4. CASE q \in r.read /\ r.rows[q].text # x
      BY <2>1, <3>4 DEF Accounted, CaughtMidRound
    <3>5. CASE q \notin r.read
      <4>1. q \in Left(f, r)
        BY <3>5 DEF Left
      <4>2. q \in WithChildren(G)
        BY <1>1, <3>2, <4>1
      <4>3. q \notin G
        BY <4>1 DEF Ghosts, Flagged, Left
      <4>4. q \in Child /\ Parent[q] \in G /\ Parent[q] \in Row
        BY <4>2, <4>3, Families
      <4>5. ~ans.rows[Parent[q]].live
        BY <2>2, <4>4 DEF AnswerOK, Ghosts
      <4>. QED
        BY <2>1, <3>5, <4>4, <4>5 DEF Accounted, CaughtMidRound
    <3>. QED
      BY <3>3, <3>4, <3>5
  <2>. QED
    BY <1>4, <2>3, <2>4, Zenon DEF Commit
<1>5. CASE ~Apply(a) /\ ~Commit(a)
  <2>1. file' = file
    BY <1>5 DEF Step, ReadTable, Ask, Answer, Refuse, Lose
  <2>. QED
    BY <2>1
<1>. QED
  BY <1>3, <1>4, <1>5

\* An edit stops waiting to be sent only for a reason: a later edit, the server's having it or
\* a later stamp, a deletion, the shelf of refused rows; or for being made while a round was
\* under way that cleared its flag, or in a transaction that was rolled back.
THEOREM EditsAccountedFor == Spec => EditsAreKept
<1>. DEFINE A == \A a \in Admin : \A e \in Unsent(a) \ Unsent(a)' :
        LET q == e[1]
            x == e[2]
            v == Told(a)[q]
        IN  \/ q \in file'[a].dirty /\ file'[a].row[q].text > x
            \/ v.live /\ (v.text >= x \/ v.stamp > x)
            \/ q \in WithChildren(file'[a].queue)
            \/ e \in file'[a].kept
            \/ CaughtMidRound(a, q, x)
            \/ RolledBack(a, q, x)
<1>1. ASSUME CopyInv, [Next]_vars PROVE A
  <2>1. ASSUME NEW a \in Admin, NEW q \in file[a].dirty, NEW x, x = file[a].row[q].text,
               ~(q \in file'[a].dirty /\ file'[a].row[q].text = x)
        PROVE  Accounted(a, q, x)
    <3>1. /\ TypeOK /\ Starting(a) /\ CopyOK(Server, file[a], round[a])
          /\ \/ file'[a] = file[a] \/ Edited(a) \/ Disturbed(a) \/ Runs(a)
      BY <1>1, Turns
    <3>2. SoundFile(file[a], Seen, Gone, clock) /\ SoundRound(round[a], Seen, Gone, clock)
      BY <3>1, StartParts
    <3>3. \/ \E p \in Row : \E tag \in Tags(p) : Save(a, p, tag)
          \/ \E p \in Row : Delete(a, p)
          \/ Sync(a) \/ Flush(a) \/ Reload(a) \/ Disconnect(a) \/ Reconnect(a)
          \/ Step(a) \/ Lose(a)
      BY <2>1, <3>1 DEF Edited, Disturbed, Runs, Row
    <3>4. CASE Step(a) \/ Lose(a)
      BY <2>1, <3>1, <3>2, <3>4, StepAccounted
    <3>. QED
      BY <2>1, <3>1, <3>2, <3>3, <3>4, PageAccounted
  <2>2. ASSUME NEW a \in Admin, NEW e \in Unsent(a), e \notin Unsent(a)'
        PROVE  Accounted(a, e[1], e[2]) /\ e = <<e[1], e[2]>>
    <3>1. e \in Row \X {file[a].row[q].text : q \in file[a].dirty}
      BY DEF Unsent
    <3>2. e = <<e[1], e[2]>> /\ e[1] \in Row
      BY <3>1
    <3>3. e[1] \in file[a].dirty /\ e[2] = file[a].row[e[1]].text
      BY DEF Unsent
    <3>4. ~(e[1] \in file'[a].dirty /\ file'[a].row[e[1]].text = e[2])
      <4>1. ASSUME e[1] \in file'[a].dirty, file'[a].row[e[1]].text = e[2] PROVE e \in Unsent(a)'
        <5>1. e \in Row \X {file'[a].row[q].text : q \in file'[a].dirty}
          BY <3>2, <4>1
        <5>. QED
          BY <4>1, <5>1 DEF Unsent
      <4>. QED
        BY <2>2, <4>1
    <3>. QED
      BY <2>1, <3>2, <3>3, <3>4
  <2>. QED
    BY <2>2 DEF Accounted
<1>. HIDE DEF A
<1>2. CopyInv /\ [Next]_vars => [A]_vars
  BY <1>1
<1>3. Spec => [][A]_vars
  BY <1>2, CopiesHold, PTL DEF Spec
<1>. QED
  BY <1>3 DEF A, EditsAreKept

\* The breaker halts at the third failure of a kind, when the page's attempt to heal is spent.
LEMMA HaltedBy ==
    ASSUME TypeOK, NEW a \in Admin, NEW kind, HealedOK(engine[a]), Struck(a, kind),
           engine'[a].halted, ~engine[a].halted
    PROVE  kind = "fk" => engine[a].healed
<1>. DEFINE n == IF engine[a].strikes.kind = kind THEN engine[a].strikes.n + 1 ELSE 1
            heals == kind = "fk" /\ n >= 2 /\ ~engine[a].healed
            starts == heals /\ engine[a].online
<1>1. engine \in [Admin -> Engines] /\ engine[a] \in Engines /\ engine[a].strikes.n \in Nat
  BY DEF TypeOK, Engines
<1>2. engine' = [engine EXCEPT ![a].strikes = [kind |-> kind, n |-> n],
                               ![a].last = IF starts THEN "none" ELSE "failed",
                               ![a].halted = @ \/ n >= HaltAt,
                               ![a].armed = @ /\ n < HaltAt /\ ~starts,
                               ![a].healed = @ \/ heals]
  BY Zenon DEF Struck
<1>3. engine'[a].halted <=> engine[a].halted \/ n >= HaltAt
  <2>. HIDE DEF n, heals, starts
  <2>. QED
    BY <1>1, <1>2 DEF Engines
<1>4. n >= HaltAt
  BY <1>3
<1>5. engine[a].strikes.kind = kind /\ engine[a].strikes.n >= 2
  BY <1>1, <1>4, AdminAssumption
<1>. QED
  BY <1>5 DEF HealedOK

\* Grants clash in the merge of a push only if a pushed one clashes with one of the server's.
LEMMA RefusedBy ==
    ASSUME TypeOK, NEW a \in Admin, Valid(Server), CopyOK(Server, file[a], round[a]), Refuse(a)
    PROVE  Clash(a)
<1>. DEFINE r == round[a]
<1>1. /\ r.phase = "asked" /\ ~Unique(Merged(r)) /\ Unique(row)
      /\ \A o, p \in r.read \cap Role : ~SameGrant(o, r.rows[o], p, r.rows[p])
  BY DEF Refuse, CopyOK, GrantsRead, Valid, Server
<1>. HIDE DEF r
<1>2. PICK o \in Role, p \in Role : SameGrant(o, Merged(r)[o], p, Merged(r)[p])
  BY <1>1 DEF Unique
<1>3. \A q \in Role : \/ q \in r.read /\ Merged(r)[q] = r.rows[q]
                      \/ Merged(r)[q] = row[q] \/ Merged(r)[q] = Absent
  BY DEF Merged, Base, Without, Written, Row
<1>4. SameGrant(p, Merged(r)[p], o, Merged(r)[o])
  BY <1>2 DEF SameGrant
<1>5. Merged(r)[o].live /\ Merged(r)[p].live
  BY <1>2 DEF SameGrant
<1>6. ~SameGrant(o, row[o], p, row[p])
  BY <1>1 DEF Unique
<1>7. \E q, c \in Role : q \in r.read /\ SameGrant(q, r.rows[q], c, row[c])
  BY <1>1, <1>2, <1>3, <1>4, <1>5, <1>6, AbsentParts
<1>. QED
  BY <1>1, <1>7 DEF Clash, r

\* A flagged grant in the way of a pulled one.
LEMMA BlockedBy ==
    ASSUME TypeOK, NEW a \in Admin, round[a].phase = "answered",
           Collisions(Cleared(a), round[a].answer) \cap Cleared(a).dirty # {}
    PROVE  Clash(a)
<1>. DEFINE f == file[a]
            B == DeletesApplied(a)
            k == Dropped(f, B)
            h == Cleared(a)
            ans == round[a].answer
<1>1. f \in Files
  BY DEF TypeOK
<1>2. /\ h.row = Without(f.row, B) /\ h.dirty = f.dirty \ WithChildren(B)
  <2>1. /\ k \in Files /\ k.row = Without(f.row, B) /\ k.dirty = f.dirty \ WithChildren(B)
    BY <1>1, FileTypes, DroppedParts
  <2>2. h = [k EXCEPT !.kept = @ \cup Shelved(round[a])]
    BY DEF Cleared, Shelved
  <2>. HIDE DEF k, h, B
  <2>. QED
    BY <2>1, <2>2 DEF Files
<1>3. PICK p \in Collisions(h, ans) : p \in h.dirty
  OBVIOUS
<1>4. PICK c \in ans.changes \cap Role : p \in InTheWay(h, ans, c)
  BY <1>3 DEF Collisions
<1>5. p \in Role /\ SameGrant(p, h.row[p], c, ans.rows[c])
  BY <1>4 DEF InTheWay
<1>6. p \in f.dirty /\ h.row[p] = f.row[p]
  BY <1>2, <1>3, <1>5 DEF Without, Row
<1>. QED
  BY <1>4, <1>5, <1>6 DEF Clash

\* A full round's transaction breaks a foreign key only if undercut.
LEMMA BrokenBy ==
    ASSUME TypeOK, NEW a \in Admin, CopyOK(Server, file[a], round[a]), Commit(a),
           ~FkHolds(Applied(a).row), round[a].full
    PROVE  Undercut(a)
<1>. DEFINE f == file[a]
            r == round[a]
            G == Ghosts(a)
<1>1. r.phase = "applying" /\ AnswerOK(r) /\ ApplyingOK(Server, f, r) /\ r.cursor = 0
  BY DEF Commit, CopyOK, After, Asking, RequestOK
<1>2. \A q \in Row : Applied(a).row[q] = IF q \in WithChildren(G) THEN Absent ELSE f.row[q]
  BY Commitment
<1>3. PICK q \in Child : Applied(a).row[q].live /\ ~Applied(a).row[Parent[q]].live
  BY DEF FkHolds
<1>. DEFINE p == Parent[q]
<1>4. q \in Row /\ p \in Row /\ p \notin Child
  BY Families
<1>5. q \notin WithChildren(G) /\ f.row[q].live
  BY <1>2, <1>3, <1>4, AbsentParts
<1>6. p \notin WithChildren(G)
  BY <1>4, <1>5, Families
<1>7. ~f.row[p].live
  BY <1>2, <1>3, <1>4, <1>6
<1>8. q \in r.answer.changes /\ p \notin r.answer.changes
  BY <1>1, <1>5, <1>7 DEF ApplyingOK
<1>9. r.answer.rows[p].live
  BY <1>1, <1>8 DEF AnswerOK, FkHolds
<1>10. p \in r.read
  BY <1>1, <1>4, <1>8, <1>9 DEF AnswerOK
<1>. QED
  BY <1>1, <1>7, <1>9, <1>10 DEF Undercut

\* An engine stops for good only over two grants of one role: a file that breaks a foreign key
\* at every pull is healed by the full round of its second failure, whose own transaction fails
\* only if the page undercut it, unless that one attempt of the page was spent before.
THEOREM OnlyAClashHalts == Spec => HaltsOnAClash
<1>. DEFINE A == \A a \in Admin : engine'[a].halted /\ ~engine[a].halted
                     => Clash(a) \/ (engine[a].healed /\ ~round[a].full) \/ Undercut(a)
<1>1. ASSUME CopyInv, [Next]_vars PROVE A
  <2>. SUFFICES ASSUME NEW a \in Admin, engine'[a].halted, ~engine[a].halted
                PROVE  Clash(a) \/ (engine[a].healed /\ ~round[a].full) \/ Undercut(a)
    OBVIOUS
  <2>1. /\ TypeOK /\ Starting(a) /\ CopyOK(Server, file[a], round[a])
        /\ \/ engine'[a] = engine[a] \/ Edited(a) \/ Disturbed(a) \/ Runs(a)
    BY <1>1, Turns
  <2>2. /\ Valid(Server) /\ HealedOK(engine[a]) /\ engine \in [Admin -> Engines]
    BY <2>1 DEF Starting, TypeOK
  <2>3. Begin(a) => ~engine'[a].halted
    BY <2>2 DEF Begin, Engines
  <2>4. ASSUME NEW q \in Row, NEW tag \in Tags(q), Save(a, q, tag) PROVE ~engine'[a].halted
    BY <2>2, <2>4 DEF Save, Marked, Engines
  <2>5. ASSUME NEW q, Delete(a, q) PROVE ~engine'[a].halted
    BY <2>2, <2>5 DEF Delete, Marked, Engines
  <2>6. Sync(a) \/ Flush(a) \/ Reload(a) \/ Disconnect(a) \/ Reconnect(a) => ~engine'[a].halted
    <3>1. Sync(a) => ~engine'[a].halted
      BY <2>3 DEF Sync
    <3>2. ASSUME NEW b, engine' = [engine EXCEPT ![a].armed = FALSE, ![a].missed = b]
          PROVE  ~engine'[a].halted
      BY <2>2, <3>2 DEF Engines
    <3>3. Flush(a) => ~engine'[a].halted
      BY <2>3, <3>2 DEF Flush
    <3>4. Reload(a) => ~engine'[a].halted
      BY <2>2 DEF Reload, NewEngine, Engines
    <3>5. Disconnect(a) \/ Reconnect(a) => ~engine'[a].halted
      BY <2>2 DEF Disconnect, Reconnect, Engines
    <3>. QED
      BY <3>1, <3>3, <3>4, <3>5
  <2>7. Excused(a) \/ Succeeded(a) => ~engine'[a].halted
    BY <2>2 DEF Excused, Succeeded, Engines
  <2>8. ReadTable(a) \/ Ask(a) \/ Answer(a) \/ Lose(a) => ~engine'[a].halted
    BY <2>7 DEF ReadTable, Ask, Answer, Lose
  <2>9. CASE Refuse(a)
    BY <2>1, <2>2, <2>9, RefusedBy
  <2>10. CASE Apply(a)
    <3>1. round[a].phase = "answered"
      BY <2>10 DEF Apply
    <3>2. Collisions(Cleared(a), round[a].answer) \cap Cleared(a).dirty # {}
      BY <2>10 DEF Apply
    <3>. QED
      BY <2>1, <3>1, <3>2, BlockedBy
  <2>11. CASE Commit(a)
    <3>1. Struck(a, "fk") /\ ~FkHolds(Applied(a).row)
      BY <2>7, <2>11, Zenon DEF Commit
    <3>2. engine[a].healed
      BY <2>1, <2>2, <3>1, HaltedBy
    <3>3. CASE round[a].full
      BY <2>1, <2>11, <3>1, <3>3, BrokenBy
    <3>. QED
      BY <3>2, <3>3
  <2>. QED
    BY <2>1, <2>4, <2>5, <2>6, <2>8, <2>9, <2>10, <2>11 DEF Edited, Disturbed, Runs, Step, Row
<1>. HIDE DEF A
<1>2. CopyInv /\ [Next]_vars => [A]_vars
  BY <1>1
<1>3. Spec => [][A]_vars
  BY <1>2, CopiesHold, PTL DEF Spec
<1>. QED
  BY <1>3 DEF A, HaltsOnAClash

===============================================================================
