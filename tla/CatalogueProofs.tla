---------------------------- MODULE CatalogueProofs ----------------------------
(***************************************************************************)
(* What the catalogue keeps, for any rows, admins, starts and budgets.     *)
(***************************************************************************)
EXTENDS MediaSweepProofs

-------------------------------------------------------------------------------
(* The inductive invariant.                                                  *)

\* Rows the server has had; unless messages, it has them still, or their tombstones.
Seen == {q \in Row : seq[q] # 0 /\ (q \in Message \/ row[q].live \/ grave[q] # 0)}

Gone == {q \in Row : grave[q] # 0}

\* A version of a row, wherever it is kept, given the rows seen, those gone and the clock.
Sound(q, v, S, c) == v.text <= c /\ (v.live => q \in S)

\* A flagged version is as its edit left it.
Flag(q, v) == q \notin Message /\ v.live /\ v.text = v.stamp

\* A dictionary is deleted in a file only after the server deleted it.
Queued(q, S, G) == q \in S /\ (q \in Dict => q \in G)

SoundFile(f, S, G, c) ==
    /\ \A q \in Row : Sound(q, f.row[q], S, c)
    /\ \A q \in f.dirty : Flag(q, f.row[q])
    /\ \A q \in f.queue : Queued(q, S, G)

SoundRound(r, S, G, c) ==
    /\ \A q \in Row : Sound(q, r.rows[q], S, c)
    /\ \A q \in r.read : Flag(q, r.rows[q])
    /\ \A q \in r.queue : Queued(q, S, G)
    /\ \A q \in Row : Sound(q, r.answer.rows[q], S, c)
    /\ SoundFile(r.undo, S, G, c)

SoundServer ==
    /\ \A q \in Row : Sound(q, row[q], Seen, clock)
    /\ \A q \in Row : grave[q] # 0 => seq[q] # 0 /\ ~row[q].live
    /\ FkHolds(row)

IInv ==
    /\ TypeOK
    /\ SoundServer
    /\ \A a \in Admin : /\ SoundFile(file[a], Seen, Gone, clock)
                        /\ SoundRound(round[a], Seen, Gone, clock)

WholeInv == IInv /\ MediaInv /\ Housed

-------------------------------------------------------------------------------
(* Type correctness.                                                         *)

ServerTypes ==
    /\ row \in [Row -> Version] /\ seq \in [Row -> Nat] /\ grave \in [Row -> Nat]
    /\ counter \in Nat /\ clock \in Nat
AdminTypes ==
    file \in [Admin -> Files] /\ engine \in [Admin -> Engines] /\ round \in [Admin -> Rounds]
SweepTypes ==
    /\ content \in [Dict -> Nat] /\ pruned \in [Dict -> Nat] /\ published \in [Dict -> Nat]
    /\ teardown \subseteq Dict /\ sweep \in Sweeps
    /\ reconciled \in BOOLEAN /\ enabled \in BOOLEAN
Outboxes == [at : {"none", "uploading", "sending"}, now : Nat]

LEMMA TypeParts ==
    TypeOK <=> /\ ServerTypes /\ AdminTypes /\ SweepTypes
               /\ outbox \in [Message -> Outboxes] /\ left \in [Events -> Nat]
               /\ MediaTypes
BY DEF TypeOK, ServerTypes, AdminTypes, SweepTypes, Outboxes

LEMMA Children == /\ Child \subseteq Row
                  /\ \A q \in Child : Parent[q] \in Row /\ Parent[q] \in Dict \cup Thread
                  /\ \A q \in Role : Parent[q] \in Dict
                  /\ \A q \in Message : Parent[q] \in Thread
BY CatalogAssumption DEF Child, Row

LEMMA Literals ==
    /\ Absent \in Version
    /\ NoFile \in Files /\ NoAnswer \in Answers
    /\ NoRound \in Rounds
    /\ NewEngine \in Engines
    /\ NoSweep \in Sweeps
    /\ NoReply \in Outboxes
<1>1. Absent \in Version
  BY DEF Absent, Version, Tag
<1>2. NoFile \in Files
  BY <1>1 DEF NoFile, Files
<1>3. NoAnswer \in Answers
  BY <1>1 DEF NoAnswer, Answers
<1>4. NoRound \in Rounds
  <2>1. 1 \in 1..(LastTable + 1)
    BY DEF LastTable
  <2>. HIDE DEF NoFile, NoAnswer, Absent, Files, Answers
  <2>. QED
    BY <1>1, <1>2, <1>3, <2>1 DEF NoRound, Rounds, Phases
<1>5. NewEngine \in Engines
  BY DEF NewEngine, NoStrikes, Engines
<1>. QED
  BY <1>1, <1>2, <1>3, <1>4, <1>5 DEF NoSweep, Sweeps, NoReply, Outboxes

LEMMA InitTypes == Init => TypeOK
<1>1. SUFFICES ASSUME MediaTypes, NEW s \in Starts,
                      row = FirstRows(s.live), seq = [q \in Row |-> IF q \in s.live THEN 1 ELSE 0],
                      grave = [q \in Row |-> 0], counter = 1, clock = Epoch,
                      file = [a \in Admin |-> FirstFile(s, a)],
                      engine = [a \in Admin |-> NewEngine], round = [a \in Admin |-> NoRound],
                      content = [d \in Dict |-> IF d \in s.live THEN Epoch ELSE Blank],
                      pruned = [d \in Dict |-> 0],
                      published = [d \in Dict |-> IF d \in s.live THEN Epoch ELSE 0],
                      teardown = {}, outbox = [q \in Message |-> NoReply], sweep = NoSweep,
                      reconciled = TRUE, enabled = s.builder, left = s.budget
               PROVE  TypeOK
  BY MediaStart DEF Init, MediaInv
<1>2. \A S : FirstRows(S) \in [Row -> Version]
  BY Literals DEF FirstRows, Version, Tag, Epoch
<1>3. \A a \in Admin : FirstFile(s, a) \in Files
  BY <1>2, Literals DEF FirstFile, Files
<1>4. ServerTypes
  BY <1>1, <1>2 DEF ServerTypes, Epoch
<1>5. AdminTypes
  BY <1>1, <1>3, Literals DEF AdminTypes
<1>6. SweepTypes
  BY <1>1, Literals, CatalogueAssumption DEF SweepTypes, Epoch, Blank
<1>7. outbox \in [Message -> Outboxes] /\ left \in [Events -> Nat]
  BY <1>1, Literals, CatalogueAssumption
<1>. QED
  BY <1>1, <1>4, <1>5, <1>6, <1>7, TypeParts

\* Rows.
LEMMA RowTypes ==
    /\ \A s \in Nat, g \in Tag : Fresh(s, g) \in Version
    /\ \A q \in Row : Tags(q) \subseteq Tag
    /\ \A rows \in [Row -> Version] : \A S : Without(rows, S) \in [Row -> Version]
    /\ \A rows \in [Row -> Version], q \in Row, s \in Nat : Stamped(rows, q, s) \in [Row -> Version]
<1>1. \A s \in Nat, g \in Tag : Fresh(s, g) \in Version
  BY DEF Fresh, Version
<1>2. \A q \in Row : Tags(q) \subseteq Tag
  BY DEF Tags, Tag
<1>3. \A rows \in [Row -> Version] : \A S : Without(rows, S) \in [Row -> Version]
  BY Literals DEF Without
<1>4. ASSUME NEW rows \in [Row -> Version], NEW q \in Row, NEW s \in Nat
      PROVE  Stamped(rows, q, s) \in [Row -> Version]
  BY <1>4 DEF Stamped, Version
<1>. QED
  BY <1>1, <1>2, <1>3, <1>4

LEMMA VersionEdits ==
    /\ \A v \in Version, s \in Nat : [v EXCEPT !.stamp = s] \in Version
    /\ \A v \in Version, s \in Nat : [v EXCEPT !.uploaded = s] \in Version
    /\ \A v \in Version, s, x \in Nat : [v EXCEPT !.stamp = s, !.text = x] \in Version
    /\ \A v \in Version, s \in Nat, g \in Tag :
           [v EXCEPT !.stamp = s, !.text = s, !.tag = g] \in Version
BY DEF Version

LEMMA FileTypes ==
    ASSUME NEW f \in Files
    PROVE  /\ \A S : Dropped(f, S) \in Files
           /\ \A v \in Version, q \in Row : [f EXCEPT !.row[q] = v, !.dirty = @ \cup {q}] \in Files
           /\ \A q \in Row : [Dropped(f, {q}) EXCEPT !.queue = f.queue \cup {q}] \in Files
           /\ \A D \in SUBSET Row : [f EXCEPT !.dirty = D] \in Files
           /\ \A c \in Nat, Q \in SUBSET Row : [f EXCEPT !.cursor = c, !.queue = Q] \in Files
           /\ \A K \in SUBSET (Row \X Nat) : [f EXCEPT !.kept = @ \cup K] \in Files
<1>1. ASSUME NEW S PROVE Dropped(f, S) \in Files
  <2>1. Without(f.row, S) \in [Row -> Version]
    BY RowTypes DEF Files
  <2>. HIDE DEF Without
  <2>. QED
    BY <2>1 DEF Dropped, Files
<1>2. \A q \in Row : [Dropped(f, {q}) EXCEPT !.queue = f.queue \cup {q}] \in Files
  <2>1. \A g \in Files, Q \in SUBSET Row : [g EXCEPT !.queue = Q] \in Files
    BY DEF Files
  <2>2. \A q \in Row : f.queue \cup {q} \in SUBSET Row
    BY DEF Files
  <2>. QED
    BY <1>1, <2>1, <2>2
<1>. QED
  BY <1>1, <1>2 DEF Files

\* Rounds and engines.
LEMMA RoundTypes ==
    ASSUME NEW r \in Rounds
    PROVE  /\ \A full \in BOOLEAN : Begun(full) \in Rounds
           /\ \A S \in SUBSET Row : \A rows \in [Row -> Version] : r.table <= LastTable =>
                  [r EXCEPT !.table = @ + 1, !.read = @ \cup S, !.rows = rows] \in Rounds
           /\ \A Q \in SUBSET Row : \A c \in Nat :
                  [r EXCEPT !.phase = "asked", !.queue = Q, !.cursor = c] \in Rounds
           /\ \A ans \in Answers : [r EXCEPT !.phase = "answered", !.answer = ans] \in Rounds
           /\ \A f \in Files : [r EXCEPT !.phase = "applying", !.undo = f] \in Rounds
<1>1. \A full \in BOOLEAN : Begun(full) \in Rounds
  <2>. HIDE DEF NoRound
  <2>. QED
    BY Literals DEF Begun, Rounds, Phases
<1>2. ASSUME NEW S \in SUBSET Row, NEW rows \in [Row -> Version], r.table <= LastTable
      PROVE  [r EXCEPT !.table = @ + 1, !.read = @ \cup S, !.rows = rows] \in Rounds
  <2>1. r.table + 1 \in 1..(LastTable + 1) /\ r.read \cup S \in SUBSET Row
    BY <1>2 DEF Rounds, LastTable
  <2>. HIDE DEF LastTable
  <2>. QED
    BY <2>1 DEF Rounds
<1>. QED
  BY <1>1, <1>2 DEF Rounds, Phases

Kinds == {"none", "fk", "unique", "refused"}

LEMMA EngineTypes ==
    ASSUME NEW e \in Engines, NEW b \in BOOLEAN
    PROVE  /\ [e EXCEPT !.counted = TRUE, !.armed = TRUE, !.missed = FALSE] \in Engines
           /\ [e EXCEPT !.armed = FALSE, !.last = "none", !.missed = FALSE] \in Engines
           /\ [e EXCEPT !.armed = FALSE, !.missed = b] \in Engines
           /\ [e EXCEPT !.online = b] \in Engines
           /\ [NewEngine EXCEPT !.online = b] \in Engines
           /\ [e EXCEPT !.strikes = NoStrikes, !.last = "failed"] \in Engines
           /\ [e EXCEPT !.strikes = NoStrikes, !.last = "done", !.counted = FALSE] \in Engines
<1>1. /\ [e EXCEPT !.counted = TRUE, !.armed = TRUE, !.missed = FALSE] \in Engines
      /\ [e EXCEPT !.armed = FALSE, !.last = "none", !.missed = FALSE] \in Engines
      /\ [e EXCEPT !.armed = FALSE, !.missed = b] \in Engines
      /\ [e EXCEPT !.online = b] \in Engines
  BY DEF Engines
<1>2. NewEngine \in Engines
  BY Literals
<1>. HIDE DEF NewEngine
<1>3. [NewEngine EXCEPT !.online = b] \in Engines
  BY <1>2 DEF Engines
<1>4. NoStrikes \in [kind : Kinds, n : Nat]
  BY DEF NoStrikes, Kinds
<1>. HIDE DEF NoStrikes
<1>5. [e EXCEPT !.strikes = NoStrikes, !.last = "failed"] \in Engines
  BY <1>4 DEF Engines, Kinds
<1>6. [e EXCEPT !.strikes = NoStrikes, !.last = "done", !.counted = FALSE] \in Engines
  BY <1>4 DEF Engines, Kinds
<1>. QED
  BY <1>1, <1>3, <1>5, <1>6

LEMMA StrikeTypes ==
    ASSUME NEW e \in Engines, NEW s \in [kind : Kinds, n : Nat], NEW l \in {"none", "failed"},
           NEW h \in BOOLEAN, NEW m \in BOOLEAN, NEW z \in BOOLEAN
    PROVE  [e EXCEPT !.strikes = s, !.last = l, !.halted = h, !.armed = m, !.healed = z] \in Engines
BY DEF Engines, Kinds

LEMMA StruckTypes ==
    ASSUME AdminTypes, NEW a \in Admin, NEW kind \in {"fk", "unique", "refused"}, Struck(a, kind)
    PROVE  engine' \in [Admin -> Engines] /\ round' \in [Admin -> Rounds]
<1>. DEFINE e == engine[a]
            n == IF e.strikes.kind = kind THEN e.strikes.n + 1 ELSE 1
            heals == kind = "fk" /\ n >= 2 /\ ~e.healed
            s == [kind |-> kind, n |-> n]
            starts == heals /\ e.online
            l == IF starts THEN "none" ELSE "failed"
            h == e.halted \/ n >= HaltAt
            m == e.armed /\ n < HaltAt /\ ~starts
            z == e.healed \/ heals
            r == IF starts THEN Begun(TRUE) ELSE NoRound
<1>1. e \in Engines
  BY DEF AdminTypes
<1>2. n \in Nat /\ kind \in Kinds
  BY <1>1 DEF Engines, Kinds
<1>3. s \in [kind : Kinds, n : Nat]
  BY <1>2
<1>4. h \in BOOLEAN /\ m \in BOOLEAN /\ z \in BOOLEAN
  BY <1>1, Zenon DEF Engines
<1>5. l \in {"none", "failed"}
  OBVIOUS
<1>6. Begun(TRUE) \in Rounds /\ NoRound \in Rounds
  BY Literals DEF Begun, Rounds, Phases
<1>7. r \in Rounds
  BY <1>6
<1>8. /\ round' = [round EXCEPT ![a] = r]
      /\ engine' = [engine EXCEPT ![a].strikes = s, ![a].last = l, ![a].halted = h,
                                  ![a].armed = m, ![a].healed = z]
  BY Zenon DEF Struck
<1>. HIDE DEF n, heals, starts, s, l, h, m, z, r
<1>9. [e EXCEPT !.strikes = s, !.last = l, !.halted = h, !.armed = m, !.healed = z] \in Engines
  BY <1>1, <1>3, <1>4, <1>5, StrikeTypes
<1>. QED
  BY <1>7, <1>8, <1>9 DEF AdminTypes

LEMMA EndTypes ==
    ASSUME AdminTypes, NEW a \in Admin, Excused(a) \/ Succeeded(a)
    PROVE  engine' \in [Admin -> Engines] /\ round' \in [Admin -> Rounds]
<1>1. engine[a] \in Engines /\ NoRound \in Rounds
  BY Literals DEF AdminTypes
<1>2. /\ [engine[a] EXCEPT !.strikes = NoStrikes, !.last = "failed"] \in Engines
      /\ [engine[a] EXCEPT !.strikes = NoStrikes, !.last = "done", !.counted = FALSE] \in Engines
  BY <1>1, EngineTypes
<1>. HIDE DEF NoRound, Engines, Rounds, NoStrikes
<1>3. CASE Excused(a)
  BY <1>1, <1>2, <1>3 DEF AdminTypes, Excused
<1>4. CASE Succeeded(a)
  BY <1>1, <1>2, <1>4 DEF AdminTypes, Succeeded
<1>. QED
  BY <1>3, <1>4

\* The page.
LEMMA PageTypes ==
    ASSUME TypeOK, NEW a \in Admin,
           \/ \E q \in Row : \E tag \in Tags(q) : Save(a, q, tag)
           \/ \E q \in Row : Delete(a, q)
           \/ Sync(a) \/ Flush(a) \/ Reload(a) \/ Disconnect(a) \/ Reconnect(a)
    PROVE  ServerTypes' /\ AdminTypes'
<1>1. ServerTypes /\ AdminTypes
  BY TypeParts
<1>2. file[a] \in Files /\ engine[a] \in Engines /\ round[a] \in Rounds
  BY <1>1 DEF AdminTypes
<1>3. Marked(a) \in [Admin -> Engines]
  BY <1>1, <1>2, EngineTypes DEF Marked, AdminTypes
<1>4. CASE \E q \in Row : \E tag \in Tags(q) : Save(a, q, tag)
  <2>a. PICK q \in Row : \E tag \in Tags(q) : Save(a, q, tag)
    BY <1>4
  <2>1. PICK tag \in Tags(q) : Save(a, q, tag)
    BY <2>a
  <2>2. file[a].row[q] \in Version /\ tag \in Tag /\ clock + 1 \in Nat
    BY <1>1, <1>2, <2>1, RowTypes DEF Files, ServerTypes
  <2>. DEFINE v == [file[a].row[q] EXCEPT !.stamp = clock + 1, !.text = clock + 1, !.tag = tag]
  <2>3. v \in Version
    BY <2>2, VersionEdits
  <2>4. file' = [file EXCEPT ![a].row[q] = v, ![a].dirty = @ \cup {q}]
    BY <2>1 DEF Save
  <2>. HIDE DEF v
  <2>5. [file[a] EXCEPT !.row[q] = v, !.dirty = @ \cup {q}] \in Files
    BY <1>2, <2>3, FileTypes
  <2>6. file' \in [Admin -> Files]
    BY <1>1, <2>4, <2>5 DEF AdminTypes
  <2>. QED
    BY <1>1, <1>3, <2>1, <2>2, <2>6 DEF Save, ServerTypes, AdminTypes
<1>5. CASE \E q \in Row : Delete(a, q)
  <2>1. PICK q \in Row : Delete(a, q)
    BY <1>5
  <2>. DEFINE g == [Dropped(file[a], {q}) EXCEPT !.queue = file[a].queue \cup {q}]
  <2>2. g \in Files
    BY <1>2, FileTypes
  <2>3. file' = [file EXCEPT ![a] = g]
    BY <2>1 DEF Delete
  <2>. HIDE DEF g
  <2>4. file' \in [Admin -> Files]
    BY <1>1, <2>2, <2>3 DEF AdminTypes
  <2>. QED
    BY <1>1, <1>3, <2>1, <2>4 DEF Delete, ServerTypes, AdminTypes, serverVars
<1>6. ASSUME Begin(a) PROVE ServerTypes' /\ AdminTypes'
  <2>1. Begun(FALSE) \in Rounds
    BY <1>2, RoundTypes
  <2>2. engine' \in [Admin -> Engines]
    BY <1>1, <1>2, <1>6, EngineTypes DEF Begin, AdminTypes
  <2>. QED
    BY <1>1, <1>6, <2>1, <2>2 DEF Begin, ServerTypes, AdminTypes, serverVars
<1>7. CASE Sync(a)
  BY <1>6, <1>7 DEF Sync
<1>8. CASE Flush(a)
  <2>1. CASE Begin(a)
    BY <1>6, <2>1
  <2>2. CASE ~Begin(a)
    <3>. DEFINE b == Idle(a) /\ ~engine[a].online
    <3>1. b \in BOOLEAN
      BY <1>2 DEF Idle, Engines
    <3>2. /\ engine' = [engine EXCEPT ![a] = [engine[a] EXCEPT !.armed = FALSE, !.missed = b]]
          /\ UNCHANGED <<serverVars, file, round>>
      BY <1>1, <1>8, <2>2 DEF Flush, AdminTypes
    <3>. HIDE DEF b
    <3>3. engine' \in [Admin -> Engines]
      BY <1>1, <1>2, <3>1, <3>2, EngineTypes DEF AdminTypes
    <3>. QED
      BY <1>1, <3>2, <3>3 DEF ServerTypes, AdminTypes, serverVars
  <2>. QED
    BY <2>1, <2>2
<1>9. CASE Reload(a)
  <2>1. engine[a].online \in BOOLEAN
    BY <1>2 DEF Engines
  <2>2. /\ Begun(FALSE) \in Rounds /\ NoRound \in Rounds /\ round[a].undo \in Files
        /\ [NewEngine EXCEPT !.online = engine[a].online] \in Engines
    BY <1>2, <2>1, RoundTypes, EngineTypes, Literals DEF Rounds
  <2>. HIDE DEF NewEngine, NoRound, Begun, Files, Engines, Rounds
  <2>. QED
    BY <1>1, <1>9, <2>2 DEF Reload, ServerTypes, AdminTypes, serverVars
<1>10. CASE Disconnect(a) \/ Reconnect(a)
  <2>1. PICK b \in BOOLEAN : engine' = [engine EXCEPT ![a].online = b]
    BY <1>10 DEF Disconnect, Reconnect
  <2>2. engine' \in [Admin -> Engines]
    BY <1>1, <1>2, <2>1, EngineTypes DEF AdminTypes
  <2>. QED
    BY <1>1, <1>10, <2>2 DEF Disconnect, Reconnect, ServerTypes, AdminTypes, serverVars
<1>. QED
  BY <1>4, <1>5, <1>7, <1>8, <1>9, <1>10

\* The round.
LEMMA MergeTypes ==
    ASSUME ServerTypes, NEW req \in Rounds, Merge(req), clock' = clock
    PROVE  ServerTypes' /\ AnswerTo(req) \in Answers
<1>1. req.rows \in [Row -> Version] /\ req.queue \subseteq Row /\ req.read \subseteq Row
  BY DEF Rounds
<1>2. Base(req) \in [Row -> Version]
  BY RowTypes DEF Base, ServerTypes
<1>3. Merged(req) \in [Row -> Version]
  BY <1>1, <1>2 DEF Merged
<1>4. ServerTypes'
  BY <1>3 DEF Merge, ServerTypes
<1>5. Buried(req) \subseteq Row /\ Losing(req) \subseteq Row
  BY <1>1 DEF Buried, Losing
<1>6. Changed(req) \subseteq Row /\ Removed(req) \subseteq Row
  BY <1>1, <1>5 DEF Changed, Removed
<1>. QED
  BY <1>4, <1>5, <1>6 DEF AnswerTo, Answers, ServerTypes

LEMMA ClearedTypes ==
    ASSUME AdminTypes, NEW a \in Admin
    PROVE  Cleared(a) \in Files
<1>1. file[a] \in Files /\ round[a] \in Rounds
  BY DEF AdminTypes
<1>. DEFINE f == Dropped(file[a], DeletesApplied(a))
            K == {<<q, round[a].rows[q].text>> : q \in round[a].answer.refused}
<1>2. f \in Files
  BY <1>1, FileTypes
<1>3. K \in SUBSET (Row \X Nat)
  BY <1>1 DEF Rounds, Answers, Version
<1>4. Cleared(a) = [f EXCEPT !.kept = @ \cup K]
  BY DEF Cleared
<1>. HIDE DEF f, K
<1>. QED
  BY <1>2, <1>3, <1>4, FileTypes

LEMMA UpsertedTypes ==
    ASSUME NEW f \in Files, NEW ans \in Answers
    PROVE  Upserted(f, ans) \in Files
<1>. DEFINE out == Collisions(f, ans)
            rows == [q \in Row |-> IF q \in ans.changes THEN ans.rows[q]
                                   ELSE IF q \in out THEN Absent ELSE f.row[q]]
<1>1. rows \in [Row -> Version]
  BY Literals DEF Files, Answers
<1>2. Upserted(f, ans) = [f EXCEPT !.row = rows, !.dirty = @ \ ans.changes]
  BY DEF Upserted
<1>. HIDE DEF rows
<1>. QED
  BY <1>1, <1>2 DEF Files

LEMMA AppliedTypes ==
    ASSUME AdminTypes, NEW a \in Admin
    PROVE  Applied(a) \in Files
<1>1. file[a] \in Files /\ round[a] \in Rounds
  BY DEF AdminTypes
<1>. DEFINE f == [file[a] EXCEPT !.dirty = Flagged(a)]
            g == Dropped(f, Ghosts(a))
<1>2. Flagged(a) \in SUBSET Row
  BY <1>1 DEF Flagged, Files
<1>3. f \in Files
  BY <1>1, <1>2, FileTypes
<1>. HIDE DEF f
<1>4. g \in Files
  BY <1>3, FileTypes
<1>. DEFINE c == round[a].answer.cursor
            Q == g.queue \ round[a].queue
<1>5. Applied(a) = [g EXCEPT !.cursor = c, !.queue = Q]
  BY DEF Applied, f
<1>6. c \in Nat /\ Q \in SUBSET Row
  BY <1>1, <1>4 DEF Rounds, Answers, Files
<1>. HIDE DEF g, c, Q
<1>7. [g EXCEPT !.cursor = c, !.queue = Q] \in Files
  BY <1>4, <1>6, FileTypes
<1>. QED
  BY <1>5, <1>7

LEMMA StepTypes ==
    ASSUME TypeOK, NEW a \in Admin, Step(a) \/ Lose(a)
    PROVE  ServerTypes' /\ AdminTypes'
<1>1. ServerTypes /\ AdminTypes
  BY TypeParts
<1>2. file[a] \in Files /\ engine[a] \in Engines /\ round[a] \in Rounds
  BY <1>1 DEF AdminTypes
<1>3. CASE ReadTable(a)
  <2>. DEFINE S == Table(round[a].table) \cap file[a].dirty
              rows == [q \in Row |-> IF q \in S THEN file[a].row[q] ELSE round[a].rows[q]]
              r == [round[a] EXCEPT !.table = @ + 1, !.read = @ \cup S, !.rows = rows]
  <2>1. S \in SUBSET Row /\ rows \in [Row -> Version]
    BY <1>2 DEF Files, Rounds
  <2>2. round[a].table <= LastTable
    BY <1>3 DEF ReadTable
  <2>3. round' = [round EXCEPT ![a] = r]
    BY <1>1, <1>3 DEF ReadTable, AdminTypes
  <2>. HIDE DEF S, rows
  <2>4. r \in Rounds
    BY <1>2, <2>1, <2>2, RoundTypes
  <2>. HIDE DEF r
  <2>5. round' \in [Admin -> Rounds]
    BY <1>1, <2>3, <2>4 DEF AdminTypes
  <2>. QED
    BY <1>1, <1>3, <2>5 DEF ReadTable, ServerTypes, AdminTypes, serverVars
<1>4. CASE Ask(a)
  <2>. DEFINE c == IF round[a].full THEN 0 ELSE file[a].cursor
              r == [round[a] EXCEPT !.phase = "asked", !.queue = file[a].queue, !.cursor = c]
  <2>1. file[a].queue \in SUBSET Row /\ c \in Nat
    BY <1>2 DEF Files
  <2>2. round' = [round EXCEPT ![a] = r]
    BY <1>4 DEF Ask
  <2>. HIDE DEF c
  <2>3. r \in Rounds
    BY <1>2, <2>1, RoundTypes
  <2>. HIDE DEF r
  <2>4. round' \in [Admin -> Rounds]
    BY <1>1, <2>2, <2>3 DEF AdminTypes
  <2>. QED
    BY <1>1, <1>4, <2>4 DEF Ask, ServerTypes, AdminTypes, serverVars
<1>5. CASE Answer(a)
  <2>1. ServerTypes' /\ AnswerTo(round[a]) \in Answers
    BY <1>1, <1>2, <1>5, MergeTypes DEF Answer
  <2>. DEFINE ans == AnswerTo(round[a])
              r == [round[a] EXCEPT !.phase = "answered", !.answer = ans]
  <2>2. round' = [round EXCEPT ![a] = r]
    BY <1>5 DEF Answer
  <2>. HIDE DEF ans
  <2>3. r \in Rounds
    BY <1>2, <2>1, RoundTypes DEF ans
  <2>. HIDE DEF r
  <2>4. round' \in [Admin -> Rounds]
    BY <1>1, <2>2, <2>3 DEF AdminTypes
  <2>. QED
    BY <1>1, <1>5, <2>1, <2>4 DEF Answer, AdminTypes
<1>6. CASE Refuse(a)
  BY <1>1, <1>6, StruckTypes DEF Refuse, ServerTypes, AdminTypes, serverVars
<1>7. CASE Lose(a)
  BY <1>1, <1>7, EndTypes DEF Lose, ServerTypes, AdminTypes, serverVars
<1>8. CASE Apply(a)
  <2>. DEFINE f == Cleared(a)
              ans == round[a].answer
              g == Upserted(f, ans)
              r == [round[a] EXCEPT !.phase = "applying", !.undo = file[a]]
  <2>1. UNCHANGED serverVars
    BY <1>8 DEF Apply
  <2>2. CASE Collisions(f, ans) \cap f.dirty # {}
    <3>1. Struck(a, "unique") /\ file' = file
      BY <1>8, <2>2 DEF Apply
    <3>. QED
      BY <1>1, <2>1, <3>1, StruckTypes DEF ServerTypes, AdminTypes, serverVars
  <2>3. CASE Collisions(f, ans) \cap f.dirty = {}
    <3>1. file' = [file EXCEPT ![a] = g] /\ round' = [round EXCEPT ![a] = r] /\ engine' = engine
      BY <1>8, <2>3 DEF Apply
    <3>2. f \in Files
      BY <1>1, ClearedTypes
    <3>3. ans \in Answers
      BY <1>2 DEF Rounds
    <3>. HIDE DEF f, ans
    <3>4. g \in Files
      BY <3>2, <3>3, UpsertedTypes
    <3>5. r \in Rounds
      BY <1>2, RoundTypes
    <3>. HIDE DEF g, r
    <3>. QED
      BY <1>1, <2>1, <3>1, <3>4, <3>5 DEF ServerTypes, AdminTypes, serverVars
  <2>. QED
    BY <2>2, <2>3
<1>9. CASE Commit(a)
  <2>. DEFINE g == Applied(a)
  <2>1. UNCHANGED serverVars
    BY <1>9 DEF Commit
  <2>2. g \in Files /\ round[a].undo \in Files
    BY <1>1, <1>2, AppliedTypes DEF Rounds
  <2>3. CASE FkHolds(g.row)
    <3>1. file' = [file EXCEPT ![a] = g] /\ Succeeded(a)
      BY <1>9, <2>3 DEF Commit
    <3>2. engine' \in [Admin -> Engines] /\ round' \in [Admin -> Rounds]
      BY <1>1, <3>1, EndTypes
    <3>. HIDE DEF g
    <3>. QED
      BY <1>1, <2>1, <2>2, <3>1, <3>2 DEF ServerTypes, AdminTypes, serverVars
  <2>4. CASE ~FkHolds(g.row)
    <3>1. file' = [file EXCEPT ![a] = round[a].undo] /\ Struck(a, "fk")
      BY <1>9, <2>4 DEF Commit
    <3>2. engine' \in [Admin -> Engines] /\ round' \in [Admin -> Rounds]
      BY <1>1, <3>1, StruckTypes
    <3>. QED
      BY <1>1, <2>1, <2>2, <3>1, <3>2 DEF ServerTypes, AdminTypes, serverVars
  <2>. QED
    BY <2>3, <2>4
<1>. QED
  BY <1>3, <1>4, <1>5, <1>6, <1>7, <1>8, <1>9 DEF Step

\* The server's own writes.
LEMMA ServerWriteTypes ==
    ASSUME TypeOK,
           \/ \E q \in Role : Revoke(q) \/ \E tag \in Tags(q) : Grant(q, tag)
           \/ \E d \in Dict : TearDown(d)
    PROVE  ServerTypes'
<1>1. ServerTypes
  BY TypeParts
<1>2. CASE \E q \in Role : Revoke(q)
  <2>1. PICK q \in Role : Revoke(q)
    BY <1>2
  <2>2. row' \in [Row -> Version]
    BY <1>1, <2>1, RowTypes DEF Revoke, ServerTypes
  <2>3. counter' \in Nat /\ seq' = seq /\ clock' = clock
    BY <1>1, <2>1 DEF Revoke, ServerTypes
  <2>4. grave' = [grave EXCEPT ![q] = counter'] /\ grave \in [Row -> Nat]
    BY <1>1, <2>1 DEF Revoke, ServerTypes
  <2>5. grave' \in [Row -> Nat]
    BY <2>3, <2>4
  <2>. QED
    BY <1>1, <2>2, <2>3, <2>5 DEF ServerTypes
<1>3. CASE \E d \in Dict : TearDown(d)
  <2>1. PICK d \in Dict : TearDown(d)
    BY <1>3
  <2>2. row' \in [Row -> Version] /\ counter' \in Nat /\ seq' = seq /\ clock' = clock
    BY <1>1, <2>1, RowTypes DEF TearDown, ServerTypes
  <2>3. grave' \in [Row -> Nat]
    BY <1>1, <2>1 DEF TearDown, ServerTypes
  <2>. QED
    BY <1>1, <2>2, <2>3 DEF ServerTypes
<1>4. CASE \E q \in Role : \E tag \in Tags(q) : Grant(q, tag)
  <2>a. PICK q \in Role : \E tag \in Tags(q) : Grant(q, tag)
    BY <1>4
  <2>1. PICK tag \in Tags(q) : Grant(q, tag)
    BY <2>a
  <2>b. q \in Row /\ clock + 1 \in Nat
    BY <1>1 DEF ServerTypes, Row
  <2>c. tag \in Tag
    BY <2>b, RowTypes
  <2>2. q \in Row /\ Fresh(clock + 1, tag) \in Version /\ clock' = clock + 1 /\ grave' = grave
    BY <2>b, <2>c, <2>1, RowTypes DEF Grant
  <2>3. \/ row' = [row EXCEPT ![q] = Fresh(clock + 1, tag)] /\ Numbered(q)
        \/ \E p \in Role : /\ row' = [row EXCEPT ![p].stamp = clock + 1, ![p].text = clock + 1]
                           /\ Numbered(p)
    BY <2>1 DEF Grant
  <2>4. ASSUME NEW p \in Role
        PROVE  p \in Row /\ [row[p] EXCEPT !.stamp = clock + 1, !.text = clock + 1] \in Version
    <3>1. p \in Row /\ row[p] \in Version
      BY <1>1 DEF ServerTypes, Row
    <3>. QED
      BY <2>b, <3>1, VersionEdits
  <2>5. row' \in [Row -> Version]
    BY <1>1, <2>2, <2>3, <2>4 DEF ServerTypes
  <2>6. counter \in Nat /\ seq \in [Row -> Nat] /\ counter' = counter + 1
        /\ \E p \in Role : seq' = [seq EXCEPT ![p] = counter']
    BY <1>1, <2>3 DEF ServerTypes, Numbered
  <2>7. counter' \in Nat /\ seq' \in [Row -> Nat]
    <3>1. PICK p \in Role : seq' = [seq EXCEPT ![p] = counter']
      BY <2>6
    <3>2. counter' \in Nat
      BY <2>6
    <3>. QED
      BY <2>6, <3>1, <3>2
  <2>. QED
    BY <1>1, <2>b, <2>2, <2>5, <2>7 DEF ServerTypes
<1>. QED
  BY <1>2, <1>3, <1>4

LEMMA MessageTypes ==
    ASSUME TypeOK, NEW q \in Message,
           Post(q) \/ Reply(q) \/ ReplyBumps(q) \/ ReplySent(q) \/ ReplyFails(q)
    PROVE  ServerTypes' /\ outbox' \in [Message -> Outboxes]
<1>1. ServerTypes /\ outbox \in [Message -> Outboxes]
  BY TypeParts
<1>2. q \in Row /\ Parent[q] \in Row /\ clock + 1 \in Nat /\ outbox[q].now \in Nat
  BY <1>1, Children DEF ServerTypes, Row, Outboxes, Child
<1>3. Fresh(clock + 1, "plain") \in Version
  BY <1>2, RowTypes DEF Tag
<1>4. ASSUME NEW S, Numbers(S) PROVE counter' \in Nat /\ seq' \in [Row -> Nat]
  BY <1>1, <1>4 DEF Numbers, ServerTypes
<1>5. CASE Post(q)
  <2>1. PICK text \in {clock + 1, row[Parent[q]].text} :
            row' = [row EXCEPT ![q] = Fresh(clock + 1, "plain"),
                               ![Parent[q]].stamp = clock + 1, ![Parent[q]].text = text]
    BY <1>5 DEF Post
  <2>2. text \in Nat
    BY <1>1, <1>2 DEF ServerTypes, Version
  <2>. DEFINE w == [row EXCEPT ![q] = Fresh(clock + 1, "plain")]
              v == [w[Parent[q]] EXCEPT !.stamp = clock + 1, !.text = text]
  <2>3. w \in [Row -> Version]
    BY <1>1, <1>3 DEF ServerTypes
  <2>4. v \in Version
    BY <1>2, <2>2, <2>3, VersionEdits
  <2>5. row' = [w EXCEPT ![Parent[q]] = v]
    BY <1>1, <1>2, <2>1, <2>3 DEF ServerTypes
  <2>. HIDE DEF w, v
  <2>6. row' \in [Row -> Version]
    BY <2>3, <2>4, <2>5
  <2>. QED
    BY <1>1, <1>5, <2>6 DEF Post, ServerTypes
<1>6. CASE Reply(q)
  BY <1>1, <1>2, <1>3, <1>6 DEF Reply, Numbered, ServerTypes, Outboxes
<1>7. CASE ReplyBumps(q)
  <2>1. row' \in [Row -> Version]
    BY <1>1, <1>2, <1>7, RowTypes DEF ReplyBumps, ServerTypes
  <2>. QED
    BY <1>1, <1>4, <1>7, <2>1 DEF ReplyBumps, ServerTypes, Outboxes
<1>8. CASE ReplySent(q)
  <2>1. Stamped(row, q, clock + 1) \in [Row -> Version]
    BY <1>1, <1>2, RowTypes DEF ServerTypes
  <2>2. row' \in [Row -> Version]
    BY <1>2, <1>8, <2>1, RowTypes DEF ReplySent
  <2>. QED
    BY <1>1, <1>2, <1>4, <1>8, <2>2, Literals DEF ReplySent, ServerTypes
<1>9. CASE ReplyFails(q)
  <2>1. row' \in [Row -> Version]
    BY <1>1, <1>2, <1>9, RowTypes DEF ReplyFails, ServerTypes
  <2>. QED
    BY <1>1, <1>2, <1>4, <1>9, <2>1, Literals DEF ReplyFails, ServerTypes
<1>. QED
  BY <1>5, <1>6, <1>7, <1>8, <1>9

LEMMA MarkTypes ==
    ASSUME TypeOK, NEW d \in Dict, NEW ts \in Nat, Marks(d, ts)
    PROVE  ServerTypes'
<1>1. ServerTypes /\ d \in Row
  BY TypeParts DEF Row
<1>2. [row[d] EXCEPT !.uploaded = ts] \in Version
  BY <1>1, VersionEdits DEF ServerTypes
<1>3. CASE row[d].live
  <2>1. row' = [row EXCEPT ![d].uploaded = ts] /\ Numbered(d) /\ UNCHANGED <<grave, clock>>
    BY <1>3 DEF Marks
  <2>2. row' \in [Row -> Version]
    BY <1>1, <1>2, <2>1 DEF ServerTypes
  <2>. QED
    BY <1>1, <2>1, <2>2 DEF ServerTypes, Numbered
<1>4. CASE ~row[d].live
  BY <1>1, <1>4 DEF Marks, ServerTypes, serverVars
<1>. QED
  BY <1>3, <1>4

LEMMA ContentTypes ==
    ASSUME TypeOK, NEW d \in Dict,
           Push(d) \/ PushUnmirrored(d) \/ PushInVain(d) \/ Remove(d) \/ RemoveSnapshot(d)
           \/ RemoveSnapshotFails(d)
    PROVE  ServerTypes' /\ SweepTypes'
<1>1. ServerTypes /\ SweepTypes /\ d \in Row
  BY TypeParts DEF Row
<1>2. ASSUME NEW s \in Nat PROVE Mirrored(d, s) \in [Row -> Version]
  <2>1. [row[d] EXCEPT !.stamp = s] \in Version
    BY <1>1, VersionEdits DEF ServerTypes
  <2>. QED
    BY <1>1, <2>1 DEF Mirrored, ServerTypes
<1>3. CASE Push(d)
  <2>1. row' \in [Row -> Version]
    BY <1>1, <1>2, <1>3 DEF Push, ServerTypes
  <2>. QED
    BY <1>1, <1>3, <2>1 DEF Push, Numbered, ServerTypes, SweepTypes
<1>4. CASE PushUnmirrored(d)
  BY <1>1, <1>4 DEF PushUnmirrored, ServerTypes, SweepTypes
<1>5. CASE PushInVain(d)
  <2>1. row' \in [Row -> Version]
    BY <1>1, <1>2, <1>5 DEF PushInVain, SweepTypes
  <2>. QED
    BY <1>1, <1>5, <2>1 DEF PushInVain, Numbered, ServerTypes, SweepTypes, sweepVars
<1>6. CASE Remove(d)
  <2>1. ServerTypes'
    BY <1>6, ServerWriteTypes DEF Remove
  <2>. QED
    BY <1>1, <1>6, <2>1 DEF Remove, SweepTypes, Blank
<1>7. CASE RemoveSnapshot(d) \/ RemoveSnapshotFails(d)
  BY <1>1, <1>7 DEF RemoveSnapshot, RemoveSnapshotFails, ServerTypes, SweepTypes, serverVars
<1>. QED
  BY <1>3, <1>4, <1>5, <1>6, <1>7

LEMMA SweepStates ==
    ASSUME NEW w \in Sweeps
    PROVE  /\ \A D \in SUBSET Dict : [NoSweep EXCEPT !.pc = "withdraw", !.todo = D] \in Sweeps
           /\ \A D \in SUBSET Dict : [NoSweep EXCEPT !.pc = "build", !.todo = D] \in Sweeps
           /\ \A d \in Dict : [w EXCEPT !.todo = @ \ {d}, !.at = {d}] \in Sweeps
           /\ \A d \in Dict : [w EXCEPT !.todo = @ \ {d}] \in Sweeps
           /\ [w EXCEPT !.at = {}] \in Sweeps
           /\ \A d \in Dict, s \in Nat : [w EXCEPT !.todo = @ \ {d}, !.at = {d}, !.ts = s] \in Sweeps
           /\ \A s \in Nat : [w EXCEPT !.bytes = s] \in Sweeps
           /\ [w EXCEPT !.pc = "mark"] \in Sweeps
BY DEF Sweeps, NoSweep

LEMMA SweepStepTypes ==
    ASSUME TypeOK,
           \/ Sweep \/ \E d \in Dict : WithdrawFails(d) \/ BuildFails(d)
           \/ Restart
    PROVE  ServerTypes' /\ SweepTypes'
<1>1. ServerTypes /\ SweepTypes /\ sweep \in Sweeps
  BY TypeParts DEF SweepTypes
<1>2. Rest \in Sweeps /\ NoSweep \in Sweeps
  BY <1>1, SweepStates, Literals DEF Rest, Sweeps
<1>3. CASE SweepBegins
  <2>. DEFINE late == IF reconciled THEN {} ELSE Behind
              D == {d \in Dict : Secure(d) /\ row[d].uploaded # 0}
  <2>1. /\ row' = [q \in Row |-> IF q \in late THEN [row[q] EXCEPT !.stamp = content[q]] ELSE row[q]]
        /\ seq' = [q \in Row |-> IF q \in late THEN counter + 1 ELSE seq[q]]
        /\ counter' = IF late = {} THEN counter ELSE counter + 1
        /\ sweep' = [NoSweep EXCEPT !.pc = "withdraw", !.todo = D]
    BY <1>3 DEF SweepBegins
  <2>2. late \subseteq Dict
    BY DEF Behind
  <2>3. \A q \in late : [row[q] EXCEPT !.stamp = content[q]] \in Version
    BY <1>1, <2>2, VersionEdits DEF ServerTypes, SweepTypes, Row
  <2>4. sweep' \in Sweeps
    BY <2>1, SweepStates, <1>1
  <2>. HIDE DEF late
  <2>5. row' \in [Row -> Version] /\ seq' \in [Row -> Nat] /\ counter' \in Nat
    BY <1>1, <2>1, <2>3 DEF ServerTypes
  <2>. QED
    BY <1>1, <1>3, <2>4, <2>5 DEF SweepBegins, ServerTypes, SweepTypes
<1>4. CASE List
  <2>. DEFINE due == {d \in Dict : Due(d)}
  <2>1. sweep' \in Sweeps
    BY <1>1, <1>2, <1>4, SweepStates DEF List
  <2>. QED
    BY <1>1, <1>4, <2>1 DEF List, ServerTypes, SweepTypes, serverVars
<1>5. ASSUME NEW d \in Dict, WithdrawObject(d) \/ WithdrawFails(d)
      PROVE  ServerTypes' /\ SweepTypes'
  <2>1. sweep' \in Sweeps
    BY <1>1, <1>5, SweepStates DEF WithdrawObject, WithdrawFails
  <2>. QED
    BY <1>1, <1>5, <2>1 DEF WithdrawObject, WithdrawFails, ServerTypes, SweepTypes, serverVars
<1>6. ASSUME NEW d \in Dict, WithdrawMark(d) PROVE ServerTypes' /\ SweepTypes'
  <2>1. ServerTypes'
    BY <1>6, MarkTypes DEF WithdrawMark
  <2>2. sweep' \in Sweeps
    BY <1>1, <1>6, SweepStates DEF WithdrawMark
  <2>. QED
    BY <1>1, <1>6, <2>1, <2>2 DEF WithdrawMark, SweepTypes
<1>7. ASSUME NEW d \in Dict, BuildBegins(d) PROVE ServerTypes' /\ SweepTypes'
  <2>1. sweep' \in Sweeps
    BY <1>1, <1>7, SweepStates DEF BuildBegins, ServerTypes
  <2>. QED
    BY <1>1, <1>7, <2>1 DEF BuildBegins, ServerTypes, SweepTypes, serverVars
<1>8. ASSUME NEW d \in Dict, Copy(d) \/ Upload(d) PROVE ServerTypes' /\ SweepTypes'
  <2>a. sweep.bytes \in Nat /\ content[d] \in Nat
    BY <1>1 DEF SweepTypes, Sweeps
  <2>1. sweep' \in Sweeps /\ sweep.bytes \in Nat
    BY <1>1, <1>8, <2>a, SweepStates DEF Copy, Upload
  <2>. QED
    BY <1>1, <1>8, <2>1 DEF Copy, Upload, ServerTypes, SweepTypes, serverVars
<1>9. ASSUME NEW d \in Dict, Mark(d) PROVE ServerTypes' /\ SweepTypes'
  <2>1. ServerTypes'
    BY <1>1, <1>9, MarkTypes DEF Mark, Sweeps
  <2>. QED
    BY <1>1, <1>2, <1>9, <2>1 DEF Mark, SweepTypes
<1>10. ASSUME NEW d \in Dict, BuildFails(d) PROVE ServerTypes' /\ SweepTypes'
  BY <1>1, <1>2, <1>10 DEF BuildFails, ServerTypes, SweepTypes, serverVars
<1>11. CASE Restart
  BY <1>1, <1>2, <1>11 DEF Restart, ServerTypes, SweepTypes, serverVars
<1>. QED
  BY <1>3, <1>4, <1>5, <1>6, <1>7, <1>8, <1>9, <1>10, <1>11 DEF Sweep

LEMMA SpendTypes ==
    ASSUME left \in [Events -> Nat], NEW e \in Events, Spend(e)
    PROVE  left' \in [Events -> Nat]
BY DEF Spend

LEMMA NextTypes == TypeOK /\ [Next]_vars /\ MediaTypes' => TypeOK'
<1>1. SUFFICES ASSUME TypeOK, [Next]_vars, MediaTypes' PROVE TypeOK'
  OBVIOUS
<1>2. ServerTypes /\ AdminTypes /\ SweepTypes /\ outbox \in [Message -> Outboxes]
      /\ left \in [Events -> Nat]
  BY <1>1, TypeParts
<1>3. SUFFICES ServerTypes' /\ AdminTypes' /\ SweepTypes' /\ outbox' \in [Message -> Outboxes]
               /\ left' \in [Events -> Nat]
  BY <1>1 DEF TypeOK, ServerTypes, AdminTypes, SweepTypes, Outboxes
<1>4. left' \in [Events -> Nat]
  <2>1. (\E e \in Events : Spend(e)) \/ left' = left
    BY <1>1 DEF Next, AdminStep, Edited, Disturbed, Runs, ServerStep, DictStep, SweepStep, MediaStep,
                vars, Events
  <2>. QED
    BY <1>2, <2>1, SpendTypes
<1>5. CASE AdminStep
  <2>1. PICK a \in Admin : (Edited(a) \/ Disturbed(a) \/ Runs(a)) /\ UNCHANGED <<sweepVars, mediaVars, outbox>>
    BY <1>5 DEF AdminStep
  <2>2. SweepTypes' /\ outbox' \in [Message -> Outboxes]
    BY <1>2, <2>1 DEF SweepTypes, sweepVars
  <2>3. ServerTypes' /\ AdminTypes'
    BY <1>1, <2>1, PageTypes, StepTypes DEF Edited, Disturbed, Runs, Row
  <2>. QED
    BY <1>4, <2>2, <2>3
<1>6. CASE ServerStep
  <2>1. AdminTypes' /\ SweepTypes'
    BY <1>2, <1>6 DEF ServerStep, AdminTypes, SweepTypes, adminVars, sweepVars
  <2>2. \/ (\E q \in Role : \E tag \in Tags(q) : Grant(q, tag)) /\ outbox' = outbox
        \/ (\E q \in Role : Revoke(q)) /\ outbox' = outbox
        \/ \E q \in Message : Post(q) \/ Reply(q) \/ ReplyBumps(q) \/ ReplySent(q) \/ ReplyFails(q)
    BY <1>6 DEF ServerStep, Grant
  <2>. QED
    BY <1>1, <1>2, <1>4, <2>1, <2>2, ServerWriteTypes, MessageTypes
<1>7. CASE DictStep
  <2>1. AdminTypes' /\ outbox' \in [Message -> Outboxes]
    BY <1>2, <1>7 DEF DictStep, AdminTypes, adminVars
  <2>. QED
    BY <1>1, <1>4, <1>7, <2>1, ContentTypes DEF DictStep
<1>8. CASE SweepStep
  <2>1. AdminTypes' /\ outbox' \in [Message -> Outboxes]
    BY <1>2, <1>8, Literals DEF SweepStep, AdminTypes, adminVars
  <2>. QED
    BY <1>1, <1>4, <1>8, <2>1, SweepStepTypes, ContentTypes DEF SweepStep
<1>9. CASE MediaStep
  <2>1. UNCHANGED <<serverVars, adminVars, sweepVars, outbox>>
    BY <1>9 DEF MediaStep
  <2>. QED
    BY <1>2, <1>4, <2>1 DEF serverVars, adminVars, sweepVars, ServerTypes, AdminTypes, SweepTypes
<1>10. CASE UNCHANGED vars
  BY <1>2, <1>10 DEF vars, serverVars, adminVars, sweepVars, ServerTypes, AdminTypes, SweepTypes
<1>. QED
  BY <1>1, <1>5, <1>6, <1>7, <1>8, <1>9, <1>10 DEF Next

-------------------------------------------------------------------------------
(* Soundness of copies: what they hold, the server has had.                  *)

LEMMA Later ==
    ASSUME NEW S \in SUBSET Row, NEW T \in SUBSET Row, NEW G \in SUBSET Row, NEW H \in SUBSET Row,
           NEW c \in Nat, NEW d \in Nat, S \subseteq T, G \subseteq H, c <= d
    PROVE  /\ \A f \in Files : SoundFile(f, S, G, c) => SoundFile(f, T, H, d)
           /\ \A r \in Rounds : SoundRound(r, S, G, c) => SoundRound(r, T, H, d)
<1>1. ASSUME NEW v \in Version, NEW q \in Row, Sound(q, v, S, c) PROVE Sound(q, v, T, d)
  BY <1>1 DEF Sound, Version
<1>2. ASSUME NEW f \in Files, SoundFile(f, S, G, c) PROVE SoundFile(f, T, H, d)
  <2>1. \A q \in Row : f.row[q] \in Version
    BY DEF Files
  <2>. QED
    BY <1>1, <1>2, <2>1 DEF SoundFile, Queued
<1>3. ASSUME NEW r \in Rounds, SoundRound(r, S, G, c) PROVE SoundRound(r, T, H, d)
  <2>1. r.undo \in Files /\ \A q \in Row : r.rows[q] \in Version /\ r.answer.rows[q] \in Version
    BY DEF Rounds, Answers
  <2>. QED
    BY <1>1, <1>2, <1>3, <2>1 DEF SoundRound, Queued
<1>. QED
  BY <1>2, <1>3

LEMMA SoundLiterals ==
    ASSUME NEW S, NEW G, NEW c \in Nat
    PROVE  /\ \A q : Sound(q, Absent, S, c)
           /\ SoundFile(NoFile, S, G, c) /\ SoundRound(NoRound, S, G, c)
           /\ \A full : SoundRound(Begun(full), S, G, c)
<1>1. \A q : Sound(q, Absent, S, c)
  BY DEF Sound, Absent
<1>2. SoundFile(NoFile, S, G, c)
  BY <1>1 DEF SoundFile, NoFile
<1>3. SoundRound(NoRound, S, G, c)
  <2>. HIDE DEF NoFile, Absent
  <2>. QED
    BY <1>1, <1>2 DEF SoundRound, NoRound, NoAnswer
<1>4. ASSUME NEW full PROVE SoundRound(Begun(full), S, G, c)
  <2>1. Begun(full).rows = NoRound.rows /\ Begun(full).read = NoRound.read
        /\ Begun(full).queue = NoRound.queue /\ Begun(full).answer = NoRound.answer
        /\ Begun(full).undo = NoRound.undo
    BY DEF Begun, NoRound
  <2>. QED
    BY <1>3, <2>1 DEF SoundRound
<1>. QED
  BY <1>1, <1>2, <1>3, <1>4

LEMMA DroppedParts ==
    ASSUME NEW f \in Files, NEW D
    PROVE  /\ Dropped(f, D).row = Without(f.row, D)
           /\ Dropped(f, D).dirty = f.dirty \ WithChildren(D)
           /\ Dropped(f, D).queue = f.queue
BY DEF Dropped, Files

LEMMA SoundDropped ==
    ASSUME NEW S, NEW G, NEW c \in Nat, NEW f \in Files, SoundFile(f, S, G, c), NEW D
    PROVE  SoundFile(Dropped(f, D), S, G, c)
<1>1. \A q \in Row : Without(f.row, D)[q] = IF q \in WithChildren(D) THEN Absent ELSE f.row[q]
  BY DEF Without
<1>2. f.dirty \subseteq Row
  BY DEF Files
<1>. DEFINE g == Dropped(f, D)
<1>3. \A q \in Row : g.row[q] = IF q \in WithChildren(D) THEN Absent ELSE f.row[q]
  BY <1>1, DroppedParts
<1>4. g.dirty = f.dirty \ WithChildren(D) /\ g.queue = f.queue
  BY DroppedParts
<1>. HIDE DEF g
<1>5. \A q \in Row : Sound(q, g.row[q], S, c)
  BY <1>3, SoundLiterals DEF SoundFile
<1>6. \A q \in g.dirty : Flag(q, g.row[q])
  BY <1>2, <1>3, <1>4 DEF SoundFile
<1>7. SoundFile(g, S, G, c)
  BY <1>4, <1>5, <1>6 DEF SoundFile
<1>. QED
  BY <1>7 DEF g

LEMMA SoundUpserted ==
    ASSUME NEW S, NEW G, NEW c \in Nat, NEW f \in Files, NEW ans \in Answers,
           SoundFile(f, S, G, c), \A q \in Row : Sound(q, ans.rows[q], S, c),
           Collisions(f, ans) \cap f.dirty = {}
    PROVE  SoundFile(Upserted(f, ans), S, G, c)
<1>. DEFINE out == Collisions(f, ans)
            rows == [q \in Row |-> IF q \in ans.changes THEN ans.rows[q]
                                   ELSE IF q \in out THEN Absent ELSE f.row[q]]
<1>1. /\ Upserted(f, ans).row = rows
      /\ Upserted(f, ans).dirty = f.dirty \ ans.changes
      /\ Upserted(f, ans).queue = f.queue
  BY DEF Upserted, Files
<1>2. f.dirty \subseteq Row
  BY DEF Files
<1>3. \A q \in Row : Sound(q, rows[q], S, c)
  BY SoundLiterals DEF SoundFile
<1>4. \A q \in f.dirty \ ans.changes : rows[q] = f.row[q]
  BY <1>2
<1>. HIDE DEF rows
<1>. QED
  BY <1>1, <1>2, <1>3, <1>4 DEF SoundFile

LEMMA SeenTypes == Seen \in SUBSET Row /\ Gone \in SUBSET Row
BY DEF Seen, Gone

LEMMA SoundCleared ==
    ASSUME AdminTypes, NEW a \in Admin, NEW S, NEW G, NEW c \in Nat, SoundFile(file[a], S, G, c)
    PROVE  SoundFile(Cleared(a), S, G, c)
<1>. DEFINE f == Dropped(file[a], DeletesApplied(a))
<1>1. file[a] \in Files
  BY DEF AdminTypes
<1>2. f \in Files /\ SoundFile(f, S, G, c)
  BY <1>1, SoundDropped, FileTypes
<1>3. Cleared(a).row = f.row /\ Cleared(a).dirty = f.dirty /\ Cleared(a).queue = f.queue
  BY <1>2 DEF Cleared, Files
<1>. HIDE DEF f
<1>. QED
  BY <1>2, <1>3 DEF SoundFile

LEMMA SoundApplied ==
    ASSUME AdminTypes, NEW a \in Admin, NEW S, NEW G, NEW c \in Nat, SoundFile(file[a], S, G, c)
    PROVE  SoundFile(Applied(a), S, G, c)
<1>. DEFINE f == [file[a] EXCEPT !.dirty = Flagged(a)]
            g == Dropped(f, Ghosts(a))
<1>1. file[a] \in Files
  BY DEF AdminTypes
<1>2. Flagged(a) \subseteq file[a].dirty /\ file[a].dirty \subseteq Row
  BY <1>1 DEF Flagged, Files
<1>3. f \in Files
  BY <1>1, <1>2, FileTypes
<1>4. f.row = file[a].row /\ f.queue = file[a].queue /\ f.dirty = Flagged(a)
  BY <1>1 DEF Files
<1>5. Applied(a) = [g EXCEPT !.cursor = round[a].answer.cursor, !.queue = g.queue \ round[a].queue]
  BY DEF Applied
<1>. HIDE DEF f
<1>6. SoundFile(f, S, G, c)
  BY <1>2, <1>4 DEF SoundFile
<1>7. g \in Files /\ SoundFile(g, S, G, c)
  BY <1>3, <1>6, SoundDropped, FileTypes
<1>. HIDE DEF g
<1>8. Applied(a).row = g.row /\ Applied(a).dirty = g.dirty /\ Applied(a).queue \subseteq g.queue
  BY <1>5, <1>7 DEF Files
<1>. QED
  BY <1>7, <1>8 DEF SoundFile

-------------------------------------------------------------------------------
(* The admins' steps.                                                        *)

AllSound(S, G, c) ==
    \A a \in Admin : SoundFile(file[a], S, G, c) /\ SoundRound(round[a], S, G, c)

\* The rows the server has had and those gone stay so.
Grows == Seen \subseteq Seen' /\ Gone \subseteq Gone' /\ clock <= clock'

LEMMA Unread ==
    ASSUME TypeOK, AllSound(Seen, Gone, clock), TypeOK', Grows
    PROVE  /\ UNCHANGED adminVars => AllSound(Seen, Gone, clock)'
           /\ \A f \in Files : SoundFile(f, Seen, Gone, clock) => SoundFile(f, Seen', Gone', clock')
           /\ \A r \in Rounds : SoundRound(r, Seen, Gone, clock) => SoundRound(r, Seen', Gone', clock')
<1>1. clock \in Nat /\ clock' \in Nat
  BY DEF TypeOK
<1>2. Seen \in SUBSET Row /\ Gone \in SUBSET Row /\ Seen' \in SUBSET Row /\ Gone' \in SUBSET Row
  BY DEF Seen, Gone
<1>3. /\ \A f \in Files : SoundFile(f, Seen, Gone, clock) => SoundFile(f, Seen', Gone', clock')
      /\ \A r \in Rounds : SoundRound(r, Seen, Gone, clock) => SoundRound(r, Seen', Gone', clock')
  BY <1>1, <1>2, Later DEF Grows
<1>4. ASSUME UNCHANGED adminVars PROVE AllSound(Seen, Gone, clock)'
  <2>1. file' = file /\ round' = round
    BY <1>4 DEF adminVars
  <2>2. \A a \in Admin : file[a] \in Files /\ round[a] \in Rounds
    BY TypeParts DEF AdminTypes
  <2>. QED
    BY <1>3, <2>1, <2>2 DEF AllSound
<1>. QED
  BY <1>3, <1>4

LEMMA StillSound ==
    ASSUME TypeOK, SoundServer, UNCHANGED <<row, seq, grave, counter>>, clock' \in Nat, clock <= clock'
    PROVE  SoundServer' /\ Grows /\ Seen' = Seen /\ Gone' = Gone
<1>1. Seen' = Seen /\ Gone' = Gone
  BY DEF Seen, Gone
<1>2. clock \in Nat /\ \A q \in Row : row[q].text \in Nat
  BY TypeParts DEF ServerTypes, Version
<1>. QED
  BY <1>1, <1>2 DEF SoundServer, Sound, Grows, FkHolds

LEMMA OneAdmin ==
    ASSUME TypeOK, AllSound(Seen, Gone, clock), TypeOK', Grows, NEW a \in Admin,
           \/ file' = file
           \/ \E f : file' = [file EXCEPT ![a] = f] /\ SoundFile(f, Seen', Gone', clock'),
           \/ round' = round
           \/ \E r : round' = [round EXCEPT ![a] = r] /\ SoundRound(r, Seen', Gone', clock')
    PROVE  AllSound(Seen, Gone, clock)'
<1>1. file \in [Admin -> Files] /\ round \in [Admin -> Rounds]
  BY DEF TypeOK
<1>2. ASSUME NEW b \in Admin
      PROVE  SoundFile(file[b], Seen', Gone', clock') /\ SoundRound(round[b], Seen', Gone', clock')
  <2>1. file[b] \in Files /\ round[b] \in Rounds
    BY <1>1
  <2>. QED
    BY <2>1, Unread DEF AllSound
<1>3. ASSUME NEW b \in Admin PROVE SoundFile(file'[b], Seen', Gone', clock')
  <2>1. CASE file' = file
    BY <1>2, <2>1
  <2>2. CASE \E f : file' = [file EXCEPT ![a] = f] /\ SoundFile(f, Seen', Gone', clock')
    BY <1>1, <1>2, <2>2
  <2>. QED
    BY <2>1, <2>2
<1>4. ASSUME NEW b \in Admin PROVE SoundRound(round'[b], Seen', Gone', clock')
  <2>1. CASE round' = round
    BY <1>2, <2>1
  <2>2. CASE \E r : round' = [round EXCEPT ![a] = r] /\ SoundRound(r, Seen', Gone', clock')
    BY <1>1, <1>2, <2>2
  <2>. QED
    BY <2>1, <2>2
<1>. QED
  BY <1>3, <1>4 DEF AllSound

LEMMA SoundPage ==
    ASSUME IInv, TypeOK', NEW a \in Admin,
           \/ \E q \in Row : \E tag \in Tags(q) : Save(a, q, tag)
           \/ \E q \in Role \cup Thread \cup Message : file[a].row[q].live /\ Delete(a, q)
           \/ \E d \in Dict : grave[d] # 0 /\ Delete(a, d)
           \/ Sync(a) \/ Flush(a) \/ Reload(a) \/ Disconnect(a) \/ Reconnect(a)
    PROVE  SoundServer' /\ AllSound(Seen, Gone, clock)'
<1>1. TypeOK /\ SoundServer /\ AllSound(Seen, Gone, clock)
  BY DEF IInv, AllSound
<1>2. clock \in Nat /\ file \in [Admin -> Files] /\ round \in [Admin -> Rounds]
      /\ file' \in [Admin -> Files] /\ round' \in [Admin -> Rounds] /\ clock' \in Nat
  BY <1>1 DEF TypeOK
<1>3. SoundFile(file[a], Seen, Gone, clock) /\ SoundRound(round[a], Seen, Gone, clock)
  BY <1>1 DEF AllSound
<1>4. UNCHANGED <<row, seq, grave, counter>> /\ clock <= clock'
  <2>1. UNCHANGED <<row, seq, grave, counter>> /\ (clock' = clock \/ clock' = clock + 1)
    <3>1. ASSUME NEW q \in Row, NEW tag \in Tags(q), Save(a, q, tag)
          PROVE  UNCHANGED <<row, seq, grave, counter>> /\ clock' = clock + 1
      BY <3>1, Zenon DEF Save
    <3>2. ASSUME NEW q, Delete(a, q) PROVE UNCHANGED serverVars
      BY <3>2, Zenon DEF Delete
    <3>3. ASSUME Begin(a) PROVE UNCHANGED serverVars
      BY <3>3, Zenon DEF Begin
    <3>4. ASSUME Sync(a) \/ Flush(a) \/ Reload(a) \/ Disconnect(a) \/ Reconnect(a)
          PROVE  UNCHANGED serverVars
      BY <3>3, <3>4, Zenon DEF Sync, Flush, Reload, Disconnect, Reconnect
    <3>. QED
      BY <3>1, <3>2, <3>4 DEF serverVars
  <2>. QED
    BY <1>2, <2>1
<1>5. SoundServer' /\ Grows /\ Seen' = Seen /\ Gone' = Gone
  BY <1>1, <1>2, <1>4, StillSound
<1>6. /\ \A f \in Files : SoundFile(f, Seen, Gone, clock) => SoundFile(f, Seen', Gone', clock')
      /\ \A r \in Rounds : SoundRound(r, Seen, Gone, clock) => SoundRound(r, Seen', Gone', clock')
  BY <1>1, <1>5, Unread
<1>7. SUFFICES /\ \E f : file' = [file EXCEPT ![a] = f] /\ SoundFile(f, Seen', Gone', clock')
               /\ \E r : round' = [round EXCEPT ![a] = r] /\ SoundRound(r, Seen', Gone', clock')
  BY <1>1, <1>5, OneAdmin
<1>8. /\ file' = file => \E f : file' = [file EXCEPT ![a] = f] /\ SoundFile(f, Seen', Gone', clock')
      /\ round' = round => \E r : round' = [round EXCEPT ![a] = r] /\ SoundRound(r, Seen', Gone', clock')
  <2>1. file = [file EXCEPT ![a] = file[a]] /\ round = [round EXCEPT ![a] = round[a]]
    BY <1>2
  <2>2. SoundFile(file[a], Seen', Gone', clock') /\ SoundRound(round[a], Seen', Gone', clock')
    BY <1>2, <1>3, <1>6
  <2>. QED
    BY <2>1, <2>2
<1>9. CASE \E q \in Row : \E tag \in Tags(q) : Save(a, q, tag)
  <2>a. PICK q \in Row : \E tag \in Tags(q) : Save(a, q, tag)
    BY <1>9
  <2>1. PICK tag \in Tags(q) : Save(a, q, tag)
    BY <2>a
  <2>. DEFINE v == [file[a].row[q] EXCEPT !.stamp = clock + 1, !.text = clock + 1, !.tag = tag]
              f == [file[a] EXCEPT !.row[q] = v, !.dirty = @ \cup {q}]
  <2>2. /\ q \notin Message /\ file[a].row[q].live
        /\ file' = [file EXCEPT ![a].row[q] = v, ![a].dirty = @ \cup {q}]
        /\ clock' = clock + 1 /\ round' = round
    BY <2>1 DEF Save
  <2>3. file[a] \in Files /\ file[a].row \in [Row -> Version] /\ file[a].row[q] \in Version
        /\ file[a].dirty \subseteq Row
    BY <1>2 DEF Files
  <2>4. v.live /\ v.text = clock + 1 /\ v.stamp = clock + 1
    BY <2>2, <2>3 DEF Version
  <2>. HIDE DEF v
  <2>5. /\ f.row = [file[a].row EXCEPT ![q] = v]
        /\ f.dirty = file[a].dirty \cup {q} /\ f.queue = file[a].queue
    BY <2>3 DEF Files
  <2>6. file' = [file EXCEPT ![a] = f]
    BY <1>2, <2>2
  <2>. HIDE DEF f
  <2>7. SoundFile(file[a], Seen', Gone', clock')
    BY <1>3, <1>6, <2>3
  <2>8. q \in Seen'
    BY <1>3, <1>5, <2>2 DEF SoundFile, Sound
  <2>9. SoundFile(f, Seen', Gone', clock')
    <3>1. \A p \in Row : Sound(p, f.row[p], Seen', clock')
      BY <1>2, <2>2, <2>3, <2>4, <2>5, <2>7, <2>8 DEF SoundFile, Sound
    <3>2. \A p \in f.dirty : Flag(p, f.row[p])
      BY <2>2, <2>3, <2>4, <2>5, <2>7 DEF SoundFile, Flag
    <3>. QED
      BY <2>5, <2>7, <3>1, <3>2 DEF SoundFile
  <2>. QED
    BY <1>8, <2>2, <2>6, <2>9
<1>10. ASSUME NEW q \in Row, Delete(a, q), q \in Seen, q \in Dict => q \in Gone
       PROVE  /\ \E f : file' = [file EXCEPT ![a] = f] /\ SoundFile(f, Seen', Gone', clock')
              /\ \E r : round' = [round EXCEPT ![a] = r] /\ SoundRound(r, Seen', Gone', clock')
  <2>. DEFINE g == Dropped(file[a], {q})
              f == [g EXCEPT !.queue = file[a].queue \cup {q}]
  <2>1. file' = [file EXCEPT ![a] = f] /\ round' = round
    BY <1>10 DEF Delete
  <2>2. g \in Files /\ SoundFile(g, Seen', Gone', clock') /\ g.queue = file[a].queue
    BY <1>2, <1>3, <1>6, SoundDropped, FileTypes, DroppedParts
  <2>. HIDE DEF g
  <2>3. f.row = g.row /\ f.dirty = g.dirty /\ f.queue = g.queue \cup {q}
    BY <2>2 DEF Files
  <2>. HIDE DEF f
  <2>4. SoundFile(f, Seen', Gone', clock')
    BY <1>5, <1>10, <2>2, <2>3 DEF SoundFile, Queued
  <2>. QED
    BY <1>8, <2>1, <2>4
<1>11. CASE \E q \in Role \cup Thread \cup Message : file[a].row[q].live /\ Delete(a, q)
  <2>1. PICK q \in Role \cup Thread \cup Message : file[a].row[q].live /\ Delete(a, q)
    BY <1>11
  <2>2. q \in Row /\ q \notin Dict
    BY CatalogAssumption DEF Row
  <2>3. q \in Seen
    BY <1>3, <2>1, <2>2 DEF SoundFile, Sound
  <2>. QED
    BY <1>10, <2>1, <2>2, <2>3
<1>12. CASE \E d \in Dict : grave[d] # 0 /\ Delete(a, d)
  <2>1. PICK d \in Dict : grave[d] # 0 /\ Delete(a, d)
    BY <1>12
  <2>2. d \in Row /\ d \in Gone /\ d \in Seen
    BY <1>1, <2>1 DEF Row, Gone, Seen, SoundServer
  <2>. QED
    BY <1>10, <2>1, <2>2
<1>13. /\ SoundRound(NoRound, Seen', Gone', clock')
       /\ \A full : SoundRound(Begun(full), Seen', Gone', clock')
  BY <1>2, SoundLiterals
<1>14. CASE Sync(a) \/ Flush(a) \/ Disconnect(a) \/ Reconnect(a)
  BY <1>8, <1>13, <1>14 DEF Sync, Flush, Begin, Disconnect, Reconnect
<1>15. CASE Reload(a)
  <2>1. SoundFile(round[a].undo, Seen', Gone', clock')
    <3>1. round[a].undo \in Files
      BY <1>2 DEF Rounds
    <3>. QED
      BY <1>3, <1>6, <3>1 DEF SoundRound
  <2>2. SoundFile(file[a], Seen', Gone', clock')
    BY <1>2, <1>3, <1>6
  <2>. QED
    BY <1>13, <1>15, <2>1, <2>2 DEF Reload
<1>. QED
  BY <1>9, <1>11, <1>12, <1>14, <1>15

-------------------------------------------------------------------------------
(* The server's steps.                                                       *)

\* A step that restamps rows or writes new ones under parents that are there.
LEMMA Kept ==
    ASSUME TypeOK, TypeOK', SoundServer, grave' = grave, clock <= clock',
           \A q \in Row : row'[q].text <= clock' /\ (seq[q] # 0 => seq'[q] # 0),
           \A q \in Row : row[q].live => row'[q].live,
           \A q \in Row : row'[q].live /\ ~row[q].live =>
               seq[q] = 0 /\ seq'[q] # 0 /\ q \in Child /\ row[Parent[q]].live
    PROVE  SoundServer' /\ Grows
<1>1. Seen \subseteq Seen' /\ Gone \subseteq Gone'
  BY DEF Seen, Gone
<1>2. \A q \in Row : row'[q].live => q \in Seen'
  BY DEF SoundServer, Sound, Seen
<1>3. \A q \in Row : grave'[q] # 0 => seq'[q] # 0 /\ ~row'[q].live
  BY DEF SoundServer
<1>4. FkHolds(row')
  BY Children DEF SoundServer, FkHolds, Child
<1>. QED
  BY <1>1, <1>2, <1>3, <1>4 DEF SoundServer, Sound, Grows, FkHolds

\* A step that deletes rows, and their children with them.
LEMMA Killed ==
    ASSUME TypeOK, TypeOK', SoundServer, NEW D \in SUBSET Row, clock <= clock',
           \A q \in Row : row'[q].text <= clock' /\ (seq[q] # 0 => seq'[q] # 0),
           \A q \in Row : row'[q].live <=> (row[q].live /\ q \notin WithChildren(D)),
           \A q \in Row : grave[q] # 0 => grave'[q] # 0,
           \A q \in Row : grave'[q] # 0 => grave[q] # 0 \/ (seq[q] # 0 /\ q \in WithChildren(D)),
           \A q \in WithChildren(D) : row[q].live /\ q \notin Message => grave'[q] # 0
    PROVE  SoundServer' /\ Grows
<1>1. Seen \subseteq Seen' /\ Gone \subseteq Gone'
  BY DEF Seen, Gone
<1>2. \A q \in Row : row'[q].live => q \in Seen'
  BY DEF SoundServer, Sound, Seen
<1>3. \A q \in Row : grave'[q] # 0 => seq'[q] # 0 /\ ~row'[q].live
  BY DEF SoundServer
<1>4. ASSUME NEW q \in Child, row'[q].live PROVE row'[Parent[q]].live
  <2>1. q \in Row /\ Parent[q] \in Row /\ Parent[q] \notin Child
    BY Children, CatalogAssumption DEF Child
  <2>2. row[q].live /\ q \notin WithChildren(D)
    BY <1>4, <2>1
  <2>3. Parent[q] \notin D
    BY <2>2 DEF WithChildren
  <2>4. Parent[q] \notin WithChildren(D)
    BY <2>1, <2>3 DEF WithChildren
  <2>. QED
    BY <2>1, <2>2, <2>4 DEF SoundServer, FkHolds
<1>. QED
  BY <1>1, <1>2, <1>3, <1>4 DEF SoundServer, Sound, Grows, FkHolds

\* A push never brings a row into being: what it writes is there.
LEMMA NothingInserted ==
    ASSUME TypeOK, SoundServer, NEW req \in Rounds, SoundRound(req, Seen, Gone, clock)
    PROVE  /\ \A q \in WithChildren(req.queue) \cap Row :
                  row[q].live /\ q \notin Message => q \in req.queue
           /\ \A q \in Written(req) : /\ q \notin WithChildren(req.queue)
                                      /\ row[q].live /\ Base(req)[q] = row[q]
                                      /\ row[q].stamp <= req.rows[q].stamp
<1>1. req.read \subseteq Row /\ req.queue \subseteq Row /\ ServerTypes
  BY TypeParts DEF Rounds
<1>2. \A q \in Row : Base(req)[q] = IF q \in WithChildren(req.queue) THEN Absent ELSE row[q]
  BY DEF Base, Without
<1>3. ~Absent.live
  BY DEF Absent
<1>4. ASSUME NEW q \in WithChildren(req.queue) \cap Row, row[q].live, q \notin Message
      PROVE  q \in req.queue
  <2>1. SUFFICES ASSUME q \in Role, Parent[q] \in req.queue PROVE FALSE
    BY <1>4 DEF WithChildren, Child
  <2>2. Parent[q] \in Dict /\ Parent[q] \in Row
    BY <2>1, Children DEF Row
  <2>3. Parent[q] \in Gone
    BY <2>1, <2>2 DEF SoundRound, Queued
  <2>4. ~row[Parent[q]].live
    BY <2>2, <2>3 DEF Gone, SoundServer
  <2>. QED
    BY <1>4, <2>1, <2>4 DEF SoundServer, FkHolds, Child
<1>5. ASSUME NEW q \in Written(req)
      PROVE  /\ q \notin WithChildren(req.queue)
             /\ row[q].live /\ Base(req)[q] = row[q]
             /\ row[q].stamp <= req.rows[q].stamp
  <2>1. q \in req.read /\ q \in Row /\ q \notin Buried(req) /\ q \notin Losing(req)
    BY <1>1, <1>5 DEF Written
  <2>2. q \notin Message /\ q \in Seen
    BY <2>1 DEF SoundRound, Sound, Flag
  <2>3. q \notin WithChildren(req.queue) /\ row[q].live
    <3>1. CASE Base(req)[q].live
      BY <1>2, <1>3, <2>1, <3>1
    <3>2. CASE ~Base(req)[q].live
      <4>1. grave[q] = 0 /\ q \notin req.queue
        BY <2>1, <3>2 DEF Buried
      <4>2. row[q].live
        BY <2>2, <4>1 DEF Seen
      <4>3. q \in WithChildren(req.queue)
        BY <1>2, <2>1, <3>2, <4>2
      <4>. QED
        BY <1>4, <2>1, <2>2, <4>1, <4>2, <4>3
    <3>. QED
      BY <3>1, <3>2
  <2>4. Base(req)[q] = row[q]
    BY <1>2, <2>1, <2>3
  <2>5. ~(row[q].stamp > req.rows[q].stamp)
    BY <2>1, <2>3, <2>4 DEF Losing
  <2>6. row[q].stamp \in Nat /\ req.rows[q].stamp \in Nat
    BY <1>1, <2>1 DEF ServerTypes, Version, Rounds
  <2>. QED
    BY <2>3, <2>4, <2>5, <2>6
<1>. QED
  BY <1>4, <1>5

LEMMA SoundAnswer ==
    ASSUME IInv, TypeOK', NEW a \in Admin, Answer(a)
    PROVE  SoundServer' /\ Grows /\ AllSound(Seen, Gone, clock)'
<1>. DEFINE req == round[a]
            base == Base(req)
<1>1. TypeOK /\ SoundServer /\ AllSound(Seen, Gone, clock)
  BY DEF IInv, AllSound
<1>2. ServerTypes /\ AdminTypes /\ req \in Rounds
  BY <1>1, TypeParts DEF AdminTypes
<1>3. SoundRound(req, Seen, Gone, clock)
  BY <1>1 DEF AllSound
<1>4. Merge(req) /\ clock' = clock /\ file' = file
      /\ round' = [round EXCEPT ![a].phase = "answered", ![a].answer = AnswerTo(req)]
  BY DEF Answer
<1>5. req.read \subseteq Row /\ req.queue \in SUBSET Row /\ Written(req) \subseteq req.read
  BY <1>2 DEF Rounds, Written
<1>. HIDE DEF req
<1>6. \A q \in Row : row'[q] = IF q \in Written(req) THEN req.rows[q] ELSE base[q]
  BY <1>4 DEF Merge, Merged
<1>7. \A q \in Row : base[q] = IF q \in WithChildren(req.queue) THEN Absent ELSE row[q]
  BY DEF Base, Without
<1>. HIDE DEF base
<1>8. \A q \in Written(req) : q \notin WithChildren(req.queue) /\ row[q].live
  BY <1>1, <1>2, <1>3, NothingInserted
<1>9. \A q \in Written(req) : req.rows[q].live
  BY <1>3, <1>5 DEF SoundRound, Flag
<1>10. \A q \in Row : row'[q].live <=> (row[q].live /\ q \notin WithChildren(req.queue))
  <2>1. ~Absent.live
    BY DEF Absent
  <2>. QED
    BY <1>6, <1>7, <1>8, <1>9, <2>1
<1>11. \A q \in Row : row'[q].text <= clock'
  <2>1. Absent.text <= clock
    BY <1>2 DEF Absent, ServerTypes
  <2>2. \A q \in Row : req.rows[q].text <= clock /\ row[q].text <= clock
    BY <1>1, <1>3 DEF SoundRound, SoundServer, Sound
  <2>. QED
    BY <1>4, <1>6, <1>7, <2>1, <2>2
<1>12. /\ seq' = [q \in Row |-> IF q \in Written(req) THEN counter + 1 ELSE seq[q]]
       /\ grave' = [q \in Row |-> IF q \in req.queue THEN counter + 1 ELSE grave[q]]
       /\ counter + 1 # 0
  BY <1>2, <1>4 DEF Merge, ServerTypes
<1>13. \A q \in req.queue : q \in WithChildren(req.queue) /\ seq[q] # 0
  BY <1>3, <1>5 DEF WithChildren, SoundRound, Queued, Seen
<1>14. \A q \in WithChildren(req.queue) : row[q].live /\ q \notin Message => grave'[q] # 0
  <2>1. WithChildren(req.queue) \subseteq Row
    BY <1>5, Children DEF WithChildren
  <2>. QED
    BY <1>1, <1>2, <1>3, <1>5, <1>12, <2>1, NothingInserted
<1>15. \A q \in Row : (seq[q] # 0 => seq'[q] # 0) /\ (grave[q] # 0 => grave'[q] # 0)
  BY <1>12
<1>16. \A q \in Row : grave'[q] # 0 => grave[q] # 0 \/ (seq[q] # 0 /\ q \in WithChildren(req.queue))
  BY <1>12, <1>13
<1>17. clock <= clock'
  BY <1>2, <1>4 DEF ServerTypes
<1>18. SoundServer' /\ Grows
  BY <1>1, <1>5, <1>10, <1>11, <1>14, <1>15, <1>16, <1>17, Killed
<1>19. \A q \in Row : Sound(q, AnswerTo(req).rows[q], Seen', clock')
  BY <1>18 DEF AnswerTo, SoundServer
<1>20. SoundRound(req, Seen', Gone', clock') /\ \A b \in Admin : SoundFile(file[b], Seen', Gone', clock')
                                                  /\ SoundRound(round[b], Seen', Gone', clock')
  <2>1. \A b \in Admin : file[b] \in Files /\ round[b] \in Rounds
    BY <1>2 DEF AdminTypes
  <2>. QED
    BY <1>1, <1>2, <1>3, <1>18, <2>1, Unread DEF AllSound
<1>. DEFINE r == [req EXCEPT !.phase = "answered", !.answer = AnswerTo(req)]
<1>21. SoundRound(r, Seen', Gone', clock')
  <2>1. /\ r.rows = req.rows /\ r.read = req.read /\ r.queue = req.queue
        /\ r.undo = req.undo /\ r.answer = AnswerTo(req)
    BY <1>2 DEF Rounds
  <2>. HIDE DEF r
  <2>. QED
    BY <1>19, <1>20, <2>1 DEF SoundRound
<1>22. round' = [round EXCEPT ![a] = r]
  BY <1>4 DEF req
<1>. HIDE DEF r
<1>23. \A b \in Admin : SoundRound(round'[b], Seen', Gone', clock')
  BY <1>2, <1>20, <1>21, <1>22 DEF AdminTypes
<1>. QED
  BY <1>4, <1>18, <1>20, <1>23 DEF AllSound

LEMMA Reads ==
    ASSUME TypeOK, AllSound(Seen, Gone, clock), NEW a \in Admin, ReadTable(a) \/ Ask(a)
    PROVE  \E r : round' = [round EXCEPT ![a] = r] /\ SoundRound(r, Seen, Gone, clock)
<1>1. file[a] \in Files /\ round[a] \in Rounds
  BY TypeParts DEF AdminTypes
<1>2. SoundFile(file[a], Seen, Gone, clock) /\ SoundRound(round[a], Seen, Gone, clock)
  BY DEF AllSound
<1>3. CASE ReadTable(a)
  <2>. DEFINE S == Table(round[a].table) \cap file[a].dirty
              rows == [q \in Row |-> IF q \in S THEN file[a].row[q] ELSE round[a].rows[q]]
              r == [round[a] EXCEPT !.table = @ + 1, !.read = @ \cup S, !.rows = rows]
  <2>1. round' = [round EXCEPT ![a] = r]
    BY <1>3 DEF ReadTable
  <2>2. S \subseteq Row /\ S \subseteq file[a].dirty /\ round[a].read \subseteq Row
    BY <1>1 DEF Files, Rounds
  <2>. HIDE DEF S
  <2>3. \A q \in Row : Sound(q, rows[q], Seen, clock)
    BY <1>2 DEF SoundFile, SoundRound
  <2>4. \A q \in round[a].read \cup S : Flag(q, rows[q])
    BY <1>2, <2>2 DEF SoundFile, SoundRound
  <2>. HIDE DEF rows
  <2>5. /\ r.rows = rows /\ r.read = round[a].read \cup S /\ r.queue = round[a].queue
        /\ r.answer = round[a].answer /\ r.undo = round[a].undo
    BY <1>1 DEF Rounds
  <2>. HIDE DEF r
  <2>6. SoundRound(r, Seen, Gone, clock)
    BY <1>2, <2>3, <2>4, <2>5 DEF SoundRound
  <2>. QED
    BY <2>1, <2>6
<1>4. CASE Ask(a)
  <2>. DEFINE c == IF round[a].full THEN 0 ELSE file[a].cursor
              r == [round[a] EXCEPT !.phase = "asked", !.queue = file[a].queue, !.cursor = c]
  <2>1. round' = [round EXCEPT ![a] = r]
    BY <1>4 DEF Ask
  <2>. HIDE DEF c
  <2>2. /\ r.rows = round[a].rows /\ r.read = round[a].read /\ r.queue = file[a].queue
        /\ r.answer = round[a].answer /\ r.undo = round[a].undo
    BY <1>1 DEF Rounds
  <2>. HIDE DEF r
  <2>3. SoundRound(r, Seen, Gone, clock)
    BY <1>2, <2>2 DEF SoundRound, SoundFile
  <2>. QED
    BY <2>1, <2>3
<1>. QED
  BY <1>3, <1>4

LEMMA Ends ==
    ASSUME NEW a \in Admin, NEW S, NEW G, NEW c \in Nat,
           Excused(a) \/ Succeeded(a) \/ \E kind : Struck(a, kind)
    PROVE  \E r : round' = [round EXCEPT ![a] = r] /\ SoundRound(r, S, G, c)
<1>1. \E r : round' = [round EXCEPT ![a] = r] /\ (r = NoRound \/ r = Begun(TRUE))
  <2>1. CASE Excused(a) \/ Succeeded(a)
    BY <2>1, Zenon DEF Excused, Succeeded
  <2>2. ASSUME NEW kind, Struck(a, kind)
        PROVE  \E r : round' = [round EXCEPT ![a] = r] /\ (r = NoRound \/ r = Begun(TRUE))
    <3>. DEFINE n == IF engine[a].strikes.kind = kind THEN engine[a].strikes.n + 1 ELSE 1
                starts == kind = "fk" /\ n >= 2 /\ ~engine[a].healed /\ engine[a].online
    <3>1. round' = [round EXCEPT ![a] = IF starts THEN Begun(TRUE) ELSE NoRound]
      BY <2>2 DEF Struck
    <3>. HIDE DEF starts
    <3>. QED
      BY <3>1
  <2>. QED
    BY <2>1, <2>2
<1>. QED
  BY <1>1, SoundLiterals

LEMMA Applies ==
    ASSUME TypeOK, AllSound(Seen, Gone, clock), NEW a \in Admin, Apply(a)
    PROVE  /\ \/ file' = file
              \/ \E f : file' = [file EXCEPT ![a] = f] /\ SoundFile(f, Seen, Gone, clock)
           /\ \E r : round' = [round EXCEPT ![a] = r] /\ SoundRound(r, Seen, Gone, clock)
<1>1. AdminTypes /\ file[a] \in Files /\ round[a] \in Rounds /\ clock \in Nat
  BY TypeParts DEF AdminTypes, ServerTypes
<1>2. SoundFile(file[a], Seen, Gone, clock) /\ SoundRound(round[a], Seen, Gone, clock)
  BY DEF AllSound
<1>. DEFINE f == Cleared(a)
            ans == round[a].answer
<1>3. f \in Files /\ SoundFile(f, Seen, Gone, clock)
  BY <1>1, <1>2, ClearedTypes, SoundCleared
<1>4. ans \in Answers /\ \A q \in Row : Sound(q, ans.rows[q], Seen, clock)
  BY <1>1, <1>2 DEF Rounds, SoundRound
<1>5. CASE Collisions(f, ans) \cap f.dirty # {} /\ Struck(a, "unique") /\ file' = file
  BY <1>1, <1>5, Ends
<1>6. CASE /\ Collisions(f, ans) \cap f.dirty = {}
           /\ file' = [file EXCEPT ![a] = Upserted(f, ans)]
           /\ round' = [round EXCEPT ![a].phase = "applying", ![a].undo = file[a]]
  <2>. DEFINE r == [round[a] EXCEPT !.phase = "applying", !.undo = file[a]]
  <2>1. SoundFile(Upserted(f, ans), Seen, Gone, clock)
    <3>. HIDE DEF f, ans
    <3>. QED
      BY <1>1, <1>3, <1>4, <1>6, SoundUpserted
  <2>2. round' = [round EXCEPT ![a] = r]
    BY <1>6
  <2>3. /\ r.rows = round[a].rows /\ r.read = round[a].read /\ r.queue = round[a].queue
        /\ r.answer = round[a].answer /\ r.undo = file[a]
    BY <1>1 DEF Rounds
  <2>. HIDE DEF r
  <2>4. SoundRound(r, Seen, Gone, clock)
    BY <1>2, <2>3 DEF SoundRound
  <2>. QED
    BY <1>6, <2>1, <2>2, <2>4
<1>. QED
  BY <1>5, <1>6 DEF Apply

LEMMA Commits ==
    ASSUME TypeOK, AllSound(Seen, Gone, clock), NEW a \in Admin, Commit(a)
    PROVE  /\ \E f : file' = [file EXCEPT ![a] = f] /\ SoundFile(f, Seen, Gone, clock)
           /\ \E r : round' = [round EXCEPT ![a] = r] /\ SoundRound(r, Seen, Gone, clock)
<1>1. AdminTypes /\ file[a] \in Files /\ round[a] \in Rounds /\ clock \in Nat
  BY TypeParts DEF AdminTypes, ServerTypes
<1>2. SoundFile(Applied(a), Seen, Gone, clock) /\ SoundFile(round[a].undo, Seen, Gone, clock)
  <2>1. SoundFile(file[a], Seen, Gone, clock) /\ SoundRound(round[a], Seen, Gone, clock)
    BY DEF AllSound
  <2>2. SoundFile(Applied(a), Seen, Gone, clock)
    BY <1>1, <2>1, SoundApplied
  <2>. QED
    BY <2>1, <2>2 DEF SoundRound
<1>3. CASE file' = [file EXCEPT ![a] = Applied(a)] /\ Succeeded(a)
  BY <1>1, <1>2, <1>3, Ends
<1>4. CASE file' = [file EXCEPT ![a] = round[a].undo] /\ Struck(a, "fk")
  BY <1>1, <1>2, <1>4, Ends
<1>. QED
  BY <1>3, <1>4 DEF Commit

LEMMA SoundStep ==
    ASSUME IInv, TypeOK', NEW a \in Admin, Step(a) \/ Lose(a)
    PROVE  SoundServer' /\ AllSound(Seen, Gone, clock)'
<1>1. TypeOK /\ SoundServer /\ AllSound(Seen, Gone, clock)
  BY DEF IInv, AllSound
<1>2. clock \in Nat
  BY <1>1 DEF TypeOK
<1>3. CASE Answer(a)
  BY <1>3, SoundAnswer
<1>4. CASE ~Answer(a)
  <2>1. UNCHANGED serverVars
    BY <1>4 DEF Step, ReadTable, Ask, Refuse, Lose, Apply, Commit
  <2>2. SoundServer' /\ Grows /\ Seen' = Seen /\ Gone' = Gone /\ clock' = clock
    BY <1>1, <1>2, <2>1, StillSound DEF serverVars
  <2>3. CASE ReadTable(a) \/ Ask(a)
    <3>1. file' = file
      BY <2>3 DEF ReadTable, Ask
    <3>. QED
      BY <1>1, <2>2, <2>3, <3>1, Reads, OneAdmin
  <2>4. CASE Refuse(a) \/ Lose(a)
    <3>1. file' = file /\ (Excused(a) \/ Struck(a, "refused"))
      BY <2>4 DEF Refuse, Lose
    <3>2. \E r : round' = [round EXCEPT ![a] = r] /\ SoundRound(r, Seen, Gone, clock)
      BY <1>2, <3>1, Ends
    <3>. QED
      BY <1>1, <2>2, <3>1, <3>2, OneAdmin
  <2>5. CASE Apply(a)
    BY <1>1, <2>2, <2>5, Applies, OneAdmin
  <2>6. CASE Commit(a)
    BY <1>1, <2>2, <2>6, Commits, OneAdmin
  <2>. QED
    BY <1>4, <2>3, <2>4, <2>5, <2>6 DEF Step
<1>. QED
  BY <1>3, <1>4

-------------------------------------------------------------------------------
(* The server's own writes.                                                  *)

\* No text gives way to an earlier one.
TextsGrow == \A q \in Row : row[q].live /\ row'[q].live => row'[q].text >= row[q].text

LEMMA Steady == TypeOK /\ row' = row => TextsGrow
<1>1. TypeOK => \A q \in Row : row[q].text \in Nat
  BY TypeParts DEF ServerTypes, Version
<1>. QED
  BY <1>1 DEF TextsGrow

\* A step that rewrites columns which are neither a row's text nor its being there.
LEMMA Restamped ==
    ASSUME TypeOK, TypeOK', SoundServer, grave' = grave, clock <= clock',
           \A q \in Row : row'[q].live = row[q].live /\ row'[q].text = row[q].text,
           \A q \in Row : seq[q] # 0 => seq'[q] # 0
    PROVE  SoundServer' /\ Grows /\ TextsGrow
<1>1. \A q \in Row : row[q].text \in Nat /\ row[q].text <= clock /\ clock \in Nat /\ clock' \in Nat
  BY TypeParts DEF ServerTypes, TypeOK, Version, SoundServer, Sound
<1>. QED
  BY <1>1, Kept DEF TextsGrow

LEMMA SoundPosts ==
    ASSUME TypeOK, TypeOK', SoundServer, NEW q \in Message,
           Post(q) \/ Reply(q) \/ ReplyBumps(q) \/ ReplySent(q) \/ ReplyFails(q)
    PROVE  SoundServer' /\ Grows /\ TextsGrow
<1>1. /\ row \in [Row -> Version] /\ seq \in [Row -> Nat] /\ clock \in Nat /\ counter \in Nat
      /\ \A p \in Row : row[p].text \in Nat /\ row[p].text <= clock
  BY TypeParts DEF ServerTypes, Version, SoundServer, Sound
<1>2. q \in Row /\ q \in Child /\ Parent[q] \in Row /\ Parent[q] # q
  BY Children, CatalogAssumption DEF Row, Child
<1>3. counter + 1 # 0 /\ clock + 1 \in Nat /\ clock <= clock + 1
  BY <1>1
<1>4. \A p \in Row, s \in Nat : /\ [row[p] EXCEPT !.stamp = s].live = row[p].live
                                /\ [row[p] EXCEPT !.stamp = s].text = row[p].text
  BY <1>1 DEF Version
<1>5. ASSUME NEW p \in Row, NEW s \in Nat, NEW rows \in [Row -> Version]
      PROVE  \A o \in Row : /\ Stamped(rows, p, s)[o].live = rows[o].live
                            /\ Stamped(rows, p, s)[o].text = rows[o].text
  BY DEF Stamped, Version
<1>6. CASE Post(q)
  <2>1. seq[q] = 0 /\ row[Parent[q]].live /\ clock' = clock + 1 /\ grave' = grave
    BY <1>6 DEF Post
  <2>2. seq' = [seq EXCEPT ![q] = counter + 1, ![Parent[q]] = counter + 1]
    BY <1>6 DEF Post
  <2>3. PICK x \in {clock + 1, row[Parent[q]].text} :
            row' = [row EXCEPT ![q] = Fresh(clock + 1, "plain"),
                               ![Parent[q]].stamp = clock + 1, ![Parent[q]].text = x]
    BY <1>6 DEF Post
  <2>. DEFINE v == Fresh(clock + 1, "plain")
              w == [row EXCEPT ![q] = v]
              u == [w[Parent[q]] EXCEPT !.stamp = clock + 1, !.text = x]
  <2>4. v.live /\ v.text = clock + 1
    BY DEF Fresh
  <2>5. v \in Version
    BY <1>3, RowTypes DEF Tag
  <2>6. row' = [w EXCEPT ![Parent[q]] = u]
    BY <1>1, <1>2, <2>3, <2>5
  <2>. HIDE DEF v
  <2>7. w \in [Row -> Version] /\ w[q] = v /\ \A p \in Row : p # q => w[p] = row[p]
    BY <1>1, <1>2, <2>5
  <2>. HIDE DEF w
  <2>8. u.live = row[Parent[q]].live /\ u.text = x
    BY <1>1, <1>2, <2>7 DEF Version
  <2>. HIDE DEF u
  <2>9. /\ row'[q] = v
        /\ row'[Parent[q]].live = row[Parent[q]].live /\ row'[Parent[q]].text = x
        /\ \A p \in Row : p # q /\ p # Parent[q] => row'[p] = row[p]
    BY <1>2, <2>6, <2>7, <2>8
  <2>10. x <= clock + 1
    BY <1>1, <1>2, <2>3
  <2>11. \A p \in Row : row'[p].text <= clock'
    BY <1>1, <1>2, <2>1, <2>4, <2>9, <2>10
  <2>12. seq'[q] # 0 /\ \A p \in Row : seq[p] # 0 => seq'[p] # 0
    BY <1>1, <1>2, <1>3, <2>2
  <2>13. /\ \A p \in Row : row[p].live => row'[p].live
        /\ \A p \in Row : row'[p].live /\ ~row[p].live => p = q
    BY <2>4, <2>9
  <2>14. TextsGrow
    BY <1>1, <1>2, <2>3, <2>4, <2>9 DEF TextsGrow
  <2>. QED
    BY <1>2, <1>3, <2>1, <2>11, <2>12, <2>13, <2>14, Kept
<1>7. CASE Reply(q)
  <2>. DEFINE v == Fresh(clock + 1, "plain")
  <2>1. /\ seq[q] = 0 /\ row[Parent[q]].live /\ clock' = clock + 1 /\ grave' = grave
        /\ row' = [row EXCEPT ![q] = v] /\ seq' = [seq EXCEPT ![q] = counter + 1]
    BY <1>7 DEF Reply, Numbered
  <2>2. v.live /\ v.text = clock + 1
    BY DEF Fresh
  <2>. HIDE DEF v
  <2>3. \A p \in Row : row'[p].text <= clock'
    BY <1>1, <1>2, <2>1, <2>2
  <2>4. seq'[q] # 0 /\ \A p \in Row : seq[p] # 0 => seq'[p] # 0
    BY <1>1, <1>2, <1>3, <2>1
  <2>5. /\ \A p \in Row : row[p].live => row'[p].live
        /\ \A p \in Row : row'[p].live /\ ~row[p].live => p = q
    BY <1>1, <1>2, <2>1, <2>2
  <2>6. TextsGrow
    BY <1>1, <1>2, <2>1, <2>2 DEF TextsGrow
  <2>. QED
    BY <1>2, <1>3, <2>1, <2>3, <2>4, <2>5, <2>6, Kept
<1>8. CASE ReplyBumps(q) \/ ReplySent(q) \/ ReplyFails(q)
  <2>1. grave' = grave /\ (clock' = clock \/ clock' = clock + 1)
    BY <1>8 DEF ReplyBumps, ReplySent, ReplyFails
  <2>2. \A p \in Row : row'[p].live = row[p].live /\ row'[p].text = row[p].text
    <3>1. CASE ReplyBumps(q)
      <4>1. row' = Stamped(row, Parent[q], outbox[q].now)
        BY <3>1 DEF ReplyBumps
      <4>2. outbox[q].now \in Nat
        BY TypeParts DEF Outboxes
      <4>. QED
        BY <1>1, <1>2, <1>5, <4>1, <4>2
    <3>2. CASE ReplySent(q)
      <4>1. row' = Stamped(Stamped(row, q, clock + 1), Parent[q], clock + 1)
        BY <3>2 DEF ReplySent
      <4>2. Stamped(row, q, clock + 1) \in [Row -> Version]
        BY <1>1, <1>2, <1>3, RowTypes
      <4>3. \A p \in Row : /\ Stamped(row, q, clock + 1)[p].live = row[p].live
                          /\ Stamped(row, q, clock + 1)[p].text = row[p].text
        BY <1>1, <1>2, <1>3, <1>5
      <4>4. \A p \in Row : /\ row'[p].live = Stamped(row, q, clock + 1)[p].live
                          /\ row'[p].text = Stamped(row, q, clock + 1)[p].text
        BY <1>2, <1>3, <1>5, <4>1, <4>2
      <4>. QED
        BY <4>3, <4>4
    <3>3. CASE ReplyFails(q)
      <4>1. row' = Stamped(row, q, clock + 1)
        BY <3>3 DEF ReplyFails
      <4>. QED
        BY <1>1, <1>2, <1>3, <1>5, <4>1
    <3>. QED
      BY <1>8, <3>1, <3>2, <3>3
  <2>3. \A p \in Row : seq[p] # 0 => seq'[p] # 0
    <3>1. \E S : Numbers(S)
      BY <1>8, Zenon DEF ReplyBumps, ReplySent, ReplyFails
    <3>. QED
      BY <1>3, <3>1 DEF Numbers
  <2>. QED
    BY <1>1, <2>1, <2>2, <2>3, Restamped
<1>. QED
  BY <1>6, <1>7, <1>8

LEMMA SoundMarks ==
    ASSUME TypeOK, TypeOK', SoundServer, NEW d \in Dict, NEW ts \in Nat, Marks(d, ts)
    PROVE  SoundServer' /\ Grows /\ TextsGrow
<1>1. /\ row \in [Row -> Version] /\ seq \in [Row -> Nat] /\ clock \in Nat /\ counter \in Nat
      /\ d \in Row
  BY TypeParts DEF ServerTypes, Row
<1>2. CASE row[d].live
  <2>1. /\ row' = [row EXCEPT ![d].uploaded = ts] /\ seq' = [seq EXCEPT ![d] = counter + 1]
        /\ grave' = grave /\ clock' = clock
    BY <1>2 DEF Marks, Numbered
  <2>2. \A q \in Row : row'[q].live = row[q].live /\ row'[q].text = row[q].text
    BY <1>1, <2>1 DEF Version
  <2>. QED
    BY <1>1, <2>1, <2>2, Restamped
<1>3. CASE ~row[d].live
  BY <1>1, <1>3, StillSound, Steady DEF Marks, serverVars
<1>. QED
  BY <1>2, <1>3

LEMMA SoundContent ==
    ASSUME TypeOK, TypeOK', SoundServer, NEW d \in Dict,
           Push(d) \/ PushUnmirrored(d) \/ PushInVain(d)
    PROVE  SoundServer' /\ Grows /\ TextsGrow
<1>1. /\ row \in [Row -> Version] /\ seq \in [Row -> Nat] /\ clock \in Nat /\ counter \in Nat
      /\ d \in Row
  BY TypeParts DEF ServerTypes, Row
<1>2. \A s : \A q \in Row : /\ Mirrored(d, s)[q].live = row[q].live
                            /\ Mirrored(d, s)[q].text = row[q].text
  BY <1>1 DEF Mirrored, Version
<1>3. CASE PushUnmirrored(d)
  BY <1>1, <1>3, StillSound, Steady DEF PushUnmirrored
<1>4. CASE Push(d) \/ PushInVain(d)
  <2>1. /\ grave' = grave /\ (clock' = clock \/ clock' = clock + 1)
        /\ seq' = [seq EXCEPT ![d] = counter + 1]
        /\ \E s : row' = Mirrored(d, s)
    BY <1>4, Zenon DEF Push, PushInVain, Numbered
  <2>. QED
    BY <1>1, <1>2, <2>1, Restamped
<1>. QED
  BY <1>3, <1>4

LEMMA SoundSweep ==
    ASSUME TypeOK, TypeOK', SoundServer,
           \/ Sweep \/ Restart
           \/ \E d \in Dict : WithdrawFails(d) \/ BuildFails(d) \/ RemoveSnapshot(d)
                              \/ RemoveSnapshotFails(d)
    PROVE  SoundServer' /\ Grows /\ TextsGrow
<1>1. /\ row \in [Row -> Version] /\ seq \in [Row -> Nat] /\ clock \in Nat /\ counter \in Nat
      /\ sweep.ts \in Nat /\ Dict \subseteq Row
  BY TypeParts DEF ServerTypes, SweepTypes, Sweeps, Row
<1>2. CASE SweepBegins
  <2>. DEFINE late == IF reconciled THEN {} ELSE Behind
  <2>1. /\ row' = [q \in Row |-> IF q \in late THEN [row[q] EXCEPT !.stamp = content[q]] ELSE row[q]]
        /\ seq' = [q \in Row |-> IF q \in late THEN counter + 1 ELSE seq[q]]
        /\ grave' = grave /\ clock' = clock
    BY <1>2 DEF SweepBegins
  <2>. HIDE DEF late
  <2>2. \A q \in Row : row'[q].live = row[q].live /\ row'[q].text = row[q].text
    BY <1>1, <2>1 DEF Version
  <2>. QED
    BY <1>1, <2>1, <2>2, Restamped
<1>3. CASE \E d \in Dict : WithdrawMark(d) \/ Mark(d)
  <2>1. PICK d \in Dict : WithdrawMark(d) \/ Mark(d)
    BY <1>3
  <2>2. \E ts \in Nat : Marks(d, ts)
    BY <1>1, <2>1 DEF WithdrawMark, Mark
  <2>. QED
    BY <2>2, SoundMarks
<1>4. CASE UNCHANGED serverVars
  BY <1>1, <1>4, StillSound, Steady DEF serverVars
<1>5. ASSUME NEW d \in Dict,
             \/ WithdrawObject(d) \/ BuildBegins(d) \/ Copy(d) \/ Upload(d) \/ WithdrawFails(d)
             \/ BuildFails(d) \/ RemoveSnapshot(d) \/ RemoveSnapshotFails(d)
      PROVE  UNCHANGED serverVars
  BY <1>5, Zenon DEF WithdrawObject, BuildBegins, Copy, Upload, WithdrawFails, BuildFails,
                     RemoveSnapshot, RemoveSnapshotFails
<1>6. List \/ Restart => UNCHANGED serverVars
  BY Zenon DEF List, Restart
<1>. QED
  BY <1>2, <1>3, <1>4, <1>5, <1>6 DEF Sweep

LEMMA SoundGrant ==
    ASSUME TypeOK, TypeOK', SoundServer, NEW q \in Role, NEW tag \in Tags(q), Grant(q, tag)
    PROVE  SoundServer' /\ Grows /\ TextsGrow
<1>1. /\ row \in [Row -> Version] /\ seq \in [Row -> Nat] /\ clock \in Nat /\ counter \in Nat
      /\ \A p \in Row : row[p].text \in Nat /\ row[p].text <= clock
  BY TypeParts DEF ServerTypes, Version, SoundServer, Sound
<1>2. q \in Row /\ q \in Child /\ counter + 1 # 0
  BY <1>1 DEF Row, Child
<1>. DEFINE v == Fresh(clock + 1, tag)
<1>3. v.live /\ v.text = clock + 1
  BY DEF Fresh
<1>4. seq[q] = 0 /\ row[Parent[q]].live /\ clock' = clock + 1 /\ grave' = grave
  BY DEF Grant
<1>5. \/ row' = [row EXCEPT ![q] = v] /\ seq' = [seq EXCEPT ![q] = counter + 1]
      \/ \E p \in Role : /\ row[p].live
                         /\ row' = [row EXCEPT ![p].stamp = clock + 1, ![p].text = clock + 1]
                         /\ seq' = [seq EXCEPT ![p] = counter + 1]
  BY DEF Grant, Numbered, SameGrant
<1>. HIDE DEF v
<1>6. CASE row' = [row EXCEPT ![q] = v] /\ seq' = [seq EXCEPT ![q] = counter + 1]
  <2>1. \A p \in Row : row'[p].text <= clock'
    BY <1>1, <1>2, <1>3, <1>4, <1>6
  <2>2. seq'[q] # 0 /\ \A p \in Row : seq[p] # 0 => seq'[p] # 0
    BY <1>1, <1>2, <1>6
  <2>3. /\ \A p \in Row : row[p].live => row'[p].live
        /\ \A p \in Row : row'[p].live /\ ~row[p].live => p = q
    BY <1>1, <1>2, <1>3, <1>6
  <2>4. TextsGrow
    BY <1>1, <1>2, <1>3, <1>6 DEF TextsGrow
  <2>. QED
    BY <1>1, <1>2, <1>4, <2>1, <2>2, <2>3, <2>4, Kept
<1>7. CASE \E p \in Role : /\ row[p].live
                           /\ row' = [row EXCEPT ![p].stamp = clock + 1, ![p].text = clock + 1]
                           /\ seq' = [seq EXCEPT ![p] = counter + 1]
  <2>1. PICK p \in Role : /\ row[p].live
                          /\ row' = [row EXCEPT ![p].stamp = clock + 1, ![p].text = clock + 1]
                          /\ seq' = [seq EXCEPT ![p] = counter + 1]
    BY <1>7
  <2>. DEFINE u == [row[p] EXCEPT !.stamp = clock + 1, !.text = clock + 1]
  <2>2. p \in Row
    BY DEF Row
  <2>3. u.live = row[p].live /\ u.text = clock + 1
    BY <1>1, <2>2 DEF Version
  <2>4. row' = [row EXCEPT ![p] = u]
    BY <1>1, <2>1, <2>2
  <2>. HIDE DEF u
  <2>5. \A o \in Row : row'[o].text <= clock' /\ row'[o].live = row[o].live
    BY <1>1, <1>4, <2>2, <2>3, <2>4
  <2>6. \A o \in Row : seq[o] # 0 => seq'[o] # 0
    BY <1>1, <1>2, <2>1, <2>2
  <2>7. TextsGrow
    BY <1>1, <2>2, <2>3, <2>4 DEF TextsGrow
  <2>. QED
    BY <1>1, <1>4, <2>5, <2>6, <2>7, Kept
<1>. QED
  BY <1>5, <1>6, <1>7

\* The deletion of a grant or a dictionary, which leaves no child without a tombstone.
LEMMA SoundRemoval ==
    ASSUME TypeOK, TypeOK', SoundServer, NEW d,
           (d \in Role /\ Revoke(d)) \/ (d \in Dict /\ TearDown(d))
    PROVE  SoundServer' /\ Grows /\ TextsGrow
<1>1. /\ row \in [Row -> Version] /\ grave \in [Row -> Nat] /\ clock \in Nat /\ counter \in Nat
      /\ \A p \in Row : row[p].text \in Nat /\ row[p].text <= clock
      /\ \A p \in Row : row[p].live => p \in Seen
  BY TypeParts DEF ServerTypes, Version, SoundServer, Sound
<1>2. d \in Row /\ row[d].live /\ row' = Without(row, {d}) /\ seq' = seq /\ clock' = clock
      /\ counter + 1 # 0
  BY <1>1 DEF Revoke, TearDown, Row
<1>3. \A p \in Row : row'[p] = IF p \in WithChildren({d}) THEN Absent ELSE row[p]
  BY <1>2 DEF Without
<1>4. ~Absent.live /\ Absent.text = 0
  BY DEF Absent
<1>5. /\ \A p \in Row : row'[p].text <= clock'
      /\ \A p \in Row : row'[p].live <=> (row[p].live /\ p \notin WithChildren({d}))
  <2>1. \A p \in Row : row'[p].text <= clock'
    <3>1. Absent.text <= clock' /\ \A p \in Row : row[p].text <= clock'
      BY <1>1, <1>2, <1>4
    <3>2. ASSUME NEW p \in Row PROVE row'[p].text <= clock'
      BY <1>3, <3>1
    <3>. QED
      BY <3>2
  <2>2. \A p \in Row : row'[p].live <=> (row[p].live /\ p \notin WithChildren({d}))
    BY <1>3, <1>4, Zenon
  <2>. QED
    BY <2>1, <2>2
<1>6. TextsGrow
  BY <1>1, <1>3, <1>4 DEF TextsGrow
<1>7. \A p \in WithChildren({d}) : p \in Row /\ (p = d \/ (p \in Child /\ Parent[p] = d))
  BY <1>2, Children DEF WithChildren
<1>8. \A p \in Row : grave'[p] = grave[p] \/ (grave'[p] = counter + 1 /\ row[p].live
                                                /\ p \in WithChildren({d}))
  <2>1. CASE d \in Role /\ Revoke(d)
    BY <1>1, <1>2, <2>1 DEF Revoke, WithChildren
  <2>2. CASE d \in Dict /\ TearDown(d)
    BY <1>1, <1>2, <2>2 DEF TearDown, WithChildren, Child
  <2>. QED
    BY <2>1, <2>2
<1>9. \A p \in WithChildren({d}) : row[p].live /\ p \notin Message => grave'[p] # 0
  <2>1. CASE d \in Role /\ Revoke(d)
    <3>1. d \in Role /\ d \notin Dict
      BY <2>1, CatalogAssumption
    <3>2. \A p \in WithChildren({d}) : p \in Message \/ p = d
      BY <1>7, <3>1, Children DEF Child
    <3>. QED
      BY <1>1, <1>2, <2>1, <3>2 DEF Revoke
  <2>2. CASE d \in Dict /\ TearDown(d)
    BY <1>1, <1>2, <1>7, <2>2 DEF TearDown, Child
  <2>. QED
    BY <2>1, <2>2
<1>10. /\ \A p \in Row : grave[p] # 0 => grave'[p] # 0
       /\ \A p \in Row : grave'[p] # 0 => grave[p] # 0 \/ (seq[p] # 0 /\ p \in WithChildren({d}))
  BY <1>1, <1>2, <1>8 DEF Seen
<1>11. {d} \in SUBSET Row /\ clock <= clock' /\ \A p \in Row : seq[p] # 0 => seq'[p] # 0
  BY <1>1, <1>2
<1>12. SoundServer' /\ Grows
  BY <1>5, <1>9, <1>10, <1>11, Killed
<1>. QED
  BY <1>6, <1>12

-------------------------------------------------------------------------------
(* The invariant.                                                            *)

LEMMA InitSound == Init => IInv
<1>1. SUFFICES ASSUME Init PROVE IInv
  OBVIOUS
<1>2. TypeOK
  BY <1>1, InitTypes
<1>3. PICK s \in Starts :
          /\ row = FirstRows(s.live) /\ seq = [q \in Row |-> IF q \in s.live THEN 1 ELSE 0]
          /\ grave = [q \in Row |-> 0] /\ clock = Epoch
          /\ file = [a \in Admin |-> FirstFile(s, a)] /\ round = [a \in Admin |-> NoRound]
  BY <1>1 DEF Init
<1>4. \A S : \A q \in Row : /\ FirstRows(S)[q].live <=> q \in S
                            /\ FirstRows(S)[q].text <= Epoch
  BY DEF FirstRows, Absent, Epoch
<1>5. \A q \in Row : (q \in Seen <=> q \in s.live) /\ (row[q].live <=> q \in s.live) /\ grave[q] = 0
  BY <1>3, <1>4 DEF Seen
<1>6. SoundServer
  <2>1. FkHolds(row)
    BY <1>3, <1>5, Children, CatalogueAssumption DEF FkHolds
  <2>. QED
    BY <1>3, <1>4, <1>5, <2>1 DEF SoundServer, Sound
<1>7. ASSUME NEW a \in Admin PROVE SoundFile(file[a], Seen, Gone, clock)
  <2>1. CASE a \in s.fresh
    BY <1>2, <1>3, <2>1, SoundLiterals DEF FirstFile, TypeOK
  <2>2. CASE a \notin s.fresh
    <3>. DEFINE S == IF a \in s.broken THEN s.live \ WithChildren(Dict) ELSE s.live
    <3>1. S \subseteq s.live
      OBVIOUS
    <3>2. file[a] = [NoFile EXCEPT !.row = FirstRows(S), !.cursor = 1]
      BY <1>3, <2>2 DEF FirstFile
    <3>. HIDE DEF S
    <3>3. file[a].row = FirstRows(S) /\ file[a].dirty = {} /\ file[a].queue = {}
      BY <3>2 DEF NoFile
    <3>. QED
      BY <1>3, <1>4, <1>5, <3>1, <3>3 DEF SoundFile, Sound
  <2>. QED
    BY <2>1, <2>2
<1>8. \A a \in Admin : SoundRound(round[a], Seen, Gone, clock)
  BY <1>2, <1>3, SoundLiterals DEF TypeOK
<1>. QED
  BY <1>2, <1>6, <1>7, <1>8 DEF IInv

\* The steps that leave the admins' browsers alone.
LEMMA ServerSteps ==
    ASSUME IInv, TypeOK', ServerStep \/ DictStep \/ SweepStep
    PROVE  SoundServer' /\ Grows /\ TextsGrow /\ UNCHANGED adminVars
<1>1. TypeOK /\ SoundServer
  BY DEF IInv
<1>2. UNCHANGED adminVars
  BY DEF ServerStep, DictStep, SweepStep
<1>3. CASE ServerStep
  <2>1. \/ \E q \in Role : \E tag \in Tags(q) : Grant(q, tag)
        \/ \E q \in Role : Revoke(q)
        \/ \E q \in Message : Post(q) \/ Reply(q) \/ ReplyBumps(q) \/ ReplySent(q) \/ ReplyFails(q)
    BY <1>3 DEF ServerStep
  <2>2. CASE \E q \in Role : \E tag \in Tags(q) : Grant(q, tag)
    BY <1>1, <1>2, <2>2, SoundGrant
  <2>3. CASE \E q \in Role : Revoke(q)
    BY <1>1, <1>2, <2>3, SoundRemoval
  <2>4. CASE \E q \in Message : Post(q) \/ Reply(q) \/ ReplyBumps(q) \/ ReplySent(q) \/ ReplyFails(q)
    BY <1>1, <1>2, <2>4, SoundPosts
  <2>. QED
    BY <2>1, <2>2, <2>3, <2>4
<1>4. CASE DictStep
  <2>1. PICK d \in Dict : Push(d) \/ PushUnmirrored(d) \/ PushInVain(d) \/ Remove(d) \/ RemoveSnapshot(d)
    BY <1>4 DEF DictStep
  <2>2. CASE Remove(d)
    BY <1>1, <1>2, <2>2, SoundRemoval DEF Remove
  <2>. QED
    BY <1>1, <1>2, <2>1, <2>2, SoundContent, SoundSweep
<1>5. CASE SweepStep
  <2>1. Sweep \/ Restart \/ \E d \in Dict : WithdrawFails(d) \/ BuildFails(d) \/ RemoveSnapshotFails(d)
    BY <1>5 DEF SweepStep
  <2>. QED
    BY <1>1, <1>2, <2>1, SoundSweep
<1>. QED
  BY <1>3, <1>4, <1>5

LEMMA NextSound == IInv /\ [Next]_vars /\ MediaTypes' => IInv'
<1>1. SUFFICES ASSUME IInv, [Next]_vars, MediaTypes' PROVE IInv'
  OBVIOUS
<1>2. TypeOK /\ TypeOK' /\ SoundServer /\ AllSound(Seen, Gone, clock)
  BY <1>1, NextTypes DEF IInv, AllSound
<1>3. SUFFICES SoundServer' /\ AllSound(Seen, Gone, clock)'
  BY <1>2 DEF IInv, AllSound
<1>4. CASE AdminStep
  <2>1. PICK a \in Admin : Edited(a) \/ Disturbed(a) \/ Runs(a)
    BY <1>4 DEF AdminStep
  <2>. QED
    BY <1>1, <1>2, <2>1, SoundPage, SoundStep DEF Edited, Disturbed, Runs
<1>5. CASE ServerStep \/ DictStep \/ SweepStep
  BY <1>1, <1>2, <1>5, ServerSteps, Unread
<1>6. CASE MediaStep \/ UNCHANGED vars
  <2>1. UNCHANGED serverVars /\ UNCHANGED adminVars
    BY <1>6 DEF MediaStep, vars
  <2>2. clock' \in Nat /\ clock <= clock' /\ UNCHANGED <<row, seq, grave, counter>>
    BY <1>2, <2>1 DEF TypeOK, serverVars
  <2>. QED
    BY <1>2, <2>1, <2>2, StillSound, Unread
<1>. QED
  BY <1>1, <1>4, <1>5, <1>6 DEF Next

\* What stays when rows are named, grants and threads change and dictionaries go: the rows of a
\* dictionary's file go with it, and no push of an admin deletes a dictionary that is live.
LEMMA HousedKeeps ==
    ASSUME WholeInv, [Next]_vars, MediaInv'
    PROVE  Housed'
<1>1. TypeOK /\ TypeOK' /\ SoundServer /\ AllSound(Seen, Gone, clock) /\ Housed
  BY NextTypes DEF WholeInv, MediaInv, IInv, AllSound
<1>2. used \subseteq Item /\ row \in [Row -> Version] /\ grave \in [Row -> Nat] /\ counter \in Nat
  BY <1>1 DEF TypeOK, MediaTypes
<1>3. SUFFICES ASSUME NEW q \in used' PROVE row'[Home[q]].live
  BY DEF Housed
<1>. DEFINE d == Home[q]
<1>4. ASSUME q \in used
      PROVE  d \in Dict /\ d \in Row /\ d \notin Role /\ row[d].live /\ d \in Seen /\ grave[d] = 0
  BY <1>1, <1>2, <1>4, MediaSets, CatalogAssumption DEF Housed, Row, SoundServer, Sound
<1>5. ASSUME q \in used, Grows, grave'[d] = grave[d] PROVE row'[d].live
  BY <1>4, <1>5, CatalogAssumption DEF Grows, Seen
<1>6. ASSUME q \in used, row' = row PROVE row'[d].live
  BY <1>4, <1>6
<1>7. CASE AdminStep
  <2>1. UNCHANGED mediaVars
    BY <1>7 DEF AdminStep
  <2>2. q \in used
    BY <2>1 DEF mediaVars
  <2>3. PICK a \in Admin : Edited(a) \/ Disturbed(a) \/ Runs(a)
    BY <1>7 DEF AdminStep
  <2>4. CASE Answer(a)
    <3>1. Grows
      BY <1>1, <2>4, SoundAnswer DEF WholeInv
    <3>2. d \notin round[a].queue
      BY <1>1, <1>4, <2>2 DEF AllSound, SoundRound, Queued, Gone
    <3>3. grave'[d] = grave[d]
      BY <1>2, <1>4, <2>2, <2>4, <3>2 DEF Answer, Merge
    <3>. QED
      BY <1>5, <2>2, <3>1, <3>3
  <2>5. CASE ~Answer(a)
    <3>1. row' = row
      BY <2>3, <2>5, Zenon DEF Edited, Disturbed, Runs, Step, ReadTable, Ask, Refuse, Lose, Apply, Commit,
            Save, Delete, Sync, Flush, Begin, Reload, Disconnect, Reconnect, serverVars
    <3>. QED
      BY <1>6, <2>2, <3>1
  <2>. QED
    BY <2>4, <2>5
<1>8. CASE ServerStep \/ DictStep \/ SweepStep
  <2>1. Grows
    BY <1>1, <1>8, ServerSteps DEF WholeInv
  <2>2. CASE ServerStep
    <3>1. UNCHANGED mediaVars
      BY <2>2 DEF ServerStep
    <3>2. q \in used
      BY <3>1 DEF mediaVars
    <3>3. grave' = grave \/ \E p \in Role : grave' = [grave EXCEPT ![p] = counter + 1]
      BY <2>2, Zenon DEF ServerStep, Grant, Revoke, Post, Reply, ReplyBumps, ReplySent, ReplyFails
    <3>4. grave'[d] = grave[d]
      BY <1>2, <1>4, <3>2, <3>3
    <3>. QED
      BY <1>5, <2>1, <3>2, <3>4
  <2>3. CASE DictStep
    <3>1. PICK x \in Dict : \/ Push(x) /\ UNCHANGED mediaVars
                            \/ PushUnmirrored(x) /\ UNCHANGED mediaVars
                            \/ PushInVain(x) /\ UNCHANGED mediaVars
                            \/ Remove(x) /\ Unname(x)
                            \/ RemoveSnapshot(x) /\ UNCHANGED mediaVars
      BY <2>3 DEF DictStep
    <3>2. CASE Remove(x) /\ Unname(x)
      <4>1. q \in used /\ d # x
        BY <3>2 DEF Unname
      <4>2. grave' = [p \in Row |-> IF p = x \/ (p \in Role /\ Parent[p] = x /\ row[p].live)
                                    THEN counter + 1 ELSE grave[p]]
        BY <3>2 DEF Remove, TearDown
      <4>3. grave'[d] = grave[d]
        BY <1>4, <4>1, <4>2
      <4>. QED
        BY <1>5, <2>1, <4>1, <4>3
    <3>3. CASE UNCHANGED mediaVars /\ (Push(x) \/ PushUnmirrored(x) \/ PushInVain(x) \/ RemoveSnapshot(x))
      <4>1. q \in used
        BY <3>3 DEF mediaVars
      <4>2. grave' = grave
        BY <3>3, Zenon DEF Push, PushUnmirrored, PushInVain, RemoveSnapshot, serverVars
      <4>. QED
        BY <1>5, <2>1, <4>1, <4>2
    <3>. QED
      BY <3>1, <3>2, <3>3
  <2>4. CASE SweepStep
    <3>1. used' = used
      BY <2>4 DEF SweepStep, mediaVars, MediaRestart
    <3>2. grave' = grave
      <4>1. \/ Sweep \/ Restart
            \/ \E x \in Dict : WithdrawFails(x) \/ BuildFails(x) \/ RemoveSnapshotFails(x)
        BY <2>4 DEF SweepStep
      <4>. QED
        BY <4>1, Zenon DEF Sweep, Restart, WithdrawFails, BuildFails, RemoveSnapshotFails, SweepBegins, List,
              WithdrawObject, WithdrawMark, Marks, BuildBegins, Copy, Upload, Mark, serverVars
    <3>. QED
      BY <1>5, <2>1, <3>1, <3>2
  <2>. QED
    BY <1>8, <2>2, <2>3, <2>4
<1>9. CASE MediaStep
  <2>1. row' = row
    BY <1>9 DEF MediaStep, serverVars
  <2>2. q \in used \/ row[d].live
    <3>1. CASE Reconcile \/ Uploads \/ Week
      <4>1. used' = used
        BY <3>1, Zenon DEF Reconcile, RunBegins, ListObjects, TrueUp, Expire, DeleteObjects, DropRows, RunEnds,
              ReadLiveKeys, MarkOrphans, HealStore, HealRecord, Uploads, Sent, RecordUpload, StoreThumb,
              UploadFails, Week
      <4>. QED
        BY <4>1
    <3>2. CASE \E x \in Item : Presign(x) \/ Store(x)
      BY <3>2 DEF Presign, Store
    <3>3. CASE \E x \in Item : Attach(x)
      BY <3>3 DEF Attach
    <3>4. CASE \E x \in Item : Detach(x)
      BY <3>4 DEF Detach
    <3>5. CASE \E x \in Dict : Fault(x)
      BY <3>5 DEF Fault
    <3>6. CASE DeleteSome \/ (\E v \in Thumb : HealFails(v)) \/ RunDies
      BY <3>6 DEF DeleteSome, HealFails, RunDies
    <3>. QED
      BY <1>9, <3>1, <3>2, <3>3, <3>4, <3>5, <3>6 DEF MediaStep
  <2>. QED
    BY <1>6, <2>1, <2>2
<1>10. CASE UNCHANGED vars
  BY <1>6, <1>10 DEF vars, mediaVars, serverVars
<1>. QED
  BY <1>7, <1>8, <1>9, <1>10 DEF Next

LEMMA MediaKeeps == WholeInv /\ [Next]_vars => MediaInv'
<1>1. SUFFICES ASSUME MediaInv, Housed, UNCHANGED mediaVars PROVE MediaInv'
  BY MediaMoves, OwnKeeps DEF WholeInv
<1>2. UNCHANGED <<stored, ledger, used, upload, unreadable, run, weekly, relinked, bucket>>
  BY <1>1 DEF mediaVars
<1>3. MediaTypes' /\ Needed' = Needed
  BY <1>1, <1>2 DEF MediaInv, MediaTypes, Needed
<1>. QED
  BY <1>1, <1>2, <1>3, Quiet

LEMMA WholeStarts == Init => WholeInv
<1>1. ASSUME Init PROVE Housed
  <2>1. PICK s \in Starts : row = FirstRows(s.live) /\ used = s.media \cap Item
    BY <1>1 DEF Init
  <2>2. \A q \in s.media : Home[q] \in s.live /\ Home[q] \in Row
    BY CatalogueAssumption, MediaSets DEF Row
  <2>. QED
    BY <2>1, <2>2 DEF Housed, FirstRows
<1>. QED
  BY <1>1, InitSound, MediaStart DEF WholeInv

LEMMA WholeKeeps == WholeInv /\ [Next]_vars => WholeInv'
BY MediaKeeps, HousedKeeps, NextSound DEF WholeInv, MediaInv

LEMMA WholeHolds == Spec => []WholeInv
BY WholeStarts, WholeKeeps, PTL DEF Spec

\* Every reachable state is type-correct, for any rows, admins, starts and budgets: process_sync,
\* the engines' rounds and the sweep keep to their tables.
THEOREM TypeCorrect == Spec => []TypeOK
<1>1. WholeInv => TypeOK
  BY DEF WholeInv, IInv
<1>. QED
  BY <1>1, WholeHolds, PTL

\* Whatever a copy holds alive - a page's file, a request, an answer, a file to roll back to -
\* the server has had, and unless it is a message has it still or keeps its tombstone; what is
\* flagged is as its edit left it; a dictionary is deleted in a browser after the server only.
THEOREM CopiesAreSound == Spec => []IInv
<1>1. WholeInv => IInv
  BY DEF WholeInv
<1>. QED
  BY <1>1, WholeHolds, PTL

-------------------------------------------------------------------------------
(* What follows.                                                             *)

\* A flagged row whose server row is gone has a tombstone there, so process_sync refuses it and
\* never inserts a row: no push brings back what was deleted, or a child without its parent.
THEOREM NoEditRevives == Spec => []AbsentIsBuried
<1>1. ASSUME IInv PROVE AbsentIsBuried
  <2>1. SUFFICES ASSUME NEW a \in Admin, NEW q \in file[a].dirty, ~row[q].live PROVE grave[q] # 0
    BY DEF AbsentIsBuried
  <2>2. q \in Row
    BY <1>1, TypeParts DEF IInv, AdminTypes, Files
  <2>3. Flag(q, file[a].row[q]) /\ Sound(q, file[a].row[q], Seen, clock)
    BY <1>1, <2>2 DEF IInv, SoundFile
  <2>. QED
    BY <2>1, <2>3 DEF Flag, Sound, Seen
<1>. QED
  BY <1>1, CopiesAreSound, PTL

\* process_sync's last writer wins, and the endpoints' own writes, never put an earlier text over
\* a later one, unless the mirror of a content cursor has set the row's stamp back.
THEOREM TextsOnlyGetLater == Spec => LaterEditWins
<1>. DEFINE A == \A q \in Row : row[q].live /\ row'[q].live /\ row[q].text <= row[q].stamp
                                => row'[q].text >= row[q].text
<1>1. ASSUME WholeInv, [Next]_vars PROVE A
  <2>1. TypeOK /\ TypeOK' /\ SoundServer /\ AllSound(Seen, Gone, clock)
    BY <1>1, MediaKeeps, NextTypes DEF WholeInv, MediaInv, IInv, AllSound
  <2>2. TextsGrow => A
    BY DEF TextsGrow
  <2>3. CASE ServerStep \/ DictStep \/ SweepStep
    BY <1>1, <2>1, <2>2, <2>3, ServerSteps DEF WholeInv
  <2>4. ASSUME NEW a \in Admin, Answer(a) PROVE A
    <3>. DEFINE req == round[a]
    <3>1. req \in Rounds /\ SoundRound(req, Seen, Gone, clock)
      BY <2>1, TypeParts DEF AdminTypes, AllSound
    <3>2. row' = Merged(req)
      BY <2>4 DEF Answer, Merge
    <3>. HIDE DEF req
    <3>3. SUFFICES ASSUME NEW q \in Row, row[q].live, row'[q].live, row[q].text <= row[q].stamp
                   PROVE  row'[q].text >= row[q].text
      OBVIOUS
    <3>4. row[q] \in Version /\ req.rows[q] \in Version
      BY <2>1, <3>1, TypeParts DEF ServerTypes, Rounds
    <3>5. CASE q \in Written(req)
      <4>1. row'[q] = req.rows[q] /\ row[q].stamp <= req.rows[q].stamp
        BY <2>1, <3>1, <3>2, <3>5, NothingInserted DEF Merged
      <4>2. req.rows[q].text = req.rows[q].stamp
        BY <3>1, <3>5 DEF SoundRound, Flag, Written
      <4>. QED
        BY <3>3, <3>4, <4>1, <4>2 DEF Version
    <3>6. CASE q \notin Written(req)
      <4>1. row'[q] = row[q]
        BY <3>2, <3>3, <3>6 DEF Merged, Base, Without, Absent
      <4>. QED
        BY <3>4, <4>1 DEF Version
    <3>. QED
      BY <3>5, <3>6
  <2>5. CASE AdminStep
    <3>1. PICK a \in Admin : Edited(a) \/ Disturbed(a) \/ Runs(a)
      BY <2>5 DEF AdminStep
    <3>2. CASE Answer(a)
      BY <2>4, <3>2
    <3>3. CASE ~Answer(a)
      <4>1. row' = row
        BY <3>1, <3>3, Zenon DEF Edited, Disturbed, Runs, Step, ReadTable, Ask, Refuse, Lose, Apply, Commit,
              Save, Delete, Sync, Flush, Begin, Reload, Disconnect, Reconnect, serverVars
      <4>. QED
        BY <2>1, <2>2, <4>1, Steady
    <3>. QED
      BY <3>2, <3>3
  <2>6. CASE MediaStep \/ UNCHANGED vars
    BY <2>1, <2>2, <2>6, Steady DEF MediaStep, vars, serverVars
  <2>. QED
    BY <1>1, <2>3, <2>5, <2>6 DEF Next
<1>. HIDE DEF A
<1>2. WholeInv /\ [Next]_vars => [A]_vars
  BY <1>1
<1>3. Spec => [][A]_vars
  BY <1>2, WholeHolds, PTL DEF Spec
<1>. QED
  BY <1>3 DEF A, LaterEditWins

\* The weekly job starts the deletion clock on nothing that a live row named when it looked at
\* the dictionary: a file that cannot be read marks nothing, a rendition stands with its original,
\* and whoever uploads, attaches or deletes meanwhile cannot make it.
THEOREM NoMarkIsFalse == Spec => NoFalseMark
<1>. DEFINE A == \A q \in Needed : ledger[q].mark = 0 /\ ledger'[q].mark # 0
                                   => q \in WithThumbs(relinked)
<1>1. ASSUME WholeInv, [Next]_vars PROVE A
  <2>1. CASE OwnStep
    BY <1>1, <2>1, MarkedByLook DEF WholeInv
  <2>2. CASE UNCHANGED mediaVars
    BY <2>2 DEF mediaVars
  <2>. QED
    BY <1>1, <2>1, <2>2, MediaMoves
<1>. HIDE DEF A
<1>2. WholeInv /\ [Next]_vars => [A]_vars
  BY <1>1
<1>3. Spec => [][A]_vars
  BY <1>2, WholeHolds, PTL DEF Spec
<1>. QED
  BY <1>3 DEF A, NoFalseMark

\* Whatever the interleaving of uploads, edits, deletions, restarts and the job, the job deletes
\* no object that a live row names, but one whose row came after the run looked at its
\* dictionary and one of a dictionary that the run could not read.
THEOREM LiveMediaSurvive == Spec => LiveMediaKept
<1>. DEFINE A == \A q \in Needed : q \in stored /\ q \notin stored'
                                   => q \in WithThumbs(relinked) \/ Home[q] \in run.skipped
<1>1. ASSUME WholeInv, [Next]_vars PROVE A
  <2>1. CASE OwnStep
    BY <1>1, <2>1, DeletedUnspared DEF WholeInv
  <2>2. CASE UNCHANGED mediaVars
    BY <2>2 DEF mediaVars
  <2>. QED
    BY <1>1, <2>1, <2>2, MediaMoves
<1>. HIDE DEF A
<1>2. WholeInv /\ [Next]_vars => [A]_vars
  BY <1>1
<1>3. Spec => [][A]_vars
  BY <1>2, WholeHolds, PTL DEF Spec
<1>. QED
  BY <1>3 DEF A, LiveMediaKept

===============================================================================
