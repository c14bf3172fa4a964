----------------------------- MODULE SnapshotProofs -----------------------------
(***************************************************************************)
(* What the snapshot sweep keeps, for any dictionaries, admins, starts and *)
(* budgets.  The sweep is driven by a column of a row that admins push     *)
(* back whole, so what their browsers hold is part of the argument.        *)
(***************************************************************************)
EXTENDS AdminSyncProofs

-------------------------------------------------------------------------------
(* The inductive invariant.                                                  *)

\* Every mark (snapshot_uploaded_at) in a file is of the past, and a dictionary edited there
\* was marked before the edit: a push brings no mark that hides what it changes.
OldMarks(f, c) ==
    \A d \in Dict : /\ f.row[d].uploaded <= c
                    /\ d \in f.dirty => f.row[d].uploaded < f.row[d].text

OldRound(r, c) ==
    /\ \A d \in Dict : /\ r.rows[d].uploaded <= c /\ r.answer.rows[d].uploaded <= c
                       /\ d \in r.read => r.rows[d].uploaded < r.rows[d].text
    /\ OldMarks(r.undo, c)

AllOld(c) == \A a \in Admin : OldMarks(file[a], c) /\ OldRound(round[a], c)

Open(d) == row[d].live /\ row[d].tag # "secure"

\* The content is published, or it or the row's text is later than the mark.
Promised(d) ==
    \/ published[d] >= content[d]
    \/ content[d] > row[d].uploaded
    \/ row[d].text > row[d].uploaded

Shown(d) ==
    /\ 0 < content[d] /\ row[d].uploaded <= clock
    /\ row[d].live => published[d] <= content[d] /\ pruned[d] <= content[d]
    /\ d \in teardown => ~row[d].live
    /\ Open(d) => Promised(d)

\* A dictionary listed as secure that is public by now was edited since it was marked.
Withdrawn(d) ==
    sweep.pc = "withdraw" /\ d \in sweep.todo \cup sweep.at /\ Open(d)
        => row[d].uploaded < row[d].text

\* What is copied is the content, unless that changed after the build began.
Copied(d) ==
    sweep.pc \in {"build", "mark"} /\ d \in sweep.at /\ row[d].live /\ sweep.bytes # 0
        => /\ published[d] <= sweep.bytes /\ sweep.bytes <= content[d]
           /\ sweep.bytes = content[d] \/ content[d] > sweep.ts
Uploaded(d) ==
    sweep.pc = "mark" /\ d \in sweep.at /\ row[d].live
        => published[d] >= content[d] \/ content[d] > sweep.ts

SweepOK(d) == Shown(d) /\ Withdrawn(d) /\ Copied(d) /\ Uploaded(d)

InHand ==
    /\ sweep.ts <= clock
    /\ sweep.bytes # 0 => sweep.pc \in {"build", "mark"} /\ sweep.at # {}

SnapInv ==
    /\ CopyInv
    /\ InHand
    /\ AllOld(clock)
    /\ \A d \in Dict : SweepOK(d)

-------------------------------------------------------------------------------
(* What an admin's browser holds.                                            *)

LEMMA DictRows == \A d \in Dict : d \in Row /\ d \notin Child /\ d \notin Role /\ d \notin Message
BY CatalogAssumption DEF Row, Child

LEMMA OldLater ==
    ASSUME NEW c \in Nat, NEW e \in Nat, c <= e
    PROVE  /\ \A f \in Files : OldMarks(f, c) => OldMarks(f, e)
           /\ \A r \in Rounds : OldRound(r, c) => OldRound(r, e)
<1>1. \A v \in Version : v.uploaded <= c => v.uploaded <= e
  BY DEF Version
<1>2. ASSUME NEW f \in Files, OldMarks(f, c) PROVE OldMarks(f, e)
  <2>1. \A d \in Dict : f.row[d] \in Version
    BY DictRows DEF Files
  <2>. QED
    BY <1>1, <1>2, <2>1 DEF OldMarks
<1>3. ASSUME NEW r \in Rounds, OldRound(r, c) PROVE OldRound(r, e)
  <2>1. r.undo \in Files /\ \A d \in Dict : r.rows[d] \in Version /\ r.answer.rows[d] \in Version
    BY DictRows DEF Rounds, Answers
  <2>. QED
    BY <1>1, <1>2, <1>3, <2>1 DEF OldRound
<1>. QED
  BY <1>2, <1>3

LEMMA OldLiterals ==
    ASSUME NEW c \in Nat
    PROVE  /\ Absent.uploaded = 0 /\ Absent.uploaded <= c
           /\ OldMarks(NoFile, c) /\ OldRound(NoRound, c)
           /\ \A full : OldRound(Begun(full), c)
<1>1. Absent.uploaded = 0 /\ Absent.uploaded <= c
  BY DEF Absent
<1>. HIDE DEF Absent
<1>2. /\ \A q \in Row : NoFile.row[q] = Absent
      /\ NoFile.dirty = {}
  BY DEF NoFile
<1>3. OldMarks(NoFile, c)
  BY <1>1, <1>2, DictRows DEF OldMarks
<1>4. /\ \A q \in Row : NoRound.rows[q] = Absent /\ NoRound.answer.rows[q] = Absent
      /\ NoRound.read = {} /\ NoRound.undo = NoFile
  BY DEF NoRound, NoAnswer
<1>5. OldRound(NoRound, c)
  BY <1>1, <1>3, <1>4, DictRows DEF OldRound
<1>6. ASSUME NEW full PROVE OldRound(Begun(full), c)
  <2>1. Begun(full).rows = NoRound.rows /\ Begun(full).read = NoRound.read
        /\ Begun(full).answer = NoRound.answer /\ Begun(full).undo = NoRound.undo
    BY DEF Begun, NoRound
  <2>. QED
    BY <1>5, <2>1 DEF OldRound
<1>. QED
  BY <1>1, <1>3, <1>5, <1>6

\* A file whose rows are those of f or Absent, and whose flags are flags of f on rows it kept.
LEMMA OldShrinks ==
    ASSUME NEW c \in Nat, NEW f, NEW g, OldMarks(f, c), g.dirty \subseteq f.dirty,
           \A d \in Dict : g.row[d] = f.row[d] \/ (g.row[d] = Absent /\ d \notin g.dirty)
    PROVE  OldMarks(g, c)
BY OldLiterals DEF OldMarks

LEMMA OldDropped ==
    ASSUME NEW c \in Nat, NEW f \in Files, OldMarks(f, c), NEW D
    PROVE  OldMarks(Dropped(f, D), c)
<1>. DEFINE g == Dropped(f, D)
<1>1. \A q \in Row : g.row[q] = IF q \in WithChildren(D) THEN Absent ELSE f.row[q]
  <2>1. \A q \in Row : Without(f.row, D)[q] = IF q \in WithChildren(D) THEN Absent ELSE f.row[q]
    BY DEF Without
  <2>. QED
    BY <2>1, DroppedParts
<1>2. g.dirty = f.dirty \ WithChildren(D)
  BY DroppedParts
<1>. HIDE DEF g
<1>3. OldMarks(g, c)
  BY <1>1, <1>2, DictRows, OldShrinks
<1>. QED
  BY <1>3 DEF g

LEMMA OldCleared ==
    ASSUME AdminTypes, NEW a \in Admin, NEW c \in Nat, OldMarks(file[a], c)
    PROVE  OldMarks(Cleared(a), c)
<1>. DEFINE f == Dropped(file[a], DeletesApplied(a))
<1>1. file[a] \in Files
  BY DEF AdminTypes
<1>2. f \in Files /\ OldMarks(f, c)
  BY <1>1, OldDropped, FileTypes
<1>3. Cleared(a).row = f.row /\ Cleared(a).dirty = f.dirty
  BY <1>2 DEF Cleared, Files
<1>. HIDE DEF f
<1>. QED
  BY <1>2, <1>3 DEF OldMarks

\* The upsert deletes grants in the way, and no dictionary.
LEMMA OldUpserted ==
    ASSUME NEW c \in Nat, NEW f \in Files, NEW ans \in Answers, OldMarks(f, c),
           \A d \in Dict : ans.rows[d].uploaded <= c
    PROVE  OldMarks(Upserted(f, ans), c)
<1>. DEFINE g == Upserted(f, ans)
<1>1. /\ \A q \in Row : g.row[q] = IF q \in ans.changes THEN ans.rows[q]
                                   ELSE IF q \in Collisions(f, ans) THEN Absent ELSE f.row[q]
      /\ g.dirty = f.dirty \ ans.changes
  BY DEF Upserted, Files
<1>2. \A d \in Dict : d \notin Collisions(f, ans)
  BY DictRows DEF Collisions, InTheWay
<1>. HIDE DEF g
<1>3. OldMarks(g, c)
  BY <1>1, <1>2, DictRows DEF OldMarks
<1>. QED
  BY <1>3 DEF g

LEMMA OldApplied ==
    ASSUME AdminTypes, NEW a \in Admin, NEW c \in Nat, OldMarks(file[a], c)
    PROVE  OldMarks(Applied(a), c)
<1>. DEFINE f == [file[a] EXCEPT !.dirty = Flagged(a)]
            g == Dropped(f, Ghosts(a))
<1>1. file[a] \in Files
  BY DEF AdminTypes
<1>2. Flagged(a) \subseteq file[a].dirty /\ file[a].dirty \subseteq Row
  BY <1>1 DEF Flagged, Files
<1>3. f \in Files
  BY <1>1, <1>2, FileTypes
<1>4. f.row = file[a].row /\ f.dirty = Flagged(a)
  BY <1>1 DEF Files
<1>5. Applied(a) = [g EXCEPT !.cursor = round[a].answer.cursor, !.queue = g.queue \ round[a].queue]
  BY DEF Applied
<1>. HIDE DEF f
<1>6. OldMarks(f, c)
  BY <1>2, <1>4 DEF OldMarks
<1>7. g \in Files /\ OldMarks(g, c)
  BY <1>3, <1>6, OldDropped, FileTypes
<1>. HIDE DEF g
<1>8. Applied(a).row = g.row /\ Applied(a).dirty = g.dirty
  BY <1>5, <1>7 DEF Files
<1>. QED
  BY <1>7, <1>8 DEF OldMarks

-------------------------------------------------------------------------------
(* The admins' steps.                                                        *)

LEMMA OldOneAdmin ==
    ASSUME TypeOK, TypeOK', AllOld(clock), clock <= clock', NEW a \in Admin,
           \/ file' = file
           \/ \E f : file' = [file EXCEPT ![a] = f] /\ OldMarks(f, clock'),
           \/ round' = round
           \/ \E r : round' = [round EXCEPT ![a] = r] /\ OldRound(r, clock')
    PROVE  AllOld(clock)'
<1>1. file \in [Admin -> Files] /\ round \in [Admin -> Rounds] /\ clock \in Nat /\ clock' \in Nat
  BY DEF TypeOK
<1>2. ASSUME NEW b \in Admin PROVE OldMarks(file[b], clock') /\ OldRound(round[b], clock')
  <2>1. file[b] \in Files /\ round[b] \in Rounds
    BY <1>1
  <2>. QED
    BY <1>1, <2>1, OldLater DEF AllOld
<1>3. ASSUME NEW b \in Admin PROVE OldMarks(file'[b], clock')
  <2>1. CASE \E f : file' = [file EXCEPT ![a] = f] /\ OldMarks(f, clock')
    BY <1>1, <1>2, <2>1
  <2>. QED
    BY <1>2, <2>1
<1>4. ASSUME NEW b \in Admin PROVE OldRound(round'[b], clock')
  <2>1. CASE \E r : round' = [round EXCEPT ![a] = r] /\ OldRound(r, clock')
    BY <1>1, <1>2, <2>1
  <2>. QED
    BY <1>2, <2>1
<1>. QED
  BY <1>3, <1>4 DEF AllOld

\* The page stamps what it edits with a new time, later than every mark.
LEMMA OldPage ==
    ASSUME TypeOK, TypeOK', AllOld(clock), clock <= clock', NEW a \in Admin,
           \/ \E q \in Row : \E tag \in Tags(q) : Save(a, q, tag)
           \/ \E q : Delete(a, q)
           \/ Sync(a) \/ Flush(a) \/ Reload(a) \/ Disconnect(a) \/ Reconnect(a)
    PROVE  AllOld(clock)'
<1>1. /\ clock \in Nat /\ clock' \in Nat
      /\ file \in [Admin -> Files] /\ round \in [Admin -> Rounds]
      /\ file[a] \in Files /\ round[a] \in Rounds
  BY DEF TypeOK
<1>2. OldMarks(file[a], clock) /\ OldRound(round[a], clock)
  BY DEF AllOld
<1>3. OldMarks(file[a], clock') /\ OldRound(round[a], clock')
  BY <1>1, <1>2, OldLater
<1>4. CASE \E q \in Row : \E tag \in Tags(q) : Save(a, q, tag)
  <2>1. PICK q \in Row : \E tag \in Tags(q) : Save(a, q, tag)
    BY <1>4
  <2>2. PICK tag \in Tags(q) : Save(a, q, tag)
    BY <2>1
  <2>. DEFINE v == [file[a].row[q] EXCEPT !.stamp = clock + 1, !.text = clock + 1, !.tag = tag]
              f == [file[a] EXCEPT !.row[q] = v, !.dirty = @ \cup {q}]
  <2>3. /\ file' = [file EXCEPT ![a].row[q] = v, ![a].dirty = @ \cup {q}]
        /\ clock' = clock + 1 /\ round' = round
    BY <2>2 DEF Save
  <2>4. file[a].row \in [Row -> Version] /\ file[a].row[q] \in Version /\ file[a].dirty \subseteq Row
    BY <1>1 DEF Files
  <2>5. v.uploaded = file[a].row[q].uploaded /\ v.text = clock + 1
        /\ file[a].row[q].uploaded \in Nat
    BY <2>4 DEF Version
  <2>. HIDE DEF v
  <2>6. f.row = [file[a].row EXCEPT ![q] = v] /\ f.dirty = file[a].dirty \cup {q}
    BY <1>1 DEF Files
  <2>7. file' = [file EXCEPT ![a] = f]
    BY <1>1, <2>3
  <2>. HIDE DEF f
  <2>8. ASSUME NEW d \in Dict
        PROVE  f.row[d].uploaded <= clock' /\ (d \in f.dirty => f.row[d].uploaded < f.row[d].text)
    <3>1. CASE d = q
      <4>1. file[a].row[q].uploaded <= clock
        BY <1>2, <3>1 DEF OldMarks
      <4>2. f.row[d] = v
        BY <2>4, <2>6, <3>1
      <4>. QED
        BY <1>1, <2>3, <2>5, <4>1, <4>2
    <3>2. CASE d # q
      <4>1. f.row[d] = file[a].row[d] /\ (d \in f.dirty => d \in file[a].dirty)
        BY <2>4, <2>6, <3>2, DictRows
      <4>. QED
        BY <1>3, <4>1 DEF OldMarks
    <3>. QED
      BY <3>1, <3>2
  <2>9. OldMarks(f, clock')
    BY <2>8 DEF OldMarks
  <2>. QED
    BY <2>3, <2>7, <2>9, OldOneAdmin
<1>5. CASE \E q : Delete(a, q)
  <2>1. PICK q : Delete(a, q)
    BY <1>5
  <2>. DEFINE g == Dropped(file[a], {q})
              f == [g EXCEPT !.queue = file[a].queue \cup {q}]
  <2>2. file' = [file EXCEPT ![a] = f] /\ round' = round
    BY <2>1 DEF Delete
  <2>3. g \in Files /\ OldMarks(g, clock')
    BY <1>1, <1>3, OldDropped, FileTypes
  <2>. HIDE DEF g
  <2>4. f.row = g.row /\ f.dirty = g.dirty
    BY <2>3 DEF Files
  <2>. HIDE DEF f
  <2>5. OldMarks(f, clock')
    BY <2>3, <2>4 DEF OldMarks
  <2>. QED
    BY <2>2, <2>5, OldOneAdmin
<1>6. OldRound(NoRound, clock') /\ \A full : OldRound(Begun(full), clock')
  BY <1>1, OldLiterals
<1>7. CASE Sync(a) \/ Flush(a) \/ Disconnect(a) \/ Reconnect(a)
  <2>1. Begin(a) => file' = file /\ round' = [round EXCEPT ![a] = Begun(FALSE)]
    BY DEF Begin
  <2>2. /\ file' = file
        /\ round' = round \/ round' = [round EXCEPT ![a] = Begun(FALSE)]
    BY <1>7, <2>1, Zenon DEF Sync, Flush, Disconnect, Reconnect
  <2>. QED
    BY <1>6, <2>2, OldOneAdmin
<1>8. CASE Reload(a)
  <2>. DEFINE f == IF round[a].phase = "applying" THEN round[a].undo ELSE file[a]
  <2>1. /\ file' = [file EXCEPT ![a] = f]
        /\ \E r \in {NoRound, Begun(FALSE)} : round' = [round EXCEPT ![a] = r]
    BY <1>8 DEF Reload
  <2>2. OldMarks(f, clock')
    BY <1>3 DEF OldRound
  <2>. HIDE DEF f
  <2>. QED
    BY <1>6, <2>1, <2>2, OldOneAdmin
<1>. QED
  BY <1>4, <1>5, <1>7, <1>8

LEMMA OldEnds ==
    ASSUME NEW a \in Admin, NEW c \in Nat,
           Excused(a) \/ Succeeded(a) \/ \E kind : Struck(a, kind)
    PROVE  \E r : round' = [round EXCEPT ![a] = r] /\ OldRound(r, c)
<1>1. \E r : round' = [round EXCEPT ![a] = r] /\ (r = NoRound \/ r = Begun(TRUE))
  <2>1. CASE Excused(a) \/ Succeeded(a)
    BY <2>1, Zenon DEF Excused, Succeeded
  <2>2. ASSUME NEW kind, Struck(a, kind)
        PROVE  \E r : round' = [round EXCEPT ![a] = r] /\ (r = NoRound \/ r = Begun(TRUE))
    <3>. DEFINE n == IF engine[a].strikes.kind = kind THEN engine[a].strikes.n + 1 ELSE 1
                starts == kind = "fk" /\ n >= 2 /\ ~engine[a].healed /\ engine[a].online
    <3>1. round' = [round EXCEPT ![a] = IF starts THEN Begun(TRUE) ELSE NoRound]
      BY <2>2 DEF Struck
    <3>. HIDE DEF starts
    <3>. QED
      BY <3>1
  <2>. QED
    BY <2>1, <2>2
<1>. QED
  BY <1>1, OldLiterals

\* A round moves versions from the file to the server and back; it makes none.
LEMMA OldStep ==
    ASSUME TypeOK, TypeOK', AllOld(clock), clock' = clock, NEW a \in Admin,
           Step(a) \/ Lose(a), \A d \in Dict : row'[d].uploaded <= clock
    PROVE  AllOld(clock)'
<1>1. /\ clock \in Nat /\ AdminTypes /\ file[a] \in Files /\ round[a] \in Rounds
      /\ round[a].undo \in Files /\ round[a].answer \in Answers /\ clock <= clock'
  BY TypeParts DEF AdminTypes, TypeOK, Rounds
<1>2. OldMarks(file[a], clock) /\ OldRound(round[a], clock)
  BY DEF AllOld
<1>3. CASE ReadTable(a)
  <2>. DEFINE S == Table(round[a].table) \cap file[a].dirty
              rows == [q \in Row |-> IF q \in S THEN file[a].row[q] ELSE round[a].rows[q]]
              r == [round[a] EXCEPT !.table = @ + 1, !.read = @ \cup S, !.rows = rows]
  <2>1. file' = file /\ round' = [round EXCEPT ![a] = r]
    BY <1>3 DEF ReadTable
  <2>2. S \subseteq file[a].dirty
    OBVIOUS
  <2>. HIDE DEF S
  <2>3. \A d \in Dict : rows[d] = IF d \in S THEN file[a].row[d] ELSE round[a].rows[d]
    BY DictRows
  <2>. HIDE DEF rows
  <2>4. /\ r.rows = rows /\ r.read = round[a].read \cup S
        /\ r.answer = round[a].answer /\ r.undo = round[a].undo
    BY <1>1 DEF Rounds
  <2>. HIDE DEF r
  <2>5. OldRound(r, clock)
    BY <1>2, <2>2, <2>3, <2>4 DEF OldRound, OldMarks
  <2>. QED
    BY <1>1, <2>1, <2>5, OldOneAdmin
<1>4. CASE Ask(a)
  <2>. DEFINE c == IF round[a].full THEN 0 ELSE file[a].cursor
              r == [round[a] EXCEPT !.phase = "asked", !.queue = file[a].queue, !.cursor = c]
  <2>1. file' = file /\ round' = [round EXCEPT ![a] = r]
    BY <1>4 DEF Ask
  <2>. HIDE DEF c
  <2>2. /\ r.rows = round[a].rows /\ r.read = round[a].read
        /\ r.answer = round[a].answer /\ r.undo = round[a].undo
    BY <1>1 DEF Rounds
  <2>. HIDE DEF r
  <2>3. OldRound(r, clock)
    BY <1>2, <2>2 DEF OldRound
  <2>. QED
    BY <1>1, <2>1, <2>3, OldOneAdmin
<1>5. CASE Answer(a)
  <2>. DEFINE ans == AnswerTo(round[a])
              r == [round[a] EXCEPT !.phase = "answered", !.answer = ans]
  <2>1. file' = file /\ round' = [round EXCEPT ![a] = r]
    BY <1>5 DEF Answer
  <2>2. ans.rows = row'
    BY DEF AnswerTo
  <2>. HIDE DEF ans
  <2>3. /\ r.rows = round[a].rows /\ r.read = round[a].read
        /\ r.answer = ans /\ r.undo = round[a].undo
    BY <1>1 DEF Rounds
  <2>. HIDE DEF r
  <2>4. OldRound(r, clock)
    BY <1>2, <2>2, <2>3 DEF OldRound
  <2>. QED
    BY <1>1, <2>1, <2>4, OldOneAdmin
<1>6. CASE Refuse(a) \/ Lose(a)
  <2>1. file' = file /\ (Excused(a) \/ Struck(a, "refused"))
    BY <1>6 DEF Refuse, Lose
  <2>2. \E r : round' = [round EXCEPT ![a] = r] /\ OldRound(r, clock)
    BY <1>1, <2>1, OldEnds
  <2>. QED
    BY <1>1, <2>1, <2>2, OldOneAdmin
<1>7. CASE Apply(a)
  <2>. DEFINE f == Cleared(a)
              ans == round[a].answer
  <2>1. f \in Files /\ OldMarks(f, clock)
    BY <1>1, <1>2, ClearedTypes, OldCleared
  <2>2. ans \in Answers /\ \A d \in Dict : ans.rows[d].uploaded <= clock
    BY <1>1, <1>2 DEF OldRound
  <2>3. OldMarks(Upserted(f, ans), clock)
    <3>. HIDE DEF f, ans
    <3>. QED
      BY <1>1, <2>1, <2>2, OldUpserted
  <2>4. CASE Struck(a, "unique") /\ file' = file
    <3>1. \E r : round' = [round EXCEPT ![a] = r] /\ OldRound(r, clock)
      BY <1>1, <2>4, OldEnds
    <3>. QED
      BY <1>1, <2>4, <3>1, OldOneAdmin
  <2>5. CASE /\ file' = [file EXCEPT ![a] = Upserted(f, ans)]
             /\ round' = [round EXCEPT ![a].phase = "applying", ![a].undo = file[a]]
    <3>. DEFINE r == [round[a] EXCEPT !.phase = "applying", !.undo = file[a]]
    <3>1. round' = [round EXCEPT ![a] = r]
      BY <2>5
    <3>2. /\ r.rows = round[a].rows /\ r.read = round[a].read
          /\ r.answer = round[a].answer /\ r.undo = file[a]
      BY <1>1 DEF Rounds
    <3>. HIDE DEF r
    <3>3. OldRound(r, clock)
      BY <1>2, <3>2 DEF OldRound
    <3>. HIDE DEF f, ans
    <3>. QED
      BY <1>1, <2>3, <2>5, <3>1, <3>3, OldOneAdmin
  <2>. QED
    BY <1>7, <2>4, <2>5 DEF Apply
<1>8. CASE Commit(a)
  <2>1. OldMarks(Applied(a), clock) /\ OldMarks(round[a].undo, clock)
    BY <1>1, <1>2, OldApplied DEF OldRound
  <2>2. /\ Succeeded(a) \/ Struck(a, "fk")
        /\ \/ file' = [file EXCEPT ![a] = Applied(a)]
           \/ file' = [file EXCEPT ![a] = round[a].undo]
    BY <1>8 DEF Commit
  <2>3. \E r : round' = [round EXCEPT ![a] = r] /\ OldRound(r, clock)
    BY <1>1, <2>2, OldEnds
  <2>. QED
    BY <1>1, <2>1, <2>2, <2>3, OldOneAdmin
<1>. QED
  BY <1>3, <1>4, <1>5, <1>6, <1>7, <1>8 DEF Step

-------------------------------------------------------------------------------
(* The server's steps, one dictionary at a time.                             *)

LEMMA Amounts ==
    ASSUME TypeOK
    PROVE  /\ clock \in Nat /\ sweep \in Sweeps /\ sweep.ts \in Nat /\ sweep.bytes \in Nat
           /\ row \in [Row -> Version]
           /\ content \in [Dict -> Nat] /\ pruned \in [Dict -> Nat] /\ published \in [Dict -> Nat]
           /\ \A d \in Dict : /\ row[d] \in Version /\ row[d].uploaded \in Nat
                              /\ row[d].text \in Nat /\ row[d].live \in BOOLEAN
                              /\ content[d] \in Nat /\ pruned[d] \in Nat /\ published[d] \in Nat
<1>1. /\ clock \in Nat /\ sweep \in Sweeps /\ row \in [Row -> Version]
      /\ content \in [Dict -> Nat] /\ pruned \in [Dict -> Nat] /\ published \in [Dict -> Nat]
  BY DEF TypeOK
<1>2. sweep.ts \in Nat /\ sweep.bytes \in Nat
  BY <1>1 DEF Sweeps
<1>3. \A d \in Dict : row[d] \in Version
  BY <1>1, DictRows
<1>. QED
  BY <1>1, <1>2, <1>3 DEF Version

Same(d) ==
    /\ row'[d].live = row[d].live /\ row'[d].tag = row[d].tag
    /\ row'[d].text = row[d].text /\ row'[d].uploaded = row[d].uploaded

\* The sweep does nothing; the content changes now, or not.
LEMMA Onwards ==
    ASSUME TypeOK, TypeOK', NEW d \in Dict, SweepOK(d), Same(d), clock <= clock',
           UNCHANGED <<pruned, published, teardown, sweep>>, sweep.ts <= clock,
           content'[d] = content[d] \/ content'[d] = clock + 1,
           content[d] <= clock
    PROVE  SweepOK(d)'
<1>1. /\ clock \in Nat /\ clock' \in Nat /\ sweep.ts \in Nat /\ sweep.bytes \in Nat
      /\ row[d].uploaded \in Nat /\ row[d].text \in Nat /\ content[d] \in Nat
      /\ pruned[d] \in Nat /\ published[d] \in Nat
  BY Amounts DEF TypeOK
<1>2. content[d] <= content'[d]
  BY <1>1
<1>3. content'[d] = content[d] \/ content'[d] > clock
  BY <1>1
<1>4. Shown(d)'
  <2>1. 0 < content'[d] /\ row'[d].uploaded <= clock'
    BY <1>1, <1>2 DEF SweepOK, Shown, Same
  <2>2. row'[d].live => published'[d] <= content'[d] /\ pruned'[d] <= content'[d]
    BY <1>1, <1>2 DEF SweepOK, Shown, Same
  <2>3. d \in teardown' => ~row'[d].live
    BY DEF SweepOK, Shown, Same
  <2>4. Open(d)' => Promised(d)'
    <3>1. row[d].uploaded <= clock /\ (Open(d) => Promised(d))
      BY DEF SweepOK, Shown
    <3>2. content'[d] > clock => content'[d] > row'[d].uploaded
      BY <1>1, <3>1 DEF Same
    <3>. QED
      BY <1>3, <3>1, <3>2 DEF Open, Promised, Same
  <2>. QED
    BY <2>1, <2>2, <2>3, <2>4 DEF Shown
<1>5. Withdrawn(d)'
  BY DEF SweepOK, Withdrawn, Open, Same
<1>6. content'[d] > clock => content'[d] > sweep'.ts
  BY <1>1
<1>7. Copied(d)'
  BY <1>1, <1>2, <1>3, <1>6 DEF SweepOK, Copied, Same
<1>8. Uploaded(d)'
  BY <1>1, <1>3, <1>6 DEF SweepOK, Uploaded, Same
<1>. QED
  BY <1>4, <1>5, <1>7, <1>8 DEF SweepOK

\* A dictionary that is gone, or comes back from no push.
LEMMA Over ==
    ASSUME NEW d \in Dict, ~row'[d].live, 0 < content'[d], row'[d].uploaded <= clock'
    PROVE  SweepOK(d)'
BY DEF SweepOK, Shown, Withdrawn, Copied, Uploaded, Open

\* A push: the row is gone, or as it was, or an edit's, marked before it was edited.
LEMMA Pushed ==
    ASSUME SnapInv, TypeOK', NEW a \in Admin, Answer(a), UNCHANGED sweepVars, NEW d \in Dict
    PROVE  SweepOK(d)' /\ row'[d].uploaded <= clock'
<1>1. /\ TypeOK /\ SoundServer /\ Timely /\ SweepOK(d) /\ sweep.ts <= clock
      /\ SoundRound(round[a], Seen, Gone, clock) /\ OldRound(round[a], clock)
      /\ round[a] \in Rounds
  BY DEF SnapInv, InHand, CopyInv, WholeInv, IInv, AllOld, TypeOK
<1>2. clock' = clock /\ Merge(round[a])
  BY DEF Answer
<1>. DEFINE req == round[a]
<1>3. row'[d] = IF d \in Written(req) THEN req.rows[d]
                ELSE IF d \in WithChildren(req.queue) THEN Absent ELSE row[d]
  <2>1. row' = Merged(req)
    BY <1>2 DEF Merge
  <2>2. Base(req)[d] = IF d \in WithChildren(req.queue) THEN Absent ELSE row[d]
    BY DictRows DEF Base, Without
  <2>. HIDE DEF req
  <2>. QED
    BY <2>1, <2>2, DictRows DEF Merged
<1>4. d \in Written(req) => row[d].live /\ d \in req.read
  <2>1. Written(req) \subseteq req.read
    BY DEF Written
  <2>. HIDE DEF req
  <2>. QED
    BY <1>1, <2>1, NothingInserted DEF req
<1>5. d \in req.read => /\ req.rows[d].uploaded < req.rows[d].text
                        /\ req.rows[d].uploaded <= clock
  BY <1>1 DEF OldRound
<1>. HIDE DEF req
<1>6. /\ clock \in Nat /\ 0 < content[d] /\ content'[d] = content[d] /\ content[d] <= clock
      /\ row[d].uploaded <= clock /\ clock <= clock'
  BY <1>1, <1>2, Amounts DEF SweepOK, Shown, Timely, sweepVars
<1>7. CASE d \in Written(req)
  <2>1. row'[d] = req.rows[d] /\ row[d].live
        /\ row'[d].uploaded < row'[d].text /\ row'[d].uploaded <= clock'
    BY <1>2, <1>3, <1>4, <1>5, <1>7
  <2>2. Shown(d)'
    BY <1>1, <1>6, <2>1 DEF SweepOK, Shown, Promised, sweepVars
  <2>3. Withdrawn(d)' /\ Copied(d)' /\ Uploaded(d)'
    BY <1>1, <2>1 DEF SweepOK, Withdrawn, Copied, Uploaded, sweepVars
  <2>. QED
    BY <2>1, <2>2, <2>3 DEF SweepOK
<1>8. CASE d \notin Written(req) /\ d \in WithChildren(req.queue)
  <2>1. ~row'[d].live /\ row'[d].uploaded <= clock'
    BY <1>2, <1>3, <1>6, <1>8, OldLiterals DEF Absent
  <2>. QED
    BY <1>6, <2>1, Over
<1>9. CASE row'[d] = row[d]
  <2>1. Same(d) /\ UNCHANGED <<pruned, published, teardown, sweep>>
    BY <1>9 DEF Same, sweepVars
  <2>. QED
    BY <1>1, <1>2, <1>6, <1>9, <2>1, Onwards
<1>. QED
  BY <1>3, <1>7, <1>8, <1>9

\* The content changes, or only the stamp does.
LEMMA SweepContent ==
    ASSUME TypeOK, TypeOK', Timely, sweep.ts <= clock, \A e \in Dict : SweepOK(e),
           NEW d \in Dict, Push(d) \/ PushUnmirrored(d) \/ PushInVain(d)
    PROVE  \A e \in Dict : SweepOK(e)'
<1>1. /\ clock \in Nat /\ row \in [Row -> Version] /\ content \in [Dict -> Nat]
      /\ \A e \in Dict : content[e] <= clock
  BY Amounts DEF Timely
<1>2. /\ clock' = clock \/ clock' = clock + 1
      /\ content' = content \/ content' = [content EXCEPT ![d] = clock + 1]
      /\ row' = row \/ \E s : row' = Mirrored(d, s)
      /\ UNCHANGED <<pruned, published, teardown, sweep>>
  BY DEF Push, PushUnmirrored, PushInVain, sweepVars
<1>3. \A e \in Dict : Same(e)
  <2>1. ASSUME NEW s, row' = Mirrored(d, s), NEW e \in Dict PROVE Same(e)
    BY <1>1, <2>1, DictRows DEF Mirrored, Same, Version
  <2>. QED
    BY <1>2, <2>1 DEF Same
<1>4. clock <= clock' /\ \A e \in Dict : content'[e] = content[e] \/ content'[e] = clock + 1
  BY <1>1, <1>2
<1>. QED
  BY <1>1, <1>2, <1>3, <1>4, Onwards

\* The dictionary's rows and its file go; another's row is not touched.
LEMMA SweepRemove ==
    ASSUME TypeOK, TypeOK', Timely, sweep.ts <= clock, \A e \in Dict : SweepOK(e),
           NEW d \in Dict, Remove(d)
    PROVE  \A e \in Dict : SweepOK(e)'
<1>1. /\ clock \in Nat /\ row \in [Row -> Version] /\ content \in [Dict -> Nat]
      /\ pruned \in [Dict -> Nat] /\ \A e \in Dict : content[e] <= clock
  BY Amounts DEF Timely
<1>2. /\ row' = Without(row, {d}) /\ clock' = clock
      /\ content' = [content EXCEPT ![d] = Blank] /\ pruned' = [pruned EXCEPT ![d] = 0]
      /\ teardown' = teardown \cup {d} /\ UNCHANGED <<published, sweep>>
  BY DEF Remove, TearDown
<1>3. \A e \in Dict : row'[e] = IF e = d THEN Absent ELSE row[e]
  BY <1>2, DictRows DEF Without, WithChildren
<1>4. SweepOK(d)'
  <2>1. ~row'[d].live /\ row'[d].uploaded <= clock'
    <3>1. ~Absent.live /\ Absent.uploaded = 0
      BY DEF Absent
    <3>2. row'[d] = Absent
      BY <1>3
    <3>. QED
      BY <1>1, <1>2, <3>1, <3>2
  <2>2. 0 < content'[d]
    BY <1>1, <1>2 DEF Blank
  <2>. QED
    BY <2>1, <2>2, Over
<1>5. ASSUME NEW e \in Dict, e # d PROVE SweepOK(e)'
  <2>1. /\ row'[e] = row[e] /\ content'[e] = content[e] /\ pruned'[e] = pruned[e]
        /\ published'[e] = published[e] /\ sweep' = sweep /\ clock' = clock
        /\ (e \in teardown' <=> e \in teardown)
    BY <1>1, <1>2, <1>3, <1>5
  <2>2. SweepOK(e)
    OBVIOUS
  <2>3. Shown(e)'
    BY <2>1, <2>2 DEF SweepOK, Shown, Open, Promised
  <2>4. Withdrawn(e)' /\ Copied(e)' /\ Uploaded(e)'
    BY <2>1, <2>2 DEF SweepOK, Withdrawn, Copied, Uploaded, Open
  <2>. QED
    BY <2>3, <2>4 DEF SweepOK
<1>. QED
  BY <1>4, <1>5

-------------------------------------------------------------------------------
(* The sweep's steps.                                                        *)

\* A step that leaves the rows as they are and publishes nothing: what is to be shown of the
\* sweep is what it says of the dictionaries it has in hand.
LEMMA Listing ==
    ASSUME TypeOK, NEW d \in Dict, Shown(d), Same(d), clock' = clock, content' = content,
           pruned'[d] \in {pruned[d], content[d]}, published'[d] = published[d],
           teardown' \subseteq teardown
    PROVE  Shown(d)'
BY Amounts DEF Shown, Same, Open, Promised

LEMMA NoSweepOK ==
    ASSUME NEW d \in Dict, sweep'.at = {}, sweep'.pc \in {"off", "build"}
    PROVE  Withdrawn(d)' /\ Copied(d)' /\ Uploaded(d)'
BY DEF Withdrawn, Copied, Uploaded

LEMMA SweepLists ==
    ASSUME TypeOK, TypeOK', Timely, InHand, \A d \in Dict : SweepOK(d),
           SweepBegins \/ List \/ Restart
    PROVE  InHand' /\ (\A d \in Dict : SweepOK(d)')
<1>1. /\ clock \in Nat /\ row \in [Row -> Version] /\ sweep \in Sweeps
      /\ content \in [Dict -> Nat] /\ \A d \in Dict : Shown(d)
      /\ \A d \in Dict : row[d].live \in BOOLEAN
  BY Amounts DEF SweepOK
<1>2. /\ NoSweep.ts = 0 /\ NoSweep.at = {} /\ NoSweep.pc = "off" /\ NoSweep.bytes = 0
      /\ \A S, pc : LET w == [NoSweep EXCEPT !.pc = pc, !.todo = S]
                    IN  /\ w.ts = 0 /\ w.at = {} /\ w.bytes = 0
                        /\ w.pc = pc /\ w.todo = S
  BY DEF NoSweep
<1>3. /\ clock' = clock /\ content' = content /\ pruned' = pruned /\ published' = published
      /\ teardown' \subseteq teardown
  BY DEF SweepBegins, List, Restart, serverVars
<1>4. CASE SweepBegins
  <2>. DEFINE late == IF reconciled THEN {} ELSE Behind
              S == {d \in Dict : Secure(d) /\ row[d].uploaded # 0}
  <2>1. /\ row' = [q \in Row |-> IF q \in late THEN [row[q] EXCEPT !.stamp = content[q]]
                                 ELSE row[q]]
        /\ sweep' = [NoSweep EXCEPT !.pc = "withdraw", !.todo = S]
    BY <1>4 DEF SweepBegins
  <2>. HIDE DEF late, NoSweep
  <2>2. \A d \in Dict : Same(d)
    BY <1>1, <2>1, DictRows DEF Same, Version
  <2>3. /\ sweep'.ts = 0 /\ sweep'.bytes = 0 /\ sweep'.at = {}
        /\ sweep'.pc = "withdraw" /\ sweep'.todo = S
    BY <1>2, <2>1
  <2>4. ASSUME NEW d \in Dict PROVE SweepOK(d)'
    <3>1. Shown(d)'
      BY <1>1, <1>3, <2>2, Listing
    <3>2. d \in sweep'.todo => ~Open(d)'
      BY <2>2, <2>3 DEF Secure, Open, Same
    <3>3. Withdrawn(d)' /\ Copied(d)' /\ Uploaded(d)'
      BY <2>3, <3>2 DEF Withdrawn, Copied, Uploaded
    <3>. QED
      BY <3>1, <3>3 DEF SweepOK
  <2>. QED
    BY <1>1, <1>3, <2>3, <2>4 DEF InHand
<1>5. CASE List \/ Restart
  <2>1. row' = row
    BY <1>5 DEF List, Restart, serverVars
  <2>2. \E S : sweep' = NoSweep \/ sweep' = [NoSweep EXCEPT !.pc = "build", !.todo = S]
    BY <1>5 DEF List, Restart
  <2>. HIDE DEF NoSweep
  <2>3. /\ sweep'.ts = 0 /\ sweep'.bytes = 0 /\ sweep'.at = {}
        /\ sweep'.pc \in {"off", "build"}
    <3>1. PICK S : sweep' = NoSweep \/ sweep' = [NoSweep EXCEPT !.pc = "build", !.todo = S]
      BY <2>2
    <3>2. LET w == [NoSweep EXCEPT !.pc = "build", !.todo = S]
          IN  w.ts = 0 /\ w.bytes = 0 /\ w.at = {} /\ w.pc = "build"
      BY <1>2
    <3>. QED
      BY <1>2, <3>1, <3>2
  <2>4. ASSUME NEW d \in Dict PROVE SweepOK(d)'
    <3>1. Shown(d)'
      BY <1>1, <1>3, <2>1, Listing DEF Same
    <3>. QED
      BY <2>3, <3>1, NoSweepOK DEF SweepOK
  <2>. QED
    BY <1>1, <1>3, <2>3, <2>4 DEF InHand
<1>. QED
  BY <1>4, <1>5

\* A secure dictionary's object goes; one made public meanwhile was edited and is due.
LEMMA SweepWithdraws ==
    ASSUME TypeOK, TypeOK', Timely, InHand, \A d \in Dict : SweepOK(d),
           NEW c \in Dict, WithdrawObject(c) \/ WithdrawFails(c)
    PROVE  InHand' /\ (\A d \in Dict : SweepOK(d)')
<1>1. /\ clock \in Nat /\ sweep \in Sweeps /\ published \in [Dict -> Nat]
      /\ \A d \in Dict : content[d] \in Nat /\ row[d].uploaded \in Nat /\ row[d].text \in Nat
  BY Amounts
<1>2. /\ sweep.pc = "withdraw" /\ sweep.at = {} /\ c \in sweep.todo
      /\ row' = row /\ clock' = clock /\ content' = content /\ pruned' = pruned
      /\ teardown' = teardown
      /\ published' = published \/ published' = [published EXCEPT ![c] = 0]
  BY DEF WithdrawObject, WithdrawFails, serverVars
<1>3. /\ sweep'.pc = "withdraw" /\ sweep'.ts = sweep.ts /\ sweep'.bytes = 0
      /\ sweep'.todo \cup sweep'.at \subseteq sweep.todo
  <2>1. CASE WithdrawObject(c)
    BY <1>1, <1>2, <2>1 DEF WithdrawObject, Sweeps, InHand
  <2>2. CASE WithdrawFails(c)
    BY <1>1, <1>2, <2>2 DEF WithdrawFails, Sweeps, InHand
  <2>. QED
    BY <2>1, <2>2
<1>4. ASSUME NEW d \in Dict PROVE SweepOK(d)'
  <2>1. SweepOK(d)
    OBVIOUS
  <2>2. d \in sweep.todo /\ Open(d) => row[d].uploaded < row[d].text
    BY <1>2, <2>1 DEF SweepOK, Withdrawn
  <2>3. published'[d] = published[d] \/ (d = c /\ published'[d] = 0)
    BY <1>1, <1>2
  <2>4. Open(d)' => Promised(d)'
    <3>1. CASE published'[d] = published[d]
      BY <1>2, <2>1, <3>1 DEF SweepOK, Shown, Open, Promised
    <3>2. CASE d = c
      BY <1>1, <1>2, <2>2, <3>2 DEF Open, Promised
    <3>. QED
      BY <2>3, <3>1, <3>2
  <2>5. Shown(d)'
    <3>1. published'[d] <= published[d] /\ published[d] \in Nat /\ published'[d] \in Nat
      BY <1>1, <2>3
    <3>2. Shown(d) /\ content[d] \in Nat
      BY <1>1, <2>1 DEF SweepOK
    <3>. QED
      BY <1>2, <2>4, <3>1, <3>2 DEF Shown
  <2>6. Withdrawn(d)'
    BY <1>2, <1>3, <2>2 DEF Withdrawn, Open
  <2>7. Copied(d)' /\ Uploaded(d)'
    BY <1>3 DEF Copied, Uploaded
  <2>. QED
    BY <2>5, <2>6, <2>7 DEF SweepOK
<1>. QED
  BY <1>2, <1>3, <1>4 DEF InHand

\* One dictionary is built: what is published is no older than what was.
LEMMA SweepBuilds ==
    ASSUME TypeOK, TypeOK', Timely, InHand, \A d \in Dict : SweepOK(d),
           NEW c \in Dict, BuildBegins(c) \/ Copy(c) \/ Upload(c)
    PROVE  InHand' /\ (\A d \in Dict : SweepOK(d)')
<1>1. /\ clock \in Nat /\ sweep \in Sweeps /\ sweep.ts \in Nat /\ sweep.bytes \in Nat
      /\ pruned \in [Dict -> Nat] /\ published \in [Dict -> Nat]
      /\ \A d \in Dict : content[d] \in Nat /\ row[d].uploaded \in Nat /\ row[d].text \in Nat
      /\ \A d \in Dict : published[d] \in Nat /\ pruned[d] \in Nat
  BY Amounts
<1>2. /\ row' = row /\ clock' = clock /\ content' = content /\ teardown' = teardown
      /\ sweep.pc = "build" /\ clock <= clock /\ sweep.ts <= clock
  BY <1>1 DEF BuildBegins, Copy, Upload, serverVars, InHand
<1>3. \A d \in Dict : SweepOK(d) /\ Same(d)
  BY <1>2 DEF Same
<1>4. CASE BuildBegins(c)
  <2>1. /\ sweep.at = {} /\ sweep' = [sweep EXCEPT !.todo = @ \ {c}, !.at = {c}, !.ts = clock]
        /\ published' = published /\ pruned' \in {pruned, [pruned EXCEPT ![c] = content[c]]}
    BY <1>4 DEF BuildBegins
  <2>2. sweep'.pc = "build" /\ sweep'.ts = clock /\ sweep'.bytes = sweep.bytes
    BY <1>1, <1>2, <2>1 DEF Sweeps
  <2>3. sweep'.at = {c}
    BY <1>1, <2>1 DEF Sweeps
  <2>4. sweep.bytes = 0
    BY <2>1 DEF InHand
  <2>5. ASSUME NEW d \in Dict PROVE SweepOK(d)'
    <3>1. pruned'[d] \in {pruned[d], content[d]}
      BY <1>1, <2>1
    <3>2. Shown(d)'
      BY <1>2, <1>3, <2>1, <3>1, Listing DEF SweepOK
    <3>3. Withdrawn(d)' /\ Copied(d)' /\ Uploaded(d)'
      BY <2>2, <2>4 DEF Withdrawn, Copied, Uploaded
    <3>. QED
      BY <3>2, <3>3 DEF SweepOK
  <2>. QED
    BY <1>2, <2>2, <2>4, <2>5 DEF InHand
<1>5. CASE Copy(c)
  <2>1. /\ sweep.at = {c} /\ sweep' = [sweep EXCEPT !.bytes = content[c]]
        /\ published' = published /\ pruned' = pruned
    BY <1>5 DEF Copy
  <2>2. /\ sweep'.pc = "build" /\ sweep'.ts = sweep.ts /\ sweep'.at = {c}
        /\ sweep'.bytes = content[c]
    BY <1>1, <1>2, <2>1 DEF Sweeps
  <2>3. ASSUME NEW d \in Dict PROVE SweepOK(d)'
    <3>1. Shown(d)'
      BY <1>2, <1>3, <2>1, Listing DEF SweepOK
    <3>2. Copied(d)'
      <4>1. SUFFICES ASSUME d = c, row[d].live PROVE published[d] <= content[d]
        BY <1>1, <1>2, <2>1, <2>2 DEF Copied
      <4>. QED
        BY <1>3, <4>1 DEF SweepOK, Shown
    <3>3. Withdrawn(d)' /\ Uploaded(d)'
      BY <2>2 DEF Withdrawn, Uploaded
    <3>. QED
      BY <3>1, <3>2, <3>3 DEF SweepOK
  <2>. QED
    BY <1>2, <2>2, <2>3 DEF InHand
<1>6. CASE Upload(c)
  <2>1. /\ sweep.at = {c} /\ sweep.bytes # 0 /\ sweep' = [sweep EXCEPT !.pc = "mark"]
        /\ published' = [published EXCEPT ![c] = sweep.bytes] /\ pruned' = pruned
    BY <1>6 DEF Upload
  <2>2. /\ sweep'.pc = "mark" /\ sweep'.ts = sweep.ts /\ sweep'.at = {c}
        /\ sweep'.bytes = sweep.bytes
    BY <1>1, <1>2, <2>1 DEF Sweeps
  <2>3. ASSUME NEW d \in Dict, d # c PROVE SweepOK(d)'
    <3>1. published'[d] = published[d]
      BY <1>1, <2>1, <2>3
    <3>2. Shown(d)'
      BY <1>2, <1>3, <2>1, <3>1, Listing DEF SweepOK
    <3>3. Withdrawn(d)' /\ Copied(d)' /\ Uploaded(d)'
      BY <2>2, <2>3 DEF Withdrawn, Copied, Uploaded
    <3>. QED
      BY <3>2, <3>3 DEF SweepOK
  <2>4. SweepOK(c)'
    <3>1. published'[c] = sweep.bytes
      BY <1>1, <2>1
    <3>2. row[c].live => /\ published[c] <= sweep.bytes /\ sweep.bytes <= content[c]
                         /\ sweep.bytes = content[c] \/ content[c] > sweep.ts
      BY <1>2, <1>3, <2>1 DEF SweepOK, Copied
    <3>3. Open(c) => Promised(c)
      BY <1>3 DEF SweepOK, Shown
    <3>4. Open(c)' => Promised(c)'
      BY <1>1, <1>2, <3>1, <3>2, <3>3 DEF Open, Promised
    <3>5. Shown(c)'
      BY <1>2, <1>3, <2>1, <3>1, <3>2, <3>4 DEF SweepOK, Shown
    <3>6. Copied(c)' /\ Uploaded(c)'
      BY <1>1, <1>2, <2>2, <3>1, <3>2 DEF Copied, Uploaded
    <3>7. Withdrawn(c)'
      BY <2>2 DEF Withdrawn
    <3>. QED
      BY <3>5, <3>6, <3>7 DEF SweepOK
  <2>. QED
    BY <1>2, <2>1, <2>2, <2>3, <2>4 DEF InHand
<1>. QED
  BY <1>4, <1>5, <1>6

\* The mark is the time the build began: what came later stays due.
LEMMA SweepMarks ==
    ASSUME TypeOK, TypeOK', Timely, InHand, \A d \in Dict : SweepOK(d),
           NEW c \in Dict, WithdrawMark(c) \/ Mark(c) \/ BuildFails(c)
    PROVE  InHand' /\ (\A d \in Dict : SweepOK(d)')
<1>1. /\ clock \in Nat /\ sweep \in Sweeps /\ sweep.ts \in Nat /\ row \in [Row -> Version]
      /\ \A d \in Dict : content[d] \in Nat /\ row[d].uploaded \in Nat /\ row[d].text \in Nat
  BY Amounts
<1>2. /\ clock' = clock /\ content' = content /\ pruned' = pruned /\ published' = published
      /\ teardown' = teardown
  BY DEF WithdrawMark, Mark, BuildFails, Marks, serverVars
<1>3. ASSUME NEW d \in Dict, row'[d] = row[d] PROVE Shown(d)'
  BY <1>2, <1>3, Listing DEF SweepOK, Same
<1>4. ASSUME NEW ts, Marks(c, ts)
      PROVE  /\ \A d \in Dict : d # c \/ ~row[c].live => row'[d] = row[d]
             /\ row[c].live => /\ row'[c].live /\ row'[c].uploaded = ts
                               /\ row'[c].text = row[c].text /\ row'[c].tag = row[c].tag
  <2>1. CASE row[c].live
    <3>1. row' = [row EXCEPT ![c].uploaded = ts]
      BY <1>4, <2>1 DEF Marks
    <3>2. row[c] \in Version
      BY <1>1, DictRows
    <3>. QED
      BY <1>1, <2>1, <3>1, <3>2, DictRows DEF Version
  <2>2. CASE ~row[c].live
    BY <1>4, <2>2 DEF Marks, serverVars
  <2>. QED
    BY <2>1, <2>2
<1>5. CASE WithdrawMark(c)
  <2>1. /\ sweep.pc = "withdraw" /\ sweep.at = {c} /\ Marks(c, 0)
        /\ sweep' = [sweep EXCEPT !.at = {}]
    BY <1>5 DEF WithdrawMark
  <2>2. /\ sweep'.pc = "withdraw" /\ sweep'.ts = sweep.ts /\ sweep'.at = {}
        /\ sweep'.todo = sweep.todo /\ sweep'.bytes = 0
    BY <1>1, <2>1 DEF Sweeps, InHand
  <2>3. \A d \in Dict : Copied(d)' /\ Uploaded(d)'
    BY <2>2 DEF Copied, Uploaded
  <2>4. ASSUME NEW d \in Dict, row'[d] = row[d] PROVE SweepOK(d)'
    <3>1. Withdrawn(d)'
      BY <2>1, <2>2, <2>4 DEF SweepOK, Withdrawn, Open
    <3>. QED
      BY <1>3, <2>3, <2>4, <3>1 DEF SweepOK
  <2>5. ASSUME row[c].live PROVE SweepOK(c)'
    <3>1. /\ row'[c].live /\ row'[c].uploaded = 0 /\ row'[c].text = row[c].text
          /\ row'[c].tag = row[c].tag
      BY <1>4, <2>1, <2>5
    <3>2. SweepOK(c)
      OBVIOUS
    <3>3. Shown(c)'
      BY <1>1, <1>2, <2>5, <3>1, <3>2 DEF SweepOK, Shown, Promised
    <3>4. Withdrawn(c)'
      BY <1>1, <2>1, <2>2, <2>5, <3>1, <3>2 DEF SweepOK, Withdrawn, Open
    <3>. QED
      BY <2>3, <3>3, <3>4 DEF SweepOK
  <2>6. \A d \in Dict : SweepOK(d)'
    BY <1>4, <2>1, <2>4, <2>5
  <2>. QED
    BY <1>2, <2>2, <2>6 DEF InHand
<1>6. sweep' = Rest => sweep'.ts = 0 /\ sweep'.bytes = 0 /\ sweep'.at = {}
                       /\ sweep'.pc \in {"off", "build"}
  BY DEF Rest, NoSweep
<1>7. CASE Mark(c)
  <2>1. sweep.pc = "mark" /\ sweep.at = {c} /\ Marks(c, sweep.ts) /\ sweep' = Rest
    BY <1>7 DEF Mark
  <2>2. /\ sweep'.ts = 0 /\ sweep'.bytes = 0 /\ sweep'.at = {}
        /\ \A d \in Dict : Withdrawn(d)' /\ Copied(d)' /\ Uploaded(d)'
    BY <1>6, <2>1, NoSweepOK
  <2>3. ASSUME row[c].live PROVE Shown(c)'
    <3>1. /\ row'[c].live /\ row'[c].uploaded = sweep.ts /\ row'[c].text = row[c].text
          /\ row'[c].tag = row[c].tag
      BY <1>4, <2>1, <2>3
    <3>2. published[c] >= content[c] \/ content[c] > sweep.ts
      BY <2>1, <2>3 DEF SweepOK, Uploaded
    <3>3. SweepOK(c) /\ sweep.ts <= clock
      BY DEF InHand
    <3>. QED
      BY <1>2, <2>3, <3>1, <3>2, <3>3 DEF SweepOK, Shown, Promised
  <2>4. \A d \in Dict : SweepOK(d)'
    BY <1>3, <1>4, <2>1, <2>2, <2>3 DEF SweepOK
  <2>. QED
    BY <1>1, <1>2, <2>2, <2>4 DEF InHand
<1>8. CASE BuildFails(c)
  <2>1. row' = row /\ sweep' = Rest
    BY <1>8 DEF BuildFails, serverVars
  <2>2. /\ sweep'.ts = 0 /\ sweep'.bytes = 0 /\ sweep'.at = {}
        /\ \A d \in Dict : Withdrawn(d)' /\ Copied(d)' /\ Uploaded(d)'
    BY <1>6, <2>1, NoSweepOK
  <2>3. \A d \in Dict : SweepOK(d)'
    BY <1>3, <2>1, <2>2 DEF SweepOK
  <2>. QED
    BY <1>1, <1>2, <2>2, <2>3 DEF InHand
<1>. QED
  BY <1>5, <1>7, <1>8

\* The delete endpoint's last step is for a dictionary that is gone.
LEMMA SnapshotRemoved ==
    ASSUME TypeOK, TypeOK', Timely, InHand, \A d \in Dict : SweepOK(d),
           NEW c \in Dict, RemoveSnapshot(c) \/ RemoveSnapshotFails(c)
    PROVE  InHand' /\ (\A d \in Dict : SweepOK(d)')
<1>1. clock \in Nat /\ published \in [Dict -> Nat]
  BY Amounts
<1>2. /\ c \in teardown /\ teardown' \subseteq teardown
      /\ row' = row /\ clock' = clock /\ content' = content /\ pruned' = pruned /\ sweep' = sweep
      /\ published' = published \/ published' = [published EXCEPT ![c] = 0]
  BY DEF RemoveSnapshot, RemoveSnapshotFails, serverVars
<1>3. ~row[c].live
  BY <1>2 DEF SweepOK, Shown
<1>4. SweepOK(c)'
  BY <1>2, <1>3, Over DEF SweepOK, Shown
<1>5. ASSUME NEW d \in Dict, d # c PROVE SweepOK(d)'
  <2>1. published'[d] = published[d]
    BY <1>1, <1>2, <1>5
  <2>2. Shown(d)'
    BY <1>2, <2>1, Listing DEF SweepOK, Same
  <2>3. SweepOK(d)
    OBVIOUS
  <2>4. Withdrawn(d)' /\ Copied(d)' /\ Uploaded(d)'
    BY <1>2, <2>1, <2>3 DEF SweepOK, Withdrawn, Copied, Uploaded, Open
  <2>. QED
    BY <2>2, <2>4 DEF SweepOK
<1>. QED
  BY <1>2, <1>4, <1>5 DEF InHand

-------------------------------------------------------------------------------
(* The invariant.                                                            *)

LEMMA SweepGoes ==
    ASSUME TypeOK, TypeOK', Timely, InHand, \A d \in Dict : SweepOK(d),
           \/ Sweep \/ Restart
           \/ \E d \in Dict : \/ WithdrawFails(d) \/ BuildFails(d)
                              \/ RemoveSnapshot(d) \/ RemoveSnapshotFails(d)
    PROVE  InHand' /\ (\A d \in Dict : SweepOK(d)')
<1>1. \/ SweepBegins \/ List \/ Restart
      \/ \E c \in Dict : \/ WithdrawObject(c) \/ WithdrawFails(c)
                         \/ BuildBegins(c) \/ Copy(c) \/ Upload(c)
                         \/ WithdrawMark(c) \/ Mark(c) \/ BuildFails(c)
                         \/ RemoveSnapshot(c) \/ RemoveSnapshotFails(c)
  BY DEF Sweep
<1>2. CASE SweepBegins \/ List \/ Restart
  BY <1>2, SweepLists
<1>3. ASSUME NEW c \in Dict, WithdrawObject(c) \/ WithdrawFails(c)
      PROVE  InHand' /\ (\A d \in Dict : SweepOK(d)')
  BY <1>3, SweepWithdraws
<1>4. ASSUME NEW c \in Dict, BuildBegins(c) \/ Copy(c) \/ Upload(c)
      PROVE  InHand' /\ (\A d \in Dict : SweepOK(d)')
  BY <1>4, SweepBuilds
<1>5. ASSUME NEW c \in Dict, WithdrawMark(c) \/ Mark(c) \/ BuildFails(c)
      PROVE  InHand' /\ (\A d \in Dict : SweepOK(d)')
  BY <1>5, SweepMarks
<1>6. ASSUME NEW c \in Dict, RemoveSnapshot(c) \/ RemoveSnapshotFails(c)
      PROVE  InHand' /\ (\A d \in Dict : SweepOK(d)')
  BY <1>6, SnapshotRemoved
<1>. QED
  BY <1>1, <1>2, <1>3, <1>4, <1>5, <1>6

\* Grants and mail touch no dictionary's row.
LEMMA DictsUntouched ==
    ASSUME TypeOK, NEW d \in Dict, ServerStep
    PROVE  row'[d] = row[d]
<1>1. row \in [Row -> Version] /\ d \in Row /\ d \notin Role /\ d \notin Message /\ d \notin Thread
  BY CatalogAssumption DEF TypeOK, Row
<1>2. ASSUME NEW q \in Role, NEW tag \in Tags(q), Grant(q, tag) PROVE row'[d] = row[d]
  <2>1. \E p \in Role : \E v : \/ row' = [row EXCEPT ![p] = v]
                               \/ row' = [row EXCEPT ![p].stamp = v, ![p].text = v]
    BY <1>2 DEF Grant
  <2>. QED
    BY <1>1, <2>1
<1>3. ASSUME NEW q \in Role, Revoke(q) PROVE row'[d] = row[d]
  <2>1. row' = Without(row, {q}) /\ d \notin WithChildren({q})
    BY <1>1, <1>3, DictRows DEF Revoke, WithChildren
  <2>. QED
    BY <1>1, <2>1 DEF Without
<1>4. ASSUME NEW q \in Message,
             Post(q) \/ Reply(q) \/ ReplyBumps(q) \/ ReplySent(q) \/ ReplyFails(q)
      PROVE  row'[d] = row[d]
  <2>1. Parent[q] \in Thread /\ d # q /\ d # Parent[q]
    BY <1>1, CatalogAssumption
  <2>2. \A rows, p, n : d # p /\ rows \in [Row -> Version] => Stamped(rows, p, n)[d] = rows[d]
    BY <1>1 DEF Stamped
  <2>3. CASE Post(q) \/ Reply(q)
    BY <1>1, <2>1, <2>3 DEF Post, Reply
  <2>4. CASE ReplyBumps(q) \/ ReplyFails(q)
    BY <1>1, <2>1, <2>2, <2>4 DEF ReplyBumps, ReplyFails
  <2>5. CASE ReplySent(q)
    <3>1. row' = Stamped(Stamped(row, q, clock + 1), Parent[q], clock + 1)
      BY <2>5 DEF ReplySent
    <3>2. clock + 1 \in Nat /\ q \in Row
      BY TypeParts DEF ServerTypes, Row
    <3>3. Stamped(row, q, clock + 1) \in [Row -> Version]
      BY <1>1, <3>2, RowTypes
    <3>. QED
      BY <1>1, <2>1, <2>2, <3>1, <3>3
  <2>. QED
    BY <1>4, <2>3, <2>4, <2>5
<1>. QED
  BY <1>2, <1>3, <1>4 DEF ServerStep

LEMMA FirstSnapshots == Init => SnapInv
<1>1. SUFFICES ASSUME Init PROVE SnapInv
  OBVIOUS
<1>2. CopyInv /\ TypeOK
  BY <1>1, FirstCopies DEF CopyInv, WholeInv, IInv
<1>3. PICK s \in Starts :
          /\ row = FirstRows(s.live) /\ clock = Epoch
          /\ file = [a \in Admin |-> FirstFile(s, a)] /\ round = [a \in Admin |-> NoRound]
          /\ content = [d \in Dict |-> IF d \in s.live THEN Epoch ELSE Blank]
          /\ pruned = [d \in Dict |-> 0]
          /\ published = [d \in Dict |-> IF d \in s.live THEN Epoch ELSE 0]
          /\ teardown = {} /\ sweep = NoSweep
  BY <1>1 DEF Init
<1>4. \A S : \A d \in Dict : /\ FirstRows(S)[d].live <=> d \in S
                             /\ FirstRows(S)[d].uploaded <= Epoch
  BY DictRows DEF FirstRows, Absent, Epoch
<1>5. /\ sweep.ts = 0 /\ sweep.bytes = 0 /\ sweep.at = {} /\ sweep.pc = "off"
      /\ clock \in Nat /\ Epoch = 2 /\ Blank = 1
  BY <1>2, <1>3 DEF NoSweep, TypeOK, Epoch, Blank
<1>6. ASSUME NEW a \in Admin PROVE OldMarks(file[a], clock) /\ OldRound(round[a], clock)
  <2>1. CASE a \in s.fresh
    BY <1>3, <1>5, <2>1, OldLiterals DEF FirstFile
  <2>2. CASE a \notin s.fresh
    <3>. DEFINE S == IF a \in s.broken THEN s.live \ WithChildren(Dict) ELSE s.live
    <3>1. file[a] = [NoFile EXCEPT !.row = FirstRows(S), !.cursor = 1]
      BY <1>3, <2>2 DEF FirstFile
    <3>. HIDE DEF S
    <3>2. file[a].row = FirstRows(S) /\ file[a].dirty = {}
      BY <3>1 DEF NoFile
    <3>3. OldMarks(file[a], clock)
      BY <1>3, <1>4, <3>2 DEF OldMarks
    <3>. QED
      BY <1>3, <1>5, <3>3, OldLiterals
  <2>. QED
    BY <2>1, <2>2
<1>7. ASSUME NEW d \in Dict PROVE SweepOK(d)
  <2>1. /\ content[d] = IF d \in s.live THEN Epoch ELSE Blank
        /\ published[d] = IF d \in s.live THEN Epoch ELSE 0
        /\ pruned[d] = 0 /\ row[d].uploaded <= clock /\ (row[d].live <=> d \in s.live)
    BY <1>3, <1>4
  <2>2. Shown(d)
    BY <1>3, <1>5, <2>1 DEF Shown, Promised, Open
  <2>. QED
    BY <1>5, <2>2 DEF SweepOK, Withdrawn, Copied, Uploaded
<1>. QED
  BY <1>2, <1>5, <1>6, <1>7 DEF SnapInv, InHand, AllOld

LEMMA SnapshotsKeep == SnapInv /\ [Next]_vars => SnapInv'
<1>1. SUFFICES ASSUME SnapInv, [Next]_vars PROVE SnapInv'
  OBVIOUS
<1>2. /\ CopyInv /\ CopyInv' /\ IInv /\ TypeOK /\ TypeOK' /\ Timely /\ InHand
      /\ AllOld(clock) /\ \A d \in Dict : SweepOK(d)
  BY <1>1, CopiesKeep DEF SnapInv, CopyInv, WholeInv, IInv
<1>3. /\ clock \in Nat /\ clock' \in Nat /\ \A d \in Dict : content[d] <= clock
      /\ \A a \in Admin : file[a] \in Files /\ round[a] \in Rounds
  BY <1>2 DEF TypeOK, Timely
<1>4. SUFFICES InHand' /\ AllOld(clock)' /\ \A d \in Dict : SweepOK(d)'
  BY <1>2 DEF SnapInv
<1>5. ASSUME clock <= clock', UNCHANGED sweepVars, \A d \in Dict : row'[d] = row[d]
      PROVE  InHand' /\ \A d \in Dict : SweepOK(d)'
  <2>1. sweep' = sweep /\ UNCHANGED <<pruned, published, teardown>> /\ content' = content
    BY <1>5 DEF sweepVars
  <2>2. \A d \in Dict : SweepOK(d)'
    BY <1>2, <1>3, <1>5, <2>1, Onwards DEF Same, InHand
  <2>3. sweep.ts \in Nat
    BY <1>2, Amounts
  <2>. QED
    BY <1>2, <1>3, <1>5, <2>1, <2>2, <2>3 DEF InHand
<1>6. ASSUME clock <= clock', UNCHANGED adminVars PROVE AllOld(clock)'
  BY <1>2, <1>3, <1>6, OldLater DEF AllOld, adminVars
<1>7. CASE AdminStep
  <2>1. PICK a \in Admin : (Edited(a) \/ Disturbed(a) \/ Runs(a)) /\ UNCHANGED sweepVars
    BY <1>7 DEF AdminStep
  <2>2. CASE Answer(a)
    <3>1. \A d \in Dict : SweepOK(d)' /\ row'[d].uploaded <= clock'
      BY <1>1, <1>2, <2>1, <2>2, Pushed
    <3>2. clock' = clock /\ sweep' = sweep
      BY <2>1, <2>2 DEF Answer, sweepVars
    <3>3. AllOld(clock)'
      BY <1>2, <2>2, <3>1, <3>2, OldStep DEF Step
    <3>. QED
      BY <1>2, <3>1, <3>2, <3>3 DEF InHand
  <2>3. CASE ~Answer(a)
    <3>1. UNCHANGED <<row, seq, grave, counter>> /\ (clock' = clock \/ clock' = clock + 1)
      BY <2>1, <2>3, ServerWaits
    <3>2. clock <= clock'
      BY <1>3, <3>1
    <3>3. InHand' /\ \A d \in Dict : SweepOK(d)'
      BY <1>5, <2>1, <3>1, <3>2
    <3>4. CASE Step(a) \/ Lose(a)
      <4>1. clock' = clock
        BY <2>3, <3>4 DEF Step, ReadTable, Ask, Refuse, Lose, Apply, Commit, serverVars
      <4>2. \A d \in Dict : row'[d].uploaded <= clock
        BY <1>2, <3>1 DEF SweepOK, Shown
      <4>. QED
        BY <1>2, <3>3, <3>4, <4>1, <4>2, OldStep
    <3>5. CASE \/ \E q \in Row : \E tag \in Tags(q) : Save(a, q, tag)
               \/ \E q : Delete(a, q)
               \/ Sync(a) \/ Flush(a) \/ Reload(a) \/ Disconnect(a) \/ Reconnect(a)
      BY <1>2, <3>2, <3>3, <3>5, OldPage
    <3>. QED
      BY <2>1, <3>4, <3>5 DEF Edited, Disturbed, Runs
  <2>. QED
    BY <2>2, <2>3
<1>8. CASE ServerStep \/ DictStep \/ SweepStep
  <2>1. clock <= clock' /\ UNCHANGED adminVars
    BY <1>2, <1>8, ServerSteps DEF Grows
  <2>2. CASE ServerStep
    BY <1>2, <1>5, <1>6, <2>1, <2>2, DictsUntouched DEF ServerStep
  <2>3. CASE DictStep
    <3>1. PICK d \in Dict : \/ Push(d) \/ PushUnmirrored(d) \/ PushInVain(d)
                            \/ Remove(d) \/ RemoveSnapshot(d)
      BY <2>3 DEF DictStep
    <3>2. CASE RemoveSnapshot(d)
      BY <1>2, <1>6, <2>1, <3>2, SweepGoes
    <3>3. CASE Push(d) \/ PushUnmirrored(d) \/ PushInVain(d) \/ Remove(d)
      <4>1. sweep' = sweep
        BY <3>3 DEF Push, PushUnmirrored, PushInVain, Remove, sweepVars
      <4>2. InHand'
        <5>1. sweep.ts \in Nat
          BY <1>2, Amounts
        <5>. QED
          BY <1>2, <1>3, <2>1, <4>1, <5>1 DEF InHand
      <4>3. sweep.ts <= clock
        BY <1>2 DEF InHand
      <4>. QED
        BY <1>2, <1>6, <2>1, <3>3, <4>2, <4>3, SweepContent, SweepRemove
    <3>. QED
      BY <3>1, <3>2, <3>3
  <2>4. CASE SweepStep
    <3>1. Sweep \/ Restart \/ \E d \in Dict : WithdrawFails(d) \/ BuildFails(d) \/ RemoveSnapshotFails(d)
      BY <2>4 DEF SweepStep
    <3>. QED
      BY <1>2, <1>6, <2>1, <3>1, SweepGoes
  <2>. QED
    BY <1>8, <2>2, <2>3, <2>4
<1>9. CASE MediaStep \/ UNCHANGED vars
  <2>1. UNCHANGED serverVars /\ UNCHANGED adminVars /\ UNCHANGED sweepVars
    BY <1>9 DEF MediaStep, vars
  <2>2. clock <= clock' /\ row' = row
    BY <1>3, <2>1 DEF serverVars
  <2>. QED
    BY <1>5, <1>6, <2>1, <2>2
<1>. QED
  BY <1>1, <1>7, <1>8, <1>9 DEF Next

\* At every statement of a build, what is copied or uploaded is the dictionary's content, or the
\* content is later than the mark the build will set; and no browser, request or answer holds a
\* mark of the future, or a flagged dictionary whose mark is later than its edit.
THEOREM SnapshotsHold == Spec => []SnapInv
BY FirstSnapshots, SnapshotsKeep, PTL DEF Spec

-------------------------------------------------------------------------------
(* What follows.                                                             *)

\* A dictionary that no sweep would list has its content published: whatever pushes, edits in
\* an admin's stale copy, deletions, failures and restarts fall between the steps of a build,
\* its mark is never later than the content it published, unless its stamp was set back.
THEOREM NotDueIsPublished == Spec => []FreshMeansPublished
<1>1. ASSUME SnapInv PROVE FreshMeansPublished
  <2>1. SUFFICES ASSUME NEW d \in Dict, row[d].live, row[d].tag # "secure",
                        ~Due(d), d \notin Behind, ~SetBack(d)
                 PROVE  published[d] >= content[d]
    BY DEF FreshMeansPublished
  <2>2. /\ row[d].stamp \in Nat /\ row[d].text \in Nat /\ row[d].uploaded \in Nat
        /\ content[d] \in Nat
    BY <1>1, Amounts DEF SnapInv, CopyInv, WholeInv, IInv, Version
  <2>3. Promised(d)
    BY <1>1, <2>1 DEF SnapInv, SweepOK, Shown, Open
  <2>. QED
    BY <2>1, <2>2, <2>3 DEF Due, Behind, SetBack, Promised
<1>. QED
  BY <1>1, SnapshotsHold, PTL

\* Tombstones pruned are never newer than the content, so a snapshot older than them is due for
\* another build, and stays due through failed builds and restarts.
THEOREM PrunedIsDue == Spec => []ExpiryHeals
<1>1. ASSUME SnapInv PROVE ExpiryHeals
  <2>1. SUFFICES ASSUME NEW d \in Dict, row[d].live, row[d].tag # "secure",
                        pruned[d] > published[d], ~Due(d), ~SetBack(d), d \notin Behind
                 PROVE  FALSE
    BY DEF ExpiryHeals
  <2>2. /\ row[d].stamp \in Nat /\ row[d].text \in Nat /\ row[d].uploaded \in Nat
        /\ content[d] \in Nat /\ pruned[d] \in Nat /\ published[d] \in Nat
    BY <1>1, Amounts DEF SnapInv, CopyInv, WholeInv, IInv, Version
  <2>3. Promised(d) /\ pruned[d] <= content[d]
    BY <1>1, <2>1 DEF SnapInv, SweepOK, Shown, Open
  <2>. QED
    BY <2>1, <2>2, <2>3 DEF Due, Behind, SetBack, Promised
<1>. QED
  BY <1>1, SnapshotsHold, PTL

===============================================================================
