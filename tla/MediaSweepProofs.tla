--------------------------- MODULE MediaSweepProofs ---------------------------
(***************************************************************************)
(* What the media job never does, for any media, dictionaries, grace,      *)
(* brake, starts and budgets.                                              *)
(***************************************************************************)
EXTENDS CatalogueProps, TLAPS

-------------------------------------------------------------------------------
(* The inductive invariant.                                                  *)

\* An object the run may take though a row names it.
Spared(q) == q \in WithThumbs(relinked) \/ Home[q] \in run.skipped

\* The dictionaries still to look at, the one in hand and those skipped are apart.
Shape ==
    /\ run.pc # "read" => run.at = {}
    /\ run.pc \in {"off", "list", "diff"} => run.skipped = {}
    /\ run.todo \cap run.at = {} /\ run.todo \cap run.skipped = {} /\ run.at \cap run.skipped = {}
    /\ run.pc \in {"delete", "drop"} => run.todo = {}

Unheld == \A q \in Media : ~ledger[q].held => ledger[q].mark = 0

\* Of a dictionary the run has looked at, what is needed is among the keys read; once these
\* are used it has no mark; and it is not in the batch.
NeededIsClear ==
    \A q \in Needed : Looked(Home[q]) /\ ~Spared(q) =>
        /\ Home[q] \in run.at => q \in run.keys
        /\ Home[q] \notin run.at => ledger[q].mark = 0
        /\ run.pc \in {"delete", "drop"} => q \notin run.batch

MediaInv == MediaTypes /\ Shape /\ Unheld /\ NeededIsClear

-------------------------------------------------------------------------------
(* Facts about the data.                                                     *)

LEMMA MediaSets ==
    /\ Item \subseteq Media /\ Thumb \subseteq Media
    /\ \A q \in Media : Home[q] \in Dict
    /\ \A v \in Thumb : Original[v] \in Item /\ Home[v] = Home[Original[v]]
    /\ \A S : S \subseteq Item => WithThumbs(S) \subseteq Media
    /\ \A S, T : S \subseteq T => WithThumbs(S) \subseteq WithThumbs(T)
BY MediaAssumption DEF Media, WithThumbs

\* A mark as a week leaves it.
Aged(e) == IF e.mark \in 1..Grace THEN e.mark + 1 ELSE e.mark

LEMMA Entries ==
    /\ NoEntry \in Entry
    /\ [NoEntry EXCEPT !.held = TRUE, !.since = "recent"] \in Entry
    /\ \A e \in Entry : /\ e.held \in BOOLEAN /\ e.mark \in Nat
                        /\ [e EXCEPT !.mark = 0] \in Entry /\ [e EXCEPT !.mark = 1] \in Entry
                        /\ [e EXCEPT !.since = "recent"] \in Entry
                        /\ [e EXCEPT !.since = "recent"].held = e.held
                        /\ [e EXCEPT !.since = "recent"].mark = e.mark
                        /\ \A s \in {"old"}, m \in 0..(Grace + 1) :
                              /\ [e EXCEPT !.since = s, !.mark = m] \in Entry
                              /\ [e EXCEPT !.since = s, !.mark = m].held = e.held
                              /\ [e EXCEPT !.since = s, !.mark = m].mark = m
                        /\ Aged(e) \in 0..(Grace + 1) /\ (e.mark = 0 => Aged(e) = 0)
<1>1. Grace \in Nat
  BY MediaAssumption
<1>2. NoEntry \in Entry /\ [NoEntry EXCEPT !.held = TRUE, !.since = "recent"] \in Entry
  <2>1. 0 \in 0..(Grace + 1)
    BY <1>1
  <2>. QED
    BY <2>1 DEF NoEntry, Entry
<1>3. SUFFICES ASSUME NEW e \in Entry
               PROVE  /\ e.held \in BOOLEAN /\ e.mark \in Nat
                      /\ [e EXCEPT !.mark = 0] \in Entry /\ [e EXCEPT !.mark = 1] \in Entry
                      /\ [e EXCEPT !.since = "recent"] \in Entry
                      /\ [e EXCEPT !.since = "recent"].held = e.held
                      /\ [e EXCEPT !.since = "recent"].mark = e.mark
                      /\ \A s \in {"old"}, m \in 0..(Grace + 1) :
                            /\ [e EXCEPT !.since = s, !.mark = m] \in Entry
                            /\ [e EXCEPT !.since = s, !.mark = m].held = e.held
                            /\ [e EXCEPT !.since = s, !.mark = m].mark = m
                      /\ Aged(e) \in 0..(Grace + 1) /\ (e.mark = 0 => Aged(e) = 0)
  BY <1>2
<1>4. e.held \in BOOLEAN /\ e.mark \in Nat /\ e.mark \in 0..(Grace + 1)
  BY <1>1 DEF Entry
<1>5. /\ [e EXCEPT !.mark = 0] \in Entry /\ [e EXCEPT !.mark = 1] \in Entry
      /\ [e EXCEPT !.since = "recent"] \in Entry
      /\ [e EXCEPT !.since = "recent"].held = e.held
      /\ [e EXCEPT !.since = "recent"].mark = e.mark
  BY <1>1 DEF Entry
<1>6. Aged(e) \in 0..(Grace + 1) /\ (e.mark = 0 => Aged(e) = 0)
  BY <1>1, <1>4 DEF Aged
<1>7. \A s \in {"old"}, m \in 0..(Grace + 1) :
         /\ [e EXCEPT !.since = s, !.mark = m] \in Entry
         /\ [e EXCEPT !.since = s, !.mark = m].held = e.held
         /\ [e EXCEPT !.since = s, !.mark = m].mark = m
  BY DEF Entry
<1>. QED
  BY <1>4, <1>5, <1>6, <1>7

LEMMA RecordedTypes ==
    ASSUME ledger \in [Media -> Entry], NEW q \in Media
    PROVE  /\ Recorded(q) \in [Media -> Entry]
           /\ \A x \in Media : Recorded(q)[x] = ledger[x] \/ Recorded(q)[x].mark = 0
BY MediaAssumption DEF Recorded, Entry

\* How a step may move the media: not at all, with a dictionary's deletion, with the restart
\* of the server, or by one of the media's own actions.
OwnStep ==
    \/ Reconcile \/ Uploads \/ Week \/ DeleteSome \/ RunDies
    \/ \E q \in Item : Presign(q) \/ Store(q) \/ Attach(q) \/ Detach(q)
    \/ \E d \in Dict : Fault(d) \/ Unname(d)
    \/ \E v \in Thumb : HealFails(v)
    \/ MediaRestart

LEMMA MediaMoves == [Next]_vars => OwnStep \/ UNCHANGED mediaVars
<1>1. AdminStep => UNCHANGED mediaVars
  BY DEF AdminStep
<1>2. ServerStep => UNCHANGED mediaVars
  BY DEF ServerStep
<1>3. DictStep => OwnStep \/ UNCHANGED mediaVars
  BY DEF DictStep, OwnStep
<1>4. SweepStep => OwnStep \/ UNCHANGED mediaVars
  BY DEF SweepStep, OwnStep
<1>5. MediaStep => OwnStep
  BY DEF MediaStep, OwnStep
<1>6. UNCHANGED vars => UNCHANGED mediaVars
  BY DEF vars
<1>. QED
  BY <1>1, <1>2, <1>3, <1>4, <1>5, <1>6 DEF Next

LEMMA MediaStart == Init => MediaInv
<1>1. SUFFICES ASSUME NEW s \in Starts, stored = s.media, used = s.media \cap Item,
                      ledger = [q \in Media |-> [NoEntry EXCEPT !.held = q \in s.media]],
                      upload = [q \in Media |-> "none"], unreadable = {}, run = NoRun,
                      weekly = FALSE, relinked = {}, bucket = s.bucket
               PROVE  MediaInv
  BY DEF Init
<1>2. s.bucket \in BOOLEAN /\ s.media \subseteq Media
  BY CatalogueAssumption
<1>3. ledger \in [Media -> Entry] /\ \A q \in Media : ledger[q].mark = 0
  <2>1. \A b \in BOOLEAN : [NoEntry EXCEPT !.held = b] \in Entry
                             /\ [NoEntry EXCEPT !.held = b].mark = 0
    BY Entries DEF NoEntry, Entry
  <2>2. \A q \in Media : (q \in s.media) \in BOOLEAN
    OBVIOUS
  <2>. HIDE DEF NoEntry
  <2>. QED
    BY <1>1, <2>1, <2>2
<1>4. run \in MediaRuns
  BY <1>1 DEF NoRun, MediaRuns
<1>5. MediaTypes
  BY <1>1, <1>2, <1>3, <1>4 DEF MediaTypes
<1>6. Shape /\ Unheld /\ NeededIsClear
  BY <1>1, <1>3 DEF NoRun, Shape, Unheld, NeededIsClear, Looked
<1>. QED
  BY <1>5, <1>6 DEF MediaInv

-------------------------------------------------------------------------------
(* Uploads and rows.                                                         *)

\* A step that adds nothing to what is needed, marks nothing and leaves the run alone.
LEMMA Quiet ==
    ASSUME MediaInv, MediaTypes', UNCHANGED run, Needed' \subseteq Needed, relinked' = relinked,
           \A q \in Media : ledger'[q] = ledger[q] \/ ledger'[q].mark = 0
    PROVE  MediaInv'
<1>1. Shape' /\ (\A q : Spared(q)' <=> Spared(q)) /\ (\A d : Looked(d)' <=> Looked(d))
  BY DEF MediaInv, Shape, Spared, Looked
<1>2. Unheld'
  BY DEF MediaInv, Unheld
<1>3. Needed \subseteq Media
  BY MediaSets DEF MediaInv, MediaTypes, Needed
<1>4. NeededIsClear'
  BY <1>1, <1>3 DEF MediaInv, NeededIsClear
<1>. QED
  BY <1>1, <1>2, <1>4 DEF MediaInv

LEMMA UploadsKeep ==
    ASSUME MediaInv,
           \/ Uploads
           \/ \E q \in Item : Presign(q) \/ Store(q) \/ Detach(q)
           \/ \E d \in Dict : Fault(d) \/ Unname(d)
    PROVE  MediaInv'
<1>1. MediaTypes /\ ledger \in [Media -> Entry] /\ upload \in [Media -> {"none", "sending", "stored", "making", "ready"}]
  BY DEF MediaInv, MediaTypes
<1>2. used' \subseteq used => Needed' \subseteq Needed
  BY MediaSets DEF Needed
<1>3. ASSUME NEW q \in Media, Sent(q) \/ Store(q) \/ StoreThumb(q) \/ UploadFails(q) PROVE MediaInv'
  <2>1. MediaTypes'
    BY <1>1, <1>3 DEF Sent, Store, StoreThumb, UploadFails, MediaTypes
  <2>. QED
    BY <1>2, <1>3, <2>1, Quiet DEF Sent, Store, StoreThumb, UploadFails
<1>4. ASSUME NEW q \in Media, Presign(q) \/ RecordUpload(q) PROVE MediaInv'
  <2>1. upload' \in [Media -> {"none", "sending", "stored", "making", "ready"}]
    BY <1>1, <1>4 DEF Presign, RecordUpload
  <2>2. ledger' = Recorded(q) /\ UNCHANGED <<stored, used, unreadable, run, weekly, relinked, bucket>>
    BY <1>4 DEF Presign, RecordUpload
  <2>3. MediaTypes'
    BY <1>1, <2>1, <2>2, RecordedTypes DEF MediaTypes
  <2>. QED
    BY <1>1, <1>2, <2>2, <2>3, RecordedTypes, Quiet
<1>5. ASSUME NEW q \in Item, Detach(q) PROVE MediaInv'
  <2>1. MediaTypes'
    BY <1>1, <1>5 DEF Detach, MediaTypes
  <2>. QED
    BY <1>2, <1>5, <2>1, Quiet DEF Detach
<1>6. ASSUME NEW d \in Dict, Fault(d) \/ Unname(d) PROVE MediaInv'
  <2>1. MediaTypes'
    BY <1>1, <1>6 DEF Fault, Unname, MediaTypes
  <2>. QED
    BY <1>2, <1>6, <2>1, Quiet DEF Fault, Unname
<1>. QED
  BY <1>3, <1>4, <1>5, <1>6, MediaSets DEF Uploads

\* A row that comes after the run looked is spared.
LEMMA AttachKeeps ==
    ASSUME MediaInv, NEW q \in Item, Attach(q)
    PROVE  MediaInv'
<1>1. MediaTypes /\ Shape /\ Unheld /\ NeededIsClear
  BY DEF MediaInv
<1>2. MediaTypes'
  BY <1>1, MediaSets DEF Attach, MediaTypes
<1>3. /\ used' = used \cup {q} /\ run' = run /\ ledger' = ledger
      /\ relinked' = IF Looked(Home[q]) THEN relinked \cup {q} ELSE relinked
  BY DEF Attach
<1>4. Shape' /\ Unheld' /\ (\A d : Looked(d)' <=> Looked(d))
  BY <1>1, <1>3 DEF Shape, Unheld, Looked
<1>5. ASSUME NEW x \in Needed', Looked(Home[x])', ~Spared(x)' PROVE x \in Needed /\ ~Spared(x)
  <2>1. ~Spared(x)
    BY <1>3, <1>5, MediaSets DEF Spared
  <2>2. CASE x = q \/ (x \in Thumb /\ Original[x] = q)
    <3>1. Home[x] = Home[q] /\ Looked(Home[q])
      BY <1>4, <1>5, <2>2, MediaSets
    <3>2. x \in WithThumbs(relinked')
      BY <1>3, <2>2, <3>1 DEF WithThumbs
    <3>. QED
      BY <1>5, <3>2 DEF Spared
  <2>3. CASE ~(x = q \/ (x \in Thumb /\ Original[x] = q))
    BY <1>3, <1>5, <2>1, <2>3 DEF Needed, WithThumbs
  <2>. QED
    BY <2>2, <2>3
<1>6. NeededIsClear'
  BY <1>1, <1>3, <1>4, <1>5 DEF NeededIsClear
<1>. QED
  BY <1>2, <1>4, <1>6 DEF MediaInv

-------------------------------------------------------------------------------
(* The job.                                                                  *)

LEMMA RunStates ==
    ASSUME NEW r \in MediaRuns
    PROVE  /\ NoRun \in MediaRuns /\ [NoRun EXCEPT !.pc = "list"] \in MediaRuns
           /\ \A S \in SUBSET Media : [r EXCEPT !.pc = "diff", !.remote = S] \in MediaRuns
           /\ \A D \in SUBSET Dict : [r EXCEPT !.pc = "read", !.todo = D] \in MediaRuns
           /\ \A d \in Dict, b \in BOOLEAN, K \in SUBSET Media :
                  [r EXCEPT !.todo = @ \ {d}, !.at = {d}, !.gone = b, !.keys = K] \in MediaRuns
           /\ \A d \in Dict : [r EXCEPT !.todo = @ \ {d}, !.skipped = @ \cup {d}] \in MediaRuns
           /\ [r EXCEPT !.at = {}, !.keys = {}, !.gone = FALSE] \in MediaRuns
           /\ \A B \in SUBSET Media : /\ [r EXCEPT !.pc = "delete", !.batch = B] \in MediaRuns
                                      /\ [r EXCEPT !.pc = "heal", !.batch = B] \in MediaRuns
           /\ [r EXCEPT !.pc = "drop"] \in MediaRuns
           /\ \A v \in Media : /\ [r EXCEPT !.pc = "record", !.keys = {v}] \in MediaRuns
                               /\ [r EXCEPT !.batch = @ \ {v}] \in MediaRuns
                               /\ [r EXCEPT !.pc = "heal", !.batch = @ \ {v}, !.keys = {}] \in MediaRuns
BY DEF MediaRuns, NoRun

\* A step after which the run has looked at nothing.
LEMMA Unlooked ==
    ASSUME MediaInv, MediaTypes', run'.pc \in {"off", "list", "diff"}, run'.skipped = {}, run'.at = {},
           \A q \in Media : \/ ledger'[q].mark = 0
                            \/ ledger'[q].held = ledger[q].held /\ (ledger[q].mark = 0 => ledger'[q].mark = 0)
    PROVE  MediaInv'
<1>1. Shape'
  BY DEF Shape
<1>2. NeededIsClear'
  BY DEF NeededIsClear, Looked
<1>3. Unheld'
  BY DEF MediaInv, Unheld
<1>. QED
  BY <1>1, <1>2, <1>3 DEF MediaInv

LEMMA BeginningKeeps ==
    ASSUME MediaInv, RunBegins \/ ListObjects \/ RunEnds \/ RunDies \/ MediaRestart \/ Week
    PROVE  MediaInv'
<1>1. MediaTypes /\ Shape /\ run \in MediaRuns /\ ledger \in [Media -> Entry]
  BY DEF MediaInv, MediaTypes
<1>2. CASE RunBegins
  <2>1. ledger' \in [Media -> Entry] /\ run' \in MediaRuns
        /\ \A q \in Media : ledger'[q].held = ledger[q].held /\ ledger'[q].mark = ledger[q].mark
    <3>1. run' \in MediaRuns
      BY <1>1, <1>2, RunStates DEF RunBegins
    <3>2. \A q \in Media : ledger[q] \in Entry
      BY <1>1
    <3>3. \A q \in Media : ledger'[q] = ledger[q] \/ ledger'[q] = [ledger[q] EXCEPT !.since = "recent"]
      BY <1>2 DEF RunBegins
    <3>. HIDE DEF Entry
    <3>4. ASSUME NEW q \in Media
          PROVE  ledger'[q] \in Entry /\ ledger'[q].held = ledger[q].held /\ ledger'[q].mark = ledger[q].mark
      <4>1. CASE ledger'[q] = ledger[q]
        BY <3>2, <4>1
      <4>2. CASE ledger'[q] = [ledger[q] EXCEPT !.since = "recent"]
        <5>. DEFINE e == ledger[q]
        <5>1. e \in Entry /\ ledger'[q] = [e EXCEPT !.since = "recent"]
          BY <3>2, <4>2
        <5>. HIDE DEF e
        <5>2. ledger'[q] \in Entry /\ ledger'[q].held = e.held /\ ledger'[q].mark = e.mark
          BY <5>1, Entries
        <5>. QED
          BY <5>2 DEF e
      <4>. QED
        BY <3>3, <4>1, <4>2
    <3>5. ledger' = [q \in Media |-> IF ledger[q].since = "new"
                                    THEN [ledger[q] EXCEPT !.since = "recent"] ELSE ledger[q]]
      BY <1>2 DEF RunBegins
    <3>. DEFINE f(q) == IF ledger[q].since = "new"
                        THEN [ledger[q] EXCEPT !.since = "recent"] ELSE ledger[q]
    <3>6. \A q \in Media : f(q) \in Entry
      BY <3>4, <3>5
    <3>7. ledger' = [q \in Media |-> f(q)]
      BY <3>5
    <3>. HIDE DEF f
    <3>8. ledger' \in [Media -> Entry]
      BY <3>6, <3>7
    <3>. QED
      BY <3>1, <3>4, <3>8
  <2>2. MediaTypes'
    BY <1>1, <1>2, <2>1 DEF RunBegins, MediaTypes
  <2>3. run'.pc = "list" /\ run'.skipped = {} /\ run'.at = {}
    BY <1>2 DEF RunBegins, NoRun
  <2>. QED
    BY <2>1, <2>2, <2>3, Unlooked
<1>3. CASE ListObjects
  <2>1. run' = [run EXCEPT !.pc = "diff", !.remote = stored] /\ run' \in MediaRuns
    BY <1>1, <1>3, RunStates DEF ListObjects, MediaTypes
  <2>2. MediaTypes'
    BY <1>1, <1>3, <2>1 DEF ListObjects, MediaTypes
  <2>3. run'.pc = "diff" /\ run'.skipped = {} /\ run'.at = {}
    BY <1>1, <1>3, <2>1 DEF ListObjects, MediaRuns, Shape
  <2>4. ledger' = ledger
    BY <1>3 DEF ListObjects
  <2>. QED
    BY <2>2, <2>3, <2>4, Unlooked
<1>4. CASE RunEnds \/ RunDies \/ MediaRestart
  <2>1. run' = NoRun /\ ledger' = ledger
    BY <1>4 DEF RunEnds, RunDies, MediaRestart
  <2>2. run'.pc = "off" /\ run'.skipped = {} /\ run'.at = {} /\ run' \in MediaRuns
    BY <1>1, <2>1, RunStates DEF NoRun
  <2>3. upload' \in [Media -> {"none", "sending", "stored", "making", "ready"}]
    BY <1>1, <1>4 DEF RunEnds, RunDies, MediaRestart, MediaTypes
  <2>4. MediaTypes'
    BY <1>1, <1>4, <2>1, <2>2, <2>3 DEF RunEnds, RunDies, MediaRestart, MediaTypes
  <2>. QED
    BY <2>1, <2>2, <2>4, Unlooked
<1>5. CASE Week
  <2>1. /\ ledger' = [q \in Media |-> [ledger[q] EXCEPT !.since = "old", !.mark = Aged(ledger[q])]]
        /\ \A q \in Media : ledger[q] \in Entry
    BY <1>1, <1>5 DEF Week, Aged
  <2>. HIDE DEF Entry, Aged
  <2>2. ledger' \in [Media -> Entry]
    BY <2>1, Entries
  <2>3. ASSUME NEW q \in Media
        PROVE  ledger'[q].held = ledger[q].held /\ (ledger[q].mark = 0 => ledger'[q].mark = 0)
    BY <2>1, Entries
  <2>4. MediaTypes'
    BY <1>1, <1>5, <2>2 DEF Week, MediaTypes
  <2>5. run'.pc = "off" /\ run'.skipped = {} /\ run'.at = {}
    BY <1>1, <1>5 DEF Week, Shape
  <2>. QED
    BY <2>3, <2>4, <2>5, Unlooked
<1>. QED
  BY <1>2, <1>3, <1>4, <1>5

LEMMA TrueUpKeeps ==
    ASSUME MediaInv, TrueUp
    PROVE  MediaInv'
<1>1. MediaTypes /\ Shape /\ Unheld /\ run \in MediaRuns /\ ledger \in [Media -> Entry]
  BY DEF MediaInv, MediaTypes
<1>. DEFINE D == {Home[q] : q \in {p \in Media : ledger'[p].held}}
<1>2. PICK S \in SUBSET (Held \ run.remote) : ledger' = TruedUp(S)
  BY DEF TrueUp
<1>3. run' = [run EXCEPT !.pc = "read", !.todo = D] /\ relinked' = relinked /\ run.pc = "diff"
  BY DEF TrueUp
<1>4. ledger' \in [Media -> Entry] /\ \A q \in Media : ledger'[q] = ledger[q] \/ ledger'[q].mark = 0
  <2>. DEFINE adopted == [NoEntry EXCEPT !.held = TRUE, !.since = "recent"]
              f(q) == IF q \in run.remote \ Held THEN adopted ELSE IF q \in S THEN NoEntry ELSE ledger[q]
  <2>1. ledger' = [q \in Media |-> f(q)]
    BY <1>2 DEF TruedUp
  <2>2. adopted \in Entry /\ NoEntry \in Entry /\ adopted.mark = 0 /\ NoEntry.mark = 0
    BY Entries DEF NoEntry
  <2>. HIDE DEF adopted, Entry, NoEntry
  <2>3. \A q \in Media : f(q) \in Entry /\ (f(q) = ledger[q] \/ f(q).mark = 0)
    BY <1>1, <2>2
  <2>. HIDE DEF f
  <2>4. ledger' \in [Media -> Entry]
    BY <2>1, <2>3
  <2>. QED
    BY <2>1, <2>3, <2>4
<1>5. D \in SUBSET Dict
  BY MediaSets
<1>. HIDE DEF D
<1>6. MediaTypes'
  <2>1. run' \in MediaRuns
    BY <1>1, <1>3, <1>5, RunStates
  <2>2. UNCHANGED <<stored, used, upload, unreadable, weekly, relinked, bucket>>
    BY DEF TrueUp
  <2>. QED
    BY <1>1, <1>4, <2>1, <2>2 DEF MediaTypes
<1>7. run'.pc = "read" /\ run'.todo = D /\ run'.at = {} /\ run'.skipped = {}
  BY <1>1, <1>3 DEF MediaRuns, Shape
<1>8. Shape' /\ Unheld'
  BY <1>1, <1>4, <1>7 DEF Shape, Unheld
<1>9. ASSUME NEW q \in Media, Looked(Home[q])' PROVE ledger'[q].mark = 0
  <2>1. Home[q] \notin D
    BY <1>7, <1>9 DEF Looked
  <2>2. ~ledger'[q].held
    BY <2>1 DEF D
  <2>. QED
    BY <1>8, <2>2 DEF Unheld
<1>10. Needed' \subseteq Media
  BY <1>6, MediaSets DEF MediaTypes, Needed
<1>11. NeededIsClear'
  BY <1>7, <1>9, <1>10 DEF NeededIsClear
<1>. QED
  BY <1>6, <1>8, <1>11 DEF MediaInv

\* Live dictionaries are those whose rows there are.
Housed == \A q \in used : row[Home[q]].live

LEMMA LookKeeps ==
    ASSUME MediaInv, Housed, NEW d \in Dict, ReadLiveKeys(d)
    PROVE  MediaInv'
<1>1. MediaTypes /\ Shape /\ Unheld /\ NeededIsClear /\ run \in MediaRuns
  BY DEF MediaInv, MediaTypes
<1>2. /\ run.pc = "read" /\ run.at = {} /\ d \in run.todo
      /\ UNCHANGED <<stored, ledger, used, upload, unreadable, weekly, relinked, bucket>>
  BY DEF ReadLiveKeys
<1>3. Needed' = Needed /\ Needed \subseteq Media /\ Unheld'
  BY <1>1, <1>2, MediaSets DEF Needed, MediaTypes, Unheld
<1>4. CASE run' = [run EXCEPT !.todo = @ \ {d}, !.skipped = @ \cup {d}]
  <2>1. run'.pc = "read" /\ run'.at = {} /\ run'.todo = run.todo \ {d} /\ run'.skipped = run.skipped \cup {d}
    BY <1>1, <1>2, <1>4 DEF MediaRuns
  <2>2. MediaTypes'
    BY <1>1, <1>2, <1>4, RunStates DEF MediaTypes
  <2>3. Shape'
    BY <1>1, <1>2, <2>1 DEF Shape
  <2>4. NeededIsClear'
    BY <1>1, <1>2, <1>3, <2>1 DEF NeededIsClear, Looked, Spared
  <2>. QED
    BY <1>3, <2>2, <2>3, <2>4 DEF MediaInv
<1>5. CASE run' = [run EXCEPT !.todo = @ \ {d}, !.at = {d}, !.gone = ~row[d].live, !.keys = LiveKeys(d)]
  <2>1. LiveKeys(d) \in SUBSET Media
    BY <1>1, MediaSets DEF LiveKeys, MediaTypes
  <2>. DEFINE gone == ~row[d].live
  <2>2. gone \in BOOLEAN
    OBVIOUS
  <2>3. run' \in MediaRuns
    <3>. HIDE DEF gone
    <3>1. run' = [run EXCEPT !.todo = @ \ {d}, !.at = {d}, !.gone = gone, !.keys = LiveKeys(d)]
      BY <1>5 DEF gone
    <3>. QED
      BY <1>1, <2>1, <2>2, <3>1, RunStates
  <2>4. run'.pc = "read" /\ run'.at = {d} /\ run'.todo = run.todo \ {d}
        /\ run'.skipped = run.skipped /\ run'.keys = LiveKeys(d)
    BY <1>1, <1>2, <1>5 DEF MediaRuns
  <2>5. MediaTypes'
    BY <1>1, <1>2, <2>3 DEF MediaTypes
  <2>6. Shape'
    BY <1>1, <1>2, <2>4 DEF Shape
  <2>7. ASSUME NEW q \in Needed, Home[q] = d PROVE q \in LiveKeys(d)
    <3>1. row[d].live
      BY <2>7, <1>1, MediaSets DEF Housed, Needed, WithThumbs, MediaTypes
    <3>. QED
      BY <2>7, <3>1 DEF LiveKeys, Needed
  <2>8. NeededIsClear'
    BY <1>1, <1>2, <1>3, <2>4, <2>7 DEF NeededIsClear, Looked, Spared
  <2>. QED
    BY <1>3, <2>5, <2>6, <2>8 DEF MediaInv
<1>. QED
  BY <1>4, <1>5 DEF ReadLiveKeys

LEMMA MarkEdits ==
    \A e \in Entry : /\ [e EXCEPT !.mark = 0] \in Entry /\ [e EXCEPT !.mark = 1] \in Entry
                     /\ [e EXCEPT !.mark = 0].mark = 0
                     /\ [e EXCEPT !.mark = 0].held = e.held /\ [e EXCEPT !.mark = 1].held = e.held
<1>1. \A e \in Entry : [e EXCEPT !.mark = 0] \in Entry /\ [e EXCEPT !.mark = 1] \in Entry
  BY Entries
<1>2. \A e \in Entry : /\ [e EXCEPT !.mark = 0].mark = 0
                       /\ [e EXCEPT !.mark = 0].held = e.held /\ [e EXCEPT !.mark = 1].held = e.held
  BY DEF Entry
<1>. QED
  BY <1>1, <1>2

LEMMA MarkKeeps ==
    ASSUME MediaInv, NEW d \in Dict, MarkOrphans(d)
    PROVE  MediaInv'
<1>1. MediaTypes /\ Shape /\ Unheld /\ NeededIsClear /\ run \in MediaRuns
      /\ ledger \in [Media -> Entry]
  BY DEF MediaInv, MediaTypes
<1>. DEFINE cleared(q) == q \in ObjectsOf(d) /\ q \in run.keys
            marked(q) == q \in Unmarked(d, run.keys) /\ ~(~run.gone /\ Braked(ObjectsOf(d), Unmarked(d, run.keys)))
            f(q) == IF cleared(q) THEN [ledger[q] EXCEPT !.mark = 0]
                    ELSE IF marked(q) THEN [ledger[q] EXCEPT !.mark = 1] ELSE ledger[q]
<1>2. /\ ledger' = [q \in Media |-> f(q)] /\ run.pc = "read" /\ run.at = {d}
      /\ run' = [run EXCEPT !.at = {}, !.keys = {}, !.gone = FALSE]
      /\ UNCHANGED <<stored, used, upload, unreadable, weekly, relinked, bucket>>
  BY DEF MarkOrphans
<1>3. \A q \in Media : cleared(q) <=> q \in Held /\ Home[q] = d /\ q \in run.keys
  BY DEF ObjectsOf
<1>4. \A q \in Media : marked(q) => q \in Held /\ Home[q] = d /\ q \notin run.keys
  BY DEF Unmarked, ObjectsOf
<1>. HIDE DEF cleared, marked, Entry
<1>5. ASSUME NEW q \in Media
      PROVE  /\ f(q) \in Entry /\ f(q).held = ledger[q].held
             /\ cleared(q) => f(q).mark = 0
             /\ ~cleared(q) /\ ~marked(q) => f(q) = ledger[q]
  <2>. DEFINE e == ledger[q]
  <2>1. e \in Entry
    BY <1>1
  <2>2. f(q) = e \/ (cleared(q) /\ f(q) = [e EXCEPT !.mark = 0]) \/ (~cleared(q) /\ f(q) = [e EXCEPT !.mark = 1])
    OBVIOUS
  <2>3. cleared(q) => f(q) = [e EXCEPT !.mark = 0]
    OBVIOUS
  <2>4. ~cleared(q) /\ ~marked(q) => f(q) = e
    OBVIOUS
  <2>. HIDE DEF e, f
  <2>5. f(q) \in Entry /\ f(q).held = e.held /\ (cleared(q) => f(q).mark = 0)
    BY <2>1, <2>2, <2>3, MarkEdits
  <2>. QED
    BY <2>4, <2>5 DEF e
<1>. HIDE DEF f
<1>6. ledger' \in [Media -> Entry] /\ \A q \in Media : ledger'[q] = f(q)
  BY <1>2, <1>5
<1>7. MediaTypes'
  <2>1. run' \in MediaRuns
    BY <1>1, <1>2, RunStates
  <2>. QED
    BY <1>1, <1>2, <1>6, <2>1 DEF MediaTypes
<1>8. run'.pc = "read" /\ run'.at = {} /\ run'.todo = run.todo /\ run'.skipped = run.skipped
  BY <1>1, <1>2 DEF MediaRuns
<1>9. Shape'
  BY <1>1, <1>2, <1>8 DEF Shape
<1>10. Unheld'
  BY <1>1, <1>3, <1>4, <1>5, <1>6 DEF Unheld, Held
<1>11. Needed' = Needed /\ Needed \subseteq Media
  BY <1>1, <1>2, MediaSets DEF Needed, MediaTypes
<1>12. ASSUME NEW q \in Needed, Looked(Home[q])', ~Spared(q)' PROVE ledger'[q].mark = 0
  <2>1. q \in Media /\ Looked(Home[q]) /\ ~Spared(q)
    BY <1>2, <1>8, <1>11, <1>12 DEF Looked, Spared
  <2>2. CASE Home[q] = d
    <3>1. q \in run.keys
      BY <1>1, <1>2, <2>1, <2>2 DEF NeededIsClear
    <3>2. CASE ledger[q].held
      BY <1>3, <1>5, <1>6, <2>1, <2>2, <3>1, <3>2 DEF Held
    <3>3. CASE ~ledger[q].held
      BY <1>1, <1>3, <1>4, <1>5, <1>6, <2>1, <3>3 DEF Held, Unheld
    <3>. QED
      BY <3>2, <3>3
  <2>3. CASE Home[q] # d
    <3>1. ledger[q].mark = 0
      BY <1>1, <1>2, <2>1, <2>3 DEF NeededIsClear
    <3>. QED
      BY <1>3, <1>4, <1>5, <1>6, <2>1, <2>3, <3>1
  <2>. QED
    BY <2>2, <2>3
<1>13. NeededIsClear'
  BY <1>8, <1>11, <1>12 DEF NeededIsClear
<1>. QED
  BY <1>7, <1>9, <1>10, <1>13 DEF MediaInv

\* A step of the run after the last mark.
LEMMA Late ==
    ASSUME MediaInv, MediaTypes', UNCHANGED <<used, relinked>>,
           run.pc \notin {"off", "list", "diff"}, run.at = {},
           run'.pc \in {"delete", "drop", "heal", "record"},
           run'.todo = run.todo, run'.at = {}, run'.skipped = run.skipped,
           run'.pc \in {"delete", "drop"} =>
              run.todo = {} /\ \A q \in Needed : Looked(Home[q]) /\ ~Spared(q) => q \notin run'.batch,
           \A q \in Media : ledger'[q] = ledger[q] \/ ledger'[q].mark = 0
    PROVE  MediaInv'
<1>1. Shape'
  BY DEF MediaInv, Shape
<1>2. Unheld'
  BY DEF MediaInv, Unheld
<1>3. Needed' = Needed /\ Needed \subseteq Media
  BY MediaSets DEF Needed, MediaInv, MediaTypes
<1>4. \A d : (Looked(d)' <=> Looked(d)) /\ \A q : (Spared(q)' <=> Spared(q))
  BY DEF Looked, Spared
<1>5. NeededIsClear'
  BY <1>3, <1>4 DEF MediaInv, NeededIsClear
<1>. QED
  BY <1>1, <1>2, <1>5 DEF MediaInv

LEMMA EndingKeeps ==
    ASSUME MediaInv,
           \/ Expire \/ DeleteObjects \/ DeleteSome \/ DropRows
           \/ \E v \in Thumb : HealStore(v) \/ HealRecord(v) \/ HealFails(v)
    PROVE  MediaInv'
<1>1. MediaTypes /\ Shape /\ NeededIsClear /\ run \in MediaRuns /\ ledger \in [Media -> Entry]
  BY DEF MediaInv, MediaTypes
<1>2. Needed \subseteq Media
  BY <1>1, MediaSets DEF Needed, MediaTypes
<1>3. \A remote : Unrendered(remote) \in SUBSET Media
  BY MediaSets DEF Unrendered
<1>4. CASE Expire
  <2>. DEFINE expired == {q \in Held : ledger[q].mark > Grace}
  <2>1. /\ run.pc = "read" /\ run.at = {} /\ run.todo = {}
        /\ run' = IF expired # {} THEN [run EXCEPT !.pc = "delete", !.batch = expired]
                  ELSE [run EXCEPT !.pc = "heal", !.batch = Unrendered(run.remote)]
        /\ UNCHANGED <<stored, ledger, used, upload, unreadable, weekly, relinked, bucket>>
    BY <1>4 DEF Expire
  <2>2. expired \in SUBSET Media
    BY DEF Held
  <2>3. \A q \in Needed : Looked(Home[q]) /\ ~Spared(q) => q \notin expired
    BY <1>1, <2>1, MediaAssumption DEF NeededIsClear
  <2>. HIDE DEF expired
  <2>4. run' \in MediaRuns
    BY <1>1, <1>3, <2>1, <2>2, RunStates
  <2>5. MediaTypes'
    BY <1>1, <2>1, <2>4 DEF MediaTypes
  <2>6. /\ run'.pc \in {"delete", "heal"} /\ (run'.pc = "delete" => run'.batch = expired)
        /\ run'.todo = run.todo /\ run'.at = {} /\ run'.skipped = run.skipped
    BY <1>1, <2>1 DEF MediaRuns
  <2>. QED
    BY <2>1, <2>3, <2>5, <2>6, Late
<1>5. CASE DeleteObjects \/ DeleteSome
  <2>1. /\ run.pc = "delete" /\ run' = [run EXCEPT !.pc = "drop"] /\ stored' \subseteq stored
        /\ UNCHANGED <<ledger, used, upload, unreadable, weekly, relinked, bucket>>
    BY <1>5 DEF DeleteObjects, DeleteSome
  <2>2. run' \in MediaRuns
    BY <1>1, <2>1, RunStates
  <2>3. MediaTypes'
    BY <1>1, <2>1, <2>2 DEF MediaTypes
  <2>4. run'.pc = "drop" /\ run'.batch = run.batch /\ run'.todo = run.todo /\ run.todo = {}
        /\ run'.at = {} /\ run.at = {} /\ run'.skipped = run.skipped
    BY <1>1, <2>1 DEF MediaRuns, Shape
  <2>5. \A q \in Needed : Looked(Home[q]) /\ ~Spared(q) => q \notin run'.batch
    BY <1>1, <2>1, <2>4 DEF NeededIsClear
  <2>. QED
    BY <2>1, <2>3, <2>4, <2>5, Late
<1>6. CASE DropRows
  <2>1. /\ run.pc = "drop" /\ run' = [run EXCEPT !.pc = "heal", !.batch = Unrendered(run.remote)]
        /\ ledger' = [q \in Media |-> IF q \in run.batch THEN NoEntry ELSE ledger[q]]
        /\ UNCHANGED <<stored, used, upload, unreadable, weekly, relinked, bucket>>
    BY <1>6 DEF DropRows
  <2>2. run' \in MediaRuns
    BY <1>1, <1>3, <2>1, RunStates
  <2>3. NoEntry \in Entry /\ NoEntry.mark = 0
    BY Entries DEF NoEntry
  <2>. HIDE DEF NoEntry, Entry
  <2>4. ledger' \in [Media -> Entry] /\ \A q \in Media : ledger'[q] = ledger[q] \/ ledger'[q].mark = 0
    BY <1>1, <2>1, <2>3
  <2>5. MediaTypes'
    BY <1>1, <2>1, <2>2, <2>4 DEF MediaTypes
  <2>6. run'.pc = "heal" /\ run'.todo = run.todo /\ run'.at = {} /\ run.at = {} /\ run'.skipped = run.skipped
    BY <1>1, <2>1 DEF MediaRuns, Shape
  <2>. QED
    BY <2>1, <2>4, <2>5, <2>6, Late
<1>7. ASSUME NEW v \in Thumb, HealStore(v) \/ HealFails(v) PROVE MediaInv'
  <2>1. /\ run.pc = "heal" /\ stored' \subseteq stored \cup {v}
        /\ run' = [run EXCEPT !.pc = "record", !.keys = {v}] \/ run' = [run EXCEPT !.batch = @ \ {v}]
        /\ UNCHANGED <<ledger, used, upload, unreadable, weekly, relinked, bucket>>
    BY <1>7 DEF HealStore, HealFails
  <2>2. run' \in MediaRuns
    <3>1. v \in Media
      BY MediaSets
    <3>2. /\ [run EXCEPT !.pc = "record", !.keys = {v}] \in MediaRuns
          /\ [run EXCEPT !.batch = @ \ {v}] \in MediaRuns
      BY <1>1, <3>1, RunStates
    <3>. QED
      BY <2>1, <3>2
  <2>3. MediaTypes'
    BY <1>1, <2>1, <2>2, MediaSets DEF MediaTypes
  <2>4. run'.pc \in {"heal", "record"} /\ run'.todo = run.todo /\ run'.at = {} /\ run.at = {}
        /\ run'.skipped = run.skipped
    BY <1>1, <2>1 DEF MediaRuns, Shape
  <2>. QED
    BY <2>1, <2>3, <2>4, Late
<1>8. ASSUME NEW v \in Thumb, HealRecord(v) PROVE MediaInv'
  <2>1. /\ run.pc = "record" /\ ledger' = Recorded(v)
        /\ run' = [run EXCEPT !.pc = "heal", !.batch = @ \ {v}, !.keys = {}]
        /\ UNCHANGED <<stored, used, upload, unreadable, weekly, relinked, bucket>>
    BY <1>8 DEF HealRecord
  <2>2. run' \in MediaRuns
    BY <1>1, <2>1, RunStates, MediaSets
  <2>3. ledger' \in [Media -> Entry] /\ \A q \in Media : ledger'[q] = ledger[q] \/ ledger'[q].mark = 0
    BY <1>1, <2>1, RecordedTypes, MediaSets
  <2>4. MediaTypes'
    BY <1>1, <2>1, <2>2, <2>3 DEF MediaTypes
  <2>5. run'.pc = "heal" /\ run'.todo = run.todo /\ run'.at = {} /\ run.at = {}
        /\ run'.skipped = run.skipped
    BY <1>1, <2>1 DEF MediaRuns, Shape
  <2>. QED
    BY <2>1, <2>3, <2>4, <2>5, Late
<1>. QED
  BY <1>4, <1>5, <1>6, <1>7, <1>8

\* Every move of the media.
LEMMA OwnKeeps ==
    ASSUME MediaInv, Housed, OwnStep
    PROVE  MediaInv'
<1>1. CASE \/ Uploads
           \/ \E q \in Item : Presign(q) \/ Store(q) \/ Detach(q)
           \/ \E d \in Dict : Fault(d) \/ Unname(d)
  BY <1>1, UploadsKeep
<1>2. CASE \E q \in Item : Attach(q)
  BY <1>2, AttachKeeps
<1>3. CASE RunBegins \/ ListObjects \/ RunEnds \/ RunDies \/ MediaRestart \/ Week
  BY <1>3, BeginningKeeps
<1>4. CASE TrueUp
  BY <1>4, TrueUpKeeps
<1>5. CASE \E d \in Dict : ReadLiveKeys(d) \/ MarkOrphans(d)
  BY <1>5, LookKeeps, MarkKeeps
<1>6. CASE \/ Expire \/ DeleteObjects \/ DeleteSome \/ DropRows
           \/ \E v \in Thumb : HealStore(v) \/ HealRecord(v) \/ HealFails(v)
  BY <1>6, EndingKeeps
<1>. QED
  BY <1>1, <1>2, <1>3, <1>4, <1>5, <1>6 DEF OwnStep, Reconcile

-------------------------------------------------------------------------------
(* What a step does to an object in use.                                     *)

LEMMA MarkedByLook ==
    ASSUME MediaInv, OwnStep, NEW q \in Needed, ledger[q].mark = 0, ledger'[q].mark # 0
    PROVE  q \in WithThumbs(relinked)
<1>1. /\ MediaTypes /\ Shape /\ NeededIsClear /\ ledger \in [Media -> Entry] /\ q \in Media
      /\ ledger' # ledger
  BY MediaSets DEF MediaInv, MediaTypes, Needed
<1>2. ledger[q] \in Entry
  BY <1>1
<1>3. ASSUME NEW d \in Dict, MarkOrphans(d) PROVE q \in WithThumbs(relinked)
  <2>1. run.at = {d} /\ run.pc = "read" /\ q \in Unmarked(d, run.keys)
    BY <1>1, <1>3 DEF MarkOrphans
  <2>2. Home[q] = d /\ q \notin run.keys
    BY <2>1 DEF Unmarked, ObjectsOf
  <2>3. Looked(d) /\ d \notin run.skipped
    BY <1>1, <2>1 DEF Looked, Shape
  <2>. QED
    BY <1>1, <2>1, <2>2, <2>3 DEF NeededIsClear, Spared
<1>4. ASSUME NEW x \in Media, ledger' = Recorded(x) PROVE FALSE
  BY <1>1, <1>4, RecordedTypes
<1>5. CASE \/ Uploads \/ \E x \in Item : Presign(x) \/ Store(x) \/ Attach(x) \/ Detach(x)
  <2>1. \E x \in Media : ledger' = Recorded(x)
    BY <1>1, <1>5, MediaSets DEF Uploads, Sent, RecordUpload, StoreThumb, UploadFails, Presign, Store,
       Attach, Detach
  <2>. QED
    BY <1>4, <2>1
<1>6. CASE \/ \E v \in Thumb : HealStore(v) \/ HealRecord(v) \/ HealFails(v)
  <2>1. \E x \in Media : ledger' = Recorded(x)
    BY <1>1, <1>6, MediaSets DEF HealStore, HealRecord, HealFails
  <2>. QED
    BY <1>4, <2>1
<1>7. CASE RunBegins
  <2>. DEFINE e == ledger[q]
  <2>1. ledger'[q] = e \/ ledger'[q] = [e EXCEPT !.since = "recent"]
    BY <1>1, <1>7 DEF RunBegins
  <2>2. e \in Entry /\ e.mark = 0
    BY <1>2
  <2>. HIDE DEF e, Entry
  <2>. QED
    BY <2>1, <2>2, Entries
<1>8. CASE TrueUp \/ DropRows
  <2>. DEFINE adopted == [NoEntry EXCEPT !.held = TRUE, !.since = "recent"]
  <2>1. ledger'[q] = ledger[q] \/ ledger'[q] = NoEntry \/ ledger'[q] = adopted
    BY <1>1, <1>8 DEF TrueUp, TruedUp, DropRows
  <2>2. NoEntry.mark = 0 /\ adopted.mark = 0
    BY DEF NoEntry
  <2>. HIDE DEF adopted
  <2>. QED
    BY <2>1, <2>2
<1>9. CASE Week
  <2>. DEFINE e == ledger[q]
              m == Aged(e)
  <2>1. ledger'[q] = [e EXCEPT !.since = "old", !.mark = m]
    BY <1>1, <1>9 DEF Week, Aged
  <2>2. e \in Entry /\ m \in 0..(Grace + 1) /\ m = 0
    BY <1>2, Entries
  <2>. HIDE DEF e, m
  <2>3. [e EXCEPT !.since = "old", !.mark = m].mark = m
    BY <2>2 DEF Entry
  <2>4. ledger'[q].mark = m
    BY <2>1, <2>3
  <2>. QED
    BY <2>2, <2>4
<1>10. \/ ListObjects \/ Expire \/ DeleteObjects \/ DeleteSome \/ RunEnds \/ RunDies \/ MediaRestart
       \/ \E d \in Dict : Fault(d) \/ Unname(d) \/ ReadLiveKeys(d)
       => ledger' = ledger
  BY Zenon DEF ListObjects, Expire, DeleteObjects, DeleteSome, RunEnds, RunDies, MediaRestart, Fault, Unname,
     ReadLiveKeys
<1>. QED
  BY <1>1, <1>3, <1>5, <1>6, <1>7, <1>8, <1>9, <1>10 DEF OwnStep, Reconcile

LEMMA DeletedUnspared ==
    ASSUME MediaInv, OwnStep, NEW q \in Needed, q \in stored, q \notin stored'
    PROVE  q \in WithThumbs(relinked) \/ Home[q] \in run.skipped
<1>1. MediaTypes /\ Shape /\ NeededIsClear
  BY DEF MediaInv
<1>2. CASE DeleteObjects \/ DeleteSome
  <2>1. run.pc = "delete" /\ q \in run.batch
    BY <1>2 DEF DeleteObjects, DeleteSome
  <2>2. Looked(Home[q])
    BY <1>1, <2>1 DEF Looked, Shape
  <2>. QED
    BY <1>1, <2>1, <2>2 DEF NeededIsClear, Spared
<1>3. CASE Reconcile /\ ~DeleteObjects
  BY <1>3, Zenon DEF Reconcile, RunBegins, ListObjects, TrueUp, Expire, DropRows, RunEnds,
     ReadLiveKeys, MarkOrphans, HealStore, HealRecord
<1>4. CASE Uploads \/ Week \/ RunDies \/ MediaRestart
  BY <1>4, Zenon DEF Uploads, Sent, RecordUpload, StoreThumb, UploadFails, Week, RunDies, MediaRestart
<1>5. CASE \/ \E x \in Item : Presign(x) \/ Store(x) \/ Attach(x) \/ Detach(x)
           \/ \E d \in Dict : Fault(d) \/ Unname(d)
           \/ \E v \in Thumb : HealFails(v)
  BY <1>5, Zenon DEF Presign, Store, Attach, Detach, Fault, Unname, HealFails
<1>. QED
  BY <1>2, <1>3, <1>4, <1>5 DEF OwnStep

===============================================================================
