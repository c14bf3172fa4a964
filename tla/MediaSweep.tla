------------------------------ MODULE MediaSweep ------------------------------
(***************************************************************************)
(* The media bucket, its ledger (media_objects) and the weekly job that    *)
(* deletes what no live row names.  The job is a process of its own: what  *)
(* the server and the editors do falls between any two of its statements,  *)
(* and it may be killed at any of them.                                    *)
(*                                                                         *)
(* It lists the bucket, trues the ledger up, marks and unmarks each        *)
(* dictionary's objects, deletes those whose mark is old, and makes        *)
(* renditions that are missing.  Time is counted in weeks, for marks; of   *)
(* the hour a presigned upload has, a row tells whether it is surely over. *)
(***************************************************************************)
EXTENDS SharedCatalog

CONSTANTS
    Item,       \* originals: photos, recordings, videos
    Thumb,      \* renditions of them
    Original,   \* [Thumb -> Item]
    Home,       \* [Media -> Dict]
    Grace,      \* ORPHAN_GRACE_MS, in whole weeks
    BrakeMin    \* BRAKE_MIN_OBJECTS

Media == Item \cup Thumb

ASSUME MediaAssumption ==
    /\ Item \cap Thumb = {}
    /\ Original \in [Thumb -> Item] /\ Home \in [Media -> Dict]
    /\ \A v \in Thumb : Home[v] = Home[Original[v]]
    /\ Grace \in Nat /\ BrakeMin \in Nat

VARIABLES
    stored,     \* the objects in the bucket
    ledger,     \* [Media -> Entry]
    used,       \* originals that rows of the dictionaries' files name
    upload,     \* [Media -> how far its upload is]
    unreadable, \* dictionaries whose file cannot be read
    run,        \* the job's process
    weekly,     \* the watermark is older than a week
    relinked,   \* history: originals named since the run looked at their dictionary
    bucket      \* r2_media_is_configured

mediaVars == <<stored, ledger, used, upload, unreadable, run, weekly, relinked, bucket>>

\* since: recorded weeks ago, this week, or after the run under way began.
\* mark: 0 for NULL, else one more than the weeks since orphaned_at.
Entry == [held : BOOLEAN, since : {"old", "recent", "new"}, mark : 0..(Grace + 1)]
NoEntry == [held |-> FALSE, since |-> "old", mark |-> 0]

NoRun == [pc |-> "off", remote |-> {}, todo |-> {}, at |-> {}, keys |-> {}, gone |-> FALSE,
          skipped |-> {}, batch |-> {}]

Held == {q \in Media : ledger[q].held}

\* Originals and the renditions derived from them.
WithThumbs(S) == S \cup {v \in Thumb : Original[v] \in S}

-------------------------------------------------------------------------------
(* Uploads.                                                                  *)

\* record_media_object: a new row, or a mark cleared.
Recorded(q) ==
    [ledger EXCEPT ![q] = [held |-> TRUE,
                           since |-> IF ledger[q].held THEN ledger[q].since
                                     ELSE IF run.pc = "off" THEN "recent" ELSE "new",
                           mark |-> 0]]

\* A browser asks for a URL to put a new recording at.
Presign(q) ==
    /\ bucket /\ row[Home[q]].live /\ upload[q] = "none" /\ q \notin used
    /\ ledger' = Recorded(q)
    /\ upload' = [upload EXCEPT ![q] = "sending"]
    /\ UNCHANGED <<stored, used, unreadable, run, weekly, relinked, bucket>>

Sent(q) ==
    /\ upload[q] = "sending"
    /\ stored' = stored \cup {q}
    /\ upload' = [upload EXCEPT ![q] = "ready"]
    /\ UNCHANGED <<ledger, used, unreadable, run, weekly, relinked, bucket>>

\* Bytes that go through the server are stored first.
Store(q) ==
    /\ bucket /\ row[Home[q]].live /\ upload[q] = "none"
    /\ stored' = stored \cup {q}
    /\ upload' = [upload EXCEPT ![q] = "stored"]
    /\ UNCHANGED <<ledger, used, unreadable, run, weekly, relinked, bucket>>

\* Then recorded, the request answered, and the renditions made behind it.
RecordUpload(q) ==
    /\ upload[q] = "stored"
    /\ ledger' = Recorded(q)
    /\ upload' = [x \in Media |->
                    IF x = q THEN IF q \in Item THEN "ready" ELSE "none"
                    ELSE IF x \in Thumb /\ Original[x] = q /\ upload[x] = "none" THEN "making"
                    ELSE upload[x]]
    /\ UNCHANGED <<stored, used, unreadable, run, weekly, relinked, bucket>>

StoreThumb(v) ==
    /\ upload[v] = "making"
    /\ stored' = stored \cup {v}
    /\ upload' = [upload EXCEPT ![v] = "stored"]
    /\ UNCHANGED <<ledger, used, unreadable, run, weekly, relinked, bucket>>

\* The browser gives up, or the request or the rendition fails.
UploadFails(q) ==
    /\ upload[q] \in {"sending", "stored", "making"}
    /\ upload' = [upload EXCEPT ![q] = "none"]
    /\ UNCHANGED <<stored, ledger, used, unreadable, run, weekly, relinked, bucket>>

Uploads ==
    \E q \in Media : Sent(q) \/ RecordUpload(q) \/ StoreThumb(q) \/ UploadFails(q)

-------------------------------------------------------------------------------
(* Rows.                                                                     *)

\* The run has looked at the dictionary.
Looked(d) == run.pc \notin {"off", "list", "diff"} /\ d \notin run.todo

\* The row of an upload reaches the server, a minute or a season later.
Attach(q) ==
    /\ upload[q] = "ready" /\ row[Home[q]].live
    /\ used' = used \cup {q}
    /\ upload' = [upload EXCEPT ![q] = "none"]
    /\ relinked' = IF Looked(Home[q]) THEN relinked \cup {q} ELSE relinked
    /\ UNCHANGED <<stored, ledger, unreadable, run, weekly, bucket>>

Detach(q) ==
    /\ q \in used
    /\ used' = used \ {q}
    /\ UNCHANGED <<stored, ledger, upload, unreadable, run, weekly, relinked, bucket>>

\* A dictionary's file becomes unreadable, or readable again.
Fault(d) ==
    /\ bucket
    /\ unreadable' = IF d \in unreadable THEN unreadable \ {d} ELSE unreadable \cup {d}
    /\ UNCHANGED <<stored, ledger, used, upload, run, weekly, relinked, bucket>>

\* The delete endpoint takes the file, and its rows with it.
Unname(d) ==
    /\ used' = {q \in used : Home[q] # d}
    /\ UNCHANGED <<stored, ledger, upload, unreadable, run, weekly, relinked, bucket>>

-------------------------------------------------------------------------------
(* The job.                                                                  *)

RunBegins ==
    /\ bucket /\ weekly /\ run.pc = "off"
    /\ run' = [NoRun EXCEPT !.pc = "list"]
    /\ ledger' = [q \in Media |-> IF ledger[q].since = "new"
                                  THEN [ledger[q] EXCEPT !.since = "recent"] ELSE ledger[q]]
    /\ relinked' = {}
    /\ UNCHANGED <<stored, used, upload, unreadable, weekly, bucket>>

ListObjects ==
    /\ run.pc = "list"
    /\ run' = [run EXCEPT !.pc = "diff", !.remote = stored]
    /\ UNCHANGED <<stored, ledger, used, upload, unreadable, weekly, relinked, bucket>>

\* The ledger with unknown objects adopted and the rows of S dropped.
TruedUp(S) ==
    [q \in Media |-> IF q \in run.remote \ Held THEN [NoEntry EXCEPT !.held = TRUE, !.since = "recent"]
                     ELSE IF q \in S THEN NoEntry ELSE ledger[q]]

\* Mutant: objects without a row are left to whoever uploaded them.
TrueUpKnown ==
    /\ run.pc = "diff"
    /\ \E S \in SUBSET (Held \ run.remote) :
        /\ \A q \in Held \ run.remote : /\ ledger[q].since = "old" => q \in S
                                        /\ ledger[q].since = "new" => q \notin S
        /\ ledger' = [q \in Media |-> IF q \in S THEN NoEntry ELSE ledger[q]]
    /\ run' = [run EXCEPT !.pc = "read", !.todo = {Home[q] : q \in {p \in Media : ledger'[p].held}}]
    /\ UNCHANGED <<stored, used, upload, unreadable, weekly, relinked, bucket>>

\* Rows whose object is not in the listing go, an hour after they were recorded; then the
\* ledger's dictionaries are listed.  What the server records meanwhile is in neither.
TrueUp ==
    /\ run.pc = "diff"
    /\ \E S \in SUBSET (Held \ run.remote) :
        /\ \A q \in Held \ run.remote : /\ ledger[q].since = "old" => q \in S
                                        /\ ledger[q].since = "new" => q \notin S
        /\ ledger' = TruedUp(S)
    /\ run' = [run EXCEPT !.pc = "read", !.todo = {Home[q] : q \in {p \in Media : ledger'[p].held}}]
    /\ UNCHANGED <<stored, used, upload, unreadable, weekly, relinked, bucket>>

\* A dictionary deleted names nothing.
LiveKeys(d) == IF row[d].live THEN {q \in WithThumbs(used) : Home[q] = d} ELSE {}

\* Mutant: a file that cannot be read names nothing.
ReadFabricated(d) ==
    /\ run.pc = "read" /\ run.at = {} /\ d \in run.todo
    /\ run' = [run EXCEPT !.todo = @ \ {d}, !.at = {d}, !.gone = ~row[d].live,
                          !.keys = IF d \in unreadable THEN {} ELSE LiveKeys(d)]
    /\ UNCHANGED <<stored, ledger, used, upload, unreadable, weekly, relinked, bucket>>

\* What the dictionary's rows name is read; a dictionary that cannot be read is skipped.
ReadLiveKeys(d) ==
    /\ run.pc = "read" /\ run.at = {} /\ d \in run.todo
    /\ \/ /\ ~row[d].live \/ d \notin unreadable
          /\ run' = [run EXCEPT !.todo = @ \ {d}, !.at = {d}, !.gone = ~row[d].live,
                                !.keys = LiveKeys(d)]
       \/ /\ row[d].live /\ d \in unreadable
          /\ run' = [run EXCEPT !.todo = @ \ {d}, !.skipped = @ \cup {d}]
    /\ UNCHANGED <<stored, ledger, used, upload, unreadable, weekly, relinked, bucket>>

\* The share of a dictionary's objects that would be marked at once is implausible.
Braked(objects, unmarked) ==
    Cardinality(objects) >= BrakeMin /\ 2 * Cardinality(unmarked) > Cardinality(objects)

ObjectsOf(d) == {q \in Held : Home[q] = d}
Unmarked(d, keys) == {q \in ObjectsOf(d) : ledger[q].mark = 0 /\ q \notin keys}

\* Mutant: a mark stays, though a row names the object again.
MarkOrphansOnly(d) ==
    /\ run.pc = "read" /\ run.at = {d}
    /\ LET unmarked == Unmarked(d, run.keys)
           braked == ~run.gone /\ Braked(ObjectsOf(d), unmarked)
       IN  ledger' = [q \in Media |-> IF q \in unmarked /\ ~braked
                                      THEN [ledger[q] EXCEPT !.mark = 1] ELSE ledger[q]]
    /\ run' = [run EXCEPT !.at = {}, !.keys = {}, !.gone = FALSE]
    /\ UNCHANGED <<stored, used, upload, unreadable, weekly, relinked, bucket>>

\* The ledger's rows of the dictionary are read, and marked or unmarked.
MarkOrphans(d) ==
    /\ run.pc = "read" /\ run.at = {d}
    /\ LET unmarked == Unmarked(d, run.keys)
           braked == ~run.gone /\ Braked(ObjectsOf(d), unmarked)
       IN  ledger' = [q \in Media |->
                        IF q \in ObjectsOf(d) /\ q \in run.keys THEN [ledger[q] EXCEPT !.mark = 0]
                        ELSE IF q \in unmarked /\ ~braked THEN [ledger[q] EXCEPT !.mark = 1]
                        ELSE ledger[q]]
    /\ run' = [run EXCEPT !.at = {}, !.keys = {}, !.gone = FALSE]
    /\ UNCHANGED <<stored, used, upload, unreadable, weekly, relinked, bucket>>

\* Renditions the listing lacks of originals it has.
Unrendered(remote) == {v \in Thumb : Original[v] \in remote /\ v \notin remote}

\* The marks that have outlasted the grace are read, of every dictionary.
Expire ==
    /\ run.pc = "read" /\ run.at = {} /\ run.todo = {}
    /\ LET expired == {q \in Held : ledger[q].mark > Grace}
       IN  run' = IF expired # {} THEN [run EXCEPT !.pc = "delete", !.batch = expired]
                  ELSE [run EXCEPT !.pc = "heal", !.batch = Unrendered(run.remote)]
    /\ UNCHANGED <<stored, ledger, used, upload, unreadable, weekly, relinked, bucket>>

DeleteObjects ==
    /\ run.pc = "delete"
    /\ stored' = stored \ run.batch
    /\ run' = [run EXCEPT !.pc = "drop"]
    /\ UNCHANGED <<ledger, used, upload, unreadable, weekly, relinked, bucket>>

\* The store deletes some of the batch only; the answer is not looked at.
DeleteSome ==
    /\ run.pc = "delete"
    /\ \E S \in SUBSET run.batch : S # run.batch /\ stored' = stored \ S
    /\ run' = [run EXCEPT !.pc = "drop"]
    /\ UNCHANGED <<ledger, used, upload, unreadable, weekly, relinked, bucket>>

DropRows ==
    /\ run.pc = "drop"
    /\ ledger' = [q \in Media |-> IF q \in run.batch THEN NoEntry ELSE ledger[q]]
    /\ run' = [run EXCEPT !.pc = "heal", !.batch = Unrendered(run.remote)]
    /\ UNCHANGED <<stored, used, upload, unreadable, weekly, relinked, bucket>>

\* An original deleted since the listing is not found, and that is all.
HealStore(v) ==
    /\ run.pc = "heal" /\ v \in run.batch
    /\ \/ /\ Original[v] \in stored
          /\ stored' = stored \cup {v}
          /\ run' = [run EXCEPT !.pc = "record", !.keys = {v}]
       \/ /\ Original[v] \notin stored
          /\ stored' = stored
          /\ run' = [run EXCEPT !.batch = @ \ {v}]
    /\ UNCHANGED <<ledger, used, upload, unreadable, weekly, relinked, bucket>>

HealRecord(v) ==
    /\ run.pc = "record" /\ run.keys = {v}
    /\ ledger' = Recorded(v)
    /\ run' = [run EXCEPT !.pc = "heal", !.batch = @ \ {v}, !.keys = {}]
    /\ UNCHANGED <<stored, used, upload, unreadable, weekly, relinked, bucket>>

HealFails(v) ==
    /\ run.pc = "heal" /\ v \in run.batch
    /\ run' = [run EXCEPT !.batch = @ \ {v}]
    /\ UNCHANGED <<stored, ledger, used, upload, unreadable, weekly, relinked, bucket>>

\* Only a run that comes to its end moves the watermark.
RunEnds ==
    /\ run.pc = "heal" /\ run.batch = {}
    /\ run' = NoRun /\ weekly' = FALSE
    /\ UNCHANGED <<stored, ledger, used, upload, unreadable, relinked, bucket>>

\* The process is killed after 90 minutes, or an await of the job rejects.
RunDies ==
    /\ run.pc # "off"
    /\ run' = NoRun
    /\ UNCHANGED <<stored, ledger, used, upload, unreadable, weekly, relinked, bucket>>

\* The server restarts: the job goes with it, and so do the requests under way.
MediaRestart ==
    /\ run' = NoRun
    /\ upload' = [q \in Media |-> IF upload[q] \in {"stored", "making"} THEN "none" ELSE upload[q]]
    /\ UNCHANGED <<stored, ledger, used, unreadable, weekly, relinked, bucket>>

\* A week goes by: no run and no upload lasts so long.
Week ==
    /\ bucket /\ run.pc = "off"
    /\ \A q \in Media : upload[q] \in {"none", "ready"}
    /\ ledger' = [q \in Media |->
                    [ledger[q] EXCEPT !.since = "old",
                                      !.mark = IF @ \in 1..Grace THEN @ + 1 ELSE @]]
    /\ weekly' = TRUE
    /\ UNCHANGED <<stored, used, upload, unreadable, run, relinked, bucket>>

Reconcile ==
    \/ RunBegins \/ ListObjects \/ TrueUp \/ Expire \/ DeleteObjects \/ DropRows \/ RunEnds
    \/ \E d \in Dict : ReadLiveKeys(d) \/ MarkOrphans(d)
    \/ \E v \in Thumb : HealStore(v) \/ HealRecord(v)

===============================================================================
