----------------------------- MODULE SnapshotSweep -----------------------------
(***************************************************************************)
(* The job that keeps a public snapshot of every dictionary, and the       *)
(* column it is driven by.  A dictionary's content has a cursor of its own;*)
(* an editor's push copies it onto the catalogue row's stamp, and a row    *)
(* stamped after its snapshot was begun is due for another.                *)
(*                                                                         *)
(* The sweep awaits the object store and the backup: pushes, edits, the    *)
(* deletion of a dictionary and a restart fall between its steps.          *)
(***************************************************************************)
EXTENDS SharedCatalog

VARIABLES
    content,    \* [Dict -> last_modified_at of the dictionary's file; Blank: a new file]
    pruned,     \* [Dict -> the content whose tombstones are pruned from the file]
    published,  \* [Dict -> the content of the public snapshot, 0 if none]
    teardown,   \* dictionaries deleted whose snapshot is still to be removed
    sweep,      \* the sweep under way
    reconciled, \* reconciled_this_process
    enabled     \* R2_SNAPSHOT_BUILDER_ENABLED

sweepVars == <<content, pruned, published, teardown, sweep, reconciled, enabled>>

Blank == 1

\* at: the dictionary in hand; ts: build_ts; bytes: the content copied, 0 before.
NoSweep == [pc |-> "off", todo |-> {}, at |-> {}, ts |-> 0, bytes |-> 0]

Secure(d) == row[d].live /\ row[d].tag = "secure"
\* Mutant: a dictionary that has a snapshot is not built again.
DueOnce(d) == row[d].live /\ row[d].tag # "secure" /\ row[d].uploaded = 0

Due(d) == row[d].live /\ row[d].tag # "secure" /\ row[d].stamp > row[d].uploaded

-------------------------------------------------------------------------------
(* Content.                                                                  *)

\* mirror_dictionary_cursor: the stamp becomes the content's cursor, earlier or later.
Mirrored(d, cursor) == [row EXCEPT ![d].stamp = cursor]

\* An editor's push that changes the content, mirrored in the same tick ...
Push(d) ==
    /\ row[d].live
    /\ clock' = clock + 1
    /\ content' = [content EXCEPT ![d] = clock + 1]
    /\ row' = Mirrored(d, clock + 1)
    /\ Numbered(d)
    /\ UNCHANGED <<grave, pruned, published, teardown, sweep, reconciled, enabled>>

\* ... or not: the mirror is best effort.
PushUnmirrored(d) ==
    /\ row[d].live
    /\ clock' = clock + 1
    /\ content' = [content EXCEPT ![d] = clock + 1]
    /\ UNCHANGED <<row, seq, grave, counter, pruned, published, teardown, sweep, reconciled, enabled>>

\* A push that loses every row leaves the cursor where it was; it is mirrored all the same.
PushInVain(d) ==
    /\ row[d].live
    /\ row' = Mirrored(d, content[d])
    /\ Numbered(d)
    /\ UNCHANGED <<grave, clock, sweepVars>>

-------------------------------------------------------------------------------
(* The delete endpoint.                                                      *)

\* Its first two steps, in one tick: the rows, then the file.
Remove(d) ==
    /\ TearDown(d)
    /\ content' = [content EXCEPT ![d] = Blank]
    /\ pruned' = [pruned EXCEPT ![d] = 0]
    /\ teardown' = teardown \cup {d}
    /\ UNCHANGED <<published, sweep, reconciled, enabled>>

\* Its last: the snapshot is removed, or is not.
RemoveSnapshot(d) ==
    /\ d \in teardown
    /\ published' = [published EXCEPT ![d] = 0]
    /\ teardown' = teardown \ {d}
    /\ UNCHANGED <<serverVars, content, pruned, sweep, reconciled, enabled>>

RemoveSnapshotFails(d) ==
    /\ d \in teardown
    /\ teardown' = teardown \ {d}
    /\ UNCHANGED <<serverVars, content, pruned, published, sweep, reconciled, enabled>>

-------------------------------------------------------------------------------
(* The sweep.                                                                *)

Behind == {d \in Dict : row[d].live /\ content[d] > row[d].stamp}

\* Mutant: secure dictionaries are looked for once, when the process reconciles.
SweepBeginsOnce ==
    /\ enabled /\ sweep.pc = "off"
    /\ LET late == IF reconciled THEN {} ELSE Behind
       IN  /\ row' = [q \in Row |-> IF q \in late THEN [row[q] EXCEPT !.stamp = content[q]]
                                    ELSE row[q]]
           /\ seq' = [q \in Row |-> IF q \in late THEN counter + 1 ELSE seq[q]]
           /\ counter' = IF late = {} THEN counter ELSE counter + 1
    /\ reconciled' = TRUE
    /\ sweep' = [NoSweep EXCEPT !.pc = "withdraw",
                                !.todo = {d \in Dict : ~reconciled /\ Secure(d)
                                                       /\ row[d].uploaded # 0}]
    /\ UNCHANGED <<grave, clock, content, pruned, published, teardown, enabled>>

\* The first sweep of the process reconciles: stamps move forward to the content's.
\* The list of secure dictionaries with a snapshot is read in the same tick.
SweepBegins ==
    /\ enabled /\ sweep.pc = "off"
    /\ LET late == IF reconciled THEN {} ELSE Behind
       IN  /\ row' = [q \in Row |-> IF q \in late THEN [row[q] EXCEPT !.stamp = content[q]]
                                    ELSE row[q]]
           /\ seq' = [q \in Row |-> IF q \in late THEN counter + 1 ELSE seq[q]]
           /\ counter' = IF late = {} THEN counter ELSE counter + 1
    /\ reconciled' = TRUE
    /\ sweep' = [NoSweep EXCEPT !.pc = "withdraw",
                                !.todo = {d \in Dict : Secure(d) /\ row[d].uploaded # 0}]
    /\ UNCHANGED <<grave, clock, content, pruned, published, teardown, enabled>>

\* A secure dictionary's object is deleted, then its mark.
WithdrawObject(d) ==
    /\ sweep.pc = "withdraw" /\ sweep.at = {} /\ d \in sweep.todo
    /\ published' = [published EXCEPT ![d] = 0]
    /\ sweep' = [sweep EXCEPT !.todo = @ \ {d}, !.at = {d}]
    /\ UNCHANGED <<serverVars, content, pruned, teardown, reconciled, enabled>>

WithdrawFails(d) ==
    /\ sweep.pc = "withdraw" /\ sweep.at = {} /\ d \in sweep.todo
    /\ sweep' = [sweep EXCEPT !.todo = @ \ {d}]
    /\ UNCHANGED <<serverVars, content, pruned, published, teardown, reconciled, enabled>>

\* The row of a dictionary deleted meanwhile is not there to be marked.
Marks(d, ts) ==
    IF row[d].live
    THEN /\ row' = [row EXCEPT ![d].uploaded = ts]
         /\ Numbered(d)
         /\ UNCHANGED <<grave, clock>>
    ELSE UNCHANGED serverVars

WithdrawMark(d) ==
    /\ sweep.pc = "withdraw" /\ sweep.at = {d}
    /\ Marks(d, 0)
    /\ sweep' = [sweep EXCEPT !.at = {}]
    /\ UNCHANGED <<content, pruned, published, teardown, reconciled, enabled>>

\* The dictionaries due are listed; none due, the sweep is over.
List ==
    /\ sweep.pc = "withdraw" /\ sweep.at = {} /\ sweep.todo = {}
    /\ LET due == {d \in Dict : Due(d)}
       IN  sweep' = IF due = {} THEN NoSweep ELSE [NoSweep EXCEPT !.pc = "build", !.todo = due]
    /\ UNCHANGED <<serverVars, content, pruned, published, teardown, reconciled, enabled>>

\* The build's time is taken and old tombstones are pruned from the source, in one tick.
\* A file that is gone is created again by whoever opens it.
BuildBegins(d) ==
    /\ sweep.pc = "build" /\ sweep.at = {} /\ d \in sweep.todo
    /\ sweep' = [sweep EXCEPT !.todo = @ \ {d}, !.at = {d}, !.ts = clock]
    /\ pruned' \in {pruned, [pruned EXCEPT ![d] = content[d]]}
    /\ UNCHANGED <<serverVars, content, published, teardown, reconciled, enabled>>

Copy(d) ==
    /\ sweep.pc = "build" /\ sweep.at = {d} /\ sweep.bytes = 0
    /\ sweep' = [sweep EXCEPT !.bytes = content[d]]
    /\ UNCHANGED <<serverVars, content, pruned, published, teardown, reconciled, enabled>>

Upload(d) ==
    /\ sweep.pc = "build" /\ sweep.at = {d} /\ sweep.bytes # 0
    /\ published' = [published EXCEPT ![d] = sweep.bytes]
    /\ sweep' = [sweep EXCEPT !.pc = "mark"]
    /\ UNCHANGED <<serverVars, content, pruned, teardown, reconciled, enabled>>

\* What is left of the sweep after the dictionary in hand.
Rest == IF sweep.todo = {} THEN NoSweep ELSE [NoSweep EXCEPT !.pc = "build", !.todo = sweep.todo]

\* Mutant: the mark is the time of the upload, not of the build.
MarkNow(d) ==
    /\ sweep.pc = "mark" /\ sweep.at = {d}
    /\ Marks(d, clock)
    /\ sweep' = Rest
    /\ UNCHANGED <<content, pruned, published, teardown, reconciled, enabled>>

Mark(d) ==
    /\ sweep.pc = "mark" /\ sweep.at = {d}
    /\ Marks(d, sweep.ts)
    /\ sweep' = Rest
    /\ UNCHANGED <<content, pruned, published, teardown, reconciled, enabled>>

\* Mutant: a build that fails is marked as well.
BuildFailsMarked(d) ==
    /\ sweep.pc = "build" /\ sweep.at = {d}
    /\ Marks(d, sweep.ts)
    /\ sweep' = Rest
    /\ UNCHANGED <<content, pruned, published, teardown, reconciled, enabled>>

\* The copy or the upload fails: the next dictionary.
BuildFails(d) ==
    /\ sweep.pc = "build" /\ sweep.at = {d}
    /\ sweep' = Rest
    /\ UNCHANGED <<serverVars, content, pruned, published, teardown, reconciled, enabled>>

\* The process ends where it stands; the next one starts over.
Restart ==
    /\ sweep' = NoSweep
    /\ reconciled' = FALSE
    /\ teardown' = {}
    /\ UNCHANGED <<serverVars, content, pruned, published, enabled>>

Sweep ==
    \/ SweepBegins \/ List
    \/ \E d \in Dict : \/ WithdrawObject(d) \/ WithdrawMark(d)
                       \/ BuildBegins(d) \/ Copy(d) \/ Upload(d) \/ Mark(d)

===============================================================================
