------------------------------- MODULE Catalogue -------------------------------
(***************************************************************************)
(* The shared database, the admins' browsers, the snapshot sweep and the   *)
(* media job together: the sweep writes the rows the admins mirror, an     *)
(* admin's edit pushes back the whole row, the sweep's columns with it,    *)
(* and the deletion of a dictionary falls under both jobs.                 *)
(*                                                                         *)
(* What happens to the system from outside is bounded event by event: a    *)
(* behaviour begins in one of Starts, which gives each event its budget.   *)
(***************************************************************************)
EXTENDS AdminSync, SnapshotSweep, MessageThreads, MediaSweep

CONSTANTS
    Starts      \* bound: the states a behaviour may begin in

Events == {"save", "delete", "remove", "confirm", "grant", "revoke", "post", "reply", "push",
           "unmirrored", "vain", "r2", "sync", "loss", "offline", "reload", "restart",
           "upload", "attach", "detach", "unreadable", "media", "kill"}

\* live: the rows there are.  fresh: admins who never synced.  broken: admins whose file
\* lacks a dictionary below its cursor, as the timestamp cursor of old left some.
\* media: objects stored, recorded and in use.  A user's grants begin as a manager's, at most
\* one on a dictionary.
ASSUME CatalogueAssumption ==
    \A s \in Starts :
        /\ s.live \subseteq Row /\ s.fresh \subseteq Admin /\ s.broken \subseteq Admin
        /\ \A q \in s.live \cap Child : Parent[q] \in s.live
        /\ \A q, p \in s.live \cap Role : q # p => Parent[q] # Parent[p]
        /\ s.builder \in BOOLEAN /\ s.bucket \in BOOLEAN
        /\ s.media \subseteq Media /\ \A q \in s.media : Home[q] \in s.live
        /\ s.budget \in [Events -> Nat]

VARIABLE left   \* [Events -> how often each may still happen]

vars == <<serverVars, adminVars, sweepVars, mediaVars, outbox, left>>

\* Everything was written and published at stamp 2, under number 1.
Epoch == 2
FirstRows(S) == [q \in Row |->
    IF q \notin S THEN Absent
    ELSE [live |-> TRUE, stamp |-> Epoch, text |-> Epoch,
          tag |-> IF q \in Dict THEN "public" ELSE IF q \in Role THEN "manager" ELSE "plain",
          uploaded |-> IF q \in Dict THEN Epoch ELSE 0]]

FirstFile(s, a) ==
    IF a \in s.fresh THEN NoFile
    ELSE [NoFile EXCEPT !.row = FirstRows(IF a \in s.broken THEN s.live \ WithChildren(Dict)
                                          ELSE s.live),
                        !.cursor = 1]

Init ==
    \E s \in Starts :
        /\ row = FirstRows(s.live)
        /\ seq = [q \in Row |-> IF q \in s.live THEN 1 ELSE 0]
        /\ grave = [q \in Row |-> 0]
        /\ counter = 1
        /\ clock = Epoch
        /\ file = [a \in Admin |-> FirstFile(s, a)]
        /\ engine = [a \in Admin |-> NewEngine]
        /\ round = [a \in Admin |-> NoRound]
        /\ content = [d \in Dict |-> IF d \in s.live THEN Epoch ELSE Blank]
        /\ pruned = [d \in Dict |-> 0]
        /\ published = [d \in Dict |-> IF d \in s.live THEN Epoch ELSE 0]
        /\ teardown = {}
        /\ outbox = [q \in Message |-> NoReply]
        /\ sweep = NoSweep
        /\ reconciled = TRUE
        /\ enabled = s.builder
        /\ stored = s.media
        /\ ledger = [q \in Media |-> [NoEntry EXCEPT !.held = q \in s.media]]
        /\ used = s.media \cap Item
        /\ upload = [q \in Media |-> "none"]
        /\ unreadable = {} /\ run = NoRun /\ weekly = FALSE /\ relinked = {}
        /\ bucket = s.bucket
        /\ left = s.budget

Spend(event) == left[event] > 0 /\ left' = [left EXCEPT ![event] = @ - 1]

\* The admins' pages: what they show can be edited, what can be deleted there deleted; the
\* answer of the delete endpoint has the dictionary deleted from the file too.
Edited(a) ==
    \/ Spend("save") /\ \E q \in Row : \E tag \in Tags(q) : Save(a, q, tag)
    \/ Spend("delete") /\ \E q \in Role \cup Thread \cup Message :
                              file[a].row[q].live /\ Delete(a, q)
    \/ Spend("confirm") /\ \E d \in Dict : grave[d] # 0 /\ d \notin teardown /\ Delete(a, d)

Disturbed(a) ==
    \/ Spend("sync") /\ Sync(a)
    \/ Spend("loss") /\ Lose(a)
    \/ Spend("offline") /\ Disconnect(a)
    \/ (Reconnect(a) \/ (~engine[a].online /\ Lose(a))) /\ UNCHANGED left
    \/ Spend("reload") /\ Reload(a)

Runs(a) == (Flush(a) \/ Step(a)) /\ UNCHANGED left

AdminStep == \E a \in Admin : (Edited(a) \/ Disturbed(a) \/ Runs(a))
                              /\ UNCHANGED <<sweepVars, mediaVars, outbox>>

\* Requests that write grants, messages and content.
ServerStep ==
    /\ \/ Spend("grant") /\ (\E q \in Role : \E tag \in Tags(q) : Grant(q, tag)) /\ outbox' = outbox
       \/ Spend("revoke") /\ (\E q \in Role : Revoke(q)) /\ outbox' = outbox
       \/ Spend("post") /\ \E q \in Message : Post(q)
       \/ Spend("reply") /\ \E q \in Message : Reply(q)
       \/ \E q \in Message : (ReplyBumps(q) \/ ReplySent(q) \/ ReplyFails(q)) /\ UNCHANGED left
    /\ UNCHANGED <<adminVars, sweepVars, mediaVars>>

DictStep ==
    /\ \E d \in Dict :
        \/ Spend("push") /\ Push(d) /\ UNCHANGED mediaVars
        \/ Spend("unmirrored") /\ PushUnmirrored(d) /\ UNCHANGED mediaVars
        \/ Spend("vain") /\ PushInVain(d) /\ UNCHANGED mediaVars
        \/ Spend("remove") /\ Remove(d) /\ Unname(d)
        \/ RemoveSnapshot(d) /\ UNCHANGED <<mediaVars, left>>
    /\ UNCHANGED <<adminVars, outbox>>

\* The server's process may end at any time, and with it the replies being sent.
SweepStep ==
    /\ \/ Sweep /\ UNCHANGED <<mediaVars, outbox, left>>
       \/ /\ Spend("r2")
          /\ \E d \in Dict : WithdrawFails(d) \/ BuildFails(d) \/ RemoveSnapshotFails(d)
          /\ UNCHANGED <<mediaVars, outbox>>
       \/ Spend("restart") /\ Restart /\ MediaRestart /\ outbox' = [q \in Message |-> NoReply]
    /\ UNCHANGED adminVars

\* Uploads, the rows that name them, and the weekly job with what befalls it.
MediaStep ==
    /\ \/ (Reconcile \/ Uploads \/ Week) /\ UNCHANGED left
       \/ Spend("upload") /\ \E q \in Item : Presign(q) \/ Store(q)
       \/ Spend("attach") /\ \E q \in Item : Attach(q)
       \/ Spend("detach") /\ \E q \in Item : Detach(q)
       \/ Spend("unreadable") /\ \E d \in Dict : Fault(d)
       \/ Spend("media") /\ (DeleteSome \/ \E v \in Thumb : HealFails(v))
       \/ Spend("kill") /\ RunDies
    /\ UNCHANGED <<serverVars, adminVars, sweepVars, outbox>>

Next == AdminStep \/ ServerStep \/ DictStep \/ SweepStep \/ MediaStep

\* The timer fires and a round goes on to its end; the jobs are run again and again; a
\* request ends; weeks go by.
\* Nobody has to press the button, navigate or come back.
Fairness ==
    /\ \A a \in Admin :
           WF_vars(UNCHANGED <<sweepVars, mediaVars, outbox, left>> /\ (Flush(a) \/ Step(a)))
    /\ WF_vars(UNCHANGED <<adminVars, mediaVars, outbox, left>> /\ Sweep)
    /\ WF_vars(UNCHANGED <<serverVars, adminVars, sweepVars, outbox, left>> /\ Reconcile)
    /\ WF_vars(UNCHANGED <<serverVars, adminVars, sweepVars, outbox, left>> /\ Uploads)
    /\ WF_vars(UNCHANGED <<serverVars, adminVars, sweepVars, outbox, left>> /\ Week)

Spec == Init /\ [][Next]_vars /\ Fairness

===============================================================================
