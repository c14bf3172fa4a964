----------------------------- MODULE MessageThreads -----------------------------
(***************************************************************************)
(* The handlers that write messages.  One that comes in restamps its       *)
(* thread.  A reply is sent in three turns of the loop: its row, pending;  *)
(* the thread, once the attachments are uploaded; the outcome, once the    *)
(* mail service has answered.                                              *)
(***************************************************************************)
EXTENDS SharedCatalog

VARIABLE
    outbox      \* [Message -> the reply being sent]

\* now: the time taken when the reply came in.
NoReply == [at |-> "none", now |-> 0]

\* A row restamped; its text, which the columns written are not part of, stays.
Stamped(rows, q, stamp) == IF rows[q].live THEN [rows EXCEPT ![q].stamp = stamp] ELSE rows

\* A message of a live thread comes in: mail, which resets what an admin decided about the
\* thread, or a post in a conversation, which does not.
Post(q) ==
    /\ q \in Message /\ seq[q] = 0 /\ row[Parent[q]].live
    /\ clock' = clock + 1
    /\ counter' = counter + 1
    /\ \E text \in {clock + 1, row[Parent[q]].text} :
           row' = [row EXCEPT ![q] = Fresh(clock + 1, "plain"),
                              ![Parent[q]].stamp = clock + 1, ![Parent[q]].text = text]
    /\ seq' = [seq EXCEPT ![q] = counter + 1, ![Parent[q]] = counter + 1]
    /\ UNCHANGED <<grave, outbox>>

\* An admin replies.
Reply(q) ==
    /\ q \in Message /\ seq[q] = 0 /\ row[Parent[q]].live
    /\ clock' = clock + 1
    /\ row' = [row EXCEPT ![q] = Fresh(clock + 1, "plain")]
    /\ Numbered(q)
    /\ outbox' = [outbox EXCEPT ![q] = [at |-> "uploading", now |-> clock + 1]]
    /\ grave' = grave

\* The thread gets the time the reply came in, earlier or later than its own.  A row that is
\* gone is not there to be stamped and takes no number.
Numbers(S) ==
    /\ counter' = IF \E p \in S : row[p].live THEN counter + 1 ELSE counter
    /\ seq' = [p \in Row |-> IF p \in S /\ row[p].live THEN counter + 1 ELSE seq[p]]

ReplyBumps(q) ==
    /\ outbox[q].at = "uploading"
    /\ row' = Stamped(row, Parent[q], outbox[q].now)
    /\ Numbers({Parent[q]})
    /\ outbox' = [outbox EXCEPT ![q].at = "sending"]
    /\ UNCHANGED <<grave, clock>>

\* The mail is sent: the message and the thread are stamped now ...
ReplySent(q) ==
    /\ outbox[q].at = "sending"
    /\ clock' = clock + 1
    /\ row' = Stamped(Stamped(row, q, clock + 1), Parent[q], clock + 1)
    /\ Numbers({q, Parent[q]})
    /\ outbox' = [outbox EXCEPT ![q] = NoReply]
    /\ grave' = grave

\* ... or is not: the message alone.
ReplyFails(q) ==
    /\ outbox[q].at = "sending"
    /\ clock' = clock + 1
    /\ row' = Stamped(row, q, clock + 1)
    /\ Numbers({q})
    /\ outbox' = [outbox EXCEPT ![q] = NoReply]
    /\ grave' = grave

===============================================================================
