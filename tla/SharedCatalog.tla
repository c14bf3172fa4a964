----------------------------- MODULE SharedCatalog -----------------------------
(***************************************************************************)
(* The server's shared database: the catalogue of dictionaries, the grants *)
(* on them and the message threads, which every admin's browser mirrors.   *)
(*                                                                         *)
(*   - every insert and update takes the next number of one counter, and   *)
(*     so does every tombstone; the numbers given in one turn of the       *)
(*     server's loop are one here, for no reader sees what is between them;*)
(*   - process_sync merges an admin's flagged rows by last writer wins and *)
(*     answers with what changed above the admin's cursor.                 *)
(*                                                                         *)
(* Clocks agree and no two stamps are equal.  A row's text is named by the *)
(* stamp of the edit that wrote it; its stamp (updated_at) can differ: the *)
(* mirror of a dictionary's content cursor rewrites it alone.              *)
(***************************************************************************)
EXTENDS Naturals, FiniteSets

CONSTANTS
    Dict,       \* dictionaries
    Role,       \* grants of one user
    Thread,     \* message threads
    Message,    \* messages
    Parent      \* [Role \cup Message -> Dict \cup Thread]: the row a foreign key names

Row == Dict \cup Role \cup Thread \cup Message
Child == Role \cup Message

ASSUME CatalogAssumption ==
    /\ Dict \cap (Role \cup Thread \cup Message) = {}
    /\ Role \cap (Thread \cup Message) = {} /\ Thread \cap Message = {}
    /\ Parent \in [Child -> Dict \cup Thread]
    /\ \A q \in Role : Parent[q] \in Dict
    /\ \A q \in Message : Parent[q] \in Thread

VARIABLES
    row,        \* [Row -> Version]
    seq,        \* [Row -> the number of its last insert or update]
    grave,      \* [Row -> the number of its tombstone, 0 if none]
    counter,    \* server_seq_counter
    clock       \* the latest stamp given

serverVars == <<row, seq, grave, counter, clock>>

\* What a property tells apart in a row: a dictionary's bucket, a grant's role.
Tags(q) == IF q \in Dict THEN {"public", "secure"}
           ELSE IF q \in Role THEN {"manager", "contributor"} ELSE {"plain"}
Tag == {"public", "secure", "manager", "contributor", "plain"}

\* uploaded: snapshot_uploaded_at, 0 for NULL.
Version == [live : BOOLEAN, stamp : Nat, text : Nat, tag : Tag, uploaded : Nat]
Absent == [live |-> FALSE, stamp |-> 0, text |-> 0, tag |-> "plain", uploaded |-> 0]
Fresh(stamp, tag) ==
    [live |-> TRUE, stamp |-> stamp, text |-> stamp, tag |-> tag, uploaded |-> 0]

\* UNIQUE (dictionary_id, user_id, role).
SameGrant(q, v, p, w) ==
    /\ q # p /\ q \in Role /\ p \in Role /\ Parent[q] = Parent[p]
    /\ v.live /\ w.live /\ v.tag = w.tag
Unique(rows) == \A q, p \in Role : ~SameGrant(q, rows[q], p, rows[p])

\* A deletion takes the children with it, and leaves them no tombstone.
WithChildren(S) == S \cup {q \in Child : Parent[q] \in S}
Without(rows, S) ==
    LET gone == WithChildren(S) IN [q \in Row |-> IF q \in gone THEN Absent ELSE rows[q]]

FkHolds(rows) == \A q \in Child : rows[q].live => rows[Parent[q]].live

\* The write of one server row: it takes a number.
Numbered(q) ==
    /\ counter' = counter + 1
    /\ seq' = [seq EXCEPT ![q] = counter + 1]

-------------------------------------------------------------------------------
(* process_sync: req carries the flagged rows read, their versions, the      *)
(* tombstones queued and the cursor (0: a full pull).                        *)

\* The tombstones are merged first.
Base(req) == Without(row, req.queue)

\* A tombstone stands where the row was: the push must not bring it back.
Buried(req) ==
    LET base == Base(req)
    IN  {q \in req.read : ~base[q].live /\ (grave[q] # 0 \/ q \in req.queue)}

\* Mutant: the last push wins.
LosingNever(req) == {}

\* The server's row is the later one.
Losing(req) ==
    LET base == Base(req)
    IN  {q \in req.read : base[q].live /\ base[q].stamp > req.rows[q].stamp}

Written(req) == req.read \ (Buried(req) \cup Losing(req))

\* The whole row is upserted, whichever columns the edit touched.
Merged(req) ==
    LET base == Base(req)
        written == Written(req)
    IN  [q \in Row |-> IF q \in written THEN req.rows[q] ELSE base[q]]

Writes(req) == Written(req) # {} \/ req.queue # {}

\* Mutant: an update keeps the number the row had.
MergeUnnumbered(req) ==
    LET written == {q \in Written(req) : seq[q] = 0}
    IN  /\ row' = Merged(req)
        /\ seq' = [q \in Row |-> IF q \in written THEN counter + 1 ELSE seq[q]]
        /\ grave' = [q \in Row |-> IF q \in req.queue THEN counter + 1 ELSE grave[q]]
        /\ counter' = IF Writes(req) THEN counter + 1 ELSE counter

Merge(req) ==
    LET written == Written(req)
    IN  /\ row' = Merged(req)
        /\ seq' = [q \in Row |-> IF q \in written THEN counter + 1 ELSE seq[q]]
        /\ grave' = [q \in Row |-> IF q \in req.queue THEN counter + 1 ELSE grave[q]]
        /\ counter' = IF Writes(req) THEN counter + 1 ELSE counter

\* Mutant: the first number above the cursor is skipped.
ChangedBeyond(req) ==
    {q \in Row : row'[q].live /\ (req.cursor = 0 \/ seq'[q] > req.cursor + 1) /\ q \notin req.read}
    \cup Losing(req)

\* Rows above the cursor, other than those just pushed, and the rows that won
\* against a pushed one.
Changed(req) ==
    {q \in Row : row'[q].live /\ (req.cursor = 0 \/ seq'[q] > req.cursor) /\ q \notin req.read}
    \cup Losing(req)

\* Tombstones above the cursor (none on a full pull), and those that refused a row.
Removed(req) ==
    {q \in Row : req.cursor # 0 /\ grave'[q] > req.cursor /\ ~row'[q].live} \cup Buried(req)

AnswerTo(req) ==
    [changes |-> Changed(req), rows |-> row', seqs |-> seq', deletes |-> Removed(req),
     refused |-> Buried(req), losing |-> Losing(req), cursor |-> counter']

-------------------------------------------------------------------------------
(* The server's own writes.                                                  *)

\* The roles endpoint, on a dictionary there is: a new grant, or, where the user holds
\* it already, a later stamp on that one.
Grant(q, tag) ==
    /\ q \in Role /\ seq[q] = 0 /\ row[Parent[q]].live
    /\ clock' = clock + 1
    /\ LET v == Fresh(clock + 1, tag)
           same == {p \in Role : SameGrant(p, row[p], q, v)}
       IN  \/ /\ same = {}
              /\ row' = [row EXCEPT ![q] = v]
              /\ Numbered(q)
           \/ \E p \in same :
              /\ row' = [row EXCEPT ![p].stamp = clock + 1, ![p].text = clock + 1]
              /\ Numbered(p)
    /\ grave' = grave

\* The role endpoint: a tombstone, whose trigger deletes the grant.
Revoke(q) ==
    /\ q \in Role /\ row[q].live
    /\ row' = Without(row, {q})
    /\ counter' = counter + 1
    /\ grave' = [grave EXCEPT ![q] = counter + 1]
    /\ UNCHANGED <<seq, clock>>

\* Mutant: the grants that go with the dictionary are left without tombstones.
TearDownAlone(d) ==
    /\ row[d].live
    /\ row' = Without(row, {d})
    /\ counter' = counter + 1
    /\ grave' = [grave EXCEPT ![d] = counter + 1]
    /\ UNCHANGED <<seq, clock>>

\* The delete endpoint: tombstones for a dictionary's grants and for itself.
TearDown(d) ==
    /\ row[d].live
    /\ row' = Without(row, {d})
    /\ counter' = counter + 1
    /\ grave' = [q \in Row |-> IF q = d \/ (q \in Role /\ Parent[q] = d /\ row[q].live)
                             THEN counter + 1 ELSE grave[q]]
    /\ UNCHANGED <<seq, clock>>

===============================================================================
