----------------------------- MODULE DictSyncProps -----------------------------
(***************************************************************************)
(* What the sync of DictSync must guarantee.                               *)
(***************************************************************************)
EXTENDS DictSync

\* Content of a table of rows, without flags and sequence numbers.
Contents(rows) == [r \in Row |-> IF rows[r] = Nil THEN Nil ELSE rows[r].v]

Kinds == {"none", "other", "unique", "fk"}

LocalRow == [v : Version, dirty : BOOLEAN]

Shelved == [row : Row, v : Version]

\* Every variable stays in the set of values the code's types allow.
TypeOK ==
    /\ canon \in [Row -> Opt(CanonRow)]
    /\ graves \in [Row -> Nat]
    /\ counter \in Nat /\ pruned \in Nat
    /\ grant \in [Client -> BOOLEAN]
    /\ minted \subseteq Row
    /\ clock \in [Client -> Nat]
    /\ local \in [Client -> [Row -> Opt(LocalRow)]]
    /\ queue \in [Client -> SUBSET Row]
    /\ cursor \in [Client -> Opt(Nat)]
    /\ shelf \in [Client -> SUBSET Shelved]
    /\ role \in [Client -> BOOLEAN]
    /\ probe \in [Client -> BOOLEAN]
    /\ streak \in [Client -> Kinds \X Nat]
    /\ phase \in [Client -> Phases]
    /\ page \in [Client -> Nat]
    /\ req \in [Client -> Request]
    /\ resp \in [Client -> Answer]
    /\ faults \in Nat /\ prunes \in Nat

-------------------------------------------------------------------------------
(* The cursor protocol: no change is ever numbered below somebody's cursor. *)

\* Rows and tombstones whose server_seq the step changes.
Rewritten == {r \in Row : canon'[r] # Nil /\ canon'[r] # canon[r]}
Reburied == {r \in Row : graves'[r] # 0 /\ graves'[r] # graves[r]}

\* The cursors a device has stored, has sent or is about to be handed.
Cursors(c) == {cursor[c], req[c].cursor, resp[c].cursor} \ {Nil}

\* What is written to the server is always numbered above every cursor of every
\* device: none can already be past it (process_dict_changes: "Exact under BEGIN
\* IMMEDIATE").
NothingBelowCursor ==
    [][\A c \in Client : \A n \in Cursors(c) :
          /\ \A r \in Rewritten : canon'[r].seq > n
          /\ \A r \in Reburied : graves'[r] > n]_vars

\* Rows, tombstones, the pruning mark and the cursors never run ahead of the
\* counter the next change is numbered from.
CursorInv ==
    /\ \A r \in Row : canon[r] # Nil => canon[r].seq <= counter
    /\ \A r \in Row : graves[r] <= counter
    /\ pruned <= counter
    /\ \A c \in Client : \A n \in Cursors(c) : n <= counter

-------------------------------------------------------------------------------
(* Unpushed work.                                                           *)

\* The server accounts for version v of row r: it is the server's own, it holds
\* it or something newer, it saw the row or one it hangs from deleted (if the
\* tombstone was pruned since, a row of the seed is missing), or the row's
\* natural key belongs to another row.
Settled(r, v) ==
    \/ v = SeedVersion
    \/ canon[r] # Nil /\ canon[r].v.at >= v.at
    \/ \E p \in Lineage[r] : graves[p] > 0 \/ (p \in Seed /\ canon[p] = Nil)
    \/ KeyOwners(canon, r) # {}

\* A flagged version stops being flagged on its device only because the user
\* wrote again, or because the server accounts for it, or because it was refused
\* and put aside in rejected_pushes: no step just forgets it.
NoWorkLost ==
    [][\A c \in Client : \A r \in DirtyIn(c, Row) : \A v \in {local[c][r].v} :
          \/ local'[c][r] = local[c][r]
          \/ clock'[c] # clock[c]
          \/ queue'[c] \ queue[c] # {}
          \/ Settled(r, v)'
          \/ [row |-> r, v |-> v] \in shelf'[c]]_vars

\* A tombstone an editor pushes takes the row off the server, unless the row is
\* back on the device (a pull that was in flight restored it) or the device has
\* queued the deletion of a row it hangs from since: an edit made before the
\* deletion never travels with it and puts the row back.
DeletesStick ==
    [][\A c \in Client :
          phase[c] = "sent" /\ phase'[c] = "answered" /\ resp'[c].kind = "ok" /\ grant[c] =>
              \A r \in req[c].tombs :
                  \/ canon'[r] = Nil
                  \/ r \in Held(local[c])
                  \/ Lineage[r] \cap (queue[c] \ req[c].tombs) # {}]_vars

\* A row that an editor pushes is refused only if it was deleted, or a row it hangs from
\* was: the device converges when that tombstone reaches it.
RefusedWasDeleted ==
    \A c \in Client :
        phase[c] = "answered" /\ grant[c] =>
            \A r \in resp[c].rejected \cap Held(req[c].rows) :
                \E p \in Lineage[r] : graves[p] > 0

\* No round fails in the same way twice in a row, so the breaker (3) and the
\* foreign-key self-heal (2) stay idle: a failed round must find the next one
\* in a state that works.
NoRepeatFailure == \A c \in Client : streak[c][2] < 2

-------------------------------------------------------------------------------
(* Agreement.                                                               *)

Drained(c) == DirtyIn(c, Row) = {} /\ queue[c] = {}

\* A device with nothing to push whose cursor is the server's counter has
\* exactly the server's rows.
CaughtUpAgrees ==
    \A c \in Client :
        Drained(c) /\ cursor[c] = counter => Contents(local[c]) = Contents(canon)

\* Once users and faults stop, every device drains and agrees with the server.
EventualAgreement ==
    <>[](\A c \in Client : Drained(c) /\ Contents(local[c]) = Contents(canon))

\* Devices that never write and hold no flags.
Readers ==
    {c \in Client : c \notin Editors \cup Promotable /\ Boot[c] # "lapsed"}

\* What a reader has fetched: its copy as the answer in flight will make it.
InHand(c) ==
    IF phase[c] = "answered" /\ resp[c].kind = "ok"
    THEN Contents(Applied(local[c], req[c], resp[c], role[c])) ELSE Nil

Feed == INSTANCE ReplicaFeed WITH
    Reader <- Readers, Content <- [Row -> Opt(Version)], None <- Nil,
    store <- Contents(canon),
    fetched <- [c \in Readers |-> InHand(c)],
    view <- [c \in Readers |-> Contents(local[c])]

\* Incremental pulls implement whole-state installs: what a reader applies is
\* exactly the dictionary at the moment the endpoint answered.
ReadersInstallWholeStates == Feed!Spec

===============================================================================
