-------------------------------- MODULE DictSync --------------------------------
(***************************************************************************)
(* Local-first sync of one dictionary: browsers write to a local database  *)
(* and exchange changes with the server in round trips.                    *)
(*                                                                         *)
(*   - server: the dictionary database behind /changes (canon, graves,     *)
(*     counter, pruned) and the editing roles it grants (grant);           *)
(*   - client: a local database (local, queue, cursor, shelf) written by   *)
(*     the user at any time, and a DictSyncEngine that runs one round trip *)
(*     at a time (phase, page, req, resp, probe, streak, role).            *)
(*                                                                         *)
(* A round trip is not atomic: the engine reads its dirty rows one table   *)
(* after the other without holding the operation lock, awaits the answer,  *)
(* and applies it in one local transaction.  Local writes fall in between. *)
(***************************************************************************)
EXTENDS ChangesEndpoint

CONSTANTS
    Boot,       \* [Client -> how its local file came about]: "snapshot", "legacy", "lapsed"
    Seed,       \* rows the dictionary holds at the start
    Ghost,      \* rows deleted long ago that a legacy file may still hold
    Editors,    \* clients that boot with an editing role
    Mints,      \* [Client -> rows it may create]
    Edits,      \* [Client -> rows it may edit]
    Drops,      \* [Client -> rows it may delete]
    Racing,     \* <<phase, kind>>: the writes that may land during a round trip
    Revocable,  \* clients whose grant the server may withdraw
    Promotable, \* clients granted an editing role that boot as viewers
    MaxStamp,   \* bound: writes per client
    MaxFaults,  \* bound: lost messages and reloads
    MaxPrunes   \* bound: tombstone prunings

Phases == {"idle", "reading", "sent", "answered", "resetting"}

ASSUME EnvironmentAssumption ==
    /\ Boot \in [Client -> {"snapshot", "legacy", "lapsed"}]
    /\ Seed \subseteq Row /\ Ghost \subseteq Row
    /\ \A r \in Seed : Parents[r] \subseteq Seed
    /\ \A r, o \in Seed : KeyOf[r] = KeyOf[o] /\ KeyOf[r] # Nil => r = o
    /\ Editors \subseteq Client /\ Revocable \subseteq Client
    /\ Promotable \subseteq Client
    /\ Mints \in [Client -> SUBSET Row]
    /\ Edits \in [Client -> SUBSET Row]
    /\ Drops \in [Client -> SUBSET Row]
    /\ Racing \subseteq Phases \X {"insert", "edit", "delete"}
    /\ MaxStamp \in Nat /\ MaxFaults \in Nat /\ MaxPrunes \in Nat

VARIABLES
    canon,    \* canonical rows: [Row -> CanonRow or Nil]
    graves,   \* server_seq of each row's tombstone, 0 if there is none
    counter,  \* server_seq_counter
    pruned,   \* pruned_up_to_seq, 0 before the first pruning
    grant,    \* the editing roles the server recognises
    minted,   \* row ids in use anywhere (uuids are never drawn twice)
    clock,    \* each device's clock: the stamp of its latest write
    local,    \* local rows: [Row -> [v, dirty] or Nil]
    queue,    \* the local deletes table: tombstones to push
    cursor,   \* db_metadata.synced_seq, Nil if the file has none
    shelf,    \* rejected_pushes: what the server refused, kept on the device
    role,     \* has_editor_role of the engine
    probe,    \* #probe_dirty: a viewer shall ask about its dirty flags
    streak,   \* RepeatFailureTracker: kind and length of the failure streak
    phase,    \* where the engine's round trip stands
    page,     \* the next table #build_request reads
    req,      \* the request being built or in flight
    resp,     \* the answer in flight
    faults,   \* lost messages and reloads so far
    prunes    \* prunings so far

serverVars == <<canon, graves, counter, pruned>>
fileVars == <<local, queue, cursor, shelf>>
engineVars == <<role, probe, streak>>
roundVars == <<phase, page, req, resp>>
worldVars == <<grant, minted, clock, faults, prunes>>
vars == <<serverVars, fileVars, engineVars, roundVars, worldVars>>

-------------------------------------------------------------------------------
(* Initial state: a seeded dictionary and the files browsers may hold.      *)

SeedVersion == [at |-> 0, by |-> Nil]

NoRequest == [cursor |-> Nil, rows |-> NoRows, tombs |-> {}, probes |-> NoRows]

Closed(S) == \A r \in S : Parents[r] \subseteq S

\* A snapshot holds the seed.  A file from before server_seq holds whatever it
\* held when it last synced.  A lapsed file belongs to someone who lost the role:
\* its flags are inherited from a server row or mark work that was never pushed.
InitialFiles(c) ==
    CASE Boot[c] = "snapshot" ->
           {[r \in Row |-> IF r \in Seed THEN [v |-> SeedVersion, dirty |-> FALSE] ELSE Nil]}
      [] Boot[c] = "legacy" ->
           {[r \in Row |-> IF r \in S THEN [v |-> SeedVersion, dirty |-> FALSE] ELSE Nil] :
               S \in {T \in SUBSET (Seed \cup Ghost) : Closed(T)}}
      [] Boot[c] = "lapsed" ->
           {[r \in Row |->
               IF r \notin Seed THEN Nil
               ELSE [v |-> IF r \in F \cap W THEN [at |-> 1, by |-> c] ELSE SeedVersion,
                     dirty |-> r \in F]] : F \in SUBSET Seed, W \in SUBSET Seed}

Init ==
    /\ canon = [r \in Row |-> IF r \in Seed THEN [v |-> SeedVersion, seq |-> 1] ELSE Nil]
    /\ graves = [r \in Row |-> 0]
    /\ counter = 1
    /\ pruned = 0
    /\ grant = [c \in Client |-> c \in Editors \cup Promotable]
    /\ minted = Seed \cup Ghost
    /\ clock = [c \in Client |-> IF Boot[c] = "lapsed" THEN 1 ELSE 0]
    /\ local \in [Client -> UNION {InitialFiles(c) : c \in Client}]
    /\ \A c \in Client : local[c] \in InitialFiles(c)
    /\ queue = [c \in Client |-> {}]
    /\ cursor = [c \in Client |-> IF Boot[c] = "legacy" THEN Nil ELSE 1]
    /\ shelf = [c \in Client |-> {}]
    /\ role = [c \in Client |-> c \in Editors]
    /\ probe = [c \in Client |-> TRUE]
    /\ streak = [c \in Client |-> <<"none", 0>>]
    /\ phase = [c \in Client |-> "idle"]
    /\ page = [c \in Client |-> 1]
    /\ req = [c \in Client |-> NoRequest]
    /\ resp = [c \in Client |-> NoAnswer]
    /\ faults = 0
    /\ prunes = 0

-------------------------------------------------------------------------------
(* The user's writes: one atomic operation each, under the operation lock.  *)

MayWrite(c, kind) ==
    /\ role[c]
    /\ phase[c] = "idle" \/ <<phase[c], kind>> \in Racing

\* The row is stamped by the device's clock and flagged for the next push.
Stamp(c, r) ==
    /\ clock[c] < MaxStamp
    /\ clock' = [clock EXCEPT ![c] = @ + 1]
    /\ local' = [local EXCEPT ![c][r] =
                    [v |-> [at |-> clock[c] + 1, by |-> c], dirty |-> TRUE]]

\* insert_row; a junction whose natural key is already linked is left alone.
Insert(c, r) ==
    /\ MayWrite(c, "insert")
    /\ r \in Mints[c] \ minted
    /\ Parents[r] \subseteq Held(local[c])
    /\ KeyOwners(local[c], r) = {}
    /\ Stamp(c, r)
    /\ minted' = minted \cup {r}
    /\ UNCHANGED <<serverVars, queue, cursor, shelf, engineVars, roundVars,
                   grant, faults, prunes>>

Edit(c, r) ==
    /\ MayWrite(c, "edit")
    /\ r \in Edits[c] \cap Held(local[c])
    /\ Stamp(c, r)
    /\ UNCHANGED <<serverVars, queue, cursor, shelf, engineVars, roundVars,
                   grant, minted, faults, prunes>>

\* INSERT OR IGNORE INTO deletes: the trigger deletes the row and what hangs
\* from it, unless the tombstone was queued already.
Drop(c, r) ==
    /\ MayWrite(c, "delete")
    /\ r \in (Drops[c] \cap Held(local[c])) \ queue[c]
    /\ local' = [local EXCEPT ![c] = Cull(@, {r})]
    /\ queue' = [queue EXCEPT ![c] = @ \cup {r}]
    /\ UNCHANGED <<serverVars, cursor, shelf, engineVars, roundVars, worldVars>>

-------------------------------------------------------------------------------
(* The engine's round trip.                                                 *)

HaltThreshold == 3

Blocked(c) == streak[c][2] >= HaltThreshold

DirtyIn(c, S) == {r \in Held(local[c]) : local[c][r].dirty /\ r \in S}

\* A request's rows with those of S that are dirty now.
Read(c, rows, S) ==
    [r \in Row |-> IF r \in DirtyIn(c, S) THEN local[c][r].v ELSE rows[r]]

OnPage(n) == {r \in Row : Table[r] = n}

LastPage == CHOOSE n \in {Table[r] : r \in Row} : \A r \in Row : Table[r] <= n

\* An editor's engine reads the cursor and its first table.
BeginPush(c) ==
    /\ phase[c] = "idle" /\ ~Blocked(c) /\ role[c]
    /\ phase' = [phase EXCEPT ![c] = "reading"]
    /\ page' = [page EXCEPT ![c] = 2]
    /\ req' = [req EXCEPT ![c] = [NoRequest EXCEPT
                    !.cursor = cursor[c], !.rows = Read(c, NoRows, OnPage(1))]]
    /\ UNCHANGED <<serverVars, fileVars, engineVars, resp, worldVars>>

ReadPage(c) ==
    /\ phase[c] = "reading" /\ page[c] <= LastPage
    /\ page' = [page EXCEPT ![c] = @ + 1]
    /\ req' = [req EXCEPT ![c].rows = Read(c, @, OnPage(page[c]))]
    /\ UNCHANGED <<serverVars, fileVars, engineVars, phase, resp, worldVars>>

\* The tombstones are read last; then the request leaves.
SendPush(c) ==
    /\ phase[c] = "reading" /\ page[c] > LastPage
    /\ phase' = [phase EXCEPT ![c] = "sent"]
    /\ page' = [page EXCEPT ![c] = 1]
    /\ req' = [req EXCEPT ![c].tombs = queue[c]]
    /\ UNCHANGED <<serverVars, fileVars, engineVars, resp, worldVars>>

\* A viewer only pulls, and asks about its dirty flags while the probe is armed.
SendPull(c) ==
    /\ phase[c] = "idle" /\ ~Blocked(c) /\ ~role[c]
    /\ phase' = [phase EXCEPT ![c] = "sent"]
    /\ req' = [req EXCEPT ![c] = [NoRequest EXCEPT
                    !.cursor = cursor[c],
                    !.probes = IF probe[c] THEN Read(c, NoRows, Row) ELSE NoRows]]
    /\ probe' = [probe EXCEPT ![c] = FALSE]
    /\ UNCHANGED <<serverVars, fileVars, role, streak, page, resp, worldVars>>

\* The endpoint handles the request.
Reply(c, a) ==
    /\ phase' = [phase EXCEPT ![c] = "answered"]
    /\ resp' = [resp EXCEPT ![c] = a]
    /\ UNCHANGED <<pruned, fileVars, engineVars, page, req, worldVars>>

ServeBail(c) ==
    /\ phase[c] = "sent" /\ FastBail(req[c], grant[c], counter)
    /\ Reply(c, BailAnswer(req[c], grant[c]))
    /\ UNCHANGED <<canon, graves, counter>>

ServeExpired(c) ==
    /\ phase[c] = "sent" /\ ~FastBail(req[c], grant[c], counter)
    /\ Expired(req[c], pruned)
    /\ Reply(c, [NoAnswer EXCEPT !.kind = "expired"])
    /\ UNCHANGED <<canon, graves, counter>>

Serve(c) ==
    LET q == Granted(req[c], grant[c])
        seq == counter + 1
    IN  /\ phase[c] = "sent" /\ ~FastBail(req[c], grant[c], counter)
        /\ ~Expired(req[c], pruned)
        /\ ~PushFails(canon, q, seq)
        /\ canon' = Pushed(canon, q, seq)
        /\ graves' = Graves(graves, canon, q, seq)
        /\ counter' = IF Writes(canon, q, seq) THEN seq ELSE counter
        /\ Reply(c, FullAnswer(canon, canon', graves', req[c], grant[c], seq, counter'))

ServeFails(c) ==
    /\ phase[c] = "sent" /\ ~FastBail(req[c], grant[c], counter)
    /\ ~Expired(req[c], pruned)
    /\ PushFails(canon, Granted(req[c], grant[c]), counter + 1)
    /\ Reply(c, NoAnswer)
    /\ UNCHANGED <<canon, graves, counter>>

\* The fetch fails: the request never arrived, or its answer is lost.
Lose(c) ==
    /\ phase[c] \in {"sent", "answered"} /\ faults < MaxFaults
    /\ faults' = faults + 1
    /\ phase' = [phase EXCEPT ![c] = "idle"]
    /\ req' = [req EXCEPT ![c] = NoRequest]
    /\ resp' = [resp EXCEPT ![c] = NoAnswer]
    /\ streak' = [streak EXCEPT ![c] = <<"none", 0>>]
    /\ UNCHANGED <<serverVars, fileVars, role, probe, page, grant, minted, clock, prunes>>

-------------------------------------------------------------------------------
(* The local transaction that applies an answer a to the request q.         *)

\* Mutant: a pushed row is spared although the server has superseded it.
AfterDeletesSparingPushed(rows, q, a) ==
    Cull(rows, {r \in a.dels : rows[r] = Nil \/ ~rows[r].dirty})

\* Deletes, sparing a row with unpushed work.
AfterDeletes(rows, q, a) ==
    Cull(rows, {r \in a.dels : rows[r] = Nil \/ ~rows[r].dirty \/ q.rows[r] # Nil})

\* Upserts replace the content and keep the local dirty flag.
AfterUpserts(rows, q, a) ==
    LET kept == AfterDeletes(rows, q, a)
    IN  [r \in Row |->
            IF a.rows[r] = Nil THEN kept[r]
            ELSE [v |-> a.rows[r], dirty |-> kept[r] # Nil /\ kept[r].dirty]]

\* A pull without a cursor is a full pull: prune what the server does not hold.
AfterPrune(rows, q, a) ==
    LET kept == AfterUpserts(rows, q, a)
    IN  IF q.cursor # Nil THEN kept
        ELSE Cull(kept, {r \in Held(kept) :
                 ~kept[r].dirty /\ a.rows[r] = Nil /\ q.rows[r] = Nil})

\* Mutant: UPDATE ... WHERE dirty = 1, whatever was pushed.
ClearedBlanket(q, a, editor) ==
    (IF editor THEN Row ELSE {}) \cup (a.redundant \cap Held(q.probes))

\* Flags drop on the rows an editor pushed and on the probed rows vouched for.
Cleared(q, a, editor) ==
    (IF editor THEN Held(q.rows) ELSE {}) \cup (a.redundant \cap Held(q.probes))

Applied(rows, q, a, editor) ==
    LET kept == AfterPrune(rows, q, a)
    IN  [r \in Row |->
            IF kept[r] # Nil /\ r \in Cleared(q, a, editor)
            THEN [v |-> kept[r].v, dirty |-> FALSE] ELSE kept[r]]

\* The upsert of a row whose natural key another local row holds, or a foreign
\* key left dangling at COMMIT, rolls the transaction back.
UniqueClash(rows, q, a) ==
    \E r \in Held(a.rows) : KeyOwners(AfterUpserts(rows, q, a), r) # {}

FkClash(rows, q, a, editor) ==
    /\ ~UniqueClash(rows, q, a)
    /\ Dangling(Applied(rows, q, a, editor)) # {}

Refused(q, a) == {[row |-> r, v |-> q.rows[r]] : r \in a.rejected \cap Held(q.rows)}

EndRound(c) ==
    /\ phase' = [phase EXCEPT ![c] = "idle"]
    /\ req' = [req EXCEPT ![c] = NoRequest]
    /\ resp' = [resp EXCEPT ![c] = NoAnswer]

Apply(c) ==
    LET q == req[c]
        a == resp[c]
    IN  /\ phase[c] = "answered" /\ a.kind = "ok"
        /\ ~UniqueClash(local[c], q, a)
        /\ ~FkClash(local[c], q, a, role[c])
        /\ local' = [local EXCEPT ![c] = Applied(@, q, a, role[c])]
        /\ queue' = [queue EXCEPT ![c] = IF role[c] THEN @ \ q.tombs ELSE @]
        /\ cursor' = [cursor EXCEPT ![c] = a.cursor]
        /\ shelf' = [shelf EXCEPT ![c] = @ \cup Refused(q, a)]
        /\ probe' = [probe EXCEPT ![c] = @ \/ a.redundant \cap Held(q.probes) # {}]
        /\ streak' = [streak EXCEPT ![c] = <<"none", 0>>]
        /\ EndRound(c)
        /\ UNCHANGED <<serverVars, role, page, worldVars>>

\* A failure that will recur counts towards the breaker.
Record(c, kind) ==
    streak' = [streak EXCEPT ![c] = <<kind, IF @[1] = kind THEN @[2] + 1 ELSE 1>>]

Fail(c, kind) ==
    /\ phase[c] = "answered"
    /\ Record(c, kind)
    /\ EndRound(c)
    /\ UNCHANGED <<serverVars, fileVars, role, probe, page, worldVars>>

ServerFault(c) == resp[c].kind = "error" /\ Fail(c, "other")

ApplyClashes(c) ==
    resp[c].kind = "ok" /\ UniqueClash(local[c], req[c], resp[c]) /\ Fail(c, "unique")

\* A second failure of this kind in a row starts the rebuild of dict-instance,
\* which is not modelled: NoRepeatFailure says where it is never due.
ApplyDangles(c) ==
    resp[c].kind = "ok" /\ FkClash(local[c], req[c], resp[c], role[c]) /\ Fail(c, "fk")

-------------------------------------------------------------------------------
(* Expiry, reset, reload, roles and pruning.                                *)

HasPending(c) == role[c] /\ (DirtyIn(c, Row) # {} \/ queue[c] # {})

\* 410: the timer's rounds only log it; a round asked for by a tab leads to
\* maybe_auto_reset, which resets unless it finds unpushed work.  (It runs once
\* per page load; with one pruning no file expires twice.)
LearnExpired(c) ==
    /\ phase[c] = "answered" /\ resp[c].kind = "expired"
    /\ \E next \in {"idle"} \cup (IF HasPending(c) THEN {} ELSE {"resetting"}) :
          phase' = [phase EXCEPT ![c] = next]
    /\ req' = [req EXCEPT ![c] = NoRequest]
    /\ resp' = [resp EXCEPT ![c] = NoAnswer]
    /\ streak' = [streak EXCEPT ![c] = <<"none", 0>>]
    /\ UNCHANGED <<serverVars, fileVars, role, probe, page, worldVars>>

\* reset: the file is deleted and a fresh snapshot opened by a fresh engine.
Reset(c) ==
    /\ phase[c] = "resetting"
    /\ phase' = [phase EXCEPT ![c] = "idle"]
    /\ local' = [local EXCEPT ![c] =
                    [r \in Row |-> IF canon[r] = Nil THEN Nil
                                   ELSE [v |-> canon[r].v, dirty |-> FALSE]]]
    /\ queue' = [queue EXCEPT ![c] = {}]
    /\ cursor' = [cursor EXCEPT ![c] = counter]
    /\ shelf' = [shelf EXCEPT ![c] = {}]
    /\ probe' = [probe EXCEPT ![c] = TRUE]
    /\ streak' = [streak EXCEPT ![c] = <<"none", 0>>]
    /\ UNCHANGED <<serverVars, role, page, req, resp, worldVars>>

\* The tab goes away and comes back: the file stays, the round trip does not.
Reload(c) ==
    /\ faults < MaxFaults
    /\ faults' = faults + 1
    /\ EndRound(c)
    /\ page' = [page EXCEPT ![c] = 1]
    /\ role' = [role EXCEPT ![c] = grant[c]]
    /\ probe' = [probe EXCEPT ![c] = TRUE]
    /\ streak' = [streak EXCEPT ![c] = <<"none", 0>>]
    /\ UNCHANGED <<serverVars, fileVars, grant, minted, clock, prunes>>

\* set_role promotes a viewer in place and never demotes.
SetRole(c) ==
    /\ grant[c] /\ ~role[c]
    /\ role' = [role EXCEPT ![c] = TRUE]
    /\ UNCHANGED <<serverVars, fileVars, probe, streak, roundVars, worldVars>>

Revoke(c) ==
    /\ c \in Revocable /\ grant[c]
    /\ grant' = [grant EXCEPT ![c] = FALSE]
    /\ UNCHANGED <<serverVars, fileVars, engineVars, roundVars,
                   minted, clock, faults, prunes>>

\* The snapshot builder drops the tombstones up to one of them and notes how far.
Prune ==
    /\ prunes < MaxPrunes
    /\ prunes' = prunes + 1
    /\ \E r \in Row :
          /\ graves[r] > 0
          /\ graves' = [x \in Row |-> IF graves[x] <= graves[r] THEN 0 ELSE graves[x]]
          /\ pruned' = IF graves[r] > pruned THEN graves[r] ELSE pruned
    /\ UNCHANGED <<canon, counter, fileVars, engineVars, roundVars,
                   grant, minted, clock, faults>>

-------------------------------------------------------------------------------

UserStep(c) == \E r \in Row : Insert(c, r) \/ Edit(c, r) \/ Drop(c, r)

ServerStep(c) == ServeBail(c) \/ ServeExpired(c) \/ Serve(c) \/ ServeFails(c)

AnswerStep(c) ==
    \/ Apply(c) \/ ServerFault(c) \/ ApplyClashes(c) \/ ApplyDangles(c)
    \/ LearnExpired(c) \/ Reset(c)

EngineStep(c) ==
    BeginPush(c) \/ ReadPage(c) \/ SendPush(c) \/ SendPull(c) \/ AnswerStep(c)

Next ==
    \/ \E c \in Client :
          \/ UserStep(c) \/ EngineStep(c) \/ ServerStep(c)
          \/ Lose(c) \/ Reload(c) \/ SetRole(c) \/ Revoke(c)
    \/ Prune

Spec == Init /\ [][Next]_vars

\* The engine's 30 s timer keeps starting rounds and a request that is not lost
\* is answered; users, faults, reloads and pruning owe nothing.
Fairness == \A c \in Client : WF_vars(EngineStep(c)) /\ WF_vars(ServerStep(c))

FairSpec == Spec /\ Fairness

===============================================================================
