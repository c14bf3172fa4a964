-------------------------------- MODULE DictTabs --------------------------------
(***************************************************************************)
(* The tabs a person has open on one dictionary, and the one worker that   *)
(* owns its local database.                                                *)
(*                                                                         *)
(*   - leader election: every tab queues for one exclusive web lock; the   *)
(*     holder spawns the leader worker and climbs a boot ladder when the   *)
(*     worker fails (retry, resign and re-enter, give up);                 *)
(*   - transport: every tab posts its calls on a broadcast channel, buffers*)
(*     them until a leader is ready and posts them again to each new one.  *)
(*                                                                         *)
(* A tab's main thread and its worker are separate actors: the tab closes, *)
(* the worker dies, a probe or a timer is outstanding, and messages cross. *)
(***************************************************************************)
EXTENDS Naturals, Sequences, FiniteSets, SequencesExt

CONSTANTS
    Tab,               \* the tabs
    None,              \* no tab
    MaxBootRetries,    \* MAX_BOOT_RETRIES
    MaxReelections,    \* MAX_BOOT_REELECTIONS
    Flaky,             \* tabs whose worker may fail
    Callers,           \* tabs that make calls
    Leavers,           \* tabs that may be closed
    Resetters,         \* tabs whose local storage may be reset
    MaxCalls,          \* bound: calls issued
    MaxFailures,       \* bound: boots that fail
    MaxCrashes,        \* bound: serving workers that fail
    MaxLag,            \* bound: messages a tab has yet to read when a worker crashes
    MaxDepartures      \* bound: tabs closed

ASSUME TabsAssumption ==
    /\ None \notin Tab
    /\ Flaky \subseteq Tab /\ Callers \subseteq Tab /\ Leavers \subseteq Tab /\ Resetters \subseteq Tab
    /\ MaxBootRetries \in Nat /\ MaxReelections \in Nat
    /\ MaxCalls \in Nat /\ MaxFailures \in Nat /\ MaxCrashes \in Nat /\ MaxLag \in Nat /\ MaxDepartures \in Nat

VARIABLES
    tab,        \* [Tab -> "open", "destroyed" (storage reset, about to reload), "closed"]
    holder,     \* the tab the browser granted the lock to
    waiters,    \* lock requests in the order the browser will grant them
    worker,     \* [Tab -> the tab's live worker, or NoWorker]
    ladder,     \* [Tab -> where the tab stands in boot recovery; tries counts the boots
                \*         that failed since it last learned of a leader]
    client,     \* [Tab -> its end of the transport]
    call,       \* [Calls -> who issued it, the epochs it was posted under, how it ended]
    runs,       \* [Calls -> the epochs of the workers that ran it, one entry a run]
    spawned,    \* workers spawned so far: the epoch of the latest
    failures,   \* boots that failed so far
    crashes,    \* serving workers that failed so far
    departures  \* tabs closed or destroyed so far

electionVars == <<holder, waiters>>
callVars == <<call, runs>>
boundVars == <<failures, crashes, departures>>
vars == <<tab, electionVars, worker, ladder, client, callVars, spawned, boundVars>>

Calls == 1..MaxCalls

NoWorker == [epoch |-> 0, ready |-> FALSE, inbox |-> <<>>, running |-> {}]
NewWorker(e) == [NoWorker EXCEPT !.epoch = e]
NewLadder == [attempt |-> 0, reelect |-> 0, retryTimer |-> FALSE,
              reelectTimer |-> FALSE, probing |-> FALSE, gaveUp |-> FALSE, tries |-> 0]
\* leader_epoch 0: no leader seen yet, the client buffers and pings.
NewClient == [epoch |-> 0, pending |-> {}, inbox |-> <<>>]
NoCall == [by |-> None, under |-> {}, end |-> "none"]

Ready(e) == [kind |-> "ready", epoch |-> e, call |-> 0, ok |-> FALSE]
Response(i, ok) == [kind |-> "res", epoch |-> 0, call |-> i, ok |-> ok]

Alive(t) == worker[t].epoch # 0
Requesting(t) == t \in Range(waiters)

Init ==
    /\ tab = [t \in Tab |-> "closed"]
    /\ holder = None
    /\ waiters = <<>>
    /\ worker = [t \in Tab |-> NoWorker]
    /\ ladder = [t \in Tab |-> NewLadder]
    /\ client = [t \in Tab |-> NewClient]
    /\ call = [i \in Calls |-> NoCall]
    /\ runs = [i \in Calls |-> <<>>]
    /\ spawned = 0
    /\ failures = 0
    /\ crashes = 0
    /\ departures = 0

-------------------------------------------------------------------------------
(* The broadcast channel: one inbox per listener, in posting order.         *)

\* Every open tab hears a worker; a destroyed client closed its channel.
Heard(msg) ==
    [t \in Tab |-> IF tab[t] = "open" THEN [client[t] EXCEPT !.inbox = Append(@, msg)]
                   ELSE client[t]]

\* Tabs filter responses by client id: only the caller, if still there, takes one.
Told(i, ok) ==
    [client EXCEPT ![call[i].by].inbox =
        IF call[i].end = "abandoned" THEN @ ELSE Append(@, Response(i, ok))]

\* Every live worker hears a tab, ready or not.
Posted(calls) ==
    [t \in Tab |-> IF Alive(t) THEN [worker[t] EXCEPT !.inbox = @ \o calls] ELSE worker[t]]

\* The one order calls are posted again in: as they were made (the pending Map's).
InOrder(S) ==
    {q \in [1..Cardinality(S) -> S] : \A j, k \in DOMAIN q : j < k => q[j] < q[k]}

-------------------------------------------------------------------------------
(* The lock and the worker.                                                 *)

\* start_leader_election: a new tab queues at once.
Open(t) ==
    /\ tab[t] = "closed"
    /\ tab' = [tab EXCEPT ![t] = "open"]
    /\ waiters' = Append(waiters, t)
    /\ UNCHANGED <<holder, worker, ladder, client, callVars, spawned, boundVars>>

\* spawn_leader_worker: no second worker while one is referenced.
Spawn(t) ==
    IF Alive(t) THEN UNCHANGED <<worker, spawned>>
    ELSE /\ spawned' = spawned + 1
         /\ worker' = [worker EXCEPT ![t] = NewWorker(spawned + 1)]

\* The browser grants the lock to the first request; on_promote spawns.
Grant ==
    /\ holder = None /\ waiters # <<>>
    /\ holder' = Head(waiters)
    /\ waiters' = Tail(waiters)
    /\ Spawn(Head(waiters))
    /\ UNCHANGED <<tab, ladder, client, callVars, boundVars>>

\* resign: the lock if held.  A request still queued stays queued.
AfterResign(t) == IF holder = t THEN None ELSE holder

\* The worker opened the database (its file handle is exclusive in the origin)
\* and announces itself.
BootSucceeds(t) ==
    /\ Alive(t) /\ ~worker[t].ready
    /\ \A u \in Tab : ~worker[u].ready
    /\ worker' = [worker EXCEPT ![t].ready = TRUE]
    /\ client' = Heard(Ready(worker[t].epoch))
    /\ UNCHANGED <<tab, electionVars, ladder, callVars, spawned, boundVars>>

\* Mutant: the failed worker is not terminated.
HandleFailureUnterminated(t) ==
    /\ Alive(t) /\ t \in Flaky
    /\ ladder' = [ladder EXCEPT ![t].probing = TRUE, ![t].tries = @ + 1]
    /\ UNCHANGED <<tab, electionVars, worker, client, callVars, spawned, departures>>

\* handle_boot_failure up to its await: the worker is terminated, a probe begins.
HandleFailure(t) ==
    /\ Alive(t) /\ t \in Flaky
    /\ worker' = [worker EXCEPT ![t] = NoWorker]
    /\ ladder' = [ladder EXCEPT ![t].probing = TRUE, ![t].tries = @ + 1]
    /\ UNCHANGED <<tab, electionVars, client, callVars, spawned, departures>>

\* The boot threw, stalled, or the script did not load.
BootFails(t) ==
    /\ ~worker[t].ready
    /\ failures < MaxFailures
    /\ failures' = failures + 1
    /\ crashes' = crashes
    /\ HandleFailure(t)

\* An error nobody caught reaches onerror, which still watches a serving worker.
WorkerCrashes(t) ==
    /\ worker[t].ready
    /\ \A u \in Tab : Len(client[u].inbox) <= MaxLag
    /\ crashes < MaxCrashes
    /\ crashes' = crashes + 1
    /\ failures' = failures
    /\ HandleFailure(t)

\* Mutant: a deleted build keeps the lock.
ProbeTerminalHolding(t) ==
    /\ ladder[t].probing
    /\ ladder' = [ladder EXCEPT ![t].probing = FALSE, ![t].gaveUp = TRUE]
    /\ UNCHANGED <<tab, electionVars, worker, client, callVars, spawned, boundVars>>

\* The rest of handle_boot_failure.  The probe finds the build deleted ...
ProbeTerminal(t) ==
    /\ ladder[t].probing
    /\ ladder' = [ladder EXCEPT ![t].probing = FALSE, ![t].gaveUp = TRUE]
    /\ holder' = AfterResign(t)
    /\ UNCHANGED <<tab, waiters, worker, client, callVars, spawned, boundVars>>

\* Mutant: one retry too many.
ProbeRetriesOnceMore(t) ==
    /\ ladder[t].probing
    /\ ladder[t].attempt <= MaxBootRetries
    /\ ladder' = [ladder EXCEPT ![t].probing = FALSE, ![t].attempt = @ + 1,
                                ![t].retryTimer = TRUE]
    /\ UNCHANGED <<tab, electionVars, worker, client, callVars, spawned, boundVars>>

\* ... or not, and the ladder has a retry left in this tab, ...
ProbeRetries(t) ==
    /\ ladder[t].probing
    /\ ladder[t].attempt < MaxBootRetries
    /\ ladder' = [ladder EXCEPT ![t].probing = FALSE, ![t].attempt = @ + 1,
                                ![t].retryTimer = TRUE]
    /\ UNCHANGED <<tab, electionVars, worker, client, callVars, spawned, boundVars>>

\* Mutant: re-elections are not counted.
ProbeReelectsUncounted(t) ==
    /\ ladder[t].probing
    /\ ladder[t].attempt >= MaxBootRetries
    /\ ladder[t].reelect < MaxReelections
    /\ ladder' = [ladder EXCEPT ![t].probing = FALSE, ![t].attempt = 0, ![t].reelectTimer = TRUE]
    /\ holder' = AfterResign(t)
    /\ UNCHANGED <<tab, waiters, worker, client, callVars, spawned, boundVars>>

\* ... a re-election, after a resignation, ...
ProbeReelects(t) ==
    /\ ladder[t].probing
    /\ ladder[t].attempt >= MaxBootRetries
    /\ ladder[t].reelect < MaxReelections
    /\ ladder' = [ladder EXCEPT ![t].probing = FALSE, ![t].attempt = 0,
                                ![t].reelect = @ + 1, ![t].reelectTimer = TRUE]
    /\ holder' = AfterResign(t)
    /\ UNCHANGED <<tab, waiters, worker, client, callVars, spawned, boundVars>>

\* ... or nothing: it resigns and shows the failure panel.
ProbeGivesUp(t) ==
    /\ ladder[t].probing
    /\ ladder[t].attempt >= MaxBootRetries
    /\ ladder[t].reelect >= MaxReelections
    /\ ladder' = [ladder EXCEPT ![t].probing = FALSE, ![t].attempt = 0, ![t].gaveUp = TRUE]
    /\ holder' = AfterResign(t)
    /\ UNCHANGED <<tab, waiters, worker, client, callVars, spawned, boundVars>>

Probe(t) == ProbeTerminal(t) \/ ProbeRetries(t) \/ ProbeReelects(t) \/ ProbeGivesUp(t)

RetryTimer(t) ==
    /\ ladder[t].retryTimer
    /\ ladder' = [ladder EXCEPT ![t].retryTimer = FALSE]
    /\ Spawn(t)
    /\ UNCHANGED <<tab, electionVars, client, callVars, boundVars>>

\* Mutant: the tab does not re-enter while another one leads.
ReelectTimerYielding(t) ==
    /\ ladder[t].reelectTimer
    /\ ladder' = [ladder EXCEPT ![t].reelectTimer = FALSE]
    /\ waiters' = IF holder # None \/ Requesting(t) THEN waiters ELSE Append(waiters, t)
    /\ UNCHANGED <<tab, holder, worker, client, callVars, spawned, boundVars>>

\* reacquire: a no-op while leading or queued.
ReelectTimer(t) ==
    /\ ladder[t].reelectTimer
    /\ ladder' = [ladder EXCEPT ![t].reelectTimer = FALSE]
    /\ waiters' = IF holder = t \/ Requesting(t) THEN waiters ELSE Append(waiters, t)
    /\ UNCHANGED <<tab, holder, worker, client, callVars, spawned, boundVars>>

-------------------------------------------------------------------------------
(* Calls.                                                                   *)

\* request: posted at once under a known epoch, buffered otherwise.
Request(t) ==
    \E i \in Calls :
        /\ tab[t] = "open" /\ t \in Callers
        /\ call[i] = NoCall /\ \A j \in 1..(i - 1) : call[j] # NoCall
        /\ call' = [call EXCEPT ![i] = [by |-> t, under |-> {client[t].epoch} \ {0},
                                       end |-> "pending"]]
        /\ client' = [client EXCEPT ![t].pending = @ \cup {i}]
        /\ worker' = IF client[t].epoch # 0 THEN Posted(<<i>>) ELSE worker
        /\ UNCHANGED <<tab, electionVars, ladder, runs, spawned, boundVars>>

\* A ping of a client that has seen no leader, answered by a ready worker.
Ping(t) ==
    /\ tab[t] = "open" /\ client[t].epoch = 0
    /\ \E u \in Tab :
        /\ worker[u].ready
        /\ Ready(worker[u].epoch) \notin Range(client[t].inbox)
        /\ client' = Heard(Ready(worker[u].epoch))
    /\ UNCHANGED <<tab, electionVars, worker, ladder, callVars, spawned, boundVars>>

\* on_request: a worker whose database is not open refuses the call ...
Refuse(t) ==
    /\ Alive(t) /\ ~worker[t].ready /\ worker[t].inbox # <<>>
    /\ worker' = [worker EXCEPT ![t].inbox = Tail(@)]
    /\ client' = Told(Head(worker[t].inbox), FALSE)
    /\ UNCHANGED <<tab, electionVars, ladder, callVars, spawned, boundVars>>

\* ... and an open one runs it; the answer is posted when it is done.
Run(t) ==
    /\ worker[t].ready /\ worker[t].inbox # <<>>
    /\ LET i == Head(worker[t].inbox) IN
        /\ worker' = [worker EXCEPT ![t].inbox = Tail(@), ![t].running = @ \cup {i}]
        /\ runs' = [runs EXCEPT ![i] = Append(@, worker[t].epoch)]
    /\ UNCHANGED <<tab, electionVars, ladder, client, call, spawned, boundVars>>

Answer(t) ==
    \E i \in worker[t].running :
        /\ worker' = [worker EXCEPT ![t].running = @ \ {i}]
        /\ client' = Told(i, TRUE)
        /\ UNCHANGED <<tab, electionVars, ladder, callVars, spawned, boundVars>>

\* onmessage, a response: ignored unless the call is this client's and outstanding.
ReceiveResponse(t) ==
    /\ client[t].inbox # <<>>
    /\ LET msg == Head(client[t].inbox) IN
        /\ msg.kind = "res"
        /\ client' = [client EXCEPT ![t].inbox = Tail(@), ![t].pending = @ \ {msg.call}]
        /\ call' = IF msg.call \in client[t].pending
                   THEN [call EXCEPT ![msg.call].end = IF msg.ok THEN "ok" ELSE "refused"]
                   ELSE call
    /\ UNCHANGED <<tab, electionVars, worker, ladder, runs, spawned, boundVars>>

\* Mutant: every ready has the outstanding calls posted again.
ResentAlways(t, e) == client[t].pending

\* Mutant: only calls made before any leader was known are posted to a new one.
ResentBuffered(t, e) == IF client[t].epoch = 0 THEN client[t].pending ELSE {}

\* Only a new epoch has the outstanding calls posted again, in order.
Resent(t, e) == IF e # client[t].epoch THEN client[t].pending ELSE {}

\* onmessage, a ready, and db-client's on_ready handler.
ReceiveReady(t) ==
    /\ client[t].inbox # <<>>
    /\ LET msg == Head(client[t].inbox) IN
        /\ msg.kind = "ready"
        /\ client' = [client EXCEPT ![t].inbox = Tail(@), ![t].epoch = msg.epoch]
        /\ \E calls \in InOrder(Resent(t, msg.epoch)) : worker' = Posted(calls)
        /\ call' = [i \in Calls |-> IF i \in Resent(t, msg.epoch)
                                   THEN [call[i] EXCEPT !.under = @ \cup {msg.epoch}]
                                   ELSE call[i]]
        /\ ladder' = IF msg.epoch # client[t].epoch
                     THEN [ladder EXCEPT ![t].attempt = 0, ![t].reelect = 0,
                                         ![t].reelectTimer = FALSE, ![t].tries = 0]
                     ELSE ladder
    /\ UNCHANGED <<tab, electionVars, runs, spawned, boundVars>>

\* The call's timer rejects it; the leader may still run it.
Timeout(t) ==
    \E i \in client[t].pending :
        /\ client' = [client EXCEPT ![t].pending = @ \ {i}]
        /\ call' = [call EXCEPT ![i].end = "timeout"]
        /\ UNCHANGED <<tab, electionVars, worker, ladder, runs, spawned, boundVars>>

-------------------------------------------------------------------------------
(* Tabs leave.                                                              *)

Abandoned(t) ==
    [i \in Calls |-> IF i \in client[t].pending THEN [call[i] EXCEPT !.end = "abandoned"]
                     ELSE call[i]]

\* destroy: resign, close the channel, terminate the worker.  A probe under way
\* goes on, and so does a queued lock request.
Destroy(t) ==
    /\ tab[t] = "open"
    /\ t \in Resetters /\ departures < MaxDepartures
    /\ departures' = departures + 1
    /\ tab' = [tab EXCEPT ![t] = "destroyed"]
    /\ holder' = AfterResign(t)
    /\ worker' = [worker EXCEPT ![t] = NoWorker]
    /\ ladder' = [ladder EXCEPT ![t].retryTimer = FALSE, ![t].reelectTimer = FALSE]
    /\ client' = [client EXCEPT ![t] = NewClient]
    /\ call' = Abandoned(t)
    /\ UNCHANGED <<waiters, runs, spawned, failures, crashes>>

\* The queue without a tab that is gone; nobody is in it twice.
Withdrawn(t) ==
    IF Requesting(t) THEN RemoveAt(waiters, CHOOSE k \in DOMAIN waiters : waiters[k] = t)
    ELSE waiters

\* A closed or reloaded tab takes its worker, timers and lock request with it.
Leave(t) ==
    /\ tab' = [tab EXCEPT ![t] = "closed"]
    /\ holder' = AfterResign(t)
    /\ waiters' = Withdrawn(t)
    /\ worker' = [worker EXCEPT ![t] = NoWorker]
    /\ ladder' = [ladder EXCEPT ![t] = NewLadder]
    /\ client' = [client EXCEPT ![t] = NewClient]
    /\ call' = Abandoned(t)
    /\ UNCHANGED <<runs, spawned, failures, crashes>>

Close(t) ==
    /\ tab[t] = "open"
    /\ t \in Leavers /\ departures < MaxDepartures
    /\ departures' = departures + 1
    /\ Leave(t)

Reload(t) ==
    /\ tab[t] = "destroyed"
    /\ departures' = departures
    /\ Leave(t)

-------------------------------------------------------------------------------
(* Specification.                                                           *)

Next ==
    \/ Grant
    \/ \E t \in Tab :
        \/ Open(t) \/ Close(t) \/ Destroy(t) \/ Reload(t)
        \/ BootSucceeds(t) \/ BootFails(t) \/ WorkerCrashes(t)
        \/ Probe(t) \/ RetryTimer(t) \/ ReelectTimer(t)
        \/ Request(t) \/ Ping(t) \/ Refuse(t) \/ Run(t) \/ Answer(t)
        \/ ReceiveResponse(t) \/ ReceiveReady(t) \/ Timeout(t)

\* The browser grants a free lock, timers fire, probes are bounded by a timeout, a
\* worker boots or its watchdog fails it, messages are delivered, and a destroyed
\* tab reloads.  Nobody has to open, close or call; a worker need not fail, and a call
\* need not time out.
Fairness ==
    /\ WF_vars(Grant)
    /\ \A t \in Tab :
        /\ WF_vars(Probe(t)) /\ WF_vars(RetryTimer(t)) /\ WF_vars(ReelectTimer(t))
        /\ WF_vars(BootSucceeds(t))
        /\ WF_vars(Refuse(t) \/ Run(t)) /\ WF_vars(Answer(t)) /\ WF_vars(Ping(t))
        /\ WF_vars(ReceiveResponse(t) \/ ReceiveReady(t))
        /\ WF_vars(Reload(t))

Spec == Init /\ [][Next]_vars /\ Fairness

===============================================================================
