------------------------------ MODULE DictTabsProps ------------------------------
(***************************************************************************)
(* What the tabs of one dictionary promise each other.                     *)
(***************************************************************************)
EXTENDS DictTabs

Endings == {"none", "pending", "ok", "refused", "timeout", "abandoned"}

WorkerSet == [epoch : Nat, ready : BOOLEAN, inbox : Seq(Calls), running : SUBSET Calls]
LadderSet == [attempt : 0..MaxBootRetries, reelect : 0..MaxReelections,
              retryTimer : BOOLEAN, reelectTimer : BOOLEAN,
              probing : BOOLEAN, gaveUp : BOOLEAN, tries : Nat]
Message == [kind : {"ready", "res"}, epoch : Nat, call : Calls \cup {0}, ok : BOOLEAN]
ClientSet == [epoch : Nat, pending : SUBSET Calls, inbox : Seq(Message)]
CallSet == [by : Tab \cup {None}, under : SUBSET Nat, end : Endings]

\* The type invariant.
TypeOK ==
    /\ tab \in [Tab -> {"open", "destroyed", "closed"}]
    /\ holder \in Tab \cup {None}
    /\ waiters \in Seq(Tab)
    /\ worker \in [Tab -> WorkerSet]
    /\ ladder \in [Tab -> LadderSet]
    /\ client \in [Tab -> ClientSet]
    /\ call \in [Calls -> CallSet]
    /\ runs \in [Calls -> Seq(Nat)]
    /\ spawned \in Nat /\ failures \in Nat /\ crashes \in Nat /\ departures \in Nat

Serving == \E t \in Tab : worker[t].ready

\* A tab that holds the lock, waits for it, or has a timer that leads back to it.
Standing(t) ==
    \/ holder = t \/ Requesting(t)
    \/ ladder[t].retryTimer \/ ladder[t].reelectTimer \/ ladder[t].probing

\* A worker lives only in the tab that holds the lock, so one worker owns the
\* database however tabs close, workers die, probes answer late and timers fire.
\* A destroyed tab is the exception until it reloads: its probe goes on and spawns a
\* worker without the lock.
OwnerHoldsLock ==
    \A t \in Tab : Alive(t) /\ tab[t] = "open" => holder = t

\* The held lock is never dead weight: its tab has a worker, a probe or a retry
\* under way, so nobody waits behind a tab that will do nothing more.
HolderIsBusy ==
    holder # None =>
        Alive(holder) \/ ladder[holder].probing \/ ladder[holder].retryTimer

\* How often worker e ran call i.
TimesRun(i, e) == Cardinality({k \in DOMAIN runs[i] : runs[i][k] = e})

\* A leader runs a call at most once for each epoch its tab posted it under: once,
\* unless the call was posted under another leader's epoch and crossed this
\* leader's ready.  Readies answering other tabs' pings never run it again.
OncePerLeader ==
    \A i \in Calls : \A e \in Range(runs[i]) :
        TimesRun(i, e) <= Cardinality(call[i].under)

\* Retries inside a tab and its re-elections multiply to a bound: however often the
\* lock comes round, a tab that learns of no leader does not boot without end.
BootsAreBounded ==
    \A t \in Tab : ladder[t].tries <= (MaxBootRetries + 1) * (MaxReelections + 1)

\* A tab drops out of the election without showing the failure panel only in the
\* step where it learns of a new leader, when it is closed, or by a destroy.
LeavesOnlyForALeader ==
    [][\A t \in Tab :
        Standing(t) /\ tab[t] = "open" /\ ~Standing(t)' =>
            \/ ladder'[t].gaveUp
            \/ client'[t].epoch # client[t].epoch
            \/ tab'[t] # "open"]_vars

\* A tab left in the cold: open, out of the election, with no failure to show.
Stranded(t) == tab[t] = "open" /\ ~Standing(t) /\ ~ladder[t].gaveUp

\* A waiting tab is not wedged behind anyone: a leader serves, or the tab closes, is
\* told the boot failed, or is stranded by a ready that came after its leader died.
WaiterServed ==
    \A t \in Tab :
        Requesting(t) ~> (Serving \/ tab[t] # "open" \/ ladder[t].gaveUp \/ Stranded(t))

\* No call is lost in a hand-off: if from some point on a leader always serves,
\* every outstanding call is answered without its timeout.
CallsSurviveHandOff ==
    \A i \in Calls :
        (<>[]Serving) => ((call[i].end = "pending") ~> (call[i].end # "pending"))

===============================================================================
