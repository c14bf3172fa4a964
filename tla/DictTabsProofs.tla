---------------------------- MODULE DictTabsProofs ----------------------------
(***************************************************************************)
(* The election, the boot ladder and the calls of DictTabs, for any number *)
(* of tabs, calls, failures and departures and any length of the ladder.   *)
(***************************************************************************)
EXTENDS DictTabsProps, SequenceTheorems, FiniteSetTheorems, TLAPS

-------------------------------------------------------------------------------
(* The queue for the lock.                                                  *)

Distinct(q) == \A j, k \in DOMAIN q : q[j] = q[k] => j = k

\* Appending a newcomer.
LEMMA QueueAppend ==
    ASSUME NEW q \in Seq(Tab), NEW t \in Tab, t \notin Range(q), Distinct(q)
    PROVE  /\ Append(q, t) \in Seq(Tab)
           /\ Range(Append(q, t)) = Range(q) \cup {t}
           /\ Distinct(Append(q, t))
<1> DEFINE a == Append(q, t)
<1>1. /\ a \in Seq(Tab) /\ DOMAIN a = 1..(Len(q) + 1)
      /\ \A k \in 1..Len(q) : a[k] = q[k]
      /\ a[Len(q) + 1] = t
  OBVIOUS
<1>2. Len(q) \in Nat /\ DOMAIN q = 1..Len(q)
  OBVIOUS
<1> HIDE DEF a
<1>3. Range(a) = Range(q) \cup {t}
  <2>1. ASSUME NEW x \in Range(a) PROVE x \in Range(q) \cup {t}
    BY <1>1, <1>2, <2>1 DEF Range
  <2>2. ASSUME NEW x \in Range(q) PROVE x \in Range(a)
    BY <1>1, <1>2, <2>2 DEF Range
  <2>3. t \in Range(a)
    BY <1>1, <1>2 DEF Range
  <2>. QED
    BY <2>1, <2>2, <2>3
<1>4. Distinct(a)
  BY <1>1, <1>2 DEF Distinct, Range
<1>. QED
  BY <1>1, <1>3, <1>4 DEF a

\* Granting the first request.
LEMMA QueueTail ==
    ASSUME NEW q \in Seq(Tab), q # <<>>, Distinct(q)
    PROVE  /\ Head(q) \in Tab /\ Head(q) \in Range(q)
           /\ Tail(q) \in Seq(Tab)
           /\ Range(Tail(q)) = Range(q) \ {Head(q)}
           /\ Distinct(Tail(q))
<1> DEFINE a == Tail(q)
           h == Head(q)
<1>1. /\ Len(q) \in Nat \ {0} /\ DOMAIN q = 1..Len(q)
      /\ a \in Seq(Tab) /\ DOMAIN a = 1..(Len(q) - 1)
      /\ \A k \in 1..(Len(q) - 1) : a[k] = q[k + 1]
      /\ h = q[1] /\ h \in Tab
  OBVIOUS
<1> HIDE DEF a, h
<1>2. Range(a) = Range(q) \ {h}
  <2>1. ASSUME NEW x \in Range(a) PROVE x \in Range(q) \ {h}
    BY <1>1, <2>1 DEF Range, Distinct
  <2>2. ASSUME NEW x \in Range(q), x # h PROVE x \in Range(a)
    <3>1. PICK k \in 1..Len(q) : q[k] = x
      BY <1>1, <2>2 DEF Range
    <3>2. k # 1 /\ k - 1 \in 1..(Len(q) - 1) /\ a[k - 1] = x
      BY <1>1, <2>2, <3>1
    <3>. QED
      BY <1>1, <3>2 DEF Range
  <2>. QED
    BY <2>1, <2>2
<1>3. Distinct(a)
  <2>1. ASSUME NEW j \in DOMAIN a, NEW k \in DOMAIN a, a[j] = a[k] PROVE j = k
    <3>1. j + 1 \in DOMAIN q /\ k + 1 \in DOMAIN q /\ q[j + 1] = q[k + 1]
      BY <1>1, <2>1
    <3>2. j + 1 = k + 1
      BY <3>1 DEF Distinct
    <3>. QED
      BY <1>1, <3>2
  <2>. QED
    BY <2>1 DEF Distinct
<1>4. h \in Range(q)
  BY <1>1 DEF Range
<1>. QED
  BY <1>1, <1>2, <1>3, <1>4 DEF a, h

\* Withdrawing the request of a tab that is gone.
LEMMA QueueWithdraw ==
    ASSUME waiters \in Seq(Tab), Distinct(waiters), NEW t \in Tab
    PROVE  /\ Withdrawn(t) \in Seq(Tab)
           /\ Range(Withdrawn(t)) = Range(waiters) \ {t}
           /\ Distinct(Withdrawn(t))
<1>1. CASE ~Requesting(t)
  BY <1>1 DEF Withdrawn, Requesting
<1>2. CASE Requesting(t)
  <2> DEFINE p == CHOOSE k \in DOMAIN waiters : waiters[k] = t
             n == Len(waiters)
             a == SubSeq(waiters, 1, p - 1) \o SubSeq(waiters, p + 1, n)
  <2>1. p \in DOMAIN waiters /\ waiters[p] = t
    BY <1>2 DEF Requesting, Range
  <2>2. n \in Nat /\ DOMAIN waiters = 1..n
    OBVIOUS
  <2>3. Withdrawn(t) = a
    BY <1>2 DEF Withdrawn, RemoveAt
  <2> HIDE DEF p, n
  <2>4. /\ SubSeq(waiters, 1, p - 1) \in Seq(Tab) /\ Len(SubSeq(waiters, 1, p - 1)) = p - 1
        /\ \A k \in 1..(p - 1) : SubSeq(waiters, 1, p - 1)[k] = waiters[k]
    BY <2>1, <2>2, SubSeqProperties DEF n
  <2>5. /\ SubSeq(waiters, p + 1, n) \in Seq(Tab) /\ Len(SubSeq(waiters, p + 1, n)) = n - p
        /\ \A k \in 1..(n - p) : SubSeq(waiters, p + 1, n)[k] = waiters[p + k]
    BY <2>1, <2>2, SubSeqProperties DEF n
  <2>6. /\ a \in Seq(Tab) /\ DOMAIN a = 1..(n - 1)
        /\ \A k \in 1..(n - 1) : a[k] = IF k < p THEN waiters[k] ELSE waiters[k + 1]
    <3>. DEFINE x == SubSeq(waiters, 1, p - 1)
                y == SubSeq(waiters, p + 1, n)
    <3>1. /\ x \in Seq(Tab) /\ Len(x) = p - 1 /\ p - 1 \in Nat
          /\ y \in Seq(Tab) /\ Len(y) = n - p /\ n - p \in Nat
      BY <2>1, <2>2, <2>4, <2>5
    <3>2. /\ \A k \in 1..(p - 1) : x[k] = waiters[k]
          /\ \A k \in 1..(n - p) : y[k] = waiters[p + k]
      BY <2>4, <2>5
    <3>. HIDE DEF x, y
    <3>3. /\ x \o y \in Seq(Tab) /\ Len(x \o y) = (p - 1) + (n - p)
          /\ \A k \in 1..((p - 1) + (n - p)) :
                (x \o y)[k] = IF k <= p - 1 THEN x[k] ELSE y[k - (p - 1)]
      <4>1. /\ x \o y \in Seq(Tab) /\ Len(x \o y) = Len(x) + Len(y)
            /\ \A k \in 1..(Len(x) + Len(y)) :
                  (x \o y)[k] = IF k <= Len(x) THEN x[k] ELSE y[k - Len(x)]
        BY <3>1, ConcatProperties
      <4>. QED
        BY <3>1, <4>1
    <3>4. (p - 1) + (n - p) = n - 1 /\ p \in 1..n
      BY <2>1, <2>2
    <3>5. ASSUME NEW k \in 1..(n - 1)
          PROVE  (x \o y)[k] = IF k < p THEN waiters[k] ELSE waiters[k + 1]
      <4>1. CASE k < p
        BY <2>2, <3>2, <3>3, <3>4, <4>1
      <4>2. CASE k >= p
        <5>1. k - (p - 1) \in 1..(n - p) /\ p + (k - (p - 1)) = k + 1
          BY <2>2, <3>4, <4>2
        <5>2. (x \o y)[k] = y[k - (p - 1)]
          BY <2>2, <3>3, <3>4, <4>2
        <5>. QED
          BY <2>2, <3>2, <3>4, <4>2, <5>1, <5>2
      <4>. QED
        <5>1. k < p \/ k >= p
          BY <2>2, <3>4
        <5>. QED
          BY <4>1, <4>2, <5>1
    <3>6. a = x \o y
      BY DEF x, y
    <3>7. a \in Seq(Tab) /\ Len(a) = n - 1
      BY <3>3, <3>4, <3>6
    <3>8. DOMAIN a = 1..(n - 1)
      BY <3>7, LenProperties
    <3>. QED
      BY <3>5, <3>6, <3>7, <3>8
  <2> HIDE DEF a
  <2>7. Range(a) = Range(waiters) \ {t}
    <3>1. ASSUME NEW x \in Range(a) PROVE x \in Range(waiters) \ {t}
      BY <2>1, <2>2, <2>6, <3>1 DEF Range, Distinct
    <3>2. ASSUME NEW x \in Range(waiters), x # t PROVE x \in Range(a)
      <4>1. PICK k \in 1..n : waiters[k] = x
        BY <2>2, <3>2 DEF Range
      <4>2. CASE k < p
        BY <2>1, <2>2, <2>6, <4>1, <4>2 DEF Range
      <4>3. CASE k > p
        <5>1. k - 1 \in 1..(n - 1) /\ a[k - 1] = x
          BY <2>1, <2>2, <2>6, <4>1, <4>3
        <5>. QED
          BY <2>6, <5>1 DEF Range
      <4>. QED
        BY <2>1, <2>2, <3>2, <4>1, <4>2, <4>3
    <3>. QED
      BY <3>1, <3>2
  <2>8. Distinct(a)
    <3>1. ASSUME NEW j \in DOMAIN a, NEW k \in DOMAIN a, a[j] = a[k] PROVE j = k
      <4>. DEFINE src(i) == IF i < p THEN i ELSE i + 1
      <4>1. /\ src(j) \in DOMAIN waiters /\ src(k) \in DOMAIN waiters
            /\ waiters[src(j)] = waiters[src(k)]
        BY <2>1, <2>2, <2>6, <3>1
      <4>2. src(j) = src(k)
        BY <4>1 DEF Distinct
      <4>. QED
        BY <2>1, <2>2, <2>6, <4>2
    <3>. QED
      BY <3>1 DEF Distinct
  <2>. QED
    BY <2>3, <2>6, <2>7, <2>8
<1>. QED
  BY <1>1, <1>2

-------------------------------------------------------------------------------
(* Types.                                                                   *)

\* Fresh records, and messages, are of their types.
LEMMA FreshTypes ==
    /\ NoWorker \in WorkerSet /\ NewLadder \in LadderSet
    /\ NewClient \in ClientSet /\ NoCall \in CallSet
    /\ \A e \in Nat : NewWorker(e) \in WorkerSet /\ Ready(e) \in Message
    /\ \A i \in Calls : \A ok \in BOOLEAN : Response(i, ok) \in Message
<1>1. NoWorker \in WorkerSet /\ \A e \in Nat : NewWorker(e) \in WorkerSet
  <2>1. NoWorker \in WorkerSet
    BY DEF WorkerSet, NoWorker
  <2>2. \A x \in WorkerSet : \A e \in Nat : [x EXCEPT !.epoch = e] \in WorkerSet
    BY DEF WorkerSet
  <2>. QED
    BY <2>1, <2>2 DEF NewWorker
<1>2. NewLadder \in LadderSet
  BY TabsAssumption DEF LadderSet, NewLadder
<1>3. NewClient \in ClientSet
  BY DEF ClientSet, NewClient
<1>4. NoCall \in CallSet
  BY DEF CallSet, NoCall, Endings
<1>5. /\ \A e \in Nat : Ready(e) \in Message
      /\ \A i \in Calls : \A ok \in BOOLEAN : Response(i, ok) \in Message
  BY DEF Message, Ready, Response
<1>. QED
  BY <1>1, <1>2, <1>3, <1>4, <1>5

\* Setting a field of a ladder.
LEMMA LadderFields ==
    ASSUME NEW x \in LadderSet
    PROVE  /\ \A n \in 0..MaxBootRetries : [x EXCEPT !.attempt = n] \in LadderSet
           /\ \A n \in 0..MaxReelections : [x EXCEPT !.reelect = n] \in LadderSet
           /\ \A b \in BOOLEAN : [x EXCEPT !.retryTimer = b] \in LadderSet
           /\ \A b \in BOOLEAN : [x EXCEPT !.reelectTimer = b] \in LadderSet
           /\ \A b \in BOOLEAN : [x EXCEPT !.probing = b] \in LadderSet
           /\ \A b \in BOOLEAN : [x EXCEPT !.gaveUp = b] \in LadderSet
           /\ \A n \in Nat : [x EXCEPT !.tries = n] \in LadderSet
BY DEF LadderSet

\* What the broadcast channel does to inboxes.
LEMMA ChannelTypes ==
    ASSUME TypeOK
    PROVE  /\ \A msg \in Message : Heard(msg) \in [Tab -> ClientSet]
           /\ \A i \in Calls : \A ok \in BOOLEAN : Told(i, ok) \in [Tab -> ClientSet]
           /\ \A q \in Seq(Calls) : Posted(q) \in [Tab -> WorkerSet]
           /\ \A S \in SUBSET Calls : InOrder(S) \subseteq Seq(Calls)
<1>1. worker \in [Tab -> WorkerSet] /\ client \in [Tab -> ClientSet]
  BY DEF TypeOK
<1>2. ASSUME NEW msg \in Message PROVE Heard(msg) \in [Tab -> ClientSet]
  <2>1. ASSUME NEW t \in Tab
        PROVE  [client[t] EXCEPT !.inbox = Append(@, msg)] \in ClientSet
    <3>1. client[t] \in ClientSet /\ Append(client[t].inbox, msg) \in Seq(Message)
      BY <1>1, <1>2 DEF ClientSet
    <3>. QED
      BY <3>1 DEF ClientSet
  <2>. QED
    BY <1>1, <2>1 DEF Heard
<1>3. ASSUME NEW i \in Calls, NEW ok \in BOOLEAN PROVE Told(i, ok) \in [Tab -> ClientSet]
  <2>1. ASSUME NEW t \in Tab
        PROVE  [client[t] EXCEPT !.inbox = IF call[i].end = "abandoned" THEN @
                                           ELSE Append(@, Response(i, ok))] \in ClientSet
    <3>1. client[t] \in ClientSet /\ Append(client[t].inbox, Response(i, ok)) \in Seq(Message)
      BY <1>1, FreshTypes DEF ClientSet
    <3>. QED
      BY <3>1 DEF ClientSet
  <2>2. Told(i, ok) = [t \in Tab |->
           IF t = call[i].by
           THEN [client[t] EXCEPT !.inbox = IF call[i].end = "abandoned" THEN @
                                            ELSE Append(@, Response(i, ok))]
           ELSE client[t]]
    BY <1>1 DEF Told
  <2>. QED
    BY <1>1, <2>1, <2>2
<1>4. ASSUME NEW q \in Seq(Calls) PROVE Posted(q) \in [Tab -> WorkerSet]
  <2>1. ASSUME NEW t \in Tab
        PROVE  [worker[t] EXCEPT !.inbox = @ \o q] \in WorkerSet
    <3>1. worker[t] \in WorkerSet /\ worker[t].inbox \o q \in Seq(Calls)
      BY <1>1, <1>4 DEF WorkerSet
    <3>. QED
      BY <3>1 DEF WorkerSet
  <2>. QED
    BY <1>1, <2>1 DEF Posted
<1>5. ASSUME NEW S \in SUBSET Calls PROVE InOrder(S) \subseteq Seq(Calls)
  <2>1. IsFiniteSet(Calls)
    BY TabsAssumption, FS_Interval DEF Calls
  <2>2. Cardinality(S) \in Nat
    BY <1>5, <2>1, FS_Subset, FS_CardinalityType
  <2>3. ASSUME NEW q \in [1..Cardinality(S) -> S] PROVE q \in Seq(Calls)
    BY <1>5, <2>2, <2>3, SeqDef
  <2>. QED
    BY <2>3 DEF InOrder
<1>. QED
  BY <1>2, <1>3, <1>4, <1>5

\* Every step keeps the types; the queue operators need the queue to be distinct.
LEMMA TypeStep ==
    ASSUME TypeOK, Distinct(waiters), [Next]_vars
    PROVE  TypeOK'
<1> USE DEF TypeOK
<1>0. CASE UNCHANGED vars
  BY <1>0 DEF vars, electionVars, callVars, boundVars, TypeOK
<1>1. CASE Grant
  BY <1>1, FreshTypes, QueueTail DEF Grant, Spawn, callVars, boundVars
<1> SUFFICES ASSUME NEW t \in Tab,
                    \/ Open(t) \/ Close(t) \/ Destroy(t) \/ Reload(t)
                    \/ BootSucceeds(t) \/ BootFails(t) \/ WorkerCrashes(t)
                    \/ Probe(t) \/ RetryTimer(t) \/ ReelectTimer(t)
                    \/ Request(t) \/ Ping(t) \/ Refuse(t) \/ Run(t) \/ Answer(t)
                    \/ ReceiveResponse(t) \/ ReceiveReady(t) \/ Timeout(t)
             PROVE  TypeOK'
  BY <1>0, <1>1 DEF Next
<1>2. CASE Open(t)
  BY <1>2 DEF Open, callVars, boundVars
<1>3. Abandoned(t) \in [Calls -> CallSet]
  BY DEF Abandoned, CallSet, Endings
<1>4. CASE Leave(t) /\ crashes' = crashes /\ departures' \in Nat
  BY <1>3, <1>4, FreshTypes, QueueWithdraw DEF Leave, AfterResign
<1>5. CASE Close(t)
  BY <1>4, <1>5 DEF Close, Leave
<1>6. CASE Reload(t)
  BY <1>4, <1>6 DEF Reload, Leave
<1>7. CASE Destroy(t)
  <2>1. ladder' \in [Tab -> LadderSet]
    BY <1>7, LadderFields DEF Destroy
  <2>. QED
    BY <1>3, <1>7, <2>1, FreshTypes DEF Destroy, AfterResign
<1>8. CASE BootSucceeds(t)
  <2>1. worker' \in [Tab -> WorkerSet]
    BY <1>8 DEF BootSucceeds, WorkerSet
  <2>2. Ready(worker[t].epoch) \in Message
    BY FreshTypes DEF WorkerSet
  <2>. QED
    BY <1>8, <2>1, <2>2, ChannelTypes DEF BootSucceeds, electionVars, callVars, boundVars
<1>9. CASE BootFails(t) \/ WorkerCrashes(t)
  <2>1. ladder[t].tries + 1 \in Nat
    BY DEF LadderSet
  <2>2. ladder' \in [Tab -> LadderSet]
    <3>1. ladder' = [ladder EXCEPT ![t].probing = TRUE, ![t].tries = @ + 1]
      BY <1>9 DEF BootFails, WorkerCrashes, HandleFailure
    <3>2. [[ladder[t] EXCEPT !.probing = TRUE] EXCEPT !.tries = ladder[t].tries + 1] \in LadderSet
      BY <2>1, LadderFields
    <3>3. [ladder[t] EXCEPT !.probing = TRUE].tries = ladder[t].tries
      BY DEF LadderSet
    <3>. QED
      BY <3>1, <3>2, <3>3
  <2>3. worker' \in [Tab -> WorkerSet]
    BY <1>9, FreshTypes DEF BootFails, WorkerCrashes, HandleFailure
  <2>4. failures' \in Nat /\ crashes' \in Nat
    BY <1>9 DEF BootFails, WorkerCrashes
  <2>5. UNCHANGED <<tab, electionVars, client, callVars, spawned, departures>>
    BY <1>9 DEF BootFails, WorkerCrashes, HandleFailure
  <2>. QED
    BY <2>2, <2>3, <2>4, <2>5 DEF electionVars, callVars
<1>10. CASE Probe(t)
  <2>1. ladder' \in [Tab -> LadderSet]
    <3>1. ladder[t].attempt \in 0..MaxBootRetries /\ ladder[t].reelect \in 0..MaxReelections
      BY DEF LadderSet
    <3>2. /\ 0 \in 0..MaxBootRetries
          /\ ladder[t].attempt < MaxBootRetries => ladder[t].attempt + 1 \in 0..MaxBootRetries
          /\ ladder[t].reelect < MaxReelections => ladder[t].reelect + 1 \in 0..MaxReelections
      BY <3>1, TabsAssumption
    <3>3. CASE ProbeTerminal(t)
      BY <3>3, LadderFields DEF ProbeTerminal
    <3>4. CASE ProbeRetries(t)
      BY <3>2, <3>4, LadderFields DEF ProbeRetries
    <3>5. CASE ProbeReelects(t)
      BY <3>2, <3>5, LadderFields DEF ProbeReelects
    <3>6. CASE ProbeGivesUp(t)
      BY <3>2, <3>6, LadderFields DEF ProbeGivesUp
    <3>. QED
      BY <1>10, <3>3, <3>4, <3>5, <3>6 DEF Probe
  <2>. QED
    BY <1>10, <2>1 DEF Probe, ProbeTerminal, ProbeRetries, ProbeReelects, ProbeGivesUp,
       AfterResign, electionVars, callVars, boundVars
<1>11. CASE RetryTimer(t)
  <2>1. ladder' \in [Tab -> LadderSet]
    BY <1>11, LadderFields DEF RetryTimer
  <2>2. worker' \in [Tab -> WorkerSet] /\ spawned' \in Nat
    <3>1. CASE Alive(t)
      BY <1>11, <3>1 DEF RetryTimer, Spawn
    <3>2. CASE ~Alive(t)
      <4>1. NewWorker(spawned + 1) \in WorkerSet
        BY FreshTypes
      <4>. QED
        BY <1>11, <3>2, <4>1 DEF RetryTimer, Spawn
    <3>. QED
      BY <3>1, <3>2
  <2>. QED
    BY <1>11, <2>1, <2>2 DEF RetryTimer, electionVars, callVars, boundVars
<1>12. CASE ReelectTimer(t)
  <2>1. ladder' \in [Tab -> LadderSet]
    BY <1>12, LadderFields DEF ReelectTimer
  <2>. QED
    BY <1>12, <2>1 DEF ReelectTimer, callVars, boundVars
<1>13. CASE Request(t)
  <2>1. PICK i \in Calls :
          /\ call' = [call EXCEPT ![i] = [by |-> t, under |-> {client[t].epoch} \ {0},
                                         end |-> "pending"]]
          /\ client' = [client EXCEPT ![t].pending = @ \cup {i}]
          /\ worker' = IF client[t].epoch # 0 THEN Posted(<<i>>) ELSE worker
          /\ UNCHANGED <<tab, electionVars, ladder, runs, spawned, boundVars>>
    BY <1>13 DEF Request
  <2>2. call' \in [Calls -> CallSet]
    BY <2>1 DEF CallSet, Endings, ClientSet
  <2>3. client' \in [Tab -> ClientSet]
    BY <2>1 DEF ClientSet
  <2>4. worker' \in [Tab -> WorkerSet]
    <3>1. <<i>> \in Seq(Calls)
      BY <2>1
    <3>. QED
      BY <2>1, <3>1, ChannelTypes
  <2>. QED
    BY <2>1, <2>2, <2>3, <2>4 DEF electionVars, boundVars
<1>14. CASE Ping(t)
  <2>1. \A u \in Tab : Ready(worker[u].epoch) \in Message
    BY FreshTypes DEF WorkerSet
  <2>. QED
    BY <1>14, <2>1, ChannelTypes DEF Ping, electionVars, callVars, boundVars
<1>15. ASSUME worker[t].inbox # <<>>
       PROVE  Head(worker[t].inbox) \in Calls /\ Tail(worker[t].inbox) \in Seq(Calls)
  BY <1>15 DEF WorkerSet
<1>16. CASE Refuse(t)
  <2>1. worker' \in [Tab -> WorkerSet]
    BY <1>15, <1>16 DEF Refuse, WorkerSet
  <2>. QED
    BY <1>15, <1>16, <2>1, ChannelTypes DEF Refuse, electionVars, callVars, boundVars
<1>17. CASE Run(t)
  <2>1. worker' \in [Tab -> WorkerSet]
    BY <1>15, <1>17 DEF Run, WorkerSet
  <2>2. runs' \in [Calls -> Seq(Nat)]
    BY <1>15, <1>17 DEF Run, WorkerSet
  <2>. QED
    BY <1>17, <2>1, <2>2 DEF Run, electionVars, boundVars
<1>18. CASE Answer(t)
  <2>1. PICK i \in worker[t].running :
          /\ worker' = [worker EXCEPT ![t].running = @ \ {i}]
          /\ client' = Told(i, TRUE)
          /\ UNCHANGED <<tab, electionVars, ladder, callVars, spawned, boundVars>>
    BY <1>18 DEF Answer
  <2>2. i \in Calls
    BY <2>1 DEF WorkerSet
  <2>3. worker' \in [Tab -> WorkerSet]
    BY <2>1 DEF WorkerSet
  <2>. QED
    BY <2>1, <2>2, <2>3, ChannelTypes DEF electionVars, callVars, boundVars
<1>19. ASSUME client[t].inbox # <<>>
       PROVE  Head(client[t].inbox) \in Message /\ Tail(client[t].inbox) \in Seq(Message)
  BY <1>19 DEF ClientSet
<1>20. CASE ReceiveResponse(t)
  <2>1. client' \in [Tab -> ClientSet]
    BY <1>19, <1>20 DEF ReceiveResponse, ClientSet
  <2>2. call' \in [Calls -> CallSet]
    <3>1. ASSUME NEW i \in Calls, NEW e \in Endings PROVE [call[i] EXCEPT !.end = e] \in CallSet
      BY <3>1 DEF CallSet
    <3>2. Head(client[t].inbox).call \in client[t].pending => Head(client[t].inbox).call \in Calls
      BY DEF ClientSet
    <3>. QED
      BY <1>20, <3>1, <3>2 DEF ReceiveResponse, Endings
  <2>. QED
    BY <1>20, <2>1, <2>2 DEF ReceiveResponse, electionVars, boundVars
<1>21. CASE ReceiveReady(t)
  <2>1. Head(client[t].inbox).epoch \in Nat
    BY <1>19, <1>21 DEF ReceiveReady, Message
  <2>2. client' \in [Tab -> ClientSet]
    BY <1>19, <1>21, <2>1 DEF ReceiveReady, ClientSet
  <2>3. ladder' \in [Tab -> LadderSet]
    <3>1. 0 \in 0..MaxBootRetries /\ 0 \in 0..MaxReelections
      BY TabsAssumption
    <3>. QED
      BY <1>21, <3>1, LadderFields DEF ReceiveReady
  <2>4. call' \in [Calls -> CallSet]
    BY <1>21, <2>1 DEF ReceiveReady, CallSet
  <2>5. worker' \in [Tab -> WorkerSet]
    <3>1. \A e : Resent(t, e) \in SUBSET Calls
      BY DEF Resent, ClientSet
    <3>. QED
      BY <1>21, <3>1, ChannelTypes DEF ReceiveReady
  <2>. QED
    BY <1>21, <2>2, <2>3, <2>4, <2>5 DEF ReceiveReady, electionVars, boundVars
<1>22. CASE Timeout(t)
  <2>1. PICK i \in client[t].pending :
          /\ client' = [client EXCEPT ![t].pending = @ \ {i}]
          /\ call' = [call EXCEPT ![i].end = "timeout"]
          /\ UNCHANGED <<tab, electionVars, worker, ladder, runs, spawned, boundVars>>
    BY <1>22 DEF Timeout
  <2>2. i \in Calls
    BY <2>1 DEF ClientSet
  <2>3. client' \in [Tab -> ClientSet]
    BY <2>1 DEF ClientSet
  <2>4. call' \in [Calls -> CallSet]
    BY <2>1, <2>2 DEF CallSet, Endings
  <2>. QED
    BY <2>1, <2>3, <2>4 DEF electionVars, boundVars
<1>. QED
  BY <1>2, <1>5, <1>6, <1>7, <1>8, <1>9, <1>10, <1>11, <1>12, <1>13, <1>14, <1>16, <1>17,
     <1>18, <1>20, <1>21, <1>22

-------------------------------------------------------------------------------
(* The inductive invariant of the election.                                 *)

\* Something is under way in the tab that keeps the lock from being dead weight.
Busy(t) == Alive(t) \/ ladder[t].probing \/ ladder[t].retryTimer

\* One thing at a time leads a tab on, and nothing leads on a tab that gave up.
OneStep(t) ==
    /\ Alive(t) => ~ladder[t].probing /\ ~ladder[t].retryTimer
    /\ ladder[t].probing => ~ladder[t].retryTimer
    /\ ladder[t].reelectTimer => ~Busy(t)
    /\ Requesting(t) => ~Busy(t) /\ ~ladder[t].reelectTimer
    /\ ladder[t].gaveUp => ~Busy(t) /\ ~ladder[t].reelectTimer /\ ~Requesting(t)

\* An open tab is busy exactly while it holds the lock; a closed one is gone.
LockInv(t) ==
    /\ tab[t] = "open" /\ Busy(t) => holder = t
    /\ holder = t => Busy(t)
    /\ tab[t] = "closed" => ~Busy(t) /\ ~ladder[t].reelectTimer /\ ~Requesting(t)
                              /\ ~ladder[t].gaveUp

\* The boots that failed, read off the ladder.
CountInv(t) ==
    IF ladder[t].gaveUp THEN ladder[t].tries <= (MaxBootRetries + 1) * (MaxReelections + 1)
    ELSE ladder[t].tries <= (MaxBootRetries + 1) * ladder[t].reelect + ladder[t].attempt
                              + (IF ladder[t].probing THEN 1 ELSE 0)

TabInv(t) == OneStep(t) /\ LockInv(t) /\ CountInv(t)

ElectionInv == Distinct(waiters) /\ \A t \in Tab : TabInv(t)

\* A step that means nothing to a tab's standing ...
Same(u) ==
    /\ worker'[u].epoch = worker[u].epoch
    /\ ladder'[u] = ladder[u]
    /\ Requesting(u)' <=> Requesting(u)
    /\ tab'[u] = tab[u]
    /\ holder' = u <=> holder = u

\* ... leaves its invariant alone.
LEMMA SameInv ==
    ASSUME NEW u \in Tab, TabInv(u), Same(u)
    PROVE  TabInv(u)'
BY DEF TabInv, Same, OneStep, LockInv, CountInv, Busy, Alive

\* The ladder's arithmetic: each rung adds at most the boots of one election.
LEMMA Rungs ==
    \A a, x, y \in Nat :
        /\ (a + 1) * x \in Nat
        /\ (a + 1) * (x + 1) = (a + 1) * x + a + 1
        /\ x < y => (a + 1) * x + a + 1 <= (a + 1) * y
<1> SUFFICES ASSUME NEW a \in Nat, NEW x \in Nat, NEW y \in Nat
             PROVE  /\ (a + 1) * x \in Nat
                    /\ (a + 1) * (x + 1) = (a + 1) * x + a + 1
                    /\ x < y => (a + 1) * x + a + 1 <= (a + 1) * y
  OBVIOUS
<1>1. /\ (a + 1) * x \in Nat
      /\ (a + 1) * (x + 1) = (a + 1) * x + a + 1
  OBVIOUS
<1>2. ASSUME x < y PROVE (a + 1) * x + a + 1 <= (a + 1) * y
  <2>1. PICK d \in Nat : y = x + 1 + d
    <3>1. y - (x + 1) \in Nat /\ y = x + 1 + (y - (x + 1))
      BY <1>2
    <3>. QED
      BY <3>1
  <2>2. (a + 1) * y = (a + 1) * (x + 1) + (a + 1) * d
    BY <2>1
  <2>3. (a + 1) * d \in Nat
    OBVIOUS
  <2>. QED
    BY <1>1, <2>2, <2>3
<1>. QED
  BY <1>1, <1>2

\* The bound itself is a number.
LEMMA Products ==
    (MaxBootRetries + 1) * (MaxReelections + 1) \in Nat /\ (MaxBootRetries + 1) * 0 = 0
<1>1. \A a, b \in Nat : (a + 1) * b \in Nat /\ (a + 1) * 0 = 0
  OBVIOUS
<1>2. MaxBootRetries \in Nat /\ MaxReelections + 1 \in Nat
  BY TabsAssumption
<1>. QED
  BY <1>1, <1>2

\* Traffic on the channel and a successful boot mean nothing to the election.
LEMMA TrafficStep ==
    ASSUME TypeOK, ElectionInv, NEW t \in Tab,
           \/ BootSucceeds(t) \/ Request(t) \/ Ping(t) \/ Refuse(t) \/ Run(t) \/ Answer(t)
           \/ ReceiveResponse(t) \/ Timeout(t)
    PROVE  ElectionInv'
<1>1. \A u \in Tab : worker'[u].epoch = worker[u].epoch
  <2>1. \A u \in Tab : worker[u] \in WorkerSet
    BY DEF TypeOK
  <2>2. CASE BootSucceeds(t)
    BY <2>1, <2>2 DEF BootSucceeds, TypeOK, WorkerSet
  <2>3. CASE Request(t)
    BY <2>1, <2>3 DEF Request, Posted, TypeOK, WorkerSet
  <2>4. CASE Refuse(t)
    BY <2>1, <2>4 DEF Refuse, TypeOK, WorkerSet
  <2>5. CASE Run(t)
    BY <2>1, <2>5 DEF Run, TypeOK, WorkerSet
  <2>6. CASE Answer(t)
    BY <2>1, <2>6 DEF Answer, TypeOK, WorkerSet
  <2>7. CASE Ping(t) \/ ReceiveResponse(t) \/ Timeout(t)
    BY <2>7 DEF Ping, ReceiveResponse, Timeout
  <2>. QED
    BY <2>2, <2>3, <2>4, <2>5, <2>6, <2>7
<1>2. tab' = tab /\ holder' = holder /\ waiters' = waiters /\ ladder' = ladder
  BY DEF BootSucceeds, Request, Ping, Refuse, Run, Answer, ReceiveResponse, Timeout, electionVars
<1>3. \A u \in Tab : Same(u)
  BY <1>1, <1>2 DEF Same, Requesting
<1>. QED
  BY <1>2, <1>3, SameInv DEF ElectionInv

\* Tabs come, get the lock and go.
LEMMA LockStep ==
    ASSUME TypeOK, ElectionInv, NEW t \in Tab,
           \/ Open(t) \/ Destroy(t) \/ Close(t) \/ Reload(t)
           \/ Grant /\ t = Head(waiters)
    PROVE  ElectionInv'
<1> USE TabsAssumption DEF TypeOK
<1>0. TabInv(t) /\ Distinct(waiters) /\ holder \in Tab \cup {None}
  BY DEF ElectionInv
<1>1. CASE Open(t)
  <2>1. ~Requesting(t) /\ holder # t /\ ~Busy(t) /\ ~ladder[t].reelectTimer /\ ~ladder[t].gaveUp
    BY <1>0, <1>1 DEF Open, TabInv, LockInv, Busy, NewLadder
  <2>2. /\ waiters' = Append(waiters, t)
        /\ Range(waiters') = Range(waiters) \cup {t} /\ Distinct(waiters')
    BY <1>0, <1>1, <2>1, QueueAppend DEF Open, Requesting
  <2>3. tab' = [tab EXCEPT ![t] = "open"] /\ UNCHANGED <<holder, worker, ladder>>
    BY <1>1 DEF Open
  <2>4. \A u \in Tab \ {t} : Same(u)
    BY <2>2, <2>3 DEF Same, Requesting
  <2>5. TabInv(t)'
    BY <1>0, <2>1, <2>3 DEF TabInv, OneStep, LockInv, CountInv, Busy, Alive, NewLadder
  <2>. QED
    BY <2>2, <2>4, <2>5, SameInv DEF ElectionInv
<1>2. CASE Close(t) \/ Reload(t)
  <2>1. /\ tab' = [tab EXCEPT ![t] = "closed"]
        /\ holder' = AfterResign(t)
        /\ waiters' = Withdrawn(t)
        /\ worker' = [worker EXCEPT ![t] = NoWorker]
        /\ ladder' = [ladder EXCEPT ![t] = NewLadder]
    BY <1>2 DEF Close, Reload, Leave
  <2>2. Range(waiters') = Range(waiters) \ {t} /\ Distinct(waiters')
    BY <1>0, <2>1, QueueWithdraw
  <2>3. \A u \in Tab \ {t} : Same(u)
    BY <2>1, <2>2 DEF Same, Requesting, AfterResign
  <2>4. /\ ~Requesting(t)' /\ holder' # t /\ worker'[t].epoch = 0
        /\ ladder'[t] = NewLadder /\ tab'[t] = "closed"
    BY <2>1, <2>2 DEF Requesting, AfterResign, NoWorker
  <2>5. TabInv(t)'
    BY <2>4 DEF TabInv, OneStep, LockInv, CountInv, Busy, Alive, NewLadder
  <2>. QED
    BY <2>2, <2>3, <2>5, SameInv DEF ElectionInv
<1>3. CASE Destroy(t)
  <2>1. /\ tab' = [tab EXCEPT ![t] = "destroyed"]
        /\ holder' = AfterResign(t)
        /\ waiters' = waiters
        /\ worker' = [worker EXCEPT ![t] = NoWorker]
        /\ ladder' = [ladder EXCEPT ![t].retryTimer = FALSE, ![t].reelectTimer = FALSE]
    BY <1>3 DEF Destroy
  <2>2. \A u \in Tab \ {t} : Same(u)
    BY <2>1 DEF Same, Requesting, AfterResign
  <2>3. holder' # t /\ worker'[t].epoch = 0 /\ tab'[t] = "destroyed"
    BY <2>1 DEF AfterResign, NoWorker
  <2>4. /\ ~ladder'[t].retryTimer /\ ~ladder'[t].reelectTimer
        /\ ladder'[t].probing = ladder[t].probing /\ ladder'[t].gaveUp = ladder[t].gaveUp
        /\ ladder'[t].attempt = ladder[t].attempt /\ ladder'[t].reelect = ladder[t].reelect
        /\ ladder'[t].tries = ladder[t].tries
    BY <2>1 DEF LadderSet
  <2>5. Requesting(t)' <=> Requesting(t)
    BY <2>1 DEF Requesting
  <2>6. TabInv(t)'
    BY <1>0, <2>3, <2>4, <2>5 DEF TabInv, OneStep, LockInv, CountInv, Busy, Alive
  <2>. QED
    BY <1>0, <2>1, <2>2, <2>6, SameInv DEF ElectionInv
<1>4. CASE Grant /\ t = Head(waiters)
  <2>1. /\ holder = None /\ holder' = t /\ tab' = tab /\ ladder' = ladder
        /\ waiters # <<>> /\ waiters' = Tail(waiters) /\ Spawn(t)
    BY <1>4 DEF Grant
  <2>2. Range(waiters') = Range(waiters) \ {t} /\ Distinct(waiters') /\ Requesting(t)
    BY <1>0, <1>4, <2>1, QueueTail DEF Requesting
  <2>3. /\ \A u \in Tab \ {t} : worker'[u] = worker[u]
        /\ worker'[t].epoch # 0
    BY <2>1 DEF Spawn, Alive, NewWorker, NoWorker
  <2>4. \A u \in Tab \ {t} : Same(u)
    BY <2>1, <2>2, <2>3 DEF Same, Requesting
  <2>5. ~Requesting(t)'
    BY <2>2 DEF Requesting
  <2>6. TabInv(t)'
    BY <1>0, <2>1, <2>2, <2>3, <2>5 DEF TabInv, OneStep, LockInv, CountInv, Busy, Alive
  <2>. QED
    BY <2>2, <2>4, <2>6, SameInv DEF ElectionInv
<1>. QED
  BY <1>1, <1>2, <1>3, <1>4

\* Boots fail and the ladder is climbed.
LEMMA LadderStep ==
    ASSUME TypeOK, ElectionInv, NEW t \in Tab,
           \/ BootFails(t) \/ WorkerCrashes(t) \/ Probe(t)
           \/ RetryTimer(t) \/ ReelectTimer(t) \/ ReceiveReady(t)
    PROVE  ElectionInv'
<1> USE TabsAssumption DEF TypeOK
<1>0. TabInv(t) /\ Distinct(waiters) /\ holder \in Tab \cup {None} /\ ladder[t] \in LadderSet
  BY DEF ElectionInv
<1>1. CASE BootFails(t) \/ WorkerCrashes(t)
  <2>1. /\ Alive(t) /\ UNCHANGED <<tab, holder, waiters>>
        /\ worker' = [worker EXCEPT ![t] = NoWorker]
        /\ ladder' = [ladder EXCEPT ![t].probing = TRUE, ![t].tries = @ + 1]
    BY <1>1 DEF BootFails, WorkerCrashes, HandleFailure, electionVars
  <2>2. \A u \in Tab \ {t} : Same(u)
    BY <2>1 DEF Same, Requesting
  <2>3. /\ ladder'[t].probing /\ ladder'[t].tries = ladder[t].tries + 1
        /\ ladder'[t].retryTimer = ladder[t].retryTimer
        /\ ladder'[t].reelectTimer = ladder[t].reelectTimer
        /\ ladder'[t].gaveUp = ladder[t].gaveUp
        /\ ladder'[t].attempt = ladder[t].attempt /\ ladder'[t].reelect = ladder[t].reelect
    BY <2>1 DEF LadderSet
  <2>4. worker'[t].epoch = 0 /\ Requesting(t)' <=> Requesting(t)
    BY <2>1 DEF NoWorker, Requesting
  <2>5. (OneStep(t) /\ LockInv(t))'
    BY <1>0, <2>1, <2>3, <2>4 DEF TabInv, OneStep, LockInv, Busy, Alive, NewLadder, NoWorker,
       Requesting
  <2>6. CountInv(t)'
    <3>1. /\ ~ladder[t].gaveUp /\ ~ladder[t].probing
          /\ ladder[t].tries <= (MaxBootRetries + 1) * ladder[t].reelect + ladder[t].attempt
      BY <1>0, <2>1 DEF TabInv, OneStep, CountInv, Busy, LadderSet
    <3>2. (MaxBootRetries + 1) * ladder[t].reelect \in Nat /\ ladder[t].attempt \in Nat
      BY <1>0 DEF LadderSet
    <3>. QED
      BY <1>0, <2>3, <3>1, <3>2 DEF CountInv, LadderSet
  <2>. QED
    BY <1>0, <2>1, <2>2, <2>5, <2>6, SameInv DEF ElectionInv, TabInv
<1>2. CASE RetryTimer(t)
  <2>1. /\ ladder[t].retryTimer /\ UNCHANGED <<tab, holder, waiters>> /\ Spawn(t)
        /\ ladder' = [ladder EXCEPT ![t].retryTimer = FALSE]
    BY <1>2 DEF RetryTimer, electionVars
  <2>2. worker'[t].epoch # 0 /\ \A u \in Tab \ {t} : worker'[u] = worker[u]
    BY <2>1 DEF Spawn, Alive, NewWorker, NoWorker
  <2>3. \A u \in Tab \ {t} : Same(u)
    BY <2>1, <2>2 DEF Same, Requesting
  <2>4. /\ ~ladder'[t].retryTimer /\ ladder'[t].probing = ladder[t].probing
        /\ ladder'[t].reelectTimer = ladder[t].reelectTimer
        /\ ladder'[t].gaveUp = ladder[t].gaveUp /\ ladder'[t].tries = ladder[t].tries
        /\ ladder'[t].attempt = ladder[t].attempt /\ ladder'[t].reelect = ladder[t].reelect
    BY <2>1 DEF LadderSet
  <2>5. Requesting(t)' <=> Requesting(t)
    BY <2>1 DEF Requesting
  <2>6. TabInv(t)'
    BY <1>0, <2>1, <2>2, <2>4, <2>5 DEF TabInv, OneStep, LockInv, CountInv, Busy, Alive, NewLadder
  <2>. QED
    BY <1>0, <2>1, <2>3, <2>6, SameInv DEF ElectionInv
<1>3. CASE ReelectTimer(t)
  <2>1. /\ ladder[t].reelectTimer /\ UNCHANGED <<tab, holder, worker>>
        /\ ladder' = [ladder EXCEPT ![t].reelectTimer = FALSE]
    BY <1>3 DEF ReelectTimer
  <2>2. ~Busy(t) /\ ~Requesting(t) /\ holder # t
    BY <1>0, <2>1 DEF TabInv, OneStep, LockInv
  <2>3. Range(waiters') = Range(waiters) \cup {t} /\ Distinct(waiters')
    BY <1>0, <1>3, <2>2, QueueAppend DEF ReelectTimer, Requesting
  <2>4. \A u \in Tab \ {t} : Same(u)
    BY <2>1, <2>3 DEF Same, Requesting
  <2>5. /\ ~ladder'[t].reelectTimer /\ ladder'[t].probing = ladder[t].probing
        /\ ladder'[t].retryTimer = ladder[t].retryTimer
        /\ ladder'[t].gaveUp = ladder[t].gaveUp /\ ladder'[t].tries = ladder[t].tries
        /\ ladder'[t].attempt = ladder[t].attempt /\ ladder'[t].reelect = ladder[t].reelect
    BY <2>1 DEF LadderSet
  <2>6. TabInv(t)'
    BY <1>0, <2>1, <2>2, <2>5 DEF TabInv, OneStep, LockInv, CountInv, Busy, Alive, NewLadder
  <2>. QED
    BY <2>3, <2>4, <2>6, SameInv DEF ElectionInv
<1>4. CASE ReceiveReady(t)
  <2>1. /\ UNCHANGED <<tab, holder, waiters>>
        /\ client[t].inbox # <<>>
        /\ \/ ladder' = ladder
           \/ ladder' = [ladder EXCEPT ![t].attempt = 0, ![t].reelect = 0,
                                       ![t].reelectTimer = FALSE, ![t].tries = 0]
        /\ \A u \in Tab : worker'[u].epoch = worker[u].epoch
    <3>1. \A u \in Tab : \A q : Posted(q)[u].epoch = worker[u].epoch
      BY DEF Posted, WorkerSet
    <3>. QED
      BY <1>4, <3>1 DEF ReceiveReady, electionVars
  <2>2. \A u \in Tab \ {t} : Same(u)
    BY <2>1 DEF Same, Requesting
  <2>3. CASE ladder' = ladder
    BY <1>0, <2>1, <2>2, <2>3, SameInv DEF ElectionInv, Same, Requesting
  <2>4. CASE ladder' = [ladder EXCEPT ![t].attempt = 0, ![t].reelect = 0,
                                      ![t].reelectTimer = FALSE, ![t].tries = 0]
    <3>1. /\ ladder'[t].attempt = 0 /\ ladder'[t].reelect = 0 /\ ladder'[t].tries = 0
          /\ ~ladder'[t].reelectTimer /\ ladder'[t].retryTimer = ladder[t].retryTimer
          /\ ladder'[t].probing = ladder[t].probing /\ ladder'[t].gaveUp = ladder[t].gaveUp
      BY <2>4 DEF LadderSet
    <3>2. Requesting(t)' <=> Requesting(t)
      BY <2>1 DEF Requesting
    <3>4. (OneStep(t) /\ LockInv(t))'
      BY <1>0, <2>1, <3>1, <3>2 DEF TabInv, OneStep, LockInv, Busy, Alive
    <3>5. CountInv(t)'
      <4>1. (MaxBootRetries + 1) * (MaxReelections + 1) \in Nat /\ (MaxBootRetries + 1) * 0 = 0
        BY Products
      <4>. QED
        BY <3>1, <4>1 DEF CountInv
    <3>. QED
      BY <1>0, <2>1, <2>2, <3>4, <3>5, SameInv DEF ElectionInv, TabInv
  <2>. QED
    BY <2>1, <2>3, <2>4
<1>5. CASE Probe(t)
  <2>1. /\ ladder[t].probing /\ UNCHANGED <<tab, waiters, worker>>
        /\ holder' \in {holder, AfterResign(t)}
    BY <1>5 DEF Probe, ProbeTerminal, ProbeRetries, ProbeReelects, ProbeGivesUp, electionVars
  <2>2. \A u \in Tab \ {t} : ladder'[u] = ladder[u]
    BY <1>5 DEF Probe, ProbeTerminal, ProbeRetries, ProbeReelects, ProbeGivesUp
  <2>3. \A u \in Tab \ {t} : Same(u)
    BY <2>1, <2>2 DEF Same, Requesting, AfterResign
  <2>4. /\ ~Alive(t) /\ ~ladder[t].retryTimer /\ ~ladder[t].reelectTimer
        /\ ~Requesting(t) /\ ~ladder[t].gaveUp /\ tab[t] # "closed"
    BY <1>0, <2>1 DEF TabInv, OneStep, LockInv, Busy, NewLadder
  <2>5. /\ ladder[t].attempt \in 0..MaxBootRetries /\ ladder[t].reelect \in 0..MaxReelections
        /\ ladder[t].tries \in Nat
        /\ ladder[t].tries
             <= (MaxBootRetries + 1) * ladder[t].reelect + ladder[t].attempt + 1
    BY <1>0, <2>1, <2>4 DEF TabInv, CountInv, LadderSet
  <2>6. ~Alive(t)' /\ ~Requesting(t)'
    BY <2>1, <2>4 DEF Alive, Requesting
  <2>7. ladder[t].tries <= (MaxBootRetries + 1) * (MaxReelections + 1)
    <3>1. /\ ladder[t].reelect < MaxReelections + 1 /\ ladder[t].reelect \in Nat
          /\ MaxReelections + 1 \in Nat /\ MaxBootRetries \in Nat
      BY <2>5
    <3>2. (MaxBootRetries + 1) * ladder[t].reelect + MaxBootRetries + 1
             <= (MaxBootRetries + 1) * (MaxReelections + 1)
      BY <3>1, Rungs
    <3>3. (MaxBootRetries + 1) * ladder[t].reelect \in Nat
      BY <2>5
    <3>4. (MaxBootRetries + 1) * (MaxReelections + 1) \in Nat
      BY Products
    <3>. QED
      BY <2>5, <3>2, <3>3, <3>4
  <2>8. CASE ProbeTerminal(t) \/ ProbeGivesUp(t)
    <3>1. /\ holder' # t /\ ladder'[t].gaveUp /\ ~ladder'[t].probing
          /\ ~ladder'[t].retryTimer /\ ~ladder'[t].reelectTimer
          /\ ladder'[t].tries = ladder[t].tries
      <4>1. CASE ProbeTerminal(t)
        BY <2>4, <4>1 DEF ProbeTerminal, AfterResign, LadderSet
      <4>2. CASE ProbeGivesUp(t)
        BY <2>4, <4>2 DEF ProbeGivesUp, AfterResign, LadderSet
      <4>. QED
        BY <2>8, <4>1, <4>2
    <3>. QED
      BY <1>0, <2>1, <2>3, <2>4, <2>6, <2>7, <3>1, SameInv
         DEF ElectionInv, TabInv, OneStep, LockInv, CountInv, Busy
  <2>9. CASE ProbeRetries(t)
    <3>1. /\ holder' = holder /\ ~ladder'[t].gaveUp /\ ~ladder'[t].probing
          /\ ladder'[t].retryTimer /\ ~ladder'[t].reelectTimer
          /\ ladder'[t].tries = ladder[t].tries /\ ladder'[t].reelect = ladder[t].reelect
          /\ ladder'[t].attempt = ladder[t].attempt + 1
      BY <2>4, <2>9 DEF ProbeRetries, electionVars, LadderSet
    <3>2. (MaxBootRetries + 1) * ladder[t].reelect \in Nat
      BY <2>5
    <3>3. CountInv(t)'
      BY <2>5, <3>1, <3>2 DEF CountInv
    <3>4. (OneStep(t) /\ LockInv(t))'
      BY <1>0, <2>1, <2>4, <2>6, <3>1 DEF TabInv, OneStep, LockInv, Busy
    <3>. QED
      BY <1>0, <2>1, <2>3, <3>3, <3>4, SameInv DEF ElectionInv, TabInv
  <2>10. CASE ProbeReelects(t)
    <3>1. /\ holder' # t /\ ~ladder'[t].gaveUp /\ ~ladder'[t].probing
          /\ ~ladder'[t].retryTimer /\ ladder'[t].reelectTimer
          /\ ladder'[t].tries = ladder[t].tries /\ ladder'[t].reelect = ladder[t].reelect + 1
          /\ ladder'[t].attempt = 0 /\ ladder[t].attempt = MaxBootRetries
      BY <2>4, <2>5, <2>10 DEF ProbeReelects, AfterResign, LadderSet
    <3>2. /\ (MaxBootRetries + 1) * ladder[t].reelect \in Nat
          /\ (MaxBootRetries + 1) * (ladder[t].reelect + 1)
                = (MaxBootRetries + 1) * ladder[t].reelect + MaxBootRetries + 1
      <4>1. /\ ladder[t].reelect \in Nat /\ ladder[t].reelect + 1 \in Nat
            /\ ladder[t].reelect < ladder[t].reelect + 1 /\ MaxBootRetries \in Nat
        BY <2>5
      <4>. QED
        BY <4>1, Rungs
    <3>3. CountInv(t)'
      BY <2>5, <3>1, <3>2 DEF CountInv
    <3>4. (OneStep(t) /\ LockInv(t))'
      BY <1>0, <2>1, <2>4, <2>6, <3>1 DEF TabInv, OneStep, LockInv, Busy
    <3>. QED
      BY <1>0, <2>1, <2>3, <3>3, <3>4, SameInv DEF ElectionInv, TabInv
  <2>. QED
    BY <1>5, <2>8, <2>9, <2>10 DEF Probe
<1>. QED
  BY <1>1, <1>2, <1>3, <1>4, <1>5

-------------------------------------------------------------------------------
(* The theorems.                                                            *)

LEMMA ElectionInit == Init => TypeOK /\ ElectionInv
<1> SUFFICES ASSUME Init PROVE TypeOK /\ ElectionInv
  OBVIOUS
<1>1. TypeOK
  BY FreshTypes DEF Init, TypeOK
<1>2. Distinct(waiters) /\ \A t \in Tab : ~Requesting(t)
  BY DEF Init, Distinct, Requesting, Range
<1>3. \A t \in Tab : /\ ~Busy(t) /\ ~ladder[t].reelectTimer /\ ~ladder[t].gaveUp
                     /\ holder # t /\ ladder[t].tries = 0 /\ ladder[t].attempt = 0
                     /\ ladder[t].reelect = 0 /\ ~ladder[t].probing
  BY TabsAssumption DEF Init, Busy, Alive, NewWorker, NoWorker, NewLadder
<1>4. \A t \in Tab : TabInv(t)
  BY <1>2, <1>3, Products DEF TabInv, OneStep, LockInv, CountInv, Busy
<1>. QED
  BY <1>1, <1>2, <1>4 DEF ElectionInv

LEMMA ElectionStep == TypeOK /\ ElectionInv /\ [Next]_vars => TypeOK' /\ ElectionInv'
<1> SUFFICES ASSUME TypeOK, ElectionInv, [Next]_vars PROVE TypeOK' /\ ElectionInv'
  OBVIOUS
<1>1. TypeOK'
  BY TypeStep DEF ElectionInv
<1>2. CASE UNCHANGED vars
  <2>1. \A t \in Tab : Same(t)
    BY <1>2 DEF vars, electionVars, Same, Requesting
  <2>2. Distinct(waiters')
    BY <1>2 DEF vars, electionVars, ElectionInv
  <2>3. ASSUME NEW t \in Tab PROVE TabInv(t)'
    BY <2>1, SameInv DEF ElectionInv
  <2>. QED
    BY <1>1, <2>2, <2>3 DEF ElectionInv
<1>3. CASE Grant
  <2>1. Head(waiters) \in Tab
    BY <1>3, QueueTail DEF Grant, TypeOK, ElectionInv
  <2>2. PICK t \in Tab : t = Head(waiters)
    BY <2>1
  <2>. QED
    BY <1>1, <1>3, <2>2, LockStep
<1>4. ASSUME NEW t \in Tab,
             \/ Open(t) \/ Close(t) \/ Destroy(t) \/ Reload(t)
             \/ BootSucceeds(t) \/ BootFails(t) \/ WorkerCrashes(t)
             \/ Probe(t) \/ RetryTimer(t) \/ ReelectTimer(t)
             \/ Request(t) \/ Ping(t) \/ Refuse(t) \/ Run(t) \/ Answer(t)
             \/ ReceiveResponse(t) \/ ReceiveReady(t) \/ Timeout(t)
      PROVE  ElectionInv'
  BY <1>4, LockStep, LadderStep, TrafficStep
<1>. QED
  BY <1>1, <1>2, <1>3, <1>4 DEF Next

\* The inductive invariant.
THEOREM Election == Spec => [](TypeOK /\ ElectionInv)
BY ElectionInit, ElectionStep, PTL DEF Spec

\* Every reachable state of the tabs is well typed.
THEOREM TypeCorrect == Spec => []TypeOK
BY Election, PTL

\* One worker owns the database: it lives in the tab that holds the lock.
THEOREM OneOwner == Spec => []OwnerHoldsLock
<1>1. ElectionInv => OwnerHoldsLock
  BY DEF ElectionInv, TabInv, LockInv, Busy, OwnerHoldsLock
<1>. QED
  BY <1>1, Election, PTL

\* The lock is never held by a tab that will do nothing more with it.
THEOREM LockIsUsed == Spec => []HolderIsBusy
<1>1. TypeOK /\ ElectionInv => HolderIsBusy
  BY DEF ElectionInv, TabInv, LockInv, Busy, HolderIsBusy, TypeOK
<1>. QED
  BY <1>1, Election, PTL

\* Retries times re-elections bound the boots that fail before a tab hears of a leader.
THEOREM BoundedBoots == Spec => []BootsAreBounded
<1>1. ASSUME TypeOK, ElectionInv PROVE BootsAreBounded
  <2> SUFFICES ASSUME NEW t \in Tab
               PROVE  ladder[t].tries <= (MaxBootRetries + 1) * (MaxReelections + 1)
    BY DEF BootsAreBounded
  <2>1. /\ CountInv(t) /\ ladder[t].attempt \in 0..MaxBootRetries
        /\ ladder[t].reelect \in 0..MaxReelections /\ ladder[t].tries \in Nat
    BY <1>1 DEF TypeOK, LadderSet, ElectionInv, TabInv
  <2>2. /\ ladder[t].reelect < MaxReelections + 1 /\ ladder[t].reelect \in Nat
        /\ MaxReelections + 1 \in Nat /\ MaxBootRetries \in Nat
    BY <2>1, TabsAssumption
  <2>3. /\ (MaxBootRetries + 1) * ladder[t].reelect + MaxBootRetries + 1
             <= (MaxBootRetries + 1) * (MaxReelections + 1)
        /\ (MaxBootRetries + 1) * ladder[t].reelect \in Nat
    BY <2>2, Rungs
  <2>4. (MaxBootRetries + 1) * (MaxReelections + 1) \in Nat
    BY Products
  <2>. QED
    BY <2>1, <2>2, <2>3, <2>4 DEF CountInv
<1>. QED
  BY <1>1, Election, PTL

\* A step that neither ends an open tab nor brings it news keeps it in the election.
LEMMA StandingStep ==
    ASSUME TypeOK, ElectionInv, Next, NEW t \in Tab,
           Standing(t), tab[t] = "open", tab'[t] = "open",
           client'[t].epoch = client[t].epoch, ~ladder'[t].gaveUp
    PROVE  Standing(t)'
<1> USE DEF TypeOK
<1>0. /\ Distinct(waiters) /\ TabInv(t) /\ holder \in Tab \cup {None}
      /\ ladder[t] \in LadderSet /\ client[t] \in ClientSet
  BY DEF ElectionInv
<1>1. ASSUME holder = t => holder' = t, Requesting(t) => Requesting(t)', ladder'[t] = ladder[t]
      PROVE  Standing(t)'
  BY <1>1 DEF Standing
<1>2. CASE Grant
  <2>1. CASE t = Head(waiters)
    BY <1>2, <2>1 DEF Grant, Standing
  <2>2. CASE t # Head(waiters)
    <3>1. Range(Tail(waiters)) = Range(waiters) \ {Head(waiters)}
      BY <1>0, <1>2, QueueTail DEF Grant
    <3>. QED
      BY <1>1, <1>2, <2>2, <3>1, TabsAssumption DEF Grant, Requesting
  <2>. QED
    BY <2>1, <2>2
<1> SUFFICES ASSUME NEW v \in Tab,
                    \/ Open(v) \/ Close(v) \/ Destroy(v) \/ Reload(v)
                    \/ BootSucceeds(v) \/ BootFails(v) \/ WorkerCrashes(v)
                    \/ Probe(v) \/ RetryTimer(v) \/ ReelectTimer(v)
                    \/ Request(v) \/ Ping(v) \/ Refuse(v) \/ Run(v) \/ Answer(v)
                    \/ ReceiveResponse(v) \/ ReceiveReady(v) \/ Timeout(v)
             PROVE  Standing(t)'
  BY <1>2 DEF Next
<1>3. CASE Open(v)
  <2>1. Requesting(t) => Requesting(t)'
    <3>1. Range(waiters) \subseteq Range(Append(waiters, v))
      <4>1. \A k \in DOMAIN waiters : k \in DOMAIN Append(waiters, v)
                                      /\ Append(waiters, v)[k] = waiters[k]
        OBVIOUS
      <4>. QED
        BY <4>1 DEF Range
    <3>. QED
      BY <1>3, <3>1 DEF Open, Requesting
  <2>. QED
    BY <1>1, <1>3, <2>1 DEF Open
<1>4. CASE Close(v) \/ Reload(v)
  <2>1. /\ tab' = [tab EXCEPT ![v] = "closed"]
        /\ holder' = AfterResign(v)
        /\ waiters' = Withdrawn(v)
        /\ ladder' = [ladder EXCEPT ![v] = NewLadder]
    BY <1>4 DEF Close, Reload, Leave
  <2>2. v # t
    BY <2>1
  <2>3. Range(waiters') = Range(waiters) \ {v}
    BY <1>0, <2>1, QueueWithdraw
  <2>. QED
    BY <1>1, <2>1, <2>2, <2>3 DEF AfterResign, Requesting
<1>5. CASE Destroy(v)
  <2>1. v # t
    BY <1>5 DEF Destroy
  <2>. QED
    BY <1>1, <1>5, <2>1 DEF Destroy, AfterResign, Requesting
<1>6. CASE \/ BootSucceeds(v) \/ Request(v) \/ Ping(v) \/ Refuse(v) \/ Run(v) \/ Answer(v)
           \/ ReceiveResponse(v) \/ Timeout(v)
  <2>1. holder' = holder /\ waiters' = waiters /\ ladder' = ladder
    BY <1>6 DEF BootSucceeds, Request, Ping, Refuse, Run, Answer, ReceiveResponse, Timeout,
       electionVars
  <2>. QED
    BY <1>1, <2>1 DEF Requesting
<1>7. CASE v # t /\ (BootFails(v) \/ WorkerCrashes(v) \/ Probe(v) \/ RetryTimer(v)
                     \/ ReceiveReady(v))
  <2>1. ladder'[t] = ladder[t] /\ waiters' = waiters /\ holder' \in {holder, AfterResign(v)}
    BY <1>7 DEF BootFails, WorkerCrashes, HandleFailure, Probe, ProbeTerminal, ProbeRetries,
       ProbeReelects, ProbeGivesUp, RetryTimer, ReceiveReady, electionVars
  <2>. QED
    BY <1>1, <1>7, <2>1 DEF AfterResign, Requesting
<1>8. CASE BootFails(t) \/ WorkerCrashes(t)
  BY <1>0, <1>8 DEF BootFails, WorkerCrashes, HandleFailure, Standing, LadderSet
<1>9. CASE Probe(t)
  BY <1>0, <1>9 DEF Probe, ProbeTerminal, ProbeRetries, ProbeReelects, ProbeGivesUp, Standing,
     LadderSet
<1>10. CASE RetryTimer(t)
  <2>1. holder = t
    BY <1>0, <1>10 DEF RetryTimer, TabInv, LockInv, Busy
  <2>. QED
    BY <1>10, <2>1 DEF RetryTimer, electionVars, Standing
<1>11. CASE ReelectTimer(v)
  <2>1. ladder[v].reelectTimer /\ holder' = holder
        /\ ladder' = [ladder EXCEPT ![v].reelectTimer = FALSE]
    BY <1>11 DEF ReelectTimer
  <2>2. \A u \in Tab : Requesting(u) => Requesting(u)'
    <3>1. Range(waiters) \subseteq Range(Append(waiters, v))
      <4>1. \A k \in DOMAIN waiters : k \in DOMAIN Append(waiters, v)
                                      /\ Append(waiters, v)[k] = waiters[k]
        OBVIOUS
      <4>. QED
        BY <4>1 DEF Range
    <3>. QED
      BY <1>11, <3>1 DEF ReelectTimer, Requesting
  <2>3. CASE v # t
    BY <1>1, <2>1, <2>2, <2>3
  <2>4. CASE v = t
    <3>1. v \in Range(Append(waiters, v))
      <4>1. Len(waiters) + 1 \in DOMAIN Append(waiters, v)
            /\ Append(waiters, v)[Len(waiters) + 1] = v
        OBVIOUS
      <4>. QED
        BY <4>1 DEF Range
    <3>2. holder = t \/ Requesting(t)'
      BY <1>11, <2>4, <3>1 DEF ReelectTimer, Requesting
    <3>. QED
      BY <2>1, <3>2 DEF Standing
  <2>. QED
    BY <2>3, <2>4
<1>12. CASE ReceiveReady(t)
  <2>1. ladder'[t] = ladder[t] /\ holder' = holder /\ waiters' = waiters
    <3>1. client'[t].epoch = Head(client[t].inbox).epoch
      BY <1>0, <1>12 DEF ReceiveReady, ClientSet
    <3>. QED
      BY <1>12, <3>1 DEF ReceiveReady, electionVars
  <2>. QED
    BY <1>1, <2>1 DEF Requesting
<1>. QED
  BY <1>3, <1>4, <1>5, <1>6, <1>7, <1>8, <1>9, <1>10, <1>11, <1>12

\* A tab leaves the election only for a leader, a failure panel or its own end.
THEOREM NoSilentExit == Spec => LeavesOnlyForALeader
<1> DEFINE Leaves(t) ==
       Standing(t) /\ tab[t] = "open" /\ ~Standing(t)' =>
           \/ ladder'[t].gaveUp
           \/ client'[t].epoch # client[t].epoch
           \/ tab'[t] # "open"
<1>1. ASSUME TypeOK, ElectionInv, [Next]_vars
      PROVE  [\A t \in Tab : Leaves(t)]_vars
  BY <1>1, StandingStep
<1>. QED
  BY <1>1, Election, PTL DEF LeavesOnlyForALeader, Spec

-------------------------------------------------------------------------------
(* Calls: how often a worker runs one.                                      *)

\* How often x is in the sequence q.
Times(q, x) == Cardinality({k \in DOMAIN q : q[k] = x})

\* Where the readies are in a tab's inbox.
News(q) == {k \in DOMAIN q : q[k].kind = "ready"}

\* No call outstanding in x was posted under e, as c has the calls.
Unposted(x, e, c) == \A i \in x.pending : e \notin c[i].under

\* A leader's readies come together, and those of a leader the tab does not know yet are of
\* one its calls were never posted under.
Orderly(x, c) ==
    LET q == x.inbox
    IN  /\ \A j, k \in News(q) : j < k /\ q[j].epoch # x.epoch => q[k].epoch # x.epoch
        /\ \A j, k, l \in News(q) :
              j < k /\ k < l /\ q[j].epoch = q[l].epoch => q[k].epoch = q[j].epoch
        /\ \A k \in News(q) : q[k].epoch # x.epoch => Unposted(x, q[k].epoch, c)

\* Worker e serves: what the tab hears after its ready are readies of e again.
Leads(x, e, c) ==
    LET q == x.inbox
    IN  /\ x.epoch = e => \A k \in News(q) : q[k].epoch = e
        /\ x.epoch # e => Unposted(x, e, c)
        /\ \A j, k \in News(q) : j < k /\ q[j].epoch = e => q[k].epoch = e

\* Worker e has not been heard of.
Unheard(x, e, c) ==
    x.epoch # e /\ Unposted(x, e, c) /\ \A k \in News(x.inbox) : x.inbox[k].epoch # e

Bounded(x, n) == x.epoch <= n /\ \A k \in News(x.inbox) : x.inbox[k].epoch <= n

ClientInv(t) ==
    /\ Bounded(client[t], spawned) /\ Orderly(client[t], call)
    /\ \A i \in client[t].pending : call[i].by = t
    /\ \A u \in Tab :
          /\ worker[u].ready => Leads(client[t], worker[u].epoch, call)
          /\ Alive(u) /\ ~worker[u].ready => Unheard(client[t], worker[u].epoch, call)

\* Workers are told apart by their epochs.
WorkersInv ==
    /\ \A u \in Tab : /\ worker[u].epoch <= spawned
                      /\ ~Alive(u) => ~worker[u].ready
    /\ \A u, v \in Tab : /\ Alive(u) /\ worker[u].epoch = worker[v].epoch => u = v
                         /\ worker[u].ready /\ worker[v].ready => u = v

\* What worker u ran of a call, and what it has yet to read, was posted to it once an epoch.
CallInv(i) ==
    /\ call[i].under \subseteq 0..spawned /\ \A e \in Range(runs[i]) : e <= spawned
    /\ \A e \in Nat : Times(runs[i], e) <= Cardinality(call[i].under)
    /\ \A u \in Tab : Alive(u) =>
          Times(runs[i], worker[u].epoch) + Times(worker[u].inbox, i)
              <= Cardinality(call[i].under)

PostInv == WorkersInv /\ (\A t \in Tab : ClientInv(t)) /\ (\A i \in Calls : CallInv(i))

-------------------------------------------------------------------------------
(* How often a call is in a sequence.                                       *)

LEMMA TimesType ==
    ASSUME NEW S, NEW q \in Seq(S), NEW x
    PROVE  IsFiniteSet({k \in DOMAIN q : q[k] = x}) /\ Times(q, x) \in Nat
<1>1. DOMAIN q = 1..Len(q) /\ Len(q) \in Nat
  OBVIOUS
<1>2. IsFiniteSet(1..Len(q)) /\ {k \in DOMAIN q : q[k] = x} \in SUBSET (1..Len(q))
  BY <1>1, FS_Interval
<1>. QED
  BY <1>2, FS_Subset, FS_CardinalityType DEF Times

LEMMA TimesAppend ==
    ASSUME NEW S, NEW q \in Seq(S), NEW y \in S, NEW x
    PROVE  Times(Append(q, y), x) = Times(q, x) + (IF y = x THEN 1 ELSE 0)
<1> DEFINE a == Append(q, y)
           n == Len(q) + 1
           I == {k \in DOMAIN q : q[k] = x}
           J == {k \in DOMAIN a : a[k] = x}
<1>1. /\ DOMAIN q = 1..Len(q) /\ Len(q) \in Nat /\ DOMAIN a = 1..n
      /\ a[n] = y /\ \A k \in 1..Len(q) : a[k] = q[k]
  OBVIOUS
<1>2. IsFiniteSet(I) /\ Cardinality(I) \in Nat
  BY TimesType DEF Times
<1>5. Times(Append(q, y), x) = Cardinality(J) /\ Times(q, x) = Cardinality(I)
  BY DEF Times
<1>. HIDE DEF a
<1>3. CASE y = x
  <2>1. J = I \cup {n} /\ n \notin I
    BY <1>1, <1>3
  <2>. QED
    BY <1>2, <1>3, <1>5, <2>1, FS_AddElement
<1>4. CASE y # x
  <2>1. J = I
    BY <1>1, <1>4
  <2>. HIDE DEF I, J
  <2>. QED
    BY <1>2, <1>4, <1>5, <2>1
<1>. QED
  BY <1>3, <1>4

LEMMA TimesTail ==
    ASSUME NEW S, NEW q \in Seq(S), q # <<>>, NEW x
    PROVE  Times(Tail(q), x) + (IF Head(q) = x THEN 1 ELSE 0) <= Times(q, x)
<1> DEFINE a == Tail(q)
           I == {k \in DOMAIN q : q[k] = x}
           J == {k \in DOMAIN a : a[k] = x}
           f == [k \in J |-> k + 1]
<1>1. /\ DOMAIN q = 1..Len(q) /\ Len(q) \in Nat \ {0} /\ DOMAIN a = 1..(Len(q) - 1)
      /\ \A k \in 1..(Len(q) - 1) : a[k] = q[k + 1]
      /\ Head(q) = q[1] /\ a \in Seq(S)
  OBVIOUS
<1>2. /\ IsFiniteSet(I) /\ Cardinality(I) \in Nat
      /\ IsFiniteSet(J) /\ Cardinality(J) \in Nat
  BY <1>1, TimesType DEF Times
<1>6. Times(Tail(q), x) = Cardinality(J) /\ Times(q, x) = Cardinality(I)
  BY DEF Times
<1>. HIDE DEF a
<1>3. /\ IsFiniteSet(I \ {1})
      /\ Cardinality(I \ {1}) = Cardinality(I) - (IF Head(q) = x THEN 1 ELSE 0)
  <2>1. 1 \in I <=> Head(q) = x
    BY <1>1
  <2>. HIDE DEF I
  <2>. QED
    BY <1>2, <2>1, FS_RemoveElement
<1>4. f \in Injection(J, I \ {1})
  <2>1. \A k \in J : k + 1 \in I \ {1} /\ k \in Nat
    BY <1>1
  <2>. QED
    BY <2>1 DEF Injection, IsInjective
<1>5. Cardinality(J) <= Cardinality(I \ {1})
  BY <1>3, <1>4, FS_Injection
<1>. QED
  BY <1>2, <1>3, <1>5, <1>6

\* Calls posted again come once each.
LEMMA TimesPosted ==
    ASSUME NEW S \in SUBSET Calls, NEW p \in InOrder(S), NEW q \in Seq(Calls), NEW x
    PROVE  /\ Times(q \o p, x) <= Times(q, x) + (IF x \in S THEN 1 ELSE 0)
           /\ Times(q \o p, x) \in Nat /\ Times(q, x) \in Nat
<1> DEFINE a == q \o p
           n == Len(q)
           I == {k \in DOMAIN q : q[k] = x}
           J == {k \in DOMAIN a : a[k] = x}
<1>1. /\ IsFiniteSet(Calls) /\ Cardinality(S) \in Nat
      /\ p \in [1..Cardinality(S) -> S] /\ p \in Seq(Calls) /\ Len(p) = Cardinality(S)
  <2>1. IsFiniteSet(Calls)
    BY TabsAssumption, FS_Interval DEF Calls
  <2>2. Cardinality(S) \in Nat /\ p \in [1..Cardinality(S) -> S]
    BY <2>1, FS_Subset, FS_CardinalityType DEF InOrder
  <2>. QED
    BY <2>1, <2>2, SeqDef
<1>2. \A j, k \in DOMAIN p : p[j] = p[k] => j = k
  <2>1. \A j, k \in DOMAIN p : j < k => p[j] < p[k]
    BY DEF InOrder
  <2>2. \A j \in DOMAIN p : j \in Nat /\ p[j] \in Nat /\ p[j] \in S
    <3>1. \A y \in Calls : y \in Nat
      BY TabsAssumption DEF Calls
    <3>. QED
      BY <1>1, <3>1
  <2>. QED
    BY <2>1, <2>2
<1>3. /\ DOMAIN q = 1..n /\ n \in Nat /\ DOMAIN p = 1..Len(p)
      /\ a \in Seq(Calls) /\ DOMAIN a = 1..(n + Len(p)) /\ Len(p) \in Nat
      /\ \A k \in 1..n : a[k] = q[k]
      /\ \A k \in 1..Len(p) : a[n + k] = p[k]
  <2>1. Len(p) \in Nat /\ n \in Nat /\ DOMAIN q = 1..n /\ DOMAIN p = 1..Len(p)
    BY <1>1
  <2>2. /\ a \in Seq(Calls) /\ Len(a) = n + Len(p)
        /\ \A k \in 1..(n + Len(p)) : a[k] = IF k <= n THEN q[k] ELSE p[k - n]
    BY <1>1, ConcatProperties
  <2>3. DOMAIN a = 1..(n + Len(p))
    BY <2>2
  <2>. HIDE DEF a, n
  <2>4. \A k \in 1..n : a[k] = q[k]
    BY <2>1, <2>2
  <2>5. \A k \in 1..Len(p) : a[n + k] = p[k]
    <3>1. \A k \in 1..Len(p) : n + k \in 1..(n + Len(p)) /\ ~(n + k <= n) /\ (n + k) - n = k
      BY <2>1
    <3>. QED
      BY <2>2, <3>1
  <2>. QED
    BY <2>1, <2>2, <2>3, <2>4, <2>5
<1>4. IsFiniteSet(I) /\ Cardinality(I) \in Nat /\ Cardinality(J) \in Nat
  BY <1>3, TimesType DEF Times
<1>9. Times(q \o p, x) = Cardinality(J) /\ Times(q, x) = Cardinality(I)
  BY DEF Times
<1>. HIDE DEF a
<1>5. \A k \in J : k \in I \/ (k - n \in 1..Len(p) /\ p[k - n] = x /\ k > n /\ k \in Nat)
  BY <1>3
<1>6. \A k \in I : k \in J /\ k <= n
  BY <1>3
<1>7. CASE \E k \in J : k \notin I
  <2>1. PICK k \in J : k \notin I
    BY <1>7
  <2>2. x \in S /\ k \in Nat /\ k - n \in DOMAIN p /\ p[k - n] = x
    BY <1>1, <1>3, <1>5, <2>1
  <2>3. J = I \cup {k}
    <3>1. ASSUME NEW j \in J, j \notin I PROVE j = k
      <4>1. j \in Nat /\ j - n \in DOMAIN p /\ p[j - n] = x
        BY <1>3, <1>5, <3>1
      <4>2. j - n = k - n
        BY <1>2, <2>2, <4>1
      <4>. QED
        BY <1>3, <2>2, <4>1, <4>2
    <3>. QED
      BY <1>6, <2>1, <3>1
  <2>4. Cardinality(J) = Cardinality(I) + 1
    BY <1>4, <2>1, <2>3, FS_AddElement
  <2>. QED
    BY <1>4, <1>9, <2>2, <2>4
<1>8. CASE \A k \in J : k \in I
  <2>1. J = I
    BY <1>6, <1>8
  <2>. HIDE DEF I, J
  <2>. QED
    BY <1>4, <1>9, <2>1
<1>. QED
  BY <1>7, <1>8

-------------------------------------------------------------------------------
(* What a tab hears of leaders.                                             *)

\* What client y keeps of what x has to hear, at a distance n in the inbox.
Keeps(x, y, n) ==
    /\ y.epoch = x.epoch /\ y.pending \subseteq x.pending
    /\ \A k \in News(y.inbox) :
          k + n \in News(x.inbox) /\ y.inbox[k].epoch = x.inbox[k + n].epoch

\* The calls of x were posted under no more epochs in d than in c.
SameUnder(x, c, d) == \A i \in x.pending : d[i].under \subseteq c[i].under

LEMMA NewsType ==
    ASSUME NEW S, NEW q \in Seq(S)
    PROVE  \A k \in News(q) : k \in 1..Len(q) /\ k \in Nat
BY DEF News

\* A client that hears less is as orderly.
LEMMA HearsLess ==
    ASSUME NEW x \in ClientSet, NEW y \in ClientSet, NEW n \in Nat, NEW c, NEW d,
           Keeps(x, y, n), SameUnder(y, c, d)
    PROVE  /\ Orderly(x, c) => Orderly(y, d)
           /\ \A m : Bounded(x, m) => Bounded(y, m)
           /\ \A e : Leads(x, e, c) => Leads(y, e, d)
           /\ \A e : Unheard(x, e, c) => Unheard(y, e, d)
<1>1. x.inbox \in Seq(Message) /\ y.inbox \in Seq(Message)
  BY DEF ClientSet
<1>2. /\ y.epoch = x.epoch
      /\ \A k \in News(y.inbox) :
            k + n \in News(x.inbox) /\ y.inbox[k].epoch = x.inbox[k + n].epoch
      /\ \A k \in News(y.inbox) : k \in Nat
  BY <1>1, NewsType DEF Keeps
<1>3. \A j, k \in News(y.inbox) : j < k => j + n < k + n
  BY <1>2
<1>4. \A e : Unposted(x, e, c) => Unposted(y, e, d)
  BY DEF Unposted, Keeps, SameUnder
<1>5. ASSUME Orderly(x, c) PROVE Orderly(y, d)
  <2>. DEFINE p == x.inbox
              q == y.inbox
  <2>1. /\ \A j, k \in News(p) : j < k /\ p[j].epoch # x.epoch => p[k].epoch # x.epoch
        /\ \A j, k, l \in News(p) :
              j < k /\ k < l /\ p[j].epoch = p[l].epoch => p[k].epoch = p[j].epoch
        /\ \A k \in News(p) : p[k].epoch # x.epoch => Unposted(x, p[k].epoch, c)
    BY <1>5 DEF Orderly
  <2>2. /\ \A k \in News(q) : k + n \in News(p) /\ q[k].epoch = p[k + n].epoch
        /\ \A j, k \in News(q) : j < k => j + n < k + n
    BY <1>2, <1>3
  <2>. HIDE DEF p, q
  <2>3. \A j, k \in News(q) : j < k /\ q[j].epoch # y.epoch => q[k].epoch # y.epoch
    BY <1>2, <2>1, <2>2
  <2>4. \A j, k, l \in News(q) :
           j < k /\ k < l /\ q[j].epoch = q[l].epoch => q[k].epoch = q[j].epoch
    <3>1. SUFFICES ASSUME NEW j \in News(q), NEW k \in News(q), NEW l \in News(q),
                          j < k, k < l, q[j].epoch = q[l].epoch
                   PROVE  q[k].epoch = q[j].epoch
      OBVIOUS
    <3>2. /\ j + n \in News(p) /\ k + n \in News(p) /\ l + n \in News(p)
          /\ j + n < k + n /\ k + n < l + n
          /\ q[j].epoch = p[j + n].epoch /\ q[k].epoch = p[k + n].epoch
          /\ q[l].epoch = p[l + n].epoch
      BY <2>2, <3>1
    <3>. QED
      BY <2>1, <3>1, <3>2
  <2>5. \A k \in News(q) : q[k].epoch # y.epoch => Unposted(y, q[k].epoch, d)
    BY <1>2, <1>4, <2>1, <2>2
  <2>. QED
    BY <2>3, <2>4, <2>5 DEF Orderly, p, q
<1>6. ASSUME NEW m, Bounded(x, m) PROVE Bounded(y, m)
  BY <1>2, <1>6 DEF Bounded
<1>7. ASSUME NEW e, Leads(x, e, c) PROVE Leads(y, e, d)
  <2>1. x.epoch = e => \A k \in News(y.inbox) : y.inbox[k].epoch = e
    BY <1>2, <1>7 DEF Leads
  <2>2. x.epoch # e => Unposted(y, e, d)
    BY <1>4, <1>7 DEF Leads
  <2>3. \A j, k \in News(y.inbox) : j < k /\ y.inbox[j].epoch = e => y.inbox[k].epoch = e
    <3>1. \A j, k \in News(x.inbox) : j < k /\ x.inbox[j].epoch = e => x.inbox[k].epoch = e
      BY <1>7 DEF Leads
    <3>. QED
      BY <1>2, <1>3, <3>1
  <2>. QED
    BY <1>2, <2>1, <2>2, <2>3 DEF Leads
<1>8. ASSUME NEW e, Unheard(x, e, c) PROVE Unheard(y, e, d)
  BY <1>2, <1>4, <1>8 DEF Unheard
<1>. QED
  BY <1>5, <1>6, <1>7, <1>8

\* A response in the inbox, or gone from it, or a ready gone, is less to hear of leaders.
LEMMA LessNews ==
    ASSUME NEW q \in Seq(Message)
    PROVE  /\ \A msg \in Message : msg.kind = "res" =>
                 /\ News(Append(q, msg)) = News(q)
                 /\ \A k \in News(q) : Append(q, msg)[k] = q[k]
           /\ q # <<>> => \A k \in News(Tail(q)) :
                 k + 1 \in News(q) /\ Tail(q)[k] = q[k + 1] /\ k + 1 > 1
<1>1. ASSUME NEW msg \in Message, msg.kind = "res"
      PROVE  /\ News(Append(q, msg)) = News(q)
             /\ \A k \in News(q) : Append(q, msg)[k] = q[k]
  <2>. DEFINE a == Append(q, msg)
  <2>1. /\ DOMAIN q = 1..Len(q) /\ Len(q) \in Nat /\ DOMAIN a = 1..(Len(q) + 1)
        /\ a[Len(q) + 1] = msg /\ \A k \in 1..Len(q) : a[k] = q[k]
    OBVIOUS
  <2>. HIDE DEF a
  <2>2. /\ \A k \in DOMAIN a : k = Len(q) + 1 \/ k \in DOMAIN q
        /\ \A k \in DOMAIN q : k \in DOMAIN a /\ a[k] = q[k]
    BY <2>1
  <2>3. a[Len(q) + 1].kind # "ready"
    BY <1>1, <2>1
  <2>4. News(a) = News(q)
    BY <2>2, <2>3 DEF News
  <2>5. \A k \in News(q) : a[k] = q[k]
    BY <2>2 DEF News
  <2>. QED
    BY <2>4, <2>5 DEF a
<1>2. ASSUME q # <<>>, NEW k \in News(Tail(q))
      PROVE  k + 1 \in News(q) /\ Tail(q)[k] = q[k + 1] /\ k + 1 > 1
  <2>1. /\ DOMAIN q = 1..Len(q) /\ Len(q) \in Nat \ {0} /\ DOMAIN Tail(q) = 1..(Len(q) - 1)
        /\ \A j \in 1..(Len(q) - 1) : Tail(q)[j] = q[j + 1]
    BY <1>2
  <2>2. k \in 1..(Len(q) - 1) /\ Tail(q)[k].kind = "ready"
    BY <1>2, <2>1 DEF News
  <2>3. k + 1 \in DOMAIN q /\ Tail(q)[k] = q[k + 1] /\ k + 1 > 1
    BY <2>1, <2>2
  <2>. QED
    BY <2>2, <2>3 DEF News
<1>. QED
  BY <1>1, <1>2

\* Nothing changes, less is outstanding, a response comes, or the first message is dropped.
LEMMA HearsLessHere ==
    ASSUME NEW x \in ClientSet, NEW P \in SUBSET x.pending
    PROVE  /\ Keeps(x, x, 0)
           /\ Keeps(x, [x EXCEPT !.pending = P], 0)
           /\ \A msg \in Message : msg.kind = "res" =>
                 Keeps(x, [x EXCEPT !.inbox = Append(@, msg)], 0)
           /\ x.inbox # <<>> =>
                 Keeps(x, [x EXCEPT !.inbox = Tail(@), !.pending = P], 1)
<1>1. /\ x.inbox \in Seq(Message) /\ x.pending \in SUBSET Calls /\ x.epoch \in Nat
      /\ x = [epoch |-> x.epoch, pending |-> x.pending, inbox |-> x.inbox]
  BY DEF ClientSet
<1>2. \A k \in News(x.inbox) : k + 0 = k
  BY <1>1, NewsType
<1>3. Keeps(x, x, 0)
  BY <1>2 DEF Keeps
<1>4. Keeps(x, [x EXCEPT !.pending = P], 0)
  <2>. DEFINE y == [x EXCEPT !.pending = P]
  <2>1. y.epoch = x.epoch /\ y.pending = P /\ y.inbox = x.inbox
    BY <1>1
  <2>. QED
    BY <1>2, <2>1 DEF Keeps
<1>5. ASSUME NEW msg \in Message, msg.kind = "res"
      PROVE  Keeps(x, [x EXCEPT !.inbox = Append(@, msg)], 0)
  <2>. DEFINE y == [x EXCEPT !.inbox = Append(@, msg)]
  <2>1. y.epoch = x.epoch /\ y.pending = x.pending /\ y.inbox = Append(x.inbox, msg)
    BY <1>1
  <2>2. /\ News(y.inbox) = News(x.inbox)
        /\ \A k \in News(x.inbox) : y.inbox[k] = x.inbox[k]
    BY <1>1, <1>5, <2>1, LessNews
  <2>. HIDE DEF y
  <2>3. Keeps(x, y, 0)
    BY <1>2, <2>1, <2>2 DEF Keeps
  <2>. QED
    BY <2>3 DEF y
<1>6. ASSUME x.inbox # <<>>
      PROVE  Keeps(x, [x EXCEPT !.inbox = Tail(@), !.pending = P], 1)
  <2>. DEFINE y == [x EXCEPT !.inbox = Tail(@), !.pending = P]
  <2>1. y.epoch = x.epoch /\ y.pending = P /\ y.inbox = Tail(x.inbox)
    BY <1>1
  <2>2. \A k \in News(y.inbox) : k + 1 \in News(x.inbox) /\ y.inbox[k] = x.inbox[k + 1]
    BY <1>1, <1>6, <2>1, LessNews
  <2>. HIDE DEF y
  <2>3. Keeps(x, y, 1)
    BY <2>1, <2>2 DEF Keeps
  <2>. QED
    BY <2>3 DEF y
<1>. QED
  BY <1>3, <1>4, <1>5, <1>6

\* A new client has heard of nobody.
LEMMA HeardNothing ==
    ASSUME NEW c
    PROVE  /\ Orderly(NewClient, c) /\ \A m \in Nat : Bounded(NewClient, m)
           /\ \A e \in Nat : Leads(NewClient, e, c)
           /\ \A e \in Nat \ {0} : Unheard(NewClient, e, c)
<1>1. NewClient.epoch = 0 /\ NewClient.pending = {} /\ News(NewClient.inbox) = {}
  BY DEF NewClient, News
<1>2. \A e : Unposted(NewClient, e, c)
  BY <1>1 DEF Unposted
<1>. QED
  BY <1>1, <1>2 DEF Orderly, Bounded, Leads, Unheard

\* The serving worker's ready comes in.
LEMMA HearsReady ==
    ASSUME NEW x \in ClientSet, NEW e \in Nat, NEW c, NEW m \in Nat, e <= m,
           Orderly(x, c), Bounded(x, m), Leads(x, e, c)
    PROVE  LET y == [x EXCEPT !.inbox = Append(@, Ready(e))]
           IN  /\ Orderly(y, c) /\ Bounded(y, m) /\ Leads(y, e, c)
               /\ \A f : Unheard(x, f, c) /\ f # e => Unheard(y, f, c)
<1>. DEFINE q == x.inbox
            n == Len(q) + 1
            y == [x EXCEPT !.inbox = Append(@, Ready(e))]
            a == Append(q, Ready(e))
<1>1. /\ q \in Seq(Message) /\ Ready(e) \in Message
      /\ y.epoch = x.epoch /\ y.pending = x.pending /\ y.inbox = a
  BY FreshTypes DEF ClientSet
<1>2. /\ DOMAIN q = 1..Len(q) /\ Len(q) \in Nat /\ DOMAIN a = 1..n
      /\ a[n] = Ready(e) /\ \A k \in 1..Len(q) : a[k] = q[k]
  BY <1>1
<1>3. Ready(e).kind = "ready" /\ Ready(e).epoch = e
  BY DEF Ready
<1>. HIDE DEF a, y, q
<1>4. /\ News(a) = News(q) \cup {n}
      /\ \A k \in News(q) : a[k].epoch = q[k].epoch /\ k < n /\ k \in Nat
      /\ a[n].epoch = e /\ n \in Nat
  <2>1. /\ \A k \in DOMAIN q : k \in DOMAIN a /\ a[k] = q[k] /\ k < n /\ k \in Nat
        /\ \A k \in DOMAIN a : k = n \/ k \in DOMAIN q
        /\ n \in DOMAIN a /\ a[n] = Ready(e) /\ n \in Nat
    BY <1>2
  <2>2. \A k \in News(q) : k \in News(a) /\ a[k] = q[k] /\ k < n /\ k \in Nat
    BY <2>1 DEF News
  <2>3. \A k \in News(a) : k = n \/ k \in News(q)
    BY <2>1 DEF News
  <2>4. n \in News(a)
    BY <1>3, <2>1 DEF News
  <2>. HIDE DEF n
  <2>. QED
    BY <1>3, <2>1, <2>2, <2>3, <2>4
<1>. HIDE DEF n
<1>5. \A f : Unposted(x, f, c) => Unposted(y, f, c)
  BY <1>1 DEF Unposted
<1>6. /\ \A j, k \in News(q) : j < k /\ q[j].epoch # x.epoch => q[k].epoch # x.epoch
      /\ \A j, k, l \in News(q) :
            j < k /\ k < l /\ q[j].epoch = q[l].epoch => q[k].epoch = q[j].epoch
      /\ \A k \in News(q) : q[k].epoch # x.epoch => Unposted(x, q[k].epoch, c)
  BY DEF Orderly, q
<1>7. /\ x.epoch = e => \A k \in News(q) : q[k].epoch = e
      /\ x.epoch # e => Unposted(x, e, c)
      /\ \A j, k \in News(q) : j < k /\ q[j].epoch = e => q[k].epoch = e
  BY DEF Leads, q
<1>8. \A j, k \in News(a) : j < k => j \in News(q)
  BY <1>4
<1>9. Orderly(y, c)
  <2>1. \A j, k \in News(a) : j < k /\ a[j].epoch # y.epoch => a[k].epoch # y.epoch
    BY <1>1, <1>4, <1>6, <1>7, <1>8
  <2>2. \A j, k, l \in News(a) :
           j < k /\ k < l /\ a[j].epoch = a[l].epoch => a[k].epoch = a[j].epoch
    <3>1. SUFFICES ASSUME NEW j \in News(a), NEW k \in News(a), NEW l \in News(a),
                          j < k, k < l, a[j].epoch = a[l].epoch
                   PROVE  a[k].epoch = a[j].epoch
      OBVIOUS
    <3>2. j \in News(q) /\ k \in News(q) /\ a[j].epoch = q[j].epoch /\ a[k].epoch = q[k].epoch
      BY <1>4, <1>8, <3>1
    <3>3. CASE l = n
      BY <1>4, <1>7, <3>1, <3>2, <3>3
    <3>4. CASE l \in News(q)
      BY <1>4, <1>6, <3>1, <3>2, <3>4
    <3>. QED
      BY <1>4, <3>3, <3>4
  <2>3. \A k \in News(a) : a[k].epoch # y.epoch => Unposted(y, a[k].epoch, c)
    BY <1>1, <1>4, <1>5, <1>6, <1>7
  <2>. QED
    BY <1>1, <2>1, <2>2, <2>3 DEF Orderly
<1>10. Bounded(y, m)
  BY <1>1, <1>4 DEF Bounded, q
<1>11. Leads(y, e, c)
  <2>1. \A j, k \in News(a) : j < k /\ a[j].epoch = e => a[k].epoch = e
    BY <1>4, <1>7, <1>8
  <2>2. x.epoch = e => \A k \in News(a) : a[k].epoch = e
    BY <1>4, <1>7
  <2>. QED
    BY <1>1, <1>5, <1>7, <2>1, <2>2 DEF Leads
<1>12. ASSUME NEW f, Unheard(x, f, c), f # e PROVE Unheard(y, f, c)
  BY <1>1, <1>4, <1>5, <1>12 DEF Unheard, q
<1>. QED
  BY <1>9, <1>10, <1>11, <1>12 DEF y

\* A ready of another leader is taken in, and the calls outstanding posted to it.
LEMMA TakesReady ==
    ASSUME NEW x \in ClientSet, NEW c, NEW d, NEW e, x.inbox # <<>>,
           Head(x.inbox).kind = "ready", e = Head(x.inbox).epoch, e # x.epoch,
           Orderly(x, c), \A i \in x.pending : d[i].under \subseteq c[i].under \cup {e}
    PROVE  LET y == [x EXCEPT !.inbox = Tail(@), !.epoch = e]
           IN  /\ Orderly(y, d) /\ Unposted(x, e, c)
               /\ \A m : Bounded(x, m) => Bounded(y, m) /\ e <= m
               /\ \A f : Leads(x, f, c) => Leads(y, f, d)
               /\ \A f : Unheard(x, f, c) => Unheard(y, f, d)
<1>. DEFINE q == x.inbox
            y == [x EXCEPT !.inbox = Tail(@), !.epoch = e]
            a == Tail(q)
<1>1. /\ q \in Seq(Message) /\ y.epoch = e /\ y.pending = x.pending /\ y.inbox = a
  BY DEF ClientSet
<1>2. 1 \in News(q) /\ q[1].epoch = e
  BY <1>1 DEF News
<1>3. /\ \A k \in News(a) : k \in Nat
      /\ \A k \in News(a) : k + 1 \in News(q) /\ a[k].epoch = q[k + 1].epoch /\ k + 1 > 1
  <2>1. a \in Seq(Message)
    BY <1>1
  <2>. QED
    BY <1>1, <2>1, NewsType, LessNews
<1>. HIDE DEF a, y, q
<1>4. /\ \A j, k \in News(q) : j < k /\ q[j].epoch # x.epoch => q[k].epoch # x.epoch
      /\ \A j, k, l \in News(q) :
            j < k /\ k < l /\ q[j].epoch = q[l].epoch => q[k].epoch = q[j].epoch
      /\ \A k \in News(q) : q[k].epoch # x.epoch => Unposted(x, q[k].epoch, c)
  BY DEF Orderly, q
<1>5. \A f : Unposted(x, f, c) /\ f # e => Unposted(y, f, d)
  BY <1>1 DEF Unposted
<1>6. Unposted(x, e, c)
  BY <1>2, <1>4
<1>7. \A k \in News(a) : 1 < k + 1
  BY <1>3
<1>8. \A j, k \in News(a) : j < k => j + 1 < k + 1
  BY <1>3
<1>9. Orderly(y, d)
  <2>1. \A j, k \in News(a) : j < k /\ a[j].epoch # e => a[k].epoch # e
    <3>1. SUFFICES ASSUME NEW j \in News(a), NEW k \in News(a), j < k, a[k].epoch = e
                   PROVE  a[j].epoch = e
      OBVIOUS
    <3>2. /\ 1 < j + 1 /\ j + 1 < k + 1 /\ j + 1 \in News(q) /\ k + 1 \in News(q)
          /\ q[k + 1].epoch = e /\ a[j].epoch = q[j + 1].epoch
      BY <1>3, <1>7, <1>8, <3>1
    <3>. QED
      BY <1>2, <1>4, <3>2
  <2>2. \A j, k, l \in News(a) :
           j < k /\ k < l /\ a[j].epoch = a[l].epoch => a[k].epoch = a[j].epoch
    <3>1. SUFFICES ASSUME NEW j \in News(a), NEW k \in News(a), NEW l \in News(a),
                          j < k, k < l, a[j].epoch = a[l].epoch
                   PROVE  a[k].epoch = a[j].epoch
      OBVIOUS
    <3>2. /\ j + 1 < k + 1 /\ k + 1 < l + 1
          /\ j + 1 \in News(q) /\ k + 1 \in News(q) /\ l + 1 \in News(q)
          /\ a[j].epoch = q[j + 1].epoch /\ a[k].epoch = q[k + 1].epoch
          /\ a[l].epoch = q[l + 1].epoch
      BY <1>3, <1>8, <3>1
    <3>3. q[j + 1].epoch = q[l + 1].epoch => q[k + 1].epoch = q[j + 1].epoch
      BY <1>4, <3>2
    <3>. QED
      BY <3>1, <3>2, <3>3
  <2>3. \A k \in News(a) : a[k].epoch # e => Unposted(y, a[k].epoch, d)
    <3>1. SUFFICES ASSUME NEW k \in News(a), a[k].epoch # e PROVE Unposted(x, a[k].epoch, c)
      BY <1>5
    <3>2. /\ 1 < k + 1 /\ k + 1 \in News(q) /\ a[k].epoch = q[k + 1].epoch
      BY <1>3, <1>7, <3>1
    <3>3. q[k + 1].epoch # x.epoch
      BY <1>2, <1>4, <3>2
    <3>. QED
      BY <1>4, <3>2, <3>3
  <2>. QED
    BY <1>1, <2>1, <2>2, <2>3 DEF Orderly
<1>10. ASSUME NEW m, Bounded(x, m) PROVE Bounded(y, m) /\ e <= m
  BY <1>1, <1>2, <1>3, <1>10 DEF Bounded, q
<1>11. ASSUME NEW f, Leads(x, f, c) PROVE Leads(y, f, d)
  <2>1. /\ x.epoch = f => \A k \in News(q) : q[k].epoch = f
        /\ x.epoch # f => Unposted(x, f, c)
        /\ \A j, k \in News(q) : j < k /\ q[j].epoch = f => q[k].epoch = f
    BY <1>11 DEF Leads, q
  <2>2. x.epoch # f
    BY <1>2, <2>1
  <2>3. e = f => \A k \in News(a) : a[k].epoch = f
    BY <1>2, <1>3, <1>7, <2>1
  <2>4. \A j, k \in News(a) : j < k /\ a[j].epoch = f => a[k].epoch = f
    BY <1>3, <1>8, <2>1
  <2>. QED
    BY <1>1, <1>5, <2>1, <2>2, <2>3, <2>4 DEF Leads
<1>12. ASSUME NEW f, Unheard(x, f, c) PROVE Unheard(y, f, d)
  <2>1. Unposted(x, f, c) /\ \A k \in News(q) : q[k].epoch # f
    BY <1>12 DEF Unheard, q
  <2>2. f # e
    BY <1>2, <2>1
  <2>. QED
    BY <1>1, <1>3, <1>5, <2>1, <2>2 DEF Unheard
<1>. QED
  BY <1>6, <1>9, <1>10, <1>11, <1>12 DEF y

\* A call is made, and posted under the epoch the tab knows, if it knows one.
LEMMA MakesCall ==
    ASSUME NEW x \in ClientSet, NEW i \in Calls, NEW c, NEW d,
           SameUnder(x, c, d), d[i].under \subseteq {x.epoch}
    PROVE  LET y == [x EXCEPT !.pending = @ \cup {i}]
           IN  /\ Orderly(x, c) => Orderly(y, d)
               /\ \A m : Bounded(x, m) => Bounded(y, m)
               /\ \A e : Leads(x, e, c) => Leads(y, e, d)
               /\ \A e : Unheard(x, e, c) => Unheard(y, e, d)
<1>. DEFINE y == [x EXCEPT !.pending = @ \cup {i}]
<1>1. y.epoch = x.epoch /\ y.pending = x.pending \cup {i} /\ y.inbox = x.inbox
  BY DEF ClientSet
<1>. HIDE DEF y
<1>2. \A e : Unposted(x, e, c) /\ e # x.epoch => Unposted(y, e, d)
  BY <1>1 DEF Unposted, SameUnder
<1>3. Orderly(x, c) => Orderly(y, d)
  BY <1>1, <1>2 DEF Orderly
<1>4. \A m : Bounded(x, m) => Bounded(y, m)
  BY <1>1 DEF Bounded
<1>5. \A e : Leads(x, e, c) => Leads(y, e, d)
  BY <1>1, <1>2 DEF Leads
<1>6. \A e : Unheard(x, e, c) => Unheard(y, e, d)
  BY <1>1, <1>2 DEF Unheard
<1>. QED
  BY <1>3, <1>4, <1>5, <1>6 DEF y

-------------------------------------------------------------------------------
(* Steps.                                                                   *)

\* A worker goes on, under its epoch.
GoesOn(u) == worker'[u].epoch = worker[u].epoch /\ worker'[u].ready = worker[u].ready

\* Every worker goes on but tab t's, which may end or begin.
Turns(t) ==
    /\ \A u \in Tab \ {t} : GoesOn(u)
    /\ \/ GoesOn(t) /\ spawned' = spawned
       \/ worker'[t] = NoWorker /\ spawned' = spawned
       \/ worker'[t] = NewWorker(spawned + 1) /\ spawned' = spawned + 1

\* A call is as it was: posted under the same epochs, by the same tab.
SameCall(i) == call'[i].under = call[i].under /\ call'[i].by = call[i].by

LEMMA Blank ==
    /\ NoWorker.epoch = 0 /\ NoWorker.ready = FALSE /\ NoWorker.inbox = <<>>
    /\ \A e : /\ NewWorker(e).epoch = e /\ NewWorker(e).ready = FALSE
              /\ NewWorker(e).inbox = <<>>
BY DEF NoWorker, NewWorker

LEMMA TurnsTo ==
    ASSUME NEW t \in Tab, Turns(t)
    PROVE  /\ spawned' = spawned \/ spawned' = spawned + 1
           /\ \A u \in Tab : \/ GoesOn(u)
                             \/ worker'[u].epoch = 0 /\ ~worker'[u].ready
                             \/ /\ worker'[u].epoch = spawned + 1 /\ ~worker'[u].ready
                                /\ worker'[u].inbox = <<>>
<1>1. CASE GoesOn(t) /\ spawned' = spawned
  BY <1>1 DEF Turns
<1>2. CASE worker'[t] = NoWorker /\ spawned' = spawned
  <2>1. worker'[t].epoch = 0 /\ ~worker'[t].ready
    BY <1>2, Blank
  <2>. QED
    BY <1>2, <2>1 DEF Turns
<1>3. CASE worker'[t] = NewWorker(spawned + 1) /\ spawned' = spawned + 1
  <2>1. worker'[t].epoch = spawned + 1 /\ ~worker'[t].ready /\ worker'[t].inbox = <<>>
    BY <1>3, Blank
  <2>. QED
    BY <1>3, <2>1 DEF Turns
<1>. QED
  BY <1>1, <1>2, <1>3 DEF Turns

LEMMA MessageEpochs ==
    ASSUME NEW q \in Seq(Message)
    PROVE  \A k \in News(q) : q[k].epoch \in Nat
<1>1. \A k \in DOMAIN q : q[k] \in Message
  OBVIOUS
<1>2. \A m \in Message : m.epoch \in Nat
  BY DEF Message
<1>. QED
  BY <1>1, <1>2 DEF News

LEMMA WorkersKeep ==
    ASSUME TypeOK, WorkersInv, NEW t \in Tab, Turns(t)
    PROVE  WorkersInv'
<1>1. spawned \in Nat /\ \A u \in Tab : worker[u].epoch \in Nat /\ worker[u].ready \in BOOLEAN
  BY DEF TypeOK, WorkerSet
<1>2. \A u \in Tab : worker[u].epoch <= spawned /\ (worker[u].epoch = 0 => ~worker[u].ready)
  BY DEF WorkersInv, Alive
<1>3. \A u, v \in Tab : /\ worker[u].epoch # 0 /\ worker[u].epoch = worker[v].epoch => u = v
                        /\ worker[u].ready /\ worker[v].ready => u = v
  BY DEF WorkersInv, Alive
<1>4. \A u \in Tab \ {t} : GoesOn(u)
  BY DEF Turns
<1>5. CASE GoesOn(t) /\ spawned' = spawned
  <2>1. \A u \in Tab : GoesOn(u)
    BY <1>4, <1>5
  <2>. QED
    BY <1>2, <1>3, <1>5, <2>1 DEF GoesOn, WorkersInv, Alive
<1>6. CASE worker'[t].epoch = 0 /\ worker'[t].ready = FALSE /\ spawned' = spawned
  <2>1. \A u \in Tab : worker'[u].epoch <= spawned' /\ (worker'[u].epoch = 0 => ~worker'[u].ready)
    BY <1>1, <1>2, <1>4, <1>6 DEF GoesOn
  <2>2. ASSUME NEW u \in Tab, NEW v \in Tab
        PROVE  /\ worker'[u].epoch # 0 /\ worker'[u].epoch = worker'[v].epoch => u = v
               /\ worker'[u].ready /\ worker'[v].ready => u = v
    BY <1>3, <1>4, <1>6 DEF GoesOn
  <2>. QED
    BY <2>1, <2>2 DEF WorkersInv, Alive
<1>7. CASE worker'[t].epoch = spawned + 1 /\ worker'[t].ready = FALSE /\ spawned' = spawned + 1
  <2>1. \A u \in Tab : worker'[u].epoch <= spawned' /\ (worker'[u].epoch = 0 => ~worker'[u].ready)
    BY <1>1, <1>2, <1>4, <1>7 DEF GoesOn
  <2>2. \A u \in Tab \ {t} : worker'[u].epoch # spawned + 1 /\ worker'[u].epoch = worker[u].epoch
    BY <1>1, <1>2, <1>4 DEF GoesOn
  <2>3. ASSUME NEW u \in Tab, NEW v \in Tab
        PROVE  /\ worker'[u].epoch # 0 /\ worker'[u].epoch = worker'[v].epoch => u = v
               /\ worker'[u].ready /\ worker'[v].ready => u = v
    BY <1>3, <1>4, <1>7, <2>2 DEF GoesOn
  <2>. QED
    BY <2>1, <2>3 DEF WorkersInv, Alive
<1>. QED
  BY <1>5, <1>6, <1>7, Blank DEF Turns

\* What a tab has heard of workers that go on, or of one that begins.
LEMMA ClientKeeps ==
    ASSUME TypeOK, TypeOK', PostInv, NEW t \in Tab, Turns(t),
           NEW u \in Tab, NEW n \in Nat,
           Keeps(client[u], client'[u], n) \/ client'[u] = NewClient,
           \A i \in client'[u].pending : SameCall(i)
    PROVE  ClientInv(u)'
<1>. DEFINE x == client[u]
            y == client'[u]
<1>1. /\ x \in ClientSet /\ y \in ClientSet /\ spawned \in Nat /\ spawned' \in Nat
      /\ spawned <= spawned' /\ \A v \in Tab : worker[v].epoch \in Nat
  BY DEF TypeOK, Turns, WorkerSet
<1>2. /\ Bounded(x, spawned) /\ Orderly(x, call)
      /\ \A i \in x.pending : call[i].by = u
      /\ \A v \in Tab : /\ worker[v].ready => Leads(x, worker[v].epoch, call)
                        /\ Alive(v) /\ ~worker[v].ready => Unheard(x, worker[v].epoch, call)
  BY DEF PostInv, ClientInv
<1>3. /\ x.pending \subseteq Calls /\ x.epoch \in Nat /\ x.inbox \in Seq(Message)
      /\ \A k \in News(x.inbox) : x.inbox[k].epoch \in Nat
  <2>1. x.pending \subseteq Calls /\ x.epoch \in Nat /\ x.inbox \in Seq(Message)
    BY <1>1 DEF ClientSet
  <2>. QED
    BY <2>1, MessageEpochs
<1>4. \A i \in x.pending : call[i].under \subseteq 0..spawned
  BY <1>3 DEF PostInv, CallInv
<1>5. Unheard(x, spawned + 1, call)
  <2>1. x.epoch # spawned + 1 /\ \A k \in News(x.inbox) : x.inbox[k].epoch # spawned + 1
    BY <1>1, <1>2, <1>3 DEF Bounded
  <2>2. spawned + 1 \notin 0..spawned
    BY <1>1
  <2>. QED
    BY <1>4, <2>1, <2>2 DEF Unheard, Unposted
<1>6. ASSUME /\ Bounded(y, spawned') /\ Orderly(y, call')
             /\ \A i \in y.pending : call'[i].by = u
             /\ \A v \in Tab : /\ worker[v].ready => Leads(y, worker[v].epoch, call')
                               /\ Alive(v) /\ ~worker[v].ready
                                     => Unheard(y, worker[v].epoch, call')
             /\ Unheard(y, spawned + 1, call')
      PROVE  ClientInv(u)'
  <2>1. \A v \in Tab : \/ GoesOn(v)
                       \/ worker'[v].epoch = 0 /\ ~worker'[v].ready
                       \/ worker'[v].epoch = spawned + 1 /\ ~worker'[v].ready
    <3>1. \A v \in Tab : \/ GoesOn(v)
                         \/ worker'[v].epoch = 0 /\ ~worker'[v].ready
                         \/ /\ worker'[v].epoch = spawned + 1 /\ ~worker'[v].ready
                            /\ worker'[v].inbox = <<>>
      BY TurnsTo
    <3>. QED
      BY <3>1
  <2>2. ASSUME NEW v \in Tab
        PROVE  /\ worker'[v].ready => Leads(y, worker'[v].epoch, call')
               /\ worker'[v].epoch # 0 /\ ~worker'[v].ready
                      => Unheard(y, worker'[v].epoch, call')
    BY <1>6, <2>1 DEF GoesOn, Alive
  <2>. QED
    BY <1>6, <2>2 DEF ClientInv, Alive
<1>7. CASE Keeps(x, y, n)
  <2>1. y.pending \subseteq x.pending
    BY <1>7 DEF Keeps
  <2>2. SameUnder(y, call, call')
    BY DEF SameUnder, SameCall
  <2>3. /\ Orderly(x, call) => Orderly(y, call')
        /\ \A m : Bounded(x, m) => Bounded(y, m)
        /\ \A e : Leads(x, e, call) => Leads(y, e, call')
        /\ \A e : Unheard(x, e, call) => Unheard(y, e, call')
    BY <1>1, <1>7, <2>2, HearsLess
  <2>4. Bounded(y, spawned')
    <3>1. Bounded(y, spawned)
      BY <1>2, <2>3
    <3>2. y.epoch \in Nat /\ \A k \in News(y.inbox) : y.inbox[k].epoch \in Nat
      <4>1. y.epoch \in Nat /\ y.inbox \in Seq(Message)
        BY <1>1 DEF ClientSet
      <4>. QED
        BY <4>1, MessageEpochs
    <3>. QED
      BY <1>1, <3>1, <3>2 DEF Bounded
  <2>5. \A i \in y.pending : call'[i].by = u
    BY <1>2, <2>1 DEF SameCall
  <2>. HIDE DEF x, y
  <2>. QED
    BY <1>2, <1>5, <1>6, <2>3, <2>4, <2>5
<1>8. CASE y = NewClient
  <2>1. /\ Orderly(y, call') /\ Bounded(y, spawned')
        /\ \A e \in Nat : Leads(y, e, call')
        /\ \A e \in Nat \ {0} : Unheard(y, e, call')
    BY <1>1, <1>8, HeardNothing
  <2>2. y.pending = {}
    BY <1>8 DEF NewClient
  <2>3. spawned + 1 \in Nat \ {0}
    BY <1>1
  <2>. HIDE DEF x, y
  <2>. QED
    BY <1>1, <1>6, <2>1, <2>2, <2>3 DEF Alive
<1>. QED
  BY <1>7, <1>8

\* A call that is neither posted nor run.
LEMMA CallKeeps ==
    ASSUME TypeOK, TypeOK', PostInv, NEW t \in Tab, Turns(t), NEW i \in Calls,
           call'[i].under = call[i].under, runs'[i] = runs[i],
           \A u \in Tab : GoesOn(u) =>
               Times(worker'[u].inbox, i) <= Times(worker[u].inbox, i)
    PROVE  CallInv(i)'
<1>. DEFINE n == Cardinality(call[i].under)
<1>1. /\ spawned \in Nat /\ spawned' \in Nat /\ spawned <= spawned'
      /\ runs[i] \in Seq(Nat)
      /\ \A u \in Tab : /\ worker[u].inbox \in Seq(Calls) /\ worker'[u].inbox \in Seq(Calls)
                        /\ worker[u].epoch \in Nat
  <2>1. spawned \in Nat /\ spawned <= spawned' /\ spawned' \in Nat /\ runs[i] \in Seq(Nat)
    BY TurnsTo DEF TypeOK
  <2>2. \A u \in Tab : worker[u] \in WorkerSet /\ worker'[u] \in WorkerSet
    BY DEF TypeOK
  <2>. QED
    BY <2>1, <2>2 DEF WorkerSet
<1>2. /\ call[i].under \subseteq 0..spawned
      /\ \A e \in Range(runs[i]) : e <= spawned /\ e \in Nat
      /\ \A e \in Nat : Times(runs[i], e) <= n
      /\ \A u \in Tab : Alive(u) =>
            Times(runs[i], worker[u].epoch) + Times(worker[u].inbox, i) <= n
  <2>1. \A e \in Range(runs[i]) : e \in Nat
    BY <1>1 DEF Range
  <2>. QED
    BY <2>1 DEF PostInv, CallInv
<1>3. /\ \A e : Times(runs[i], e) \in Nat
      /\ \A u \in Tab : /\ Times(worker[u].inbox, i) \in Nat
                        /\ Times(worker'[u].inbox, i) \in Nat
  BY <1>1, TimesType
<1>4. n \in Nat
  <2>1. IsFiniteSet(0..spawned)
    <3>1. 0 \in Int /\ spawned \in Int
      BY <1>1
    <3>. QED
      BY <3>1, FS_Interval
  <2>2. call[i].under \in SUBSET (0..spawned)
    BY <1>2
  <2>. QED
    BY <2>1, <2>2, FS_Subset, FS_CardinalityType
<1>5. Times(<<>>, i) = 0
  <2>1. {k \in DOMAIN <<>> : <<>>[k] = i} = {}
    OBVIOUS
  <2>. QED
    BY <2>1, FS_EmptySet DEF Times
<1>6. Times(runs[i], spawned + 1) = 0
  <2>1. \A k \in DOMAIN runs[i] : runs[i][k] # spawned + 1
    <3>1. \A k \in DOMAIN runs[i] : runs[i][k] \in Range(runs[i])
      BY DEF Range
    <3>. QED
      BY <1>1, <1>2, <3>1
  <2>2. {k \in DOMAIN runs[i] : runs[i][k] = spawned + 1} = {}
    BY <2>1
  <2>. QED
    BY <2>2, FS_EmptySet DEF Times
<1>7. \A u \in Tab : \/ GoesOn(u) \/ worker'[u].epoch = 0
                     \/ worker'[u].epoch = spawned + 1 /\ worker'[u].inbox = <<>>
  BY TurnsTo
<1>. HIDE DEF n
<1>8. ASSUME NEW u \in Tab, worker'[u].epoch # 0
      PROVE  Times(runs[i], worker'[u].epoch) + Times(worker'[u].inbox, i) <= n
  <2>1. CASE GoesOn(u)
    <3>1. /\ worker'[u].epoch = worker[u].epoch
          /\ Times(worker'[u].inbox, i) <= Times(worker[u].inbox, i)
          /\ Times(runs[i], worker[u].epoch) + Times(worker[u].inbox, i) <= n
      BY <1>2, <1>8, <2>1 DEF GoesOn, Alive
    <3>. QED
      BY <1>3, <1>4, <3>1
  <2>2. CASE worker'[u].epoch = spawned + 1 /\ worker'[u].inbox = <<>>
    BY <1>4, <1>5, <1>6, <2>2
  <2>. QED
    BY <1>7, <1>8, <2>1, <2>2
<1>9. call[i].under \subseteq 0..spawned' /\ \A e \in Range(runs[i]) : e <= spawned'
  BY <1>1, <1>2
<1>. QED
  BY <1>2, <1>8, <1>9 DEF CallInv, Alive, n

\* A worker's inbox is as it was, shorter by its head, or gone.
Reads(u) ==
    \/ worker'[u].inbox = worker[u].inbox \/ worker'[u].inbox = <<>>
    \/ worker[u].inbox # <<>> /\ worker'[u].inbox = Tail(worker[u].inbox)

LEMMA TimesEmpty == \A x : Times(<<>>, x) = 0
<1>1. SUFFICES ASSUME NEW x PROVE Times(<<>>, x) = 0
  OBVIOUS
<1>2. {k \in DOMAIN <<>> : <<>>[k] = x} = {}
  OBVIOUS
<1>. QED
  BY <1>2, FS_EmptySet DEF Times

LEMMA ReadsLess ==
    ASSUME TypeOK, NEW u \in Tab, Reads(u), NEW x
    PROVE  Times(worker'[u].inbox, x) <= Times(worker[u].inbox, x)
<1>. DEFINE q == worker[u].inbox
<1>1. q \in Seq(Calls) /\ Times(q, x) \in Nat
  <2>1. q \in Seq(Calls)
    BY DEF TypeOK, WorkerSet
  <2>. QED
    BY <2>1, TimesType
<1>2. CASE worker'[u].inbox = q
  BY <1>1, <1>2
<1>3. CASE worker'[u].inbox = <<>>
  BY <1>1, <1>3, TimesEmpty
<1>4. CASE q # <<>> /\ worker'[u].inbox = Tail(q)
  <2>1. Times(Tail(q), x) + (IF Head(q) = x THEN 1 ELSE 0) <= Times(q, x)
    BY <1>1, <1>4, TimesTail
  <2>2. Tail(q) \in Seq(Calls)
    BY <1>1, <1>4
  <2>3. Times(Tail(q), x) \in Nat
    BY <2>2, TimesType
  <2>. QED
    BY <1>1, <1>4, <2>1, <2>3
<1>. QED
  BY <1>2, <1>3, <1>4 DEF Reads

\* Steps that neither post nor run a call.
LEMMA TurnKeeps ==
    ASSUME TypeOK, TypeOK', PostInv, NEW t \in Tab, Turns(t), runs' = runs,
           \A i \in Calls : SameCall(i),
           \A u \in Tab : \/ Keeps(client[u], client'[u], 0) \/ Keeps(client[u], client'[u], 1)
                          \/ client'[u] = NewClient,
           \A u \in Tab : GoesOn(u) => Reads(u)
    PROVE  PostInv'
<1>1. WorkersInv'
  BY WorkersKeep DEF PostInv
<1>2. ASSUME NEW u \in Tab PROVE ClientInv(u)'
  <2>1. \A i \in client'[u].pending : SameCall(i)
    BY DEF TypeOK, ClientSet
  <2>2. CASE Keeps(client[u], client'[u], 0) \/ client'[u] = NewClient
    BY <2>1, <2>2, ClientKeeps
  <2>3. CASE Keeps(client[u], client'[u], 1)
    BY <2>1, <2>3, ClientKeeps
  <2>. QED
    BY <2>2, <2>3
<1>3. ASSUME NEW i \in Calls PROVE CallInv(i)'
  <2>1. \A u \in Tab : GoesOn(u) =>
            Times(worker'[u].inbox, i) <= Times(worker[u].inbox, i)
    BY ReadsLess
  <2>2. call'[i].under = call[i].under /\ runs'[i] = runs[i]
    BY DEF SameCall
  <2>. QED
    BY <2>1, <2>2, CallKeeps
<1>. QED
  BY <1>1, <1>2, <1>3 DEF PostInv

\* A client that does not change keeps what it has heard.
LEMMA KeepsItself == TypeOK => \A u \in Tab : Keeps(client[u], client[u], 0)
BY HearsLessHere DEF TypeOK

\* Only the election moves, and a worker begins or ends.
LEMMA PostsInElection ==
    ASSUME TypeOK, TypeOK', PostInv, NEW t \in Tab,
           \/ t = Head(waiters) /\ Grant
           \/ RetryTimer(t)
           \/ BootFails(t) \/ WorkerCrashes(t)
    PROVE  PostInv'
<1>1. worker \in [Tab -> WorkerSet] /\ client' = client /\ call' = call /\ runs' = runs
  BY DEF Grant, RetryTimer, BootFails, WorkerCrashes, HandleFailure, TypeOK, callVars
<1>2. /\ \A i \in Calls : SameCall(i)
      /\ \A u \in Tab : Keeps(client[u], client'[u], 0)
  BY <1>1, KeepsItself DEF SameCall
<1>3. CASE UNCHANGED <<worker, spawned>>
  <2>1. Turns(t) /\ \A u \in Tab : GoesOn(u) => Reads(u)
    BY <1>3 DEF Turns, GoesOn, Reads
  <2>. QED
    BY <1>1, <1>2, <2>1, TurnKeeps
<1>4. CASE ~Alive(t) /\ spawned' = spawned + 1
           /\ worker' = [worker EXCEPT ![t] = NewWorker(spawned + 1)]
  <2>1. Turns(t)
    BY <1>1, <1>4 DEF Turns, GoesOn
  <2>2. ASSUME NEW u \in Tab PROVE Reads(u)
    <3>1. CASE u = t
      BY <1>1, <1>4, <3>1, Blank DEF Reads
    <3>2. CASE u # t
      BY <1>1, <1>4, <3>2 DEF Reads
    <3>. QED
      BY <3>1, <3>2
  <2>. QED
    BY <1>1, <1>2, <2>1, <2>2, TurnKeeps
<1>5. CASE worker' = [worker EXCEPT ![t] = NoWorker] /\ spawned' = spawned
  <2>1. Turns(t)
    BY <1>1, <1>5 DEF Turns, GoesOn
  <2>2. ASSUME NEW u \in Tab PROVE Reads(u)
    <3>1. CASE u = t
      BY <1>1, <1>5, <3>1, Blank DEF Reads
    <3>2. CASE u # t
      BY <1>1, <1>5, <3>2 DEF Reads
    <3>. QED
      BY <3>1, <3>2
  <2>. QED
    BY <1>1, <1>2, <2>1, <2>2, TurnKeeps
<1>. QED
  BY <1>3, <1>4, <1>5 DEF Grant, RetryTimer, Spawn, BootFails, WorkerCrashes, HandleFailure

\* A tab goes away, and its worker and client with it.
LEMMA PostsWithout ==
    ASSUME TypeOK, TypeOK', PostInv, NEW t \in Tab, Close(t) \/ Reload(t) \/ Destroy(t)
    PROVE  PostInv'
<1>1. /\ worker \in [Tab -> WorkerSet] /\ client \in [Tab -> ClientSet]
      /\ call \in [Calls -> CallSet]
  BY DEF TypeOK
<1>2. /\ worker' = [worker EXCEPT ![t] = NoWorker] /\ client' = [client EXCEPT ![t] = NewClient]
      /\ call' = Abandoned(t) /\ runs' = runs /\ spawned' = spawned
  BY DEF Close, Reload, Leave, Destroy
<1>3. Turns(t)
  BY <1>1, <1>2 DEF Turns, GoesOn
<1>4. ASSUME NEW u \in Tab PROVE Reads(u)
  <2>1. CASE u = t
    BY <1>1, <1>2, <2>1, Blank DEF Reads
  <2>2. CASE u # t
    BY <1>1, <1>2, <2>2 DEF Reads
  <2>. QED
    BY <2>1, <2>2
<1>5. \A i \in Calls : SameCall(i)
  <2>1. \A i \in Calls : \/ call'[i] = call[i]
                         \/ call'[i] = [call[i] EXCEPT !.end = "abandoned"]
    BY <1>2 DEF Abandoned
  <2>2. \A x \in CallSet : LET y == [x EXCEPT !.end = "abandoned"]
                           IN  y.under = x.under /\ y.by = x.by
    BY DEF CallSet
  <2>. QED
    BY <1>1, <2>1, <2>2 DEF SameCall
<1>6. \A u \in Tab : Keeps(client[u], client'[u], 0) \/ client'[u] = NewClient
  BY <1>1, <1>2, KeepsItself
<1>. QED
  BY <1>2, <1>3, <1>4, <1>5, <1>6, TurnKeeps

\* Messages are read, answers and responses go their ways.
LEMMA PostsInTraffic ==
    ASSUME TypeOK, TypeOK', PostInv, NEW t \in Tab,
           Refuse(t) \/ Answer(t) \/ ReceiveResponse(t) \/ Timeout(t)
    PROVE  PostInv'
<1>1. /\ worker \in [Tab -> WorkerSet] /\ client \in [Tab -> ClientSet]
      /\ call \in [Calls -> CallSet]
  BY DEF TypeOK
<1>2. \A x \in WorkerSet : \A v :
            /\ [x EXCEPT !.inbox = v].epoch = x.epoch /\ [x EXCEPT !.inbox = v].ready = x.ready
            /\ [x EXCEPT !.inbox = v].inbox = v
            /\ [x EXCEPT !.running = v].epoch = x.epoch
            /\ [x EXCEPT !.running = v].ready = x.ready
            /\ [x EXCEPT !.running = v].inbox = x.inbox
  BY DEF WorkerSet
<1>3. ASSUME NEW i \in Calls, NEW ok \in BOOLEAN, client' = Told(i, ok)
      PROVE  \A u \in Tab : Keeps(client[u], client'[u], 0)
  <2>1. SUFFICES ASSUME NEW u \in Tab PROVE Keeps(client[u], client'[u], 0)
    OBVIOUS
  <2>2. Response(i, ok) \in Message /\ Response(i, ok).kind = "res"
    BY FreshTypes DEF Response
  <2>3. \/ client'[u] = client[u]
        \/ client'[u] = [client[u] EXCEPT !.inbox = Append(@, Response(i, ok))]
        \/ client'[u] = [client[u] EXCEPT !.inbox = @]
    BY <1>1, <1>3 DEF Told
  <2>4. [client[u] EXCEPT !.inbox = @] = client[u]
    BY <1>1 DEF ClientSet
  <2>. QED
    BY <1>1, <2>2, <2>3, <2>4, HearsLessHere, KeepsItself
<1>4. CASE Refuse(t)
  <2>1. /\ worker' = [worker EXCEPT ![t].inbox = Tail(@)] /\ worker[t].inbox # <<>>
        /\ client' = Told(Head(worker[t].inbox), FALSE)
        /\ call' = call /\ runs' = runs /\ spawned' = spawned
    BY <1>4 DEF Refuse, callVars
  <2>2. Head(worker[t].inbox) \in Calls
    BY <1>1, <2>1 DEF WorkerSet
  <2>3. \A u \in Tab : GoesOn(u) /\ Reads(u)
    BY <1>1, <1>2, <2>1 DEF GoesOn, Reads
  <2>4. Turns(t) /\ \A i \in Calls : SameCall(i)
    BY <2>1, <2>3 DEF Turns, SameCall
  <2>5. \A u \in Tab : Keeps(client[u], client'[u], 0)
    BY <1>3, <2>1, <2>2
  <2>. QED
    BY <2>1, <2>3, <2>4, <2>5, TurnKeeps
<1>5. CASE Answer(t)
  <2>1. PICK i \in worker[t].running :
          /\ worker' = [worker EXCEPT ![t].running = @ \ {i}]
          /\ client' = Told(i, TRUE)
          /\ call' = call /\ runs' = runs /\ spawned' = spawned
    BY <1>5 DEF Answer, callVars
  <2>2. i \in Calls
    BY <1>1, <2>1 DEF WorkerSet
  <2>3. \A u \in Tab : GoesOn(u) /\ Reads(u)
    BY <1>1, <1>2, <2>1 DEF GoesOn, Reads
  <2>4. Turns(t) /\ \A j \in Calls : SameCall(j)
    BY <2>1, <2>3 DEF Turns, SameCall
  <2>5. \A u \in Tab : Keeps(client[u], client'[u], 0)
    BY <1>3, <2>1, <2>2
  <2>. QED
    BY <2>1, <2>3, <2>4, <2>5, TurnKeeps
<1>6. CASE ReceiveResponse(t) \/ Timeout(t)
  <2>1. /\ worker' = worker /\ runs' = runs /\ spawned' = spawned
    BY <1>6 DEF ReceiveResponse, Timeout
  <2>2. /\ Turns(t) /\ \A u \in Tab : GoesOn(u) => Reads(u)
    BY <2>1 DEF Turns, GoesOn, Reads
  <2>3. \A i \in Calls : SameCall(i)
    <3>1. SUFFICES ASSUME NEW i \in Calls PROVE SameCall(i)
      OBVIOUS
    <3>2. \/ call'[i] = call[i]
          \/ call'[i] = [call[i] EXCEPT !.end = "ok"]
          \/ call'[i] = [call[i] EXCEPT !.end = "refused"]
          \/ call'[i] = [call[i] EXCEPT !.end = "timeout"]
      <4>1. CASE ReceiveResponse(t)
        BY <1>1, <4>1 DEF ReceiveResponse
      <4>2. CASE Timeout(t)
        BY <1>1, <4>2 DEF Timeout
      <4>. QED
        BY <1>6, <4>1, <4>2
    <3>3. call[i] \in CallSet
      BY <1>1
    <3>4. \A v : /\ [call[i] EXCEPT !.end = v].under = call[i].under
                 /\ [call[i] EXCEPT !.end = v].by = call[i].by
      BY <3>3 DEF CallSet
    <3>. QED
      BY <3>2, <3>4 DEF SameCall
  <2>4. \A u \in Tab \ {t} : Keeps(client[u], client'[u], 0)
    <3>1. \A u \in Tab \ {t} : client'[u] = client[u]
      BY <1>1, <1>6 DEF ReceiveResponse, Timeout
    <3>. QED
      BY <3>1, KeepsItself
  <2>5. Keeps(client[t], client'[t], 0) \/ Keeps(client[t], client'[t], 1)
    <3>. DEFINE x == client[t]
    <3>1. x \in ClientSet
      BY <1>1
    <3>2. CASE ReceiveResponse(t)
      <4>. DEFINE P == x.pending \ {Head(x.inbox).call}
      <4>1. x.inbox # <<>> /\ client'[t] = [x EXCEPT !.inbox = Tail(@), !.pending = P]
        BY <1>1, <3>2 DEF ReceiveResponse
      <4>2. P \in SUBSET x.pending
        OBVIOUS
      <4>. HIDE DEF P, x
      <4>. QED
        BY <3>1, <4>1, <4>2, HearsLessHere DEF x
    <3>3. CASE Timeout(t)
      <4>1. PICK P \in SUBSET x.pending : client'[t] = [x EXCEPT !.pending = P]
        BY <1>1, <3>3 DEF Timeout
      <4>. HIDE DEF x
      <4>. QED
        BY <3>1, <4>1, HearsLessHere DEF x
    <3>. QED
      BY <1>6, <3>2, <3>3
  <2>. QED
    BY <2>1, <2>2, <2>3, <2>4, <2>5, TurnKeeps
<1>. QED
  BY <1>4, <1>5, <1>6

\* The serving worker's ready goes out.
LEMMA Announces ==
    ASSUME TypeOK, TypeOK', PostInv, NEW t \in Tab, Alive(t), NEW u \in Tab,
           Leads(client[u], worker[t].epoch, call),
           \/ client'[u] = client[u]
           \/ client'[u] = [client[u] EXCEPT !.inbox = Append(@, Ready(worker[t].epoch))],
           call' = call, spawned' = spawned, worker'[t].epoch = worker[t].epoch,
           worker'[t].ready, \A v \in Tab \ {t} : GoesOn(v) /\ ~worker[v].ready
    PROVE  ClientInv(u)'
<1>. DEFINE x == client[u]
            y == client'[u]
            e == worker[t].epoch
<1>1. /\ x \in ClientSet /\ spawned \in Nat /\ e \in Nat /\ e <= spawned
      /\ Bounded(x, spawned) /\ Orderly(x, call) /\ Leads(x, e, call)
      /\ \A i \in x.pending : call[i].by = u
  BY DEF TypeOK, WorkerSet, PostInv, WorkersInv, ClientInv
<1>2. \A v \in Tab \ {t} : /\ Alive(v) => Unheard(x, worker[v].epoch, call)
                           /\ Alive(v) => worker[v].epoch # e
  BY DEF PostInv, WorkersInv, ClientInv
<1>3. /\ Bounded(y, spawned) /\ Orderly(y, call) /\ Leads(y, e, call)
      /\ \A f : Unheard(x, f, call) /\ f # e => Unheard(y, f, call)
      /\ y.pending = x.pending
  <2>1. CASE y = x
    BY <1>1, <2>1
  <2>2. CASE y = [x EXCEPT !.inbox = Append(@, Ready(e))]
    <3>1. y.pending = x.pending
      BY <1>1, <2>2 DEF ClientSet
    <3>. HIDE DEF x, e, y
    <3>2. LET z == [x EXCEPT !.inbox = Append(@, Ready(e))]
          IN  /\ Orderly(z, call) /\ Bounded(z, spawned) /\ Leads(z, e, call)
              /\ \A f : Unheard(x, f, call) /\ f # e => Unheard(z, f, call)
      BY <1>1, HearsReady
    <3>. QED
      BY <2>2, <3>1, <3>2
  <2>. QED
    BY <2>1, <2>2
<1>4. ASSUME NEW v \in Tab
      PROVE  /\ worker'[v].ready => Leads(y, worker'[v].epoch, call)
             /\ worker'[v].epoch # 0 /\ ~worker'[v].ready
                    => Unheard(y, worker'[v].epoch, call)
  <2>1. CASE v = t
    BY <1>3, <2>1
  <2>2. CASE v # t
    BY <1>2, <1>3, <2>2 DEF GoesOn, Alive
  <2>. QED
    BY <2>1, <2>2
<1>. HIDE DEF x, e
<1>. QED
  BY <1>1, <1>3, <1>4 DEF ClientInv, Alive

\* Counts stay when workers keep their inboxes.
LEMMA CallsStay ==
    ASSUME PostInv, call' = call, runs' = runs, spawned' = spawned,
           \A u \in Tab : worker'[u].epoch = worker[u].epoch /\ worker'[u].inbox = worker[u].inbox
    PROVE  \A i \in Calls : CallInv(i)'
BY DEF PostInv, CallInv, Alive

LEMMA PostsAtReady ==
    ASSUME TypeOK, TypeOK', PostInv, NEW t \in Tab, BootSucceeds(t) \/ Ping(t)
    PROVE  PostInv'
<1>1. worker \in [Tab -> WorkerSet] /\ client \in [Tab -> ClientSet]
  BY DEF TypeOK
<1>2. CASE BootSucceeds(t)
  <2>1. /\ worker' = [worker EXCEPT ![t].ready = TRUE] /\ Alive(t)
        /\ client' = Heard(Ready(worker[t].epoch)) /\ \A u \in Tab : ~worker[u].ready
        /\ call' = call /\ runs' = runs /\ spawned' = spawned
    BY <1>2 DEF BootSucceeds, callVars
  <2>2. /\ \A u \in Tab : /\ worker'[u].epoch = worker[u].epoch
                          /\ worker'[u].inbox = worker[u].inbox
        /\ worker'[t].ready /\ \A u \in Tab \ {t} : GoesOn(u) /\ ~worker[u].ready
    BY <1>1, <2>1 DEF GoesOn, WorkerSet
  <2>3. \A i \in Calls : CallInv(i)'
    BY <2>1, <2>2, CallsStay
  <2>4. WorkersInv'
    BY <2>1, <2>2 DEF PostInv, WorkersInv, GoesOn, Alive
  <2>5. ASSUME NEW u \in Tab PROVE ClientInv(u)'
    <3>1. Unheard(client[u], worker[t].epoch, call)
      BY <2>1 DEF PostInv, ClientInv
    <3>2. Leads(client[u], worker[t].epoch, call)
      BY <3>1 DEF Unheard, Leads
    <3>3. \/ client'[u] = client[u]
          \/ client'[u] = [client[u] EXCEPT !.inbox = Append(@, Ready(worker[t].epoch))]
      BY <2>1 DEF Heard
    <3>. QED
      BY <2>1, <2>2, <3>2, <3>3, Announces
  <2>. QED
    BY <2>3, <2>4, <2>5 DEF PostInv
<1>3. CASE Ping(t)
  <2>1. PICK s \in Tab : worker[s].ready /\ client' = Heard(Ready(worker[s].epoch))
    BY <1>3 DEF Ping
  <2>2. worker' = worker /\ call' = call /\ runs' = runs /\ spawned' = spawned
    BY <1>3 DEF Ping, callVars
  <2>3. /\ Alive(s) /\ \A u \in Tab \ {s} : GoesOn(u) /\ ~worker[u].ready
    BY <2>1, <2>2 DEF PostInv, WorkersInv, GoesOn
  <2>4. \A i \in Calls : CallInv(i)'
    BY <2>2, CallsStay
  <2>5. WorkersInv'
    BY <2>2 DEF PostInv, WorkersInv, Alive
  <2>6. ASSUME NEW u \in Tab PROVE ClientInv(u)'
    <3>1. Leads(client[u], worker[s].epoch, call)
      BY <2>1 DEF PostInv, ClientInv
    <3>2. \/ client'[u] = client[u]
          \/ client'[u] = [client[u] EXCEPT !.inbox = Append(@, Ready(worker[s].epoch))]
      BY <2>1 DEF Heard
    <3>. QED
      BY <2>1, <2>2, <2>3, <3>1, <3>2, Announces
  <2>. QED
    BY <2>4, <2>5, <2>6 DEF PostInv
<1>. QED
  BY <1>2, <1>3

\* A call is posted alone.
LEMMA SinglePost == \A i \in Calls : <<i>> \in InOrder({i})
<1>1. SUFFICES ASSUME NEW i \in Calls PROVE <<i>> \in InOrder({i})
  OBVIOUS
<1>2. Cardinality({i}) = 1
  BY FS_Singleton
<1>3. <<i>> \in [1..1 -> {i}] /\ DOMAIN <<i>> = 1..1
  OBVIOUS
<1>. QED
  BY <1>2, <1>3 DEF InOrder

\* Calls are posted to every live worker.
LEMMA PostedTo ==
    ASSUME TypeOK, NEW q, worker' = Posted(q), spawned' = spawned, NEW t \in Tab
    PROVE  /\ Turns(t)
           /\ \A u \in Tab : /\ GoesOn(u)
                             /\ Alive(u) => worker'[u].inbox = worker[u].inbox \o q
                             /\ ~Alive(u) => worker'[u].inbox = worker[u].inbox
<1>1. \A u \in Tab : worker[u] \in WorkerSet
  BY DEF TypeOK
<1>2. \A u \in Tab : worker'[u] = IF Alive(u) THEN [worker[u] EXCEPT !.inbox = @ \o q]
                                  ELSE worker[u]
  BY DEF Posted
<1>3. \A u \in Tab : /\ GoesOn(u)
                     /\ Alive(u) => worker'[u].inbox = worker[u].inbox \o q
                     /\ ~Alive(u) => worker'[u].inbox = worker[u].inbox
  BY <1>1, <1>2 DEF GoesOn, WorkerSet
<1>. QED
  BY <1>3 DEF Turns

\* The copies a post adds are covered by the epochs it adds.
LEMMA PostedKeeps ==
    ASSUME TypeOK, TypeOK', PostInv, NEW S \in SUBSET Calls, NEW q \in InOrder(S),
           worker' = Posted(q), spawned' = spawned, runs' = runs, NEW i \in Calls,
           call'[i].under \subseteq 0..spawned,
           Cardinality(call'[i].under)
               = Cardinality(call[i].under) + (IF i \in S THEN 1 ELSE 0)
    PROVE  CallInv(i)'
<1>. DEFINE n == Cardinality(call[i].under)
            m == Cardinality(call'[i].under)
            d == IF i \in S THEN 1 ELSE 0
<1>1. /\ spawned \in Nat /\ runs[i] \in Seq(Nat)
      /\ \A u \in Tab : worker[u].inbox \in Seq(Calls) /\ worker[u].epoch \in Nat
  BY DEF TypeOK, WorkerSet
<1>2. n \in Nat /\ d \in Nat /\ m = n + d
  <2>1. IsFiniteSet(0..spawned)
    <3>1. 0 \in Int /\ spawned \in Int
      BY <1>1
    <3>. QED
      BY <3>1, FS_Interval
  <2>2. call[i].under \in SUBSET (0..spawned)
    BY DEF PostInv, CallInv
  <2>. QED
    BY <2>1, <2>2, FS_Subset, FS_CardinalityType
<1>3. /\ \A e \in Range(runs[i]) : e <= spawned
      /\ \A e \in Nat : Times(runs[i], e) <= n
      /\ \A u \in Tab : Alive(u) =>
            Times(runs[i], worker[u].epoch) + Times(worker[u].inbox, i) <= n
  BY DEF PostInv, CallInv
<1>4. \A e : Times(runs[i], e) \in Nat
  BY <1>1, TimesType
<1>5. \A u \in Tab : /\ Times(worker[u].inbox \o q, i) <= Times(worker[u].inbox, i) + d
                     /\ Times(worker[u].inbox \o q, i) \in Nat
                     /\ Times(worker[u].inbox, i) \in Nat
  BY <1>1, TimesPosted
<1>6. \A u \in Tab : GoesOn(u) /\ (Alive(u) => worker'[u].inbox = worker[u].inbox \o q)
  BY PostedTo
<1>. HIDE DEF n, m, d
<1>7. \A e \in Nat : Times(runs[i], e) <= m
  BY <1>2, <1>3, <1>4
<1>8. ASSUME NEW u \in Tab, Alive(u)
      PROVE  Times(runs[i], worker[u].epoch) + Times(worker'[u].inbox, i) <= m
  <2>1. /\ worker'[u].inbox = worker[u].inbox \o q
        /\ Times(runs[i], worker[u].epoch) + Times(worker[u].inbox, i) <= n
    BY <1>3, <1>6, <1>8
  <2>. QED
    BY <1>2, <1>4, <1>5, <2>1
<1>9. \A u \in Tab : worker'[u].epoch = worker[u].epoch
  BY <1>6 DEF GoesOn
<1>. QED
  BY <1>3, <1>7, <1>8, <1>9 DEF CallInv, Alive, m

\* A worker runs a call: one copy less to read, one run more.
LEMMA PostsAtRun ==
    ASSUME TypeOK, TypeOK', PostInv, NEW t \in Tab, Run(t)
    PROVE  PostInv'
<1>. DEFINE q == worker[t].inbox
            h == Head(q)
            e == worker[t].epoch
<1>1. /\ worker \in [Tab -> WorkerSet] /\ runs \in [Calls -> Seq(Nat)]
      /\ q \in Seq(Calls) /\ e \in Nat /\ spawned \in Nat
  BY DEF TypeOK, WorkerSet
<1>2. /\ q # <<>> /\ worker[t].ready
      /\ worker' = [worker EXCEPT ![t].inbox = Tail(@), ![t].running = @ \cup {h}]
      /\ runs' = [runs EXCEPT ![h] = Append(@, e)]
      /\ client' = client /\ call' = call /\ spawned' = spawned
  BY DEF Run
<1>3. h \in Calls
  BY <1>1, <1>2
<1>4. /\ \A u \in Tab : GoesOn(u)
      /\ worker'[t].inbox = Tail(q) /\ \A u \in Tab \ {t} : worker'[u] = worker[u]
  BY <1>1, <1>2 DEF GoesOn, WorkerSet
<1>5. Turns(t)
  BY <1>2, <1>4 DEF Turns
<1>6. WorkersInv'
  BY <1>5, WorkersKeep DEF PostInv
<1>7. ASSUME NEW u \in Tab PROVE ClientInv(u)'
  <2>1. Keeps(client[u], client'[u], 0)
    BY <1>2, KeepsItself
  <2>2. \A i \in client'[u].pending : SameCall(i)
    BY <1>2 DEF SameCall
  <2>. QED
    BY <1>5, <2>1, <2>2, ClientKeeps
<1>8. ASSUME NEW i \in Calls, i # h PROVE CallInv(i)'
  <2>1. call'[i].under = call[i].under /\ runs'[i] = runs[i]
    BY <1>1, <1>2, <1>8
  <2>2. \A u \in Tab : Times(worker'[u].inbox, i) <= Times(worker[u].inbox, i)
    <3>1. \A u \in Tab : Reads(u)
      BY <1>2, <1>4 DEF Reads
    <3>. QED
      BY <3>1, ReadsLess
  <2>. QED
    BY <1>5, <2>1, <2>2, CallKeeps
<1>9. ASSUME NEW i \in Calls, i = h PROVE CallInv(i)'
  <2>. DEFINE n == Cardinality(call[i].under)
  <2>1. /\ call[i].under \subseteq 0..spawned /\ \A f \in Range(runs[i]) : f <= spawned
        /\ \A f \in Nat : Times(runs[i], f) <= n
        /\ \A u \in Tab : Alive(u) =>
              Times(runs[i], worker[u].epoch) + Times(worker[u].inbox, i) <= n
    BY DEF PostInv, CallInv
  <2>2. /\ Alive(t) /\ e <= spawned
        /\ \A u \in Tab \ {t} : Alive(u) => worker[u].epoch # e
    BY <1>2 DEF PostInv, WorkersInv
  <2>3. runs[i] \in Seq(Nat) /\ runs'[i] = Append(runs[i], e)
    BY <1>1, <1>2, <1>9
  <2>4. n \in Nat
    <3>1. 0 \in Int /\ spawned \in Int
      BY <1>1
    <3>2. IsFiniteSet(0..spawned) /\ call[i].under \in SUBSET (0..spawned)
      BY <2>1, <3>1, FS_Interval
    <3>. QED
      BY <3>2, FS_Subset, FS_CardinalityType
  <2>5. /\ \A f : Times(runs'[i], f) = Times(runs[i], f) + (IF e = f THEN 1 ELSE 0)
        /\ \A f : Times(runs[i], f) \in Nat
    <3>1. \A f : Times(Append(runs[i], e), f) = Times(runs[i], f) + (IF e = f THEN 1 ELSE 0)
      BY <1>1, <2>3, TimesAppend
    <3>2. \A f : Times(runs[i], f) \in Nat
      BY <2>3, TimesType
    <3>. QED
      BY <2>3, <3>1, <3>2
  <2>6. Times(Tail(q), i) + 1 <= Times(q, i) /\ Times(Tail(q), i) \in Nat /\ Times(q, i) \in Nat
    <3>1. Times(Tail(q), i) + (IF Head(q) = i THEN 1 ELSE 0) <= Times(q, i)
      BY <1>1, <1>2, TimesTail
    <3>2. Tail(q) \in Seq(Calls)
      BY <1>1, <1>2
    <3>3. Times(Tail(q), i) \in Nat /\ Times(q, i) \in Nat
      BY <1>1, <3>2, TimesType
    <3>. QED
      BY <1>9, <3>1, <3>3
  <2>7. Times(runs[i], e) + Times(q, i) <= n
    BY <2>1, <2>2
  <2>8. \A u \in Tab : Times(worker[u].inbox, i) \in Nat
    <3>1. \A u \in Tab : worker[u].inbox \in Seq(Calls)
      BY <1>1 DEF WorkerSet
    <3>. QED
      BY <3>1, TimesType
  <2>9. \A f \in Range(runs'[i]) : f <= spawned
    <3>1. /\ DOMAIN Append(runs[i], e) = 1..(Len(runs[i]) + 1) /\ Len(runs[i]) \in Nat
          /\ \A k \in 1..Len(runs[i]) : Append(runs[i], e)[k] = runs[i][k]
          /\ Append(runs[i], e)[Len(runs[i]) + 1] = e /\ DOMAIN runs[i] = 1..Len(runs[i])
      BY <2>3
    <3>2. ASSUME NEW f \in Range(runs'[i]) PROVE f \in Range(runs[i]) \/ f = e
      <4>1. PICK k \in 1..(Len(runs[i]) + 1) : f = Append(runs[i], e)[k]
        BY <2>3, <3>1, <3>2 DEF Range
      <4>2. k \in 1..Len(runs[i]) \/ k = Len(runs[i]) + 1
        BY <3>1, <4>1
      <4>. QED
        BY <3>1, <4>1, <4>2 DEF Range
    <3>. QED
      BY <2>1, <2>2, <3>2
  <2>. HIDE DEF n, q, e, h
  <2>10. ASSUME NEW f \in Nat PROVE Times(runs'[i], f) <= n
    <3>1. CASE f = e
      BY <2>4, <2>5, <2>6, <2>7, <3>1
    <3>2. CASE f # e
      BY <2>1, <2>4, <2>5, <3>2
    <3>. QED
      BY <3>1, <3>2
  <2>11. ASSUME NEW u \in Tab, worker'[u].epoch # 0
         PROVE  Times(runs'[i], worker'[u].epoch) + Times(worker'[u].inbox, i) <= n
    <3>1. worker'[u].epoch = worker[u].epoch /\ Alive(u)
      BY <1>4, <2>11 DEF GoesOn, Alive
    <3>2. CASE u = t
      <4>1. worker[u].epoch = e /\ worker'[u].inbox = Tail(q)
        BY <1>4, <3>2 DEF e
      <4>2. Times(runs'[i], e) = Times(runs[i], e) + 1 /\ Times(runs[i], e) \in Nat
        BY <2>5
      <4>. QED
        BY <2>4, <2>6, <2>7, <3>1, <4>1, <4>2
    <3>3. CASE u # t
      <4>1. /\ worker'[u].inbox = worker[u].inbox /\ worker[u].epoch # e
            /\ Times(runs[i], worker[u].epoch) + Times(worker[u].inbox, i) <= n
        BY <1>4, <2>1, <2>2, <3>1, <3>3
      <4>2. Times(runs'[i], worker[u].epoch) = Times(runs[i], worker[u].epoch)
        BY <2>5, <4>1
      <4>. QED
        BY <3>1, <4>1, <4>2
    <3>. QED
      BY <3>2, <3>3
  <2>. QED
    BY <1>2, <2>1, <2>9, <2>10, <2>11 DEF CallInv, Alive, n
<1>. QED
  BY <1>6, <1>7, <1>8, <1>9 DEF PostInv

\* Every worker goes on, and one client is still as it should be towards each of them.
LEMMA ClientGoesOn ==
    ASSUME PostInv, spawned' = spawned, \A v \in Tab : GoesOn(v), NEW u \in Tab,
           Orderly(client'[u], call'), Bounded(client'[u], spawned),
           \A e : Leads(client[u], e, call) => Leads(client'[u], e, call'),
           \A e : Unheard(client[u], e, call) => Unheard(client'[u], e, call'),
           \A i \in client'[u].pending : call'[i].by = u
    PROVE  ClientInv(u)'
<1>. DEFINE x == client[u]
            y == client'[u]
<1>1. \A v \in Tab : /\ worker[v].ready => Leads(x, worker[v].epoch, call)
                     /\ Alive(v) /\ ~worker[v].ready => Unheard(x, worker[v].epoch, call)
  BY DEF PostInv, ClientInv
<1>2. \A v \in Tab : worker'[v].epoch = worker[v].epoch /\ worker'[v].ready = worker[v].ready
  BY DEF GoesOn
<1>3. /\ \A e : Leads(x, e, call) => Leads(y, e, call')
      /\ \A e : Unheard(x, e, call) => Unheard(y, e, call')
      /\ Orderly(y, call') /\ Bounded(y, spawned) /\ \A i \in y.pending : call'[i].by = u
  OBVIOUS
<1>. HIDE DEF x, y
<1>4. \A v \in Tab : /\ worker[v].ready => Leads(y, worker[v].epoch, call')
                     /\ Alive(v) /\ ~worker[v].ready => Unheard(y, worker[v].epoch, call')
  BY <1>1, <1>3
<1>. QED
  BY <1>2, <1>3, <1>4 DEF ClientInv, Alive, y

\* A call is made, and posted if the tab knows a leader.
LEMMA PostsAtRequest ==
    ASSUME TypeOK, TypeOK', PostInv, NEW t \in Tab, Request(t)
    PROVE  PostInv'
<1>. DEFINE x == client[t]
<1>1. PICK i \in Calls :
        /\ call[i] = NoCall
        /\ call' = [call EXCEPT ![i] = [by |-> t, under |-> {client[t].epoch} \ {0},
                                       end |-> "pending"]]
        /\ client' = [client EXCEPT ![t].pending = @ \cup {i}]
        /\ worker' = IF client[t].epoch # 0 THEN Posted(<<i>>) ELSE worker
        /\ runs' = runs /\ spawned' = spawned
  BY DEF Request
<1>2. /\ call \in [Calls -> CallSet] /\ client \in [Tab -> ClientSet]
      /\ x \in ClientSet /\ x.epoch \in Nat /\ spawned \in Nat
      /\ \A u \in Tab : client[u].pending \subseteq Calls
  BY DEF TypeOK, ClientSet
<1>3. /\ call[i].under = {} /\ call[i].by = None
      /\ call'[i].under = {x.epoch} \ {0} /\ call'[i].by = t
      /\ \A j \in Calls \ {i} : call'[j] = call[j]
  BY <1>1, <1>2 DEF NoCall
<1>4. \A u \in Tab : i \notin client[u].pending
  <2>1. \A u \in Tab : \A j \in client[u].pending : call[j].by = u
    BY DEF PostInv, ClientInv
  <2>. QED
    BY <1>3, <2>1, TabsAssumption
<1>5. /\ \A u \in Tab : GoesOn(u)
      /\ Turns(t)
  <2>1. CASE x.epoch # 0
    BY <1>1, <2>1, PostedTo
  <2>2. CASE x.epoch = 0
    BY <1>1, <2>2 DEF GoesOn, Turns
  <2>. QED
    BY <2>1, <2>2
<1>6. WorkersInv'
  BY <1>5, WorkersKeep DEF PostInv
<1>7. ASSUME NEW u \in Tab, u # t PROVE ClientInv(u)'
  <2>1. client'[u] = client[u] /\ Keeps(client[u], client'[u], 0)
    BY <1>1, <1>2, <1>7, KeepsItself
  <2>2. \A j \in client'[u].pending : SameCall(j)
    BY <1>2, <1>3, <1>4, <2>1 DEF SameCall
  <2>. QED
    BY <1>5, <2>1, <2>2, ClientKeeps
<1>8. ClientInv(t)'
  <2>1. client'[t] = [x EXCEPT !.pending = @ \cup {i}]
    BY <1>1, <1>2
  <2>2. SameUnder(x, call, call') /\ call'[i].under \subseteq {x.epoch}
    BY <1>2, <1>3, <1>4 DEF SameUnder
  <2>3. /\ Orderly(x, call) /\ Bounded(x, spawned) /\ \A j \in x.pending : call[j].by = t
    BY DEF PostInv, ClientInv
  <2>4. client'[t].pending = x.pending \cup {i}
    BY <1>2, <2>1 DEF ClientSet
  <2>5. \A j \in client'[t].pending : call'[j].by = t
    BY <1>2, <1>3, <1>4, <2>3, <2>4
  <2>. DEFINE y == [x EXCEPT !.pending = @ \cup {i}]
  <2>6. /\ Orderly(x, call) => Orderly(y, call')
        /\ \A m : Bounded(x, m) => Bounded(y, m)
        /\ \A e : Leads(x, e, call) => Leads(y, e, call')
        /\ \A e : Unheard(x, e, call) => Unheard(y, e, call')
    <3>. HIDE DEF x
    <3>. QED
      BY <1>2, <2>2, MakesCall
  <2>7. /\ Orderly(y, call') /\ Bounded(y, spawned) /\ y = client'[t]
    BY <2>1, <2>3, <2>6
  <2>. HIDE DEF y
  <2>. QED
    BY <1>1, <1>5, <2>5, <2>6, <2>7, ClientGoesOn
<1>9. ASSUME NEW j \in Calls PROVE CallInv(j)'
  <2>1. CASE x.epoch = 0
    <3>1. call'[j].under = call[j].under
      BY <1>3, <2>1
    <3>2. \A u \in Tab : Times(worker'[u].inbox, j) <= Times(worker[u].inbox, j)
      <4>1. worker' = worker
        BY <1>1, <2>1
      <4>2. \A u \in Tab : worker[u].inbox \in Seq(Calls)
        BY DEF TypeOK, WorkerSet
      <4>3. \A u \in Tab : Times(worker[u].inbox, j) \in Nat
        BY <4>2, TimesType
      <4>. QED
        BY <4>1, <4>3
    <3>3. runs'[j] = runs[j]
      BY <1>1
    <3>. QED
      BY <1>5, <3>1, <3>2, <3>3, CallKeeps
  <2>2. CASE x.epoch # 0
    <3>1. worker' = Posted(<<i>>) /\ <<i>> \in InOrder({i}) /\ {i} \in SUBSET Calls
      BY <1>1, <2>2, SinglePost
    <3>2. /\ call'[j].under \subseteq 0..spawned
          /\ Cardinality(call'[j].under)
               = Cardinality(call[j].under) + (IF j \in {i} THEN 1 ELSE 0)
      <4>1. CASE j = i
        <5>1. call[j].under = {} /\ call'[j].under = {x.epoch}
          BY <1>3, <2>2, <4>1
        <5>2. Cardinality({}) = 0 /\ Cardinality({x.epoch}) = 1
          BY FS_EmptySet, FS_Singleton
        <5>3. x.epoch \in 0..spawned
          BY <1>2 DEF PostInv, ClientInv, Bounded
        <5>. QED
          BY <4>1, <5>1, <5>2, <5>3
      <4>2. CASE j # i
        <5>1. call'[j].under = call[j].under /\ call[j].under \subseteq 0..spawned
          BY <1>3, <4>2 DEF PostInv, CallInv
        <5>2. IsFiniteSet(0..spawned)
          <6>1. 0 \in Int /\ spawned \in Int
            BY <1>2
          <6>. QED
            BY <6>1, FS_Interval
        <5>3. Cardinality(call[j].under) \in Nat
          BY <5>1, <5>2, FS_Subset, FS_CardinalityType
        <5>. QED
          BY <4>2, <5>1, <5>3
      <4>. QED
        BY <4>1, <4>2
    <3>. QED
      BY <1>1, <3>1, <3>2, PostedKeeps
  <2>. QED
    BY <2>1, <2>2
<1>. QED
  BY <1>6, <1>7, <1>8, <1>9 DEF PostInv

\* A tab takes a ready: its outstanding calls are posted to a leader they never were posted
\* under, and nothing is posted again to one the tab knows.
LEMMA PostsAtTake ==
    ASSUME TypeOK, TypeOK', PostInv, NEW t \in Tab, ReceiveReady(t)
    PROVE  PostInv'
<1>. DEFINE x == client[t]
            e == Head(x.inbox).epoch
            S == Resent(t, e)
<1>1. /\ x.inbox # <<>> /\ Head(x.inbox).kind = "ready"
      /\ client' = [client EXCEPT ![t].inbox = Tail(@), ![t].epoch = e]
      /\ \E q \in InOrder(S) : worker' = Posted(q)
      /\ call' = [i \in Calls |-> IF i \in S THEN [call[i] EXCEPT !.under = @ \cup {e}]
                                  ELSE call[i]]
      /\ runs' = runs /\ spawned' = spawned
  BY DEF ReceiveReady
<1>2. /\ call \in [Calls -> CallSet] /\ client \in [Tab -> ClientSet]
      /\ x \in ClientSet /\ x.epoch \in Nat /\ x.inbox \in Seq(Message) /\ spawned \in Nat
      /\ \A u \in Tab : client[u].pending \subseteq Calls
  BY DEF TypeOK, ClientSet
<1>3. PICK q \in InOrder(S) : worker' = Posted(q)
  BY <1>1
<1>4. \A u \in Tab : GoesOn(u) /\ Turns(u)
  BY <1>1, <1>3, PostedTo
<1>5. S \in SUBSET Calls /\ S \subseteq x.pending /\ (e # x.epoch => S = x.pending)
      /\ (e = x.epoch => S = {})
  BY <1>2 DEF Resent
<1>6. /\ \A i \in Calls \ S : call'[i] = call[i]
      /\ \A i \in S : call'[i].under = call[i].under \cup {e} /\ call'[i].by = call[i].by
  <2>1. \A i \in S : call[i] \in CallSet /\ call'[i] = [call[i] EXCEPT !.under = @ \cup {e}]
    BY <1>1, <1>2, <1>5
  <2>2. \A c \in CallSet : LET d == [c EXCEPT !.under = @ \cup {e}]
                           IN  d.under = c.under \cup {e} /\ d.by = c.by
    BY DEF CallSet
  <2>. HIDE DEF S
  <2>3. \A i \in Calls \ S : call'[i] = call[i]
    BY <1>1
  <2>. QED
    BY <2>1, <2>2, <2>3
<1>7. /\ Orderly(x, call) /\ Bounded(x, spawned)
      /\ \A u \in Tab : \A i \in client[u].pending : call[i].by = u
  BY DEF PostInv, ClientInv
<1>8. client'[t] = [x EXCEPT !.inbox = Tail(@), !.epoch = e]
      /\ client'[t].pending = x.pending
  <2>1. client'[t] = [x EXCEPT !.inbox = Tail(@), !.epoch = e]
    BY <1>1, <1>2
  <2>2. [x EXCEPT !.inbox = Tail(@), !.epoch = e].pending = x.pending
    BY <1>2 DEF ClientSet
  <2>. QED
    BY <2>1, <2>2
<1>. HIDE DEF S
<1>9. WorkersInv'
  BY <1>4, WorkersKeep DEF PostInv
<1>10. ASSUME NEW u \in Tab, u # t PROVE ClientInv(u)'
  <2>1. client'[u] = client[u] /\ Keeps(client[u], client'[u], 0)
    BY <1>1, <1>2, <1>10, KeepsItself
  <2>2. \A j \in client'[u].pending : j \in Calls \ S
    BY <1>2, <1>5, <1>7, <1>10, <2>1
  <2>3. \A j \in client'[u].pending : SameCall(j)
    BY <1>6, <2>2 DEF SameCall
  <2>. QED
    BY <1>4, <2>1, <2>3, ClientKeeps
<1>11. CASE e = x.epoch
  <2>1. S = {} /\ \A i \in Calls : SameCall(i)
    BY <1>5, <1>6, <1>11 DEF SameCall
  <2>2. Keeps(client[t], client'[t], 1)
    <3>1. client'[t] = [x EXCEPT !.inbox = Tail(@), !.pending = x.pending]
      BY <1>2, <1>8, <1>11 DEF ClientSet
    <3>2. x.pending \in SUBSET x.pending
      OBVIOUS
    <3>. HIDE DEF x, e
    <3>3. Keeps(x, [x EXCEPT !.inbox = Tail(@), !.pending = x.pending], 1)
      BY <1>1, <1>2, <3>2, HearsLessHere
    <3>. QED
      BY <3>1, <3>3 DEF x
  <2>3. ClientInv(t)'
    <3>1. \A i \in client'[t].pending : SameCall(i)
      BY <1>2, <1>8, <2>1
    <3>. QED
      BY <1>4, <2>2, <3>1, ClientKeeps
  <2>4. ASSUME NEW i \in Calls PROVE CallInv(i)'
    <3>1. call'[i].under = call[i].under /\ call[i].under \subseteq 0..spawned
      BY <2>1 DEF SameCall, PostInv, CallInv
    <3>2. IsFiniteSet(0..spawned)
      <4>1. 0 \in Int /\ spawned \in Int
        BY <1>2
      <4>. QED
        BY <4>1, FS_Interval
    <3>3. Cardinality(call[i].under) \in Nat
      BY <3>1, <3>2, FS_Subset, FS_CardinalityType
    <3>4. /\ call'[i].under \subseteq 0..spawned
          /\ Cardinality(call'[i].under)
               = Cardinality(call[i].under) + (IF i \in S THEN 1 ELSE 0)
      BY <2>1, <3>1, <3>3
    <3>. QED
      BY <1>1, <1>3, <1>5, <3>4, PostedKeeps
  <2>. QED
    BY <1>9, <1>10, <2>3, <2>4 DEF PostInv
<1>12. CASE e # x.epoch
  <2>. DEFINE y == [x EXCEPT !.inbox = Tail(@), !.epoch = e]
  <2>1. S = x.pending /\ \A i \in x.pending : call'[i].under = call[i].under \cup {e}
    BY <1>5, <1>6, <1>12
  <2>2. /\ Orderly(y, call') /\ Unposted(x, e, call)
        /\ \A m : Bounded(x, m) => Bounded(y, m) /\ e <= m
        /\ \A f : Leads(x, f, call) => Leads(y, f, call')
        /\ \A f : Unheard(x, f, call) => Unheard(y, f, call')
    <3>1. \A i \in x.pending : call'[i].under \subseteq call[i].under \cup {e}
      BY <2>1
    <3>2. x \in ClientSet /\ x.inbox # <<>> /\ Head(x.inbox).kind = "ready"
          /\ e = Head(x.inbox).epoch /\ e # x.epoch /\ Orderly(x, call)
      BY <1>1, <1>2, <1>7, <1>12
    <3>. HIDE DEF x, e
    <3>. QED
      BY <3>1, <3>2, TakesReady
  <2>3. ClientInv(t)'
    <3>1. y = client'[t] /\ Bounded(y, spawned) /\ Orderly(y, call')
      BY <1>7, <1>8, <2>2
    <3>2. \A i \in client'[t].pending : call'[i].by = t
      BY <1>6, <1>7, <1>8, <2>1
    <3>. HIDE DEF y
    <3>. QED
      BY <1>1, <1>4, <2>2, <3>1, <3>2, ClientGoesOn
  <2>4. e \in 0..spawned
    <3>1. e <= spawned
      BY <1>7, <2>2
    <3>2. e \in Nat
      <4>1. Head(x.inbox) \in Message
        BY <1>1, <1>2
      <4>. QED
        BY <4>1 DEF Message
    <3>. QED
      BY <1>2, <3>1, <3>2
  <2>5. ASSUME NEW i \in Calls PROVE CallInv(i)'
    <3>1. call[i].under \subseteq 0..spawned
      BY DEF PostInv, CallInv
    <3>2. IsFiniteSet(0..spawned)
      <4>1. 0 \in Int /\ spawned \in Int
        BY <1>2
      <4>. QED
        BY <4>1, FS_Interval
    <3>3. IsFiniteSet(call[i].under) /\ Cardinality(call[i].under) \in Nat
      BY <3>1, <3>2, FS_Subset, FS_CardinalityType
    <3>. HIDE DEF e, x
    <3>4. /\ call'[i].under \subseteq 0..spawned
          /\ Cardinality(call'[i].under)
               = Cardinality(call[i].under) + (IF i \in S THEN 1 ELSE 0)
      <4>1. CASE i \in S
        <5>1. call'[i].under = call[i].under \cup {e} /\ e \notin call[i].under
          BY <2>1, <2>2, <4>1 DEF Unposted
        <5>2. Cardinality(call[i].under \cup {e}) = Cardinality(call[i].under) + 1
          BY <3>3, <5>1, FS_AddElement
        <5>. QED
          BY <2>4, <3>1, <4>1, <5>1, <5>2
      <4>2. CASE i \notin S
        BY <1>6, <3>1, <3>3, <4>2
      <4>. QED
        BY <4>1, <4>2
    <3>. QED
      BY <1>1, <1>3, <1>5, <3>4, PostedKeeps
  <2>. QED
    BY <1>9, <1>10, <2>3, <2>5 DEF PostInv
<1>. QED
  BY <1>11, <1>12

\* Steps that leave workers, clients and calls alone.
LEMMA PostsIdle ==
    ASSUME PostInv, UNCHANGED <<worker, client, callVars, spawned>>
    PROVE  PostInv'
BY DEF callVars, PostInv, WorkersInv, ClientInv, CallInv, Alive

LEMMA PostsAtInit == ASSUME Init PROVE PostInv
<1>1. /\ \A t \in Tab : worker[t] = NoWorker /\ client[t] = NewClient
      /\ \A i \in Calls : call[i] = NoCall /\ runs[i] = <<>>
      /\ spawned = 0
  BY DEF Init
<1>2. WorkersInv
  BY <1>1, Blank DEF WorkersInv, Alive
<1>3. ASSUME NEW t \in Tab PROVE ClientInv(t)
  <2>1. client[t] = NewClient /\ client[t].pending = {}
    BY <1>1 DEF NewClient
  <2>2. \A u \in Tab : ~worker[u].ready /\ ~Alive(u)
    BY <1>1, Blank DEF Alive
  <2>3. Orderly(NewClient, call) /\ Bounded(NewClient, 0)
    BY HeardNothing
  <2>. QED
    BY <1>1, <2>1, <2>2, <2>3 DEF ClientInv
<1>4. ASSUME NEW i \in Calls PROVE CallInv(i)
  <2>1. call[i].under = {} /\ runs[i] = <<>>
    BY <1>1 DEF NoCall
  <2>2. Range(<<>>) = {}
    BY DEF Range
  <2>3. Cardinality(call[i].under) = 0 /\ \A e : Times(runs[i], e) = 0
    BY <2>1, FS_EmptySet, TimesEmpty
  <2>4. \A u \in Tab : ~Alive(u)
    BY <1>1, Blank DEF Alive
  <2>. QED
    BY <2>1, <2>2, <2>3, <2>4 DEF CallInv
<1>. QED
  BY <1>2, <1>3, <1>4 DEF PostInv

LEMMA PostsStep ==
    TypeOK /\ ElectionInv /\ PostInv /\ [Next]_vars => TypeOK' /\ ElectionInv' /\ PostInv'
<1> SUFFICES ASSUME TypeOK, ElectionInv, PostInv, [Next]_vars
             PROVE  TypeOK' /\ ElectionInv' /\ PostInv'
  OBVIOUS
<1>1. TypeOK' /\ ElectionInv'
  BY ElectionStep
<1>2. CASE UNCHANGED vars
  BY <1>1, <1>2, PostsIdle DEF vars
<1>3. CASE Grant
  <2>1. Head(waiters) \in Tab
    BY <1>3, QueueTail DEF Grant, TypeOK, ElectionInv
  <2>2. PICK t \in Tab : t = Head(waiters)
    BY <2>1
  <2>3. PostInv'
    BY <1>1, <1>3, <2>2, PostsInElection
  <2>. QED
    BY <1>1, <2>3
<1>4. ASSUME NEW t \in Tab, Open(t) \/ Probe(t) \/ ReelectTimer(t) PROVE PostInv'
  <2>1. UNCHANGED <<worker, client, callVars, spawned>>
    BY <1>4 DEF Open, Probe, ProbeTerminal, ProbeRetries, ProbeReelects, ProbeGivesUp, ReelectTimer
  <2>. QED
    BY <2>1, PostsIdle
<1>5. ASSUME NEW t \in Tab, RetryTimer(t) \/ BootFails(t) \/ WorkerCrashes(t) PROVE PostInv'
  BY <1>1, <1>5, PostsInElection
<1>6. ASSUME NEW t \in Tab, Close(t) \/ Reload(t) \/ Destroy(t) PROVE PostInv'
  BY <1>1, <1>6, PostsWithout
<1>7. ASSUME NEW t \in Tab, Refuse(t) \/ Answer(t) \/ ReceiveResponse(t) \/ Timeout(t)
      PROVE  PostInv'
  BY <1>1, <1>7, PostsInTraffic
<1>8. ASSUME NEW t \in Tab, BootSucceeds(t) \/ Ping(t) PROVE PostInv'
  BY <1>1, <1>8, PostsAtReady
<1>9. ASSUME NEW t \in Tab, Request(t) PROVE PostInv'
  BY <1>1, <1>9, PostsAtRequest
<1>10. ASSUME NEW t \in Tab, Run(t) PROVE PostInv'
  BY <1>1, <1>10, PostsAtRun
<1>11. ASSUME NEW t \in Tab, ReceiveReady(t) PROVE PostInv'
  BY <1>1, <1>11, PostsAtTake
<1>. QED
  BY <1>1, <1>2, <1>3, <1>4, <1>5, <1>6, <1>7, <1>8, <1>9, <1>10, <1>11 DEF Next

\* The inductive invariant of the transport: what a worker ran of a call and has yet to read
\* of it was posted under as many epochs, and a leader whose ready is still to come in a tab's
\* inbox, unless it is the one the tab knows, is one its calls were never posted under.
THEOREM CallsPosted == Spec => [](TypeOK /\ ElectionInv /\ PostInv)
BY ElectionInit, PostsAtInit, PostsStep, PTL DEF Spec

\* However readies, resends and crashes interleave, a leader runs a call no more often than
\* its tab posted it under an epoch.
THEOREM RunsOnce == Spec => []OncePerLeader
<1>1. ASSUME TypeOK, PostInv PROVE OncePerLeader
  <2>1. ASSUME NEW i \in Calls, NEW e \in Range(runs[i])
        PROVE  TimesRun(i, e) <= Cardinality(call[i].under)
    <3>1. e \in Nat
      <4>1. runs[i] \in Seq(Nat)
        BY <1>1 DEF TypeOK
      <4>. QED
        BY <4>1 DEF Range
    <3>2. Times(runs[i], e) <= Cardinality(call[i].under)
      BY <1>1, <3>1 DEF PostInv, CallInv
    <3>. QED
      BY <3>2 DEF TimesRun, Times
  <2>. QED
    BY <2>1 DEF OncePerLeader
<1>. QED
  BY <1>1, CallsPosted, PTL

===============================================================================
