--------------------------- MODULE DictInstanceProofs ---------------------------
(***************************************************************************)
(* What the instance keeps, for any file, works, recoveries and budgets.   *)
(***************************************************************************)
EXTENDS DictInstanceProps, TLAPS

-------------------------------------------------------------------------------
(* The inductive invariant.                                                 *)

\* A connection being wired holds the handle, is not yet the current one, and is alone.
Wiring ==
    /\ \A t \in Task : At(t, "wire") =>
        held = task[t].conn /\ task[t].conn # conn /\ task[t].conn # 0
    /\ \A t, u \in Task : At(t, "wire") /\ At(u, "wire") => t = u

\* No number is used before its connection is opened.
Numbered == conn <= opened /\ held <= opened

Permits ==
    /\ ResetsAreBounded
    /\ "auto" \notin spent => resets.auto = 0 /\ At("auto", "idle")
    /\ "rebuild" \notin spent => resets.rebuild = 0 /\ At("rebuild", "idle")

\* What a reset vouched for and finds flagged is on the server or was refused; a round's
\* rows are on the server or refused; nothing is vouched for before it is saved.
Accounted ==
    /\ Present \subseteq saved
    /\ \A t \in Task : task[t].vouched \subseteq saved
    /\ \A t \in Resets : At(t, "teardown") =>
        task[t].vouched \cap file.dirty \subseteq server \cup task[t].refused
    /\ \A c \in Conns : engine[c].round.answer = "ok" =>
        /\ engine[c].round.pushed \subseteq server \cup engine[c].round.refused
        /\ engine[c].round.refused \subseteq saved

IInv == TypeOK /\ Numbered /\ Wiring /\ HandleHasOwner /\ Permits /\ Accounted

-------------------------------------------------------------------------------
(* Type correctness.                                                        *)

LEMMA Literals ==
    /\ Idle \in Tasks
    /\ [Idle EXCEPT !.pc = "probe"] \in Tasks
    /\ [Idle EXCEPT !.pc = "failed"] \in Tasks
    /\ NoRound \in Rounds /\ NoStrikes \in Strikes
    /\ NoFile \in Files
    /\ NoEngine \in Engines
<1>1. 0 \in 0..MaxOpens
  BY InstanceAssumption
<1>2. /\ Idle \in Tasks
      /\ [Idle EXCEPT !.pc = "probe"] \in Tasks
      /\ [Idle EXCEPT !.pc = "failed"] \in Tasks
  BY <1>1 DEF Idle, Tasks, Pcs
<1>3. NoRound \in Rounds /\ NoStrikes \in Strikes /\ NoFile \in Files
  BY DEF NoRound, Rounds, NoStrikes, Strikes, NoFile, Files
<1>4. NoEngine \in Engines
  BY <1>3 DEF NoEngine, Engines
<1>. QED
  BY <1>2, <1>3, <1>4

LEMMA InitType == Init => TypeOK
<1>1. SUFFICES ASSUME Init PROVE TypeOK
  OBVIOUS
<1>2. file \in Files /\ editor \in BOOLEAN /\ budget \in [Events -> Nat]
  BY <1>1, InstanceAssumption DEF Init
<1>3. /\ engine \in [Conns -> Engines] /\ task \in [Task -> Tasks]
  BY <1>1, Literals DEF Init
<1>. QED
  BY <1>1, <1>2, <1>3, InstanceAssumption DEF Init, TypeOK, Files, NoResets

LEMMA GoToType ==
    ASSUME task \in [Task -> Tasks], NEW t \in Task, NEW pc \in Pcs
    PROVE  GoTo(t, pc) \in [Task -> Tasks]
BY DEF GoTo, Tasks

LEMMA EndedType ==
    ASSUME task \in [Task -> Tasks], NEW t \in Task
    PROVE  Ended(t) \in [Task -> Tasks]
BY Literals DEF Ended

LEMMA StoppedType ==
    ASSUME NEW e \in [Conns -> Engines], NEW c \in Conns
    PROVE  [e EXCEPT ![c].running = FALSE] \in [Conns -> Engines]
BY DEF Engines

LEMMA UnstruckType ==
    ASSUME engine \in [Conns -> Engines], NEW c \in Conns
    PROVE  Unstruck(c) \in [Conns -> Engines]
BY Literals DEF Unstruck, Engines

LEMMA EngineType ==
    ASSUME engine \in [Conns -> Engines], NEW c \in Conns, NEW r \in Rounds, NEW s \in Strikes,
           NEW h \in BOOLEAN, NEW w \in BOOLEAN
    PROVE  [engine EXCEPT ![c].round = r, ![c].strikes = s, ![c].halted = h, ![c].wedgeFired = w]
              \in [Conns -> Engines]
<1>1. [engine[c] EXCEPT !.round = r, !.strikes = s, !.halted = h, !.wedgeFired = w] \in Engines
  BY DEF Engines
<1>. QED
  BY <1>1

LEMMA StruckType ==
    ASSUME engine \in [Conns -> Engines], NEW c \in Conns, NEW kind \in {"fk", "misuse"}
    PROVE  Struck(c, kind) \in [Conns -> Engines]
<1> DEFINE n == IF engine[c].strikes.kind = kind THEN engine[c].strikes.n + 1 ELSE 1
           s == [kind |-> kind, n |-> n]
           h == n >= 3
           w == engine[c].wedgeFired \/ (kind = "fk" /\ n >= 2)
<1>1. n \in Nat
  BY DEF Engines, Strikes
<1>2. s \in Strikes
  BY <1>1 DEF Strikes
<1>3. h \in BOOLEAN /\ w \in BOOLEAN
  BY DEF Engines
<1>4. Struck(c, kind) = [engine EXCEPT ![c].round = NoRound, ![c].strikes = s,
                                       ![c].halted = h, ![c].wedgeFired = w]
  BY DEF Struck
<1>5. NoRound \in Rounds
  BY Literals
<1> HIDE DEF n, s, h, w
<1>6. [engine EXCEPT ![c].round = NoRound, ![c].strikes = s, ![c].halted = h, ![c].wedgeFired = w]
        \in [Conns -> Engines]
  BY <1>2, <1>3, <1>5, EngineType
<1>. QED
  BY <1>4, <1>6

LEMMA SpendType ==
    ASSUME budget \in [Events -> Nat], NEW event \in Events, Spend(event)
    PROVE  budget' \in [Events -> Nat]
BY DEF Spend

LEMMA AcceptsType ==
    ASSUME TypeOK, NEW pushed \in SUBSET Work, NEW refused \in SUBSET Work, Accepts(pushed, refused)
    PROVE  server' \subseteq Work /\ budget' \in [Events -> Nat]
BY SpendType DEF TypeOK, Accepts, Events

LEMMA ThrowsType ==
    ASSUME TypeOK, NEW t \in Task, Throws(t)
    PROVE  held' \in 0..MaxOpens /\ budget' \in [Events -> Nat]
BY SpendType, InstanceAssumption DEF TypeOK, Throws, Events

\* The actions of an opening.
LEMMA OpeningType ==
    ASSUME TypeOK, NEW t \in Task,
           Probe(t) \/ DropIn(t) \/ OpenSucceeds(t) \/ OpenReplaces(t) \/ OpenFails(t) \/ Wire(t)
    PROVE  TypeOK'
<1>1. CASE Probe(t)
  BY <1>1, GoToType DEF Probe, TypeOK, connVars, permitVars, Pcs
<1>2. CASE DropIn(t)
  <2>1. task' \in [Task -> Tasks]
    BY <1>2, GoToType DEF DropIn, TypeOK, Pcs
  <2>2. budget' \in [Events -> Nat]
    BY <1>2, SpendType DEF DropIn, TypeOK, Events
  <2>3. file' \in Files
    <3>1. Snapshots \subseteq Files
      BY DEF Snapshots, NoFile, Files
    <3>2. [NoFile EXCEPT !.state = "broken"] \in Files
      BY DEF NoFile, Files
    <3>. QED
      BY <1>2, <3>1, <3>2 DEF DropIn, TypeOK
  <2>. QED
    BY <1>2, <2>1, <2>2, <2>3 DEF DropIn, TypeOK, connVars, permitVars
<1>3. CASE OpenSucceeds(t)
  <2>1. opened + 1 \in 1..MaxOpens /\ opened + 1 \in 0..MaxOpens
    BY <1>3, InstanceAssumption DEF OpenSucceeds, TypeOK
  <2>2. [task[t] EXCEPT !.pc = "wire", !.conn = opened + 1] \in Tasks
    BY <2>1 DEF TypeOK, Tasks, Pcs
  <2>3. task' \in [Task -> Tasks]
    BY <1>3, <2>2 DEF OpenSucceeds, TypeOK
  <2>4. file' \in Files
    BY <1>3 DEF OpenSucceeds, TypeOK, Files
  <2>. QED
    BY <1>3, <2>1, <2>3, <2>4 DEF OpenSucceeds, TypeOK, permitVars
<1>4. CASE OpenReplaces(t)
  BY <1>4, GoToType, ThrowsType, Literals DEF OpenReplaces, TypeOK, Pcs
<1>5. CASE OpenFails(t)
  <2>1. [Idle EXCEPT !.pc = IF t = "boot" THEN "failed" ELSE "idle"] \in Tasks
    BY Literals DEF Idle
  <2>. QED
    BY <1>5, <2>1, ThrowsType DEF OpenFails, TypeOK, permitVars
<1>6. CASE Wire(t)
  <2>1. task' \in [Task -> Tasks]
    BY <1>6, GoToType, EndedType DEF Wire, TypeOK, Pcs
  <2>2. engine' \in [Conns -> Engines]
    BY <1>6 DEF Wire, TypeOK, Engines
  <2>3. conn' \in 0..MaxOpens
    BY <1>6 DEF Wire, TypeOK, Tasks
  <2>. QED
    BY <1>6, <2>1, <2>2, <2>3 DEF Wire, TypeOK, permitVars
<1>. QED
  BY <1>1, <1>2, <1>3, <1>4, <1>5, <1>6

LEMMA StoppedConn ==
    ASSUME TypeOK
    PROVE  Stopped(conn) \in [Conns -> Engines]
BY StoppedType DEF Stopped, TypeOK, Conns

LEMMA Seen ==
    ASSUME TypeOK
    PROVE  /\ Vouched \in SUBSET Work /\ Pending \in SUBSET Work
           /\ Vouched \subseteq Present /\ Pending \subseteq file.dirty
BY DEF TypeOK, Vouched, Pending, Present, Files

LEMMA ChecksType ==
    ASSUME TypeOK, NEW t \in Task
    PROVE  [task EXCEPT ![t].pc = "teardown", ![t].vouched = Vouched] \in [Task -> Tasks]
<1>1. [task[t] EXCEPT !.pc = "teardown", !.vouched = Vouched] \in Tasks
  BY Seen DEF TypeOK, Tasks, Pcs
<1>. QED
  BY <1>1 DEF TypeOK

LEMMA FlushesType ==
    ASSUME TypeOK, NEW t \in Task, NEW pc \in Pcs, Flushes(t, pc)
    PROVE  /\ server' \subseteq Work /\ budget' \in [Events -> Nat]
           /\ task' \in [Task -> Tasks]
<1>1. PICK refused \in SUBSET Pending :
        /\ Accepts(Pending, refused)
        /\ task' = [task EXCEPT ![t].pc = pc, ![t].vouched = Vouched, ![t].refused = refused]
  BY DEF Flushes
<1>2. [task[t] EXCEPT !.pc = pc, !.vouched = Vouched, !.refused = refused] \in Tasks
  BY Seen DEF TypeOK, Tasks
<1>. QED
  BY <1>1, <1>2, Seen, AcceptsType DEF TypeOK

\* The actions of a recovery up to its teardown.
LEMMA RecoveryType ==
    ASSUME TypeOK, NEW t \in Task,
           \/ AutoChecks \/ RebuildFlushes \/ ManualFlushes \/ ManualChecks
           \/ FlushFails(t) \/ Teardown(t) \/ RoundSkipped(t) \/ ManualReset
    PROVE  TypeOK'
<1>0. {"auto", "rebuild", "manual"} \subseteq Task
  BY DEF Task, Resets
<1>1. CASE AutoChecks
  <2>1. "auto" \in Task
    BY <1>0
  <2>2. Ended("auto") \in [Task -> Tasks]
    BY <2>1, EndedType DEF TypeOK
  <2>3. [task EXCEPT !["auto"].pc = "teardown", !["auto"].vouched = Vouched] \in [Task -> Tasks]
    BY <2>1, ChecksType
  <2>4. task' \in [Task -> Tasks] /\ engine' \in [Conns -> Engines]
    BY <1>1, <2>2, <2>3, StoppedConn DEF AutoChecks, TypeOK
  <2>. QED
    BY <1>1, <2>4 DEF AutoChecks, TypeOK, connVars, permitVars
<1>2. CASE RebuildFlushes
  <2>1. "teardown" \in Pcs
    BY DEF Pcs
  <2>2. /\ server' \subseteq Work /\ budget' \in [Events -> Nat]
        /\ task' \in [Task -> Tasks]
    BY <1>0, <1>2, <2>1, FlushesType DEF RebuildFlushes
  <2>. QED
    BY <1>2, <2>2, StoppedConn DEF RebuildFlushes, TypeOK, connVars, permitVars
<1>3. CASE ManualFlushes
  <2>1. "check" \in Pcs
    BY DEF Pcs
  <2>2. /\ server' \subseteq Work /\ budget' \in [Events -> Nat]
        /\ task' \in [Task -> Tasks]
    BY <1>0, <1>3, <2>1, FlushesType DEF ManualFlushes
  <2>. QED
    BY <1>3, <2>2 DEF ManualFlushes, TypeOK, connVars, permitVars
<1>4. CASE ManualChecks
  <2>1. "manual" \in Task
    BY <1>0
  <2>2. Ended("manual") \in [Task -> Tasks]
    BY <2>1, EndedType DEF TypeOK
  <2>3. [task EXCEPT !["manual"].pc = "teardown", !["manual"].vouched = Vouched] \in [Task -> Tasks]
    BY <2>1, ChecksType
  <2>4. task' \in [Task -> Tasks] /\ engine' \in [Conns -> Engines]
    BY <1>4, <2>2, <2>3, StoppedConn DEF ManualChecks, TypeOK
  <2>. QED
    BY <1>4, <2>4 DEF ManualChecks, TypeOK, connVars, permitVars
<1>5. CASE FlushFails(t)
  BY <1>5, EndedType DEF FlushFails, TypeOK, connVars, permitVars
<1>6. CASE Teardown(t)
  BY <1>6, GoToType, Literals, InstanceAssumption DEF Teardown, TypeOK, permitVars, Pcs
<1>7. CASE RoundSkipped(t)
  BY <1>7, EndedType DEF RoundSkipped, TypeOK, connVars, permitVars
<1>8. CASE ManualReset
  BY <1>0, <1>8, GoToType, SpendType DEF ManualReset, TypeOK, connVars, permitVars, Pcs, Events
<1>. QED
  BY <1>1, <1>2, <1>3, <1>4, <1>5, <1>6, <1>7, <1>8

LEMMA StorageLostType ==
    ASSUME TypeOK, NEW e \in [Conns -> Engines], StorageLost(e)
    PROVE  /\ engine' \in [Conns -> Engines] /\ task' \in [Task -> Tasks]
           /\ reopens' \in 0..MaxReopens
<1>1. CASE ~At("reopen", "idle")
  BY <1>1 DEF StorageLost, TypeOK
<1>2. CASE At("reopen", "idle")
  <2>1. engine' \in [Conns -> Engines]
    <3>1. conn # 0 => conn \in Conns
      BY DEF TypeOK, Conns
    <3>2. conn # 0 => [e EXCEPT ![conn].running = FALSE] \in [Conns -> Engines]
      BY <3>1, StoppedType
    <3>. QED
      BY <1>2, <3>2 DEF StorageLost
  <2>2. "reopen" \in Task /\ "teardown" \in Pcs
    BY DEF Task, Pcs
  <2>3. /\ task' \in [Task -> Tasks]
        /\ reopens' \in 0..MaxReopens
    BY <1>2, <2>2, GoToType, InstanceAssumption DEF StorageLost, TypeOK
  <2>. QED
    BY <2>1, <2>3
<1>. QED
  BY <1>1, <1>2

LEMMA PermitType ==
    ASSUME TypeOK, AutoReset \/ Rebuild
    PROVE  /\ task' \in [Task -> Tasks]
           /\ spent' \subseteq {"auto", "rebuild", "poison"}
           /\ resets' \in [{"auto", "rebuild"} -> Nat]
<1>1. {"auto", "rebuild"} \subseteq Task /\ {"check", "flush"} \subseteq Pcs
  BY DEF Task, Resets, Pcs
<1>2. CASE AutoReset
  BY <1>1, <1>2, GoToType DEF AutoReset, TypeOK
<1>3. CASE Rebuild
  BY <1>1, <1>3, GoToType DEF Rebuild, TypeOK
<1>. QED
  BY <1>2, <1>3

\* Rounds.
LEMMA RoundType ==
    ASSUME TypeOK, NEW c \in Conns,
           \/ RoundStarts(c) \/ RoundLost(c) \/ RoundBroken(c) \/ RoundApplied(c)
           \/ RoundWedged(c) \/ RoundGone(c)
    PROVE  TypeOK'
<1>1. CASE RoundStarts(c)
  <2>1. PICK by \in Starters(c), refused \in SUBSET Pending :
          LET gone == file.cursor = "expired"
              answer == CASE ~gone -> "ok" [] gone /\ by = "timer" -> "gone" [] OTHER -> "told"
              round == [answer |-> answer, pushed |-> Pending, refused |-> refused]
          IN /\ gone => refused = {}
             /\ IF gone THEN UNCHANGED <<server, budget>> ELSE Accepts(Pending, refused)
             /\ engine' = [engine EXCEPT ![c].round = round]
             /\ task' = AfterStart(by)
    BY <1>1 DEF RoundStarts
  <2>2. server' \subseteq Work /\ budget' \in [Events -> Nat]
    BY <2>1, AcceptsType, Seen DEF TypeOK
  <2>3. PICK r \in Rounds : engine' = [engine EXCEPT ![c].round = r]
    BY <2>1, Seen DEF Rounds
  <2>4. engine' \in [Conns -> Engines]
    BY <2>3 DEF TypeOK, Engines
  <2>5. task' \in [Task -> Tasks]
    BY <2>1, EndedType DEF AfterStart, TypeOK, Task
  <2>. QED
    BY <1>1, <2>2, <2>4, <2>5 DEF RoundStarts, TypeOK, connVars, permitVars
<1>2. CASE RoundLost(c)
  BY <1>2, UnstruckType DEF RoundLost, TypeOK, connVars, permitVars
<1>3. CASE RoundBroken(c)
  <2>1. CASE c \in lost
    <3>1. Unstruck(c) \in [Conns -> Engines]
      BY UnstruckType DEF TypeOK
    <3>2. /\ engine' \in [Conns -> Engines] /\ task' \in [Task -> Tasks]
          /\ reopens' \in 0..MaxReopens
      BY <1>3, <2>1, <3>1, StorageLostType DEF RoundBroken
    <3>. QED
      BY <1>3, <3>2 DEF RoundBroken, TypeOK, connVars
  <2>2. CASE c \notin lost
    BY <1>3, <2>2, StruckType DEF RoundBroken, TypeOK, connVars
  <2>. QED
    BY <2>1, <2>2
<1>4. CASE RoundApplied(c)
  <2>1. file' \in Files
    BY <1>4 DEF RoundApplied, TypeOK, Files, Engines, Rounds
  <2>. QED
    BY <1>4, <2>1, UnstruckType DEF RoundApplied, TypeOK, connVars, permitVars
<1>5. CASE RoundWedged(c)
  <2>1. engine' \in [Conns -> Engines]
    BY <1>5, StruckType DEF RoundWedged, TypeOK
  <2>2. /\ task' \in [Task -> Tasks]
        /\ spent' \subseteq {"auto", "rebuild", "poison"}
        /\ resets' \in [{"auto", "rebuild"} -> Nat]
    BY <1>5, PermitType DEF RoundWedged, TypeOK
  <2>. QED
    BY <1>5, <2>1, <2>2 DEF RoundWedged, TypeOK, connVars
<1>6. CASE RoundGone(c)
  <2>1. /\ task' \in [Task -> Tasks]
        /\ spent' \subseteq {"auto", "rebuild", "poison"}
        /\ resets' \in [{"auto", "rebuild"} -> Nat]
    BY <1>6, PermitType DEF RoundGone, TypeOK
  <2>. QED
    BY <1>6, <2>1, UnstruckType DEF RoundGone, TypeOK, connVars
<1>. QED
  BY <1>1, <1>2, <1>3, <1>4, <1>5, <1>6

\* Writes and events.
LEMMA EventType ==
    ASSUME TypeOK, (\E w \in Work : Write(w)) \/ SetRole \/ HandleLost \/ Pruned \/ Restart
    PROVE  TypeOK'
<1>1. ASSUME NEW w \in Work, Write(w) PROVE TypeOK'
  <2>1. file' \in Files
    BY <1>1 DEF Write, TypeOK, Files
  <2>. QED
    BY <1>1, <2>1 DEF Write, TypeOK, connVars, permitVars
<1>2. CASE SetRole
  BY <1>2 DEF SetRole, TypeOK, connVars, permitVars
<1>3. CASE HandleLost
  BY <1>3, SpendType, InstanceAssumption DEF HandleLost, TypeOK, permitVars, Events, Conns
<1>4. CASE Pruned
  <2>1. file' \in Files
    BY <1>4 DEF Pruned, TypeOK, Files
  <2>. QED
    BY <1>4, <2>1, SpendType DEF Pruned, TypeOK, connVars, permitVars, Events
<1>5. CASE Restart
  <2>1. engine' \in [Conns -> Engines] /\ task' \in [Task -> Tasks]
    BY <1>5, Literals DEF Restart
  <2>2. budget' \in [Events -> Nat]
    BY <1>5, SpendType DEF Restart, TypeOK, Events
  <2>. QED
    BY <1>5, <2>1, <2>2, InstanceAssumption DEF Restart, TypeOK, NoResets
<1>. QED
  BY <1>1, <1>2, <1>3, <1>4, <1>5

LEMMA TypeStep ==
    ASSUME TypeOK, [Next]_vars
    PROVE  TypeOK'
<1>1. CASE UNCHANGED vars
  BY <1>1 DEF TypeOK, vars, connVars, permitVars
<1>2. CASE Next
  <2>0. {"rebuild", "manual"} \subseteq Task
    BY DEF Task, Resets
  <2>1. CASE \E t \in Task : Probe(t) \/ DropIn(t) \/ OpenSucceeds(t) \/ OpenReplaces(t) \/ OpenFails(t) \/ Wire(t)
    BY <2>1, OpeningType
  <2>2. CASE \/ AutoChecks \/ RebuildFlushes \/ ManualFlushes \/ ManualChecks \/ ManualReset
             \/ \E t \in Task : FlushFails(t) \/ Teardown(t) \/ RoundSkipped(t)
    BY <2>0, <2>2, RecoveryType
  <2>3. CASE \E c \in Conns : \/ RoundStarts(c) \/ RoundLost(c) \/ RoundBroken(c)
                              \/ RoundApplied(c) \/ RoundWedged(c) \/ RoundGone(c)
    BY <2>3, RoundType
  <2>4. CASE (\E w \in Work : Write(w)) \/ SetRole \/ HandleLost \/ Pruned \/ Restart
    BY <2>4, EventType
  <2>. QED
    BY <1>2, <2>0, <2>1, <2>2, <2>3, <2>4 DEF Next, Recovering, RoundEnds
<1>. QED
  BY <1>1, <1>2

-------------------------------------------------------------------------------
(* The handle.                                                              *)

\* A step that leaves the tasks at "wire", the handle and the current connection alone.
WiresKept ==
    \A t \in Task : /\ At(t, "wire")' <=> At(t, "wire")
                    /\ At(t, "wire") => task'[t].conn = task[t].conn

LEMMA KeptWiring ==
    ASSUME Wiring, HandleHasOwner, WiresKept, UNCHANGED <<held, conn>>
    PROVE  Wiring' /\ HandleHasOwner'
BY DEF Wiring, HandleHasOwner, WiresKept, At

LEMMA GoToWires ==
    ASSUME task \in [Task -> Tasks], NEW t \in Task, ~At(t, "wire"), NEW pc \in Pcs, pc # "wire",
           task' = GoTo(t, pc)
    PROVE  WiresKept
BY DEF WiresKept, GoTo, At, Tasks

LEMMA EndedWires ==
    ASSUME task \in [Task -> Tasks], NEW t \in Task, ~At(t, "wire"), task' = Ended(t)
    PROVE  WiresKept
BY DEF WiresKept, Ended, At, Idle

LEMMA ChecksWires ==
    ASSUME task \in [Task -> Tasks], NEW t \in Task, ~At(t, "wire"), NEW v,
           task' = [task EXCEPT ![t].pc = "teardown", ![t].vouched = v]
    PROVE  WiresKept
BY DEF WiresKept, At, Tasks

LEMMA FlushesWires ==
    ASSUME task \in [Task -> Tasks], NEW t \in Task, NEW pc, pc # "wire", Flushes(t, pc)
    PROVE  WiresKept
<1>1. PICK refused \in SUBSET Pending :
        task' = [task EXCEPT ![t].pc = pc, ![t].vouched = Vouched, ![t].refused = refused]
  BY DEF Flushes
<1>2. ~At(t, "wire")
  BY DEF Flushes, At
<1>. QED
  BY <1>1, <1>2 DEF WiresKept, At, Tasks

LEMMA SameWires ==
    ASSUME UNCHANGED task
    PROVE  WiresKept
BY DEF WiresKept, At

LEMMA OpeningHandle ==
    ASSUME IInv, NEW t \in Task,
           Probe(t) \/ DropIn(t) \/ OpenSucceeds(t) \/ OpenReplaces(t) \/ OpenFails(t) \/ Wire(t)
    PROVE  Wiring' /\ HandleHasOwner' /\ Numbered'
<1> USE DEF IInv
<1>1. CASE Probe(t)
  <2>1. WiresKept
    <3>1. ~At(t, "wire") /\ {"fetch", "open"} \subseteq Pcs
      BY <1>1 DEF Probe, At, Pcs
    <3>. QED
      BY <1>1, <3>1, GoToWires DEF Probe, TypeOK
  <2>. QED
    BY <1>1, <2>1, KeptWiring DEF Probe, connVars, Numbered
<1>2. CASE DropIn(t)
  <2>1. WiresKept
    <3>1. ~At(t, "wire") /\ "open" \in Pcs
      BY <1>2 DEF DropIn, At, Pcs
    <3>. QED
      BY <1>2, <3>1, GoToWires DEF DropIn, TypeOK
  <2>. QED
    BY <1>2, <2>1, KeptWiring DEF DropIn, connVars, Numbered
<1>3. CASE OpenSucceeds(t)
  <2>1. held = 0 /\ \A u \in Task : ~At(u, "wire")
    BY <1>3 DEF OpenSucceeds, Wiring
  <2>2. /\ At(t, "wire")' /\ task'[t].conn = opened + 1
        /\ \A u \in Task : At(u, "wire")' => u = t
    BY <1>3, <2>1 DEF OpenSucceeds, At, TypeOK, Tasks
  <2>3. opened \in Nat /\ conn <= opened /\ conn \in Nat
    BY InstanceAssumption DEF Numbered, TypeOK
  <2>4. held' = opened + 1 /\ conn' = conn /\ opened' = opened + 1
    BY <1>3 DEF OpenSucceeds
  <2>5. Wiring'
    BY <2>2, <2>3, <2>4 DEF Wiring
  <2>6. HandleHasOwner'
    BY <2>2, <2>4 DEF HandleHasOwner
  <2>. QED
    BY <2>3, <2>4, <2>5, <2>6 DEF Numbered
<1>4. CASE OpenReplaces(t) \/ OpenFails(t)
  <2>1. Throws(t)
    BY <1>4 DEF OpenReplaces, OpenFails
  <2>2. /\ ~At(t, "wire")' /\ conn' = conn /\ opened' = opened
        /\ \A u \in Task \ {t} : task'[u] = task[u]
    <3>1. CASE OpenReplaces(t)
      BY <3>1 DEF OpenReplaces, GoTo, At, TypeOK, Tasks
    <3>2. CASE OpenFails(t)
      BY <3>2 DEF OpenFails, Idle, At, TypeOK
    <3>. QED
      BY <1>4, <3>1, <3>2
  <2>3. CASE At(t, "wire")
    <3>1. held' = 0 /\ \A u \in Task : ~At(u, "wire")'
      BY <2>1, <2>2, <2>3 DEF Throws, Wiring, At
    <3>. QED
      BY <2>2, <3>1, InstanceAssumption DEF Wiring, HandleHasOwner, Numbered, TypeOK
  <2>4. CASE ~At(t, "wire")
    <3>1. held' = held
      BY <2>1, <2>4 DEF Throws
    <3>2. WiresKept
      BY <2>2, <2>4 DEF WiresKept, At
    <3>. QED
      BY <2>2, <3>1, <3>2, KeptWiring DEF Numbered
  <2>. QED
    BY <2>3, <2>4
<1>5. CASE Wire(t)
  <2>1. /\ held' = held /\ conn' = held /\ opened' = opened
        /\ \A u \in Task \ {t} : ~At(u, "wire")
    BY <1>5 DEF Wire, Wiring
  <2>2. /\ ~At(t, "wire")'
        /\ \A u \in Task \ {t} : task'[u] = task[u]
    BY <1>5 DEF Wire, GoTo, Ended, Idle, At, TypeOK, Tasks
  <2>3. \A u \in Task : ~At(u, "wire")'
    BY <2>1, <2>2 DEF At
  <2>. QED
    BY <2>1, <2>3 DEF Wiring, HandleHasOwner, Numbered
<1>. QED
  BY <1>1, <1>2, <1>3, <1>4, <1>5

\* Permits also say that a recovery without its permit was never started.
LEMMA PermitWires ==
    ASSUME IInv, AutoReset \/ Rebuild
    PROVE  WiresKept
<1>1. {"auto", "rebuild"} \subseteq Task /\ {"check", "flush"} \subseteq Pcs
  BY DEF Task, Resets, Pcs
<1>2. CASE AutoReset
  <2>1. CASE "auto" \in spent
    BY <1>2, <2>1, SameWires DEF AutoReset
  <2>2. CASE "auto" \notin spent
    <3>1. ~At("auto", "wire")
      BY <2>2 DEF IInv, Permits, At
    <3>. QED
      BY <1>1, <1>2, <2>2, <3>1, GoToWires DEF AutoReset, IInv, TypeOK
  <2>. QED
    BY <2>1, <2>2
<1>3. CASE Rebuild
  <2>1. CASE "rebuild" \in spent
    BY <1>3, <2>1, SameWires DEF Rebuild
  <2>2. CASE "rebuild" \notin spent
    <3>1. ~At("rebuild", "wire")
      BY <2>2 DEF IInv, Permits, At
    <3>. QED
      BY <1>1, <1>3, <2>2, <3>1, GoToWires DEF Rebuild, IInv, TypeOK
  <2>. QED
    BY <2>1, <2>2
<1>. QED
  BY <1>2, <1>3

LEMMA RecoveryHandle ==
    ASSUME IInv, NEW t \in Task,
           \/ AutoChecks \/ RebuildFlushes \/ ManualFlushes \/ ManualChecks
           \/ FlushFails(t) \/ Teardown(t) \/ RoundSkipped(t) \/ ManualReset
    PROVE  Wiring' /\ HandleHasOwner' /\ Numbered'
<1> USE DEF IInv
<1>0. {"auto", "rebuild", "manual"} \subseteq Task
  BY DEF Task, Resets
<1>1. CASE AutoChecks
  <2>1. ~At("auto", "wire")
    BY <1>1 DEF AutoChecks, At
  <2>2. WiresKept
    BY <1>0, <1>1, <2>1, ChecksWires, EndedWires DEF AutoChecks, TypeOK
  <2>. QED
    BY <1>1, <2>2, KeptWiring DEF AutoChecks, connVars, Numbered
<1>2. CASE RebuildFlushes
  <2>1. WiresKept
    BY <1>0, <1>2, FlushesWires DEF RebuildFlushes, TypeOK
  <2>. QED
    BY <1>2, <2>1, KeptWiring DEF RebuildFlushes, connVars, Numbered
<1>3. CASE ManualFlushes
  <2>1. WiresKept
    BY <1>0, <1>3, FlushesWires DEF ManualFlushes, TypeOK
  <2>. QED
    BY <1>3, <2>1, KeptWiring DEF ManualFlushes, connVars, Numbered
<1>4. CASE ManualChecks
  <2>1. ~At("manual", "wire")
    BY <1>4 DEF ManualChecks, At
  <2>2. WiresKept
    BY <1>0, <1>4, <2>1, ChecksWires, EndedWires DEF ManualChecks, TypeOK
  <2>. QED
    BY <1>4, <2>2, KeptWiring DEF ManualChecks, connVars, Numbered
<1>5. CASE FlushFails(t) \/ RoundSkipped(t)
  <2>1. ~At(t, "wire") /\ task' = Ended(t)
    BY <1>5 DEF FlushFails, RoundSkipped, At
  <2>2. WiresKept
    BY <2>1, EndedWires DEF TypeOK
  <2>. QED
    BY <1>5, <2>2, KeptWiring DEF FlushFails, RoundSkipped, connVars, Numbered
<1>6. CASE Teardown(t)
  <2>1. ~At(t, "wire") /\ "probe" \in Pcs
    BY <1>6 DEF Teardown, At, Pcs
  <2>2. WiresKept
    BY <1>6, <2>1, GoToWires DEF Teardown, TypeOK
  <2>3. CASE held # conn
    BY <1>6, <2>2, <2>3, KeptWiring DEF Teardown, Numbered
  <2>4. CASE held = conn
    <3>1. \A u \in Task : ~At(u, "wire")'
      BY <2>2, <2>4 DEF Wiring, WiresKept
    <3>. QED
      BY <1>6, <2>4, <3>1, InstanceAssumption DEF Teardown, Wiring, HandleHasOwner, Numbered, TypeOK
  <2>. QED
    BY <2>3, <2>4
<1>7. CASE ManualReset
  <2>1. ~At("manual", "wire") /\ "flush" \in Pcs
    BY <1>7 DEF ManualReset, At, Pcs
  <2>2. WiresKept
    BY <1>0, <1>7, <2>1, GoToWires DEF ManualReset, TypeOK
  <2>. QED
    BY <1>7, <2>2, KeptWiring DEF ManualReset, connVars, Numbered
<1>. QED
  BY <1>1, <1>2, <1>3, <1>4, <1>5, <1>6, <1>7

LEMMA RoundHandle ==
    ASSUME IInv, NEW c \in Conns,
           \/ RoundStarts(c) \/ RoundLost(c) \/ RoundBroken(c) \/ RoundApplied(c)
           \/ RoundWedged(c) \/ RoundGone(c)
    PROVE  Wiring' /\ HandleHasOwner' /\ Numbered'
<1> USE DEF IInv
<1>1. UNCHANGED connVars
  BY DEF RoundStarts, RoundLost, RoundBroken, RoundApplied, RoundWedged, RoundGone
<1>2. WiresKept
  <2>1. CASE RoundStarts(c)
    <3>1. PICK by \in Starters(c) : task' = AfterStart(by)
      BY <2>1 DEF RoundStarts
    <3>2. CASE by \in Resets
      <4>1. by \in Task /\ ~At(by, "wire")
        BY <3>2 DEF Starters, At, Task
      <4>. QED
        BY <3>1, <3>2, <4>1, EndedWires DEF AfterStart, TypeOK
    <3>3. CASE by \notin Resets
      BY <3>1, <3>3, SameWires DEF AfterStart
    <3>. QED
      BY <3>2, <3>3
  <2>2. CASE RoundLost(c) \/ RoundApplied(c)
    BY <2>2, SameWires DEF RoundLost, RoundApplied
  <2>3. CASE RoundBroken(c)
    <3>1. CASE UNCHANGED task
      BY <3>1, SameWires
    <3>2. CASE At("reopen", "idle") /\ task' = GoTo("reopen", "teardown")
      <4>1. "reopen" \in Task /\ "teardown" \in Pcs /\ ~At("reopen", "wire")
        BY <3>2 DEF Task, Pcs, At
      <4>. QED
        BY <3>2, <4>1, GoToWires DEF TypeOK
    <3>. QED
      BY <2>3, <3>1, <3>2 DEF RoundBroken, StorageLost
  <2>4. CASE RoundWedged(c)
    BY <2>4, SameWires, PermitWires DEF RoundWedged
  <2>5. CASE RoundGone(c)
    BY <2>5, SameWires, PermitWires DEF RoundGone
  <2>. QED
    BY <2>1, <2>2, <2>3, <2>4, <2>5
<1>. QED
  BY <1>1, <1>2, KeptWiring DEF connVars, Numbered

LEMMA EventHandle ==
    ASSUME IInv, (\E w \in Work : Write(w)) \/ SetRole \/ HandleLost \/ Pruned \/ Restart
    PROVE  Wiring' /\ HandleHasOwner' /\ Numbered'
<1> USE DEF IInv
<1>1. CASE (\E w \in Work : Write(w)) \/ SetRole \/ Pruned
  BY <1>1, SameWires, KeptWiring DEF Write, SetRole, Pruned, connVars, Numbered
<1>2. CASE HandleLost
  <2>1. \A u \in Task : ~At(u, "wire")'
    BY <1>2 DEF HandleLost, Wiring, At
  <2>. QED
    BY <1>2, <2>1, InstanceAssumption DEF HandleLost, Wiring, HandleHasOwner, Numbered, TypeOK
<1>3. CASE Restart
  <2>1. \A u \in Task : ~At(u, "wire")'
    BY <1>3 DEF Restart, Idle, At
  <2>. QED
    BY <1>3, <2>1, InstanceAssumption DEF Restart, Wiring, HandleHasOwner, Numbered, TypeOK
<1>. QED
  BY <1>1, <1>2, <1>3

-------------------------------------------------------------------------------
(* Permits.                                                                 *)

IdleKept == \A t \in {"auto", "rebuild"} : At(t, "idle") => At(t, "idle")'

LEMMA KeptPermits ==
    ASSUME Permits, IdleKept, UNCHANGED <<spent, resets>>
    PROVE  Permits'
BY DEF Permits, ResetsAreBounded, IdleKept, At

\* A step of a task that is under way leaves the idle ones idle.
LEMMA OneTask ==
    ASSUME TypeOK, NEW t, ~At(t, "idle") \/ t \notin {"auto", "rebuild"},
           \A u \in Task \ {t} : task'[u] = task[u]
    PROVE  IdleKept
BY DEF IdleKept, At, Task, Resets

LEMMA OnlyGoTo ==
    ASSUME TypeOK, NEW t, NEW pc, task' = GoTo(t, pc) \/ task' = Ended(t)
    PROVE  \A u \in Task \ {t} : task'[u] = task[u]
BY DEF TypeOK, GoTo, Ended

LEMMA OnlyFlush ==
    ASSUME TypeOK, NEW t, NEW pc, Flushes(t, pc)
    PROVE  \A u \in Task \ {t} : task'[u] = task[u]
BY DEF TypeOK, Flushes

LEMMA PermitStep ==
    ASSUME IInv, Next
    PROVE  Permits'
<1> USE DEF IInv
<1>1. ASSUME NEW t \in Task,
             Probe(t) \/ DropIn(t) \/ OpenSucceeds(t) \/ OpenReplaces(t) \/ OpenFails(t) \/ Wire(t)
      PROVE  Permits'
  <2>1. ~At(t, "idle")
    BY <1>1 DEF Probe, DropIn, OpenSucceeds, OpenReplaces, OpenFails, Throws, Wire, At
  <2>2. \A u \in Task \ {t} : task'[u] = task[u]
    <3>1. CASE OpenSucceeds(t) \/ OpenFails(t)
      BY <3>1 DEF OpenSucceeds, OpenFails, TypeOK
    <3>. QED
      BY <1>1, <3>1, OnlyGoTo DEF Probe, DropIn, OpenReplaces, Wire
  <2>3. IdleKept
    BY <2>1, <2>2, OneTask
  <2>4. CASE OpenReplaces(t)
    BY <2>3, <2>4 DEF OpenReplaces, Permits, ResetsAreBounded, IdleKept, At
  <2>. QED
    BY <1>1, <2>3, <2>4, KeptPermits DEF Probe, DropIn, OpenSucceeds, OpenFails, Wire, permitVars
<1>2. CASE AutoChecks
  <2>1. IdleKept
    <3>1. ~At("auto", "idle") /\ \A u \in Task \ {"auto"} : task'[u] = task[u]
      BY <1>2 DEF AutoChecks, At, Ended, TypeOK
    <3>. QED
      BY <3>1, OneTask
  <2>. QED
    BY <1>2, <2>1, KeptPermits DEF AutoChecks, permitVars
<1>3. CASE RebuildFlushes
  <2>1. IdleKept
    <3>1. ~At("rebuild", "idle")
      BY <1>3 DEF RebuildFlushes, Flushes, At
    <3>. QED
      BY <1>3, <3>1, OneTask, OnlyFlush DEF RebuildFlushes
  <2>. QED
    BY <1>3, <2>1, KeptPermits DEF RebuildFlushes, permitVars
<1>4. CASE ManualFlushes
  <2>1. IdleKept
    BY <1>4, OneTask, OnlyFlush DEF ManualFlushes
  <2>. QED
    BY <1>4, <2>1, KeptPermits DEF ManualFlushes, permitVars
<1>5. CASE ManualChecks \/ ManualReset
  <2>1. IdleKept
    <3>1. \A u \in Task \ {"manual"} : task'[u] = task[u]
      BY <1>5 DEF ManualChecks, ManualReset, GoTo, Ended, TypeOK
    <3>. QED
      BY <3>1, OneTask
  <2>. QED
    BY <1>5, <2>1, KeptPermits DEF ManualChecks, ManualReset, permitVars
<1>6. ASSUME NEW t \in Task, FlushFails(t) \/ RoundSkipped(t) \/ Teardown(t)
      PROVE  Permits'
  <2>1. IdleKept
    <3>1. ~At(t, "idle")
      BY <1>6 DEF FlushFails, RoundSkipped, Teardown, At
    <3>. QED
      BY <1>6, <3>1, OneTask, OnlyGoTo DEF FlushFails, RoundSkipped, Teardown
  <2>. QED
    BY <1>6, <2>1, KeptPermits DEF FlushFails, RoundSkipped, Teardown, permitVars
<1>7. ASSUME NEW c \in Conns, RoundStarts(c)
      PROVE  Permits'
  <2>1. PICK by \in Starters(c) : task' = AfterStart(by)
    BY <1>7 DEF RoundStarts
  <2>2. IdleKept
    <3>1. CASE by \in Resets
      <4>1. ~At(by, "idle") /\ task' = Ended(by)
        BY <2>1, <3>1 DEF Starters, AfterStart, At
      <4>. QED
        BY <4>1, OneTask, OnlyGoTo
    <3>2. CASE by \notin Resets
      BY <2>1, <3>2 DEF AfterStart, IdleKept, At
    <3>. QED
      BY <3>1, <3>2
  <2>. QED
    BY <1>7, <2>2, KeptPermits DEF RoundStarts, permitVars
<1>8. ASSUME NEW c \in Conns, RoundBroken(c)
      PROVE  Permits'
  <2>1. UNCHANGED task \/ task' = GoTo("reopen", "teardown")
    BY <1>8 DEF RoundBroken, StorageLost
  <2>2. IdleKept
    BY <2>1, OneTask, OnlyGoTo DEF IdleKept, At
  <2>. QED
    BY <1>8, <2>2, KeptPermits DEF RoundBroken
<1>9. CASE AutoReset
  <2>1. CASE "auto" \in spent
    BY <1>9, <2>1 DEF AutoReset, Permits, ResetsAreBounded, At
  <2>2. CASE "auto" \notin spent
    BY <1>9, <2>2 DEF AutoReset, Permits, ResetsAreBounded, At, GoTo, TypeOK, Task, Resets
  <2>. QED
    BY <2>1, <2>2
<1>10. CASE Rebuild
  <2>1. CASE "rebuild" \in spent
    BY <1>10, <2>1 DEF Rebuild, Permits, ResetsAreBounded, At
  <2>2. CASE "rebuild" \notin spent
    BY <1>10, <2>2 DEF Rebuild, Permits, ResetsAreBounded, At, GoTo, TypeOK, Task, Resets
  <2>. QED
    BY <2>1, <2>2
<1>11. CASE UNCHANGED <<task, spent, resets>>
  BY <1>11 DEF Permits, ResetsAreBounded, At
<1>12. ASSUME NEW c \in Conns, RoundLost(c) \/ RoundApplied(c) \/ RoundWedged(c) \/ RoundGone(c)
       PROVE  Permits'
  BY <1>9, <1>10, <1>11, <1>12 DEF RoundLost, RoundApplied, RoundWedged, RoundGone, permitVars
<1>13. CASE (\E w \in Work : Write(w)) \/ SetRole \/ HandleLost \/ Pruned
  BY <1>11, <1>13 DEF Write, SetRole, HandleLost, Pruned, permitVars
<1>14. CASE Restart
  BY <1>14 DEF Restart, Permits, ResetsAreBounded, NoResets, At, Idle, Task, Resets
<1>. QED
  BY <1>1, <1>2, <1>3, <1>4, <1>5, <1>6, <1>7, <1>8, <1>12, <1>13, <1>14
  DEF Next, Recovering, RoundEnds, Task, Resets

-------------------------------------------------------------------------------
(* The accounting of saved work.                                            *)

\* A step leaves a task's check as it was, or what it vouches for now is accounted for.
TaskFine(t) ==
    \/ /\ task'[t].vouched = task[t].vouched /\ task'[t].refused = task[t].refused
       /\ At(t, "teardown")' => At(t, "teardown")
    \/ /\ task'[t].vouched \subseteq saved'
       /\ t \in Resets /\ At(t, "teardown")' =>
            task'[t].vouched \cap file'.dirty \subseteq server' \cup task'[t].refused

\* A step leaves a round as it was, ends it, or sends one whose rows are accounted for.
RoundFine(c) ==
    \/ engine'[c].round = engine[c].round
    \/ engine'[c].round = NoRound
    \/ engine'[c].round.answer = "ok" =>
         /\ engine'[c].round.pushed \subseteq server' \cup engine'[c].round.refused
         /\ engine'[c].round.refused \subseteq saved'

\* Work appears with its acknowledgement, and never leaves the server.
Acknowledged ==
    /\ server \subseteq server' /\ saved \subseteq saved' /\ Present' \subseteq saved'
    /\ file'.dirty \cap saved \subseteq file.dirty

LEMMA FineSteps ==
    ASSUME IInv, TypeOK', Acknowledged, \A t \in Task : TaskFine(t), \A c \in Conns : RoundFine(c)
    PROVE  Accounted'
<1>1. Present' \subseteq saved'
  BY DEF Acknowledged
<1>2. ASSUME NEW t \in Task PROVE task'[t].vouched \subseteq saved'
  BY DEF IInv, Accounted, Acknowledged, TaskFine
<1>3. ASSUME NEW t \in Resets, At(t, "teardown")'
      PROVE  task'[t].vouched \cap file'.dirty \subseteq server' \cup task'[t].refused
  <2>1. TaskFine(t) /\ t \in Task
    BY DEF Task
  <2>. QED
    BY <1>3, <2>1 DEF IInv, Accounted, Acknowledged, TaskFine
<1>4. ASSUME NEW c \in Conns, engine'[c].round.answer = "ok"
      PROVE  /\ engine'[c].round.pushed \subseteq server' \cup engine'[c].round.refused
             /\ engine'[c].round.refused \subseteq saved'
  <2>1. NoRound.answer # "ok"
    BY DEF NoRound
  <2>. QED
    BY <1>4, <2>1 DEF IInv, Accounted, Acknowledged, RoundFine
<1>. QED
  BY <1>1, <1>2, <1>3, <1>4 DEF Accounted

LEMMA GoToFine ==
    ASSUME TypeOK, NEW t \in Task, NEW pc \in Pcs \ {"teardown"}, task' = GoTo(t, pc)
    PROVE  \A u \in Task : TaskFine(u)
BY DEF TypeOK, GoTo, TaskFine, At, Tasks

LEMMA EndedFine ==
    ASSUME TypeOK, NEW t \in Task, task' = Ended(t)
    PROVE  \A u \in Task : TaskFine(u)
BY DEF TypeOK, Ended, Idle, TaskFine, At, Tasks

LEMMA SameFine ==
    ASSUME UNCHANGED task
    PROVE  \A u \in Task : TaskFine(u)
BY DEF TaskFine, At

LEMMA SameRounds ==
    ASSUME UNCHANGED engine
    PROVE  \A c \in Conns : RoundFine(c)
BY DEF RoundFine

LEMMA RunningFine ==
    ASSUME engine \in [Conns -> Engines], NEW c \in Conns, NEW b \in BOOLEAN,
           engine' = [engine EXCEPT ![c].running = b]
    PROVE  \A d \in Conns : RoundFine(d)
BY DEF RoundFine, Engines

LEMMA StoppedFine ==
    ASSUME TypeOK, engine' = Stopped(conn)
    PROVE  \A d \in Conns : RoundFine(d)
BY SameRounds, RunningFine DEF TypeOK, Stopped, Conns

\* The check of a reset: nothing is flagged, or nobody looked.
LEMMA ChecksFine ==
    ASSUME TypeOK, Accounted, NEW t \in Task, Pending = {}, UNCHANGED <<file, server, saved>>,
           task' = [task EXCEPT ![t].pc = "teardown", ![t].vouched = Vouched]
    PROVE  \A u \in Task : TaskFine(u)
<1>1. task'[t].vouched = Vouched
  BY DEF TypeOK, Tasks
<1>2. Vouched \subseteq saved /\ Vouched \cap file.dirty = {}
  BY DEF Vouched, Pending, Accounted
<1>3. TaskFine(t)
  BY <1>1, <1>2 DEF TaskFine
<1>. QED
  BY <1>3 DEF TaskFine, At, TypeOK

\* A flush vouches for what it pushed.
LEMMA FlushesFine ==
    ASSUME TypeOK, Accounted, NEW t \in Task, NEW pc \in Pcs, Flushes(t, pc), UNCHANGED <<file, saved>>
    PROVE  (\A u \in Task : TaskFine(u)) /\ Acknowledged
<1>1. PICK refused \in SUBSET Pending :
        /\ Accepts(Pending, refused)
        /\ task' = [task EXCEPT ![t].pc = pc, ![t].vouched = Vouched, ![t].refused = refused]
  BY DEF Flushes
<1>2. task'[t].vouched = Vouched /\ task'[t].refused = refused
  BY <1>1 DEF TypeOK, Tasks
<1>3. Vouched \subseteq saved /\ Vouched \cap file.dirty \subseteq Pending /\ Pending \subseteq saved
  BY DEF Vouched, Pending, Accounted, Present
<1>4. Pending \subseteq server' \cup refused
  BY <1>1 DEF Accepts
<1>5. TaskFine(t)
  BY <1>2, <1>3, <1>4 DEF TaskFine
<1>6. Acknowledged
  BY <1>1, <1>3 DEF Accepts, Acknowledged, Accounted, Present
<1>. QED
  BY <1>1, <1>5, <1>6 DEF TaskFine, At, TypeOK

\* The rows of the file come and go without anything being saved.
LEMMA FileOnly ==
    ASSUME Accounted, UNCHANGED <<server, saved>>,
           file'.dirty \subseteq file.dirty, file'.kept \subseteq file.kept
    PROVE  Acknowledged
BY DEF Acknowledged, Accounted, Present

LEMMA OpeningAccounts ==
    ASSUME IInv, TypeOK', NEW t \in Task,
           Probe(t) \/ DropIn(t) \/ OpenSucceeds(t) \/ OpenReplaces(t) \/ OpenFails(t) \/ Wire(t)
    PROVE  Accounted'
<1> USE DEF IInv
<1>1. \A c \in Conns : RoundFine(c)
  <2>1. CASE Wire(t)
    <3>1. task[t].conn \in Conns
      BY <2>1 DEF Wire, Wiring, TypeOK, Tasks, Conns
    <3>. QED
      BY <2>1, <3>1, RunningFine DEF Wire, TypeOK
  <2>. QED
    BY <2>1, SameRounds DEF Probe, DropIn, OpenSucceeds, OpenReplaces, OpenFails
<1>2. Acknowledged
  <2>1. file'.dirty \subseteq file.dirty /\ file'.kept \subseteq file.kept
    <3>1. CASE DropIn(t)
      BY <3>1 DEF DropIn, Snapshots, NoFile
    <3>2. CASE OpenSucceeds(t)
      BY <3>2 DEF OpenSucceeds, TypeOK, Files
    <3>3. CASE OpenReplaces(t)
      BY <3>3 DEF OpenReplaces, NoFile
    <3>. QED
      BY <3>1, <3>2, <3>3 DEF Probe, OpenFails, Wire
  <2>. QED
    BY <2>1, FileOnly DEF Probe, DropIn, OpenSucceeds, OpenReplaces, OpenFails, Wire
<1>3. \A u \in Task : TaskFine(u)
  <2>1. {"fetch", "open", "sync"} \subseteq Pcs \ {"teardown"}
    BY DEF Pcs
  <2>2. CASE Probe(t) \/ DropIn(t) \/ OpenReplaces(t)
    BY <2>1, <2>2, GoToFine DEF Probe, DropIn, OpenReplaces
  <2>3. CASE OpenSucceeds(t)
    BY <2>3 DEF OpenSucceeds, TaskFine, At, TypeOK, Tasks
  <2>4. CASE OpenFails(t)
    BY <2>4 DEF OpenFails, Idle, TaskFine, At, TypeOK
  <2>5. CASE Wire(t)
    BY <2>1, <2>5, GoToFine, EndedFine DEF Wire
  <2>. QED
    BY <2>2, <2>3, <2>4, <2>5
<1>. QED
  BY <1>1, <1>2, <1>3, FineSteps

LEMMA RecoveryAccounts ==
    ASSUME IInv, TypeOK', NEW t \in Task,
           \/ AutoChecks \/ RebuildFlushes \/ ManualFlushes \/ ManualChecks
           \/ FlushFails(t) \/ Teardown(t) \/ RoundSkipped(t) \/ ManualReset
    PROVE  Accounted'
<1> USE DEF IInv
<1>0. {"auto", "rebuild", "manual"} \subseteq Task
  BY DEF Task, Resets
<1>1. CASE AutoChecks
  <2>1. (\A u \in Task : TaskFine(u)) /\ (\A c \in Conns : RoundFine(c))
    BY <1>0, <1>1, ChecksFine, EndedFine, StoppedFine, SameRounds DEF AutoChecks
  <2>. QED
    BY <1>1, <2>1, FileOnly, FineSteps DEF AutoChecks
<1>2. CASE RebuildFlushes
  <2>1. "teardown" \in Pcs
    BY DEF Pcs
  <2>2. (\A u \in Task : TaskFine(u)) /\ Acknowledged
    BY <1>0, <1>2, <2>1, FlushesFine DEF RebuildFlushes
  <2>. QED
    BY <1>2, <2>2, StoppedFine, FineSteps DEF RebuildFlushes
<1>3. CASE ManualFlushes
  <2>1. "check" \in Pcs
    BY DEF Pcs
  <2>2. (\A u \in Task : TaskFine(u)) /\ Acknowledged
    BY <1>0, <1>3, <2>1, FlushesFine DEF ManualFlushes
  <2>. QED
    BY <1>3, <2>2, SameRounds, FineSteps DEF ManualFlushes
<1>4. CASE ManualChecks
  <2>1. (\A u \in Task : TaskFine(u)) /\ (\A c \in Conns : RoundFine(c))
    BY <1>0, <1>4, ChecksFine, EndedFine, StoppedFine, SameRounds DEF ManualChecks
  <2>. QED
    BY <1>4, <2>1, FileOnly, FineSteps DEF ManualChecks
<1>5. CASE FlushFails(t) \/ RoundSkipped(t)
  BY <1>5, EndedFine, SameRounds, FileOnly, FineSteps DEF FlushFails, RoundSkipped
<1>6. CASE Teardown(t)
  <2>1. "probe" \in Pcs \ {"teardown"}
    BY DEF Pcs
  <2>2. Acknowledged
    BY <1>6, FileOnly DEF Teardown, NoFile
  <2>. QED
    BY <1>6, <2>1, <2>2, GoToFine, SameRounds, FineSteps DEF Teardown
<1>7. CASE ManualReset
  <2>1. "flush" \in Pcs \ {"teardown"}
    BY DEF Pcs
  <2>. QED
    BY <1>0, <1>7, <2>1, GoToFine, SameRounds, FileOnly, FineSteps DEF ManualReset
<1>. QED
  BY <1>1, <1>2, <1>3, <1>4, <1>5, <1>6, <1>7

LEMMA UnstruckFine ==
    ASSUME TypeOK, NEW c \in Conns, engine' = Unstruck(c)
    PROVE  \A d \in Conns : RoundFine(d)
BY DEF TypeOK, Unstruck, RoundFine, Engines

LEMMA StruckFine ==
    ASSUME TypeOK, NEW c \in Conns, NEW kind, engine' = Struck(c, kind)
    PROVE  \A d \in Conns : RoundFine(d)
<1>1. /\ DOMAIN engine = Conns
      /\ \A d \in Conns : engine[d] \in Engines
  BY DEF TypeOK
<1>2. ASSUME NEW d \in Conns, d # c
      PROVE  engine'[d] = engine[d]
  BY <1>1, <1>2 DEF Struck
<1>3. engine'[c].round = NoRound
  BY <1>1 DEF Struck, Engines
<1>. QED
  BY <1>2, <1>3 DEF RoundFine

LEMMA PermitFine ==
    ASSUME TypeOK, AutoReset \/ Rebuild
    PROVE  \A u \in Task : TaskFine(u)
<1>1. {"auto", "rebuild"} \subseteq Task /\ {"check", "flush"} \subseteq Pcs \ {"teardown"}
  BY DEF Task, Resets, Pcs
<1>. QED
  BY <1>1, SameFine, GoToFine DEF AutoReset, Rebuild

LEMMA StorageLostFine ==
    ASSUME TypeOK, Accounted, UNCHANGED saved, NEW c \in Conns, StorageLost(Unstruck(c))
    PROVE  (\A u \in Task : TaskFine(u)) /\ (\A d \in Conns : RoundFine(d))
<1> DEFINE e == Unstruck(c)
           f == [e EXCEPT ![conn].running = FALSE]
<1>1. e \in [Conns -> Engines]
  BY UnstruckType DEF TypeOK
<1>2. \A d \in Conns : e[d].round \in {engine[d].round, NoRound}
  BY DEF TypeOK, Unstruck, Engines
<1>3. engine' = e \/ (conn # 0 /\ engine' = f)
  BY DEF StorageLost
<1> HIDE DEF e
<1>4. conn # 0 => \A d \in Conns : f[d].round = e[d].round
  BY <1>1 DEF TypeOK, Conns, Engines
<1> HIDE DEF f
<1>5. \A d \in Conns : RoundFine(d)
  BY <1>2, <1>3, <1>4 DEF RoundFine
<1>6. UNCHANGED task \/ task' = GoTo("reopen", "teardown")
  BY DEF StorageLost
<1>7. \A u \in Task : TaskFine(u)
  BY <1>6, SameFine DEF TaskFine, At, GoTo, TypeOK, Tasks, Task, Resets, Accounted
<1>. QED
  BY <1>5, <1>7

LEMMA RoundAccounts ==
    ASSUME IInv, TypeOK', NEW c \in Conns,
           \/ RoundStarts(c) \/ RoundLost(c) \/ RoundBroken(c) \/ RoundApplied(c)
           \/ RoundWedged(c) \/ RoundGone(c)
    PROVE  Accounted'
<1> USE DEF IInv
<1>1. CASE RoundStarts(c)
  <2>1. PICK by \in Starters(c), refused \in SUBSET Pending :
          LET gone == file.cursor = "expired"
              answer == CASE ~gone -> "ok" [] gone /\ by = "timer" -> "gone" [] OTHER -> "told"
              round == [answer |-> answer, pushed |-> Pending, refused |-> refused]
          IN /\ gone => refused = {}
             /\ IF gone THEN UNCHANGED <<server, budget>> ELSE Accepts(Pending, refused)
             /\ engine' = [engine EXCEPT ![c].round = round]
             /\ task' = AfterStart(by)
    BY <1>1 DEF RoundStarts
  <2>2. UNCHANGED <<file, saved>>
    BY <1>1 DEF RoundStarts
  <2>3. Acknowledged
    <3>1. Pending \subseteq saved /\ Present \subseteq saved
      BY DEF Pending, Accounted, Present
    <3>2. server \subseteq server' /\ server' \subseteq server \cup Pending
      BY <2>1 DEF Accepts
    <3>. QED
      BY <2>2, <3>1, <3>2 DEF Acknowledged, Present
  <2>4. PICK r : /\ engine' = [engine EXCEPT ![c].round = r]
                 /\ r.answer = "ok" => /\ r.pushed \subseteq server' \cup r.refused
                                       /\ r.refused \subseteq saved'
    <3>1. PICK a \in {"ok", "gone", "told"} :
            /\ engine' = [engine EXCEPT ![c].round = [answer |-> a, pushed |-> Pending, refused |-> refused]]
            /\ a = "ok" => file.cursor # "expired"
      BY <2>1
    <3> DEFINE s == [answer |-> a, pushed |-> Pending, refused |-> refused]
    <3>2. s.answer = "ok" => /\ s.pushed \subseteq server' \cup s.refused
                             /\ s.refused \subseteq saved'
      BY <2>1, <2>2, <3>1 DEF Accepts, Pending, Accounted, Present
    <3>3. engine' = [engine EXCEPT ![c].round = s]
      BY <3>1
    <3> HIDE DEF s
    <3>. QED
      BY <3>2, <3>3
  <2>5. \A d \in Conns : RoundFine(d)
    BY <2>4 DEF RoundFine, TypeOK, Engines
  <2>6. \A u \in Task : TaskFine(u)
    BY <2>1, SameFine, EndedFine DEF AfterStart, Task
  <2>. QED
    BY <2>3, <2>5, <2>6, FineSteps
<1>2. CASE RoundLost(c)
  BY <1>2, UnstruckFine, SameFine, FileOnly, FineSteps DEF RoundLost
<1>3. CASE RoundBroken(c)
  <2>1. (\A u \in Task : TaskFine(u)) /\ (\A d \in Conns : RoundFine(d))
    <3>1. CASE c \in lost
      BY <1>3, <3>1, StorageLostFine DEF RoundBroken
    <3>2. CASE c \notin lost
      BY <1>3, <3>2, StruckFine, SameFine DEF RoundBroken
    <3>. QED
      BY <3>1, <3>2
  <2>. QED
    BY <1>3, <2>1, FileOnly, FineSteps DEF RoundBroken
<1>4. CASE RoundApplied(c)
  <2>1. engine[c].round.pushed \subseteq server \cup engine[c].round.refused
    BY <1>4 DEF RoundApplied, Accounted
  <2>2. /\ file'.dirty \subseteq file.dirty
        /\ file'.kept = file.kept \cup engine[c].round.refused
    BY <1>4 DEF RoundApplied, TypeOK, Files
  <2>3. engine[c].round.refused \subseteq saved
    BY <1>4 DEF RoundApplied, Accounted
  <2>4. Acknowledged
    BY <1>4, <2>2, <2>3 DEF RoundApplied, Acknowledged, Accounted, Present
  <2>. QED
    BY <1>4, <2>4, UnstruckFine, SameFine, FineSteps DEF RoundApplied
<1>5. CASE RoundWedged(c)
  BY <1>5, StruckFine, SameFine, PermitFine, FileOnly, FineSteps DEF RoundWedged
<1>6. CASE RoundGone(c)
  BY <1>6, UnstruckFine, SameFine, PermitFine, FileOnly, FineSteps DEF RoundGone
<1>. QED
  BY <1>1, <1>2, <1>3, <1>4, <1>5, <1>6

LEMMA EventAccounts ==
    ASSUME IInv, TypeOK', (\E w \in Work : Write(w)) \/ SetRole \/ HandleLost \/ Pruned \/ Restart
    PROVE  Accounted'
<1> USE DEF IInv
<1>1. ASSUME NEW w \in Work, Write(w) PROVE Accounted'
  <2>1. Acknowledged
    BY <1>1 DEF Write, Acknowledged, Accounted, Present, TypeOK, Files
  <2>. QED
    BY <1>1, <2>1, SameFine, SameRounds, FineSteps DEF Write
<1>2. CASE SetRole \/ HandleLost
  BY <1>2, SameFine, SameRounds, FileOnly, FineSteps DEF SetRole, HandleLost
<1>3. CASE Pruned
  <2>1. file'.dirty = file.dirty /\ file'.kept = file.kept
    BY <1>3 DEF Pruned, TypeOK, Files
  <2>. QED
    BY <1>3, <2>1, SameFine, SameRounds, FileOnly, FineSteps DEF Pruned
<1>4. CASE Restart
  <2>1. \A c \in Conns : RoundFine(c)
    BY <1>4 DEF Restart, RoundFine, NoEngine
  <2>2. \A u \in Task : TaskFine(u)
    BY <1>4 DEF Restart, TaskFine, Idle, At
  <2>. QED
    BY <1>4, <2>1, <2>2, FileOnly, FineSteps DEF Restart
<1>. QED
  BY <1>1, <1>2, <1>3, <1>4

-------------------------------------------------------------------------------
(* Theorems.                                                                *)

LEMMA InitInv == Init => IInv
<1> SUFFICES ASSUME Init PROVE IInv
  OBVIOUS
<1>1. TypeOK
  BY InitType
<1>2. \A t \in Task : task[t].pc \in {"idle", "probe"} /\ task[t].vouched = {}
  BY DEF Init, Idle
<1>3. Numbered /\ Wiring /\ HandleHasOwner
  BY <1>2 DEF Init, Numbered, Wiring, HandleHasOwner, At
<1>4. Permits
  BY DEF Init, Permits, ResetsAreBounded, NoResets, At, Idle, Task, Resets
<1>5. Accounted
  <2>1. \A c \in Conns : engine[c].round.answer = "none"
    BY DEF Init, NoEngine, NoRound
  <2>2. Present \subseteq saved
    BY DEF Init, Present
  <2>. QED
    BY <1>2, <2>1, <2>2 DEF Accounted, At, Task
<1>. QED
  BY <1>1, <1>3, <1>4, <1>5 DEF IInv

LEMMA StepInv == IInv /\ [Next]_vars => IInv'
<1> SUFFICES ASSUME IInv, [Next]_vars PROVE IInv'
  OBVIOUS
<1>1. TypeOK'
  BY TypeStep DEF IInv
<1>2. CASE UNCHANGED vars
  BY <1>1, <1>2 DEF IInv, vars, connVars, permitVars, Numbered, Wiring, HandleHasOwner, Permits,
     ResetsAreBounded, Accounted, Present, At
<1>3. CASE Next
  <2>0. {"rebuild", "manual"} \subseteq Task
    BY DEF Task, Resets
  <2>1. Permits'
    BY <1>3, PermitStep
  <2>2. ASSUME NEW t \in Task,
               Probe(t) \/ DropIn(t) \/ OpenSucceeds(t) \/ OpenReplaces(t) \/ OpenFails(t) \/ Wire(t)
        PROVE  IInv'
    BY <1>1, <2>1, <2>2, OpeningHandle, OpeningAccounts DEF IInv
  <2>3. ASSUME NEW t \in Task,
               \/ AutoChecks \/ RebuildFlushes \/ ManualFlushes \/ ManualChecks
               \/ FlushFails(t) \/ Teardown(t) \/ RoundSkipped(t) \/ ManualReset
        PROVE  IInv'
    BY <1>1, <2>1, <2>3, RecoveryHandle, RecoveryAccounts DEF IInv
  <2>4. ASSUME NEW c \in Conns,
               \/ RoundStarts(c) \/ RoundLost(c) \/ RoundBroken(c) \/ RoundApplied(c)
               \/ RoundWedged(c) \/ RoundGone(c)
        PROVE  IInv'
    BY <1>1, <2>1, <2>4, RoundHandle, RoundAccounts DEF IInv
  <2>5. CASE (\E w \in Work : Write(w)) \/ SetRole \/ HandleLost \/ Pruned \/ Restart
    BY <1>1, <2>1, <2>5, EventHandle, EventAccounts DEF IInv
  <2>. QED
    BY <1>3, <2>0, <2>2, <2>3, <2>4, <2>5 DEF Next, Recovering, RoundEnds
<1>. QED
  BY <1>2, <1>3

\* The invariant holds in every reachable state: what follows are parts of it.
THEOREM Instance == Spec => []IInv
<1>. QED
  BY InitInv, StepInv, PTL DEF Spec

\* Every reachable state is type-correct (the state create_dict_instance closes over).
THEOREM InstanceTypes == Spec => []TypeOK
<1>1. IInv => TypeOK
  BY DEF IInv
<1>. QED
  BY <1>1, Instance, PTL

\* open_and_migrate_at_path and the teardowns never leave the exclusive handle behind.
THEOREM NoHandleLeaks == Spec => []HandleHasOwner
<1>1. IInv => HandleHasOwner
  BY DEF IInv
<1>. QED
  BY <1>1, Instance, PTL

\* auto_reset_attempted and rebuild_attempted end every 410-reset-410 loop.
THEOREM OneResetPerCause == Spec => []ResetsAreBounded
<1>1. IInv => ResetsAreBounded
  BY DEF IInv, Permits
<1>. QED
  BY <1>1, Instance, PTL

\* One step loses no work but by the named exceptions.
LEMMA StepKeeps ==
    ASSUME IInv, Next, NEW w \in Present \ Present'
    PROVE  \/ ~editor
           \/ w \in file.kept
           \/ \E t \in Resets : Discards(t) /\ Unseen(t, w)
           \/ \E t \in Task : Overtaken(t)
<1> USE DEF IInv
<1>0. {"rebuild", "manual"} \subseteq Task
  BY DEF Task, Resets
<1>1. CASE UNCHANGED file /\ server \subseteq server'
  BY <1>1 DEF Present
<1>2. ASSUME NEW t \in Task, DropIn(t) PROVE Overtaken(t)
  BY <1>2 DEF DropIn, Overtaken, At, GoTo, TypeOK, Tasks
<1>3. ASSUME NEW t \in Task, OpenSucceeds(t) PROVE FALSE
  BY <1>3 DEF OpenSucceeds, Present, TypeOK, Files
<1>4. ASSUME NEW t \in Task, OpenReplaces(t) PROVE ~editor
  BY <1>4 DEF OpenReplaces, MayReplace
<1>5. ASSUME NEW t \in Task, Teardown(t)
      PROVE  w \in file.kept \/ \E u \in Resets : Discards(u) /\ Unseen(u, w)
  <2>1. server' = server /\ (t \in Resets \/ file' = file)
    BY <1>5 DEF Teardown
  <2>2. t \in Resets
    BY <2>1 DEF Present
  <2>3. Discards(t)
    BY <1>5 DEF Teardown, Discards, At, GoTo, TypeOK, Tasks
  <2>4. w \notin server /\ (w \in file.dirty \/ w \in file.kept)
    BY <2>1 DEF Present
  <2>5. At(t, "teardown")
    BY <1>5 DEF Teardown
  <2>6. w \in file.dirty => Unseen(t, w)
    BY <2>2, <2>4, <2>5 DEF Accounted, Unseen
  <2>. QED
    BY <2>2, <2>3, <2>4, <2>6
<1>6. ASSUME NEW c \in Conns, RoundApplied(c) PROVE FALSE
  <2>1. /\ file'.dirty = file.dirty \ engine[c].round.pushed
        /\ file'.kept = file.kept \cup engine[c].round.refused
        /\ server' = server
    BY <1>6 DEF RoundApplied, TypeOK, Files
  <2>2. engine[c].round.pushed \subseteq server \cup engine[c].round.refused
    BY <1>6 DEF RoundApplied, Accounted
  <2>. QED
    BY <2>1, <2>2 DEF Present
<1>7. ASSUME NEW v \in Work, Write(v) PROVE FALSE
  BY <1>7 DEF Write, Present, TypeOK, Files
<1>8. CASE Pruned
  BY <1>8 DEF Pruned, Present, TypeOK, Files
<1>9. CASE \/ AutoChecks \/ RebuildFlushes \/ ManualFlushes \/ ManualChecks \/ ManualReset
           \/ SetRole \/ HandleLost \/ Restart
  BY <1>1, <1>9 DEF AutoChecks, RebuildFlushes, ManualFlushes, ManualChecks, ManualReset,
     Flushes, Accepts, SetRole, HandleLost, Restart
<1>10. ASSUME NEW t \in Task,
              \/ Probe(t) \/ OpenFails(t) \/ Wire(t) \/ FlushFails(t) \/ RoundSkipped(t)
       PROVE  FALSE
  BY <1>10 DEF Probe, OpenFails, Wire, FlushFails, RoundSkipped, Present
<1>11. ASSUME NEW c \in Conns,
              \/ RoundStarts(c) \/ RoundLost(c) \/ RoundBroken(c) \/ RoundWedged(c) \/ RoundGone(c)
       PROVE  FALSE
  <2>1. UNCHANGED file
    BY <1>11 DEF RoundStarts, RoundLost, RoundBroken, RoundWedged, RoundGone
  <2>2. server \subseteq server'
    BY <1>11 DEF RoundStarts, RoundLost, RoundBroken, RoundWedged, RoundGone, Accepts
  <2>. QED
    BY <2>1, <2>2 DEF Present
<1>. QED
  BY <1>0, <1>2, <1>3, <1>4, <1>5, <1>6, <1>7, <1>8, <1>9, <1>10, <1>11
  DEF Next, Recovering, RoundEnds

LEMMA StepKeepsAll == IInv /\ Next =>
    \A w \in Present \ Present' :
        \/ ~editor
        \/ w \in file.kept
        \/ \E t \in Resets : Discards(t) /\ Unseen(t, w)
        \/ \E t \in Task : Overtaken(t)
BY StepKeeps

\* What a tab was told is saved survives every recovery of the instance, whatever
\* overlaps, but for the exceptions WorkIsKept names.
THEOREM SavedWorkSurvives == Spec => WorkIsKept
<1>1. IInv /\ [Next]_vars =>
        [\A w \in Present \ Present' :
            \/ ~editor
            \/ w \in file.kept
            \/ \E t \in Resets : Discards(t) /\ Unseen(t, w)
            \/ \E t \in Task : Overtaken(t)]_vars
  BY StepKeepsAll
<1>. QED
  BY <1>1, Instance, PTL DEF Spec, WorkIsKept

===============================================================================
