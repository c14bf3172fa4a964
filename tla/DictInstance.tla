------------------------------ MODULE DictInstance ------------------------------
(***************************************************************************)
(* The instance in a dictionary's leader worker: the local database file,  *)
(* the connection and sync engine it is served through, and the recoveries *)
(* that replace them - opening, resetting, rebuilding and reopening.       *)
(*                                                                         *)
(* Every recovery is an asynchronous function of its own and nothing keeps *)
(* two of them apart, so each is a task with a program counter.  What runs *)
(* under the operation lock (a write, an apply, a teardown) is one step.   *)
(* A connection and its engine are made together and share a number.       *)
(***************************************************************************)
EXTENDS Naturals, FiniteSets

CONSTANTS
    Work,          \* local writes, each a row of its own
    MaxReopens,    \* MAX_REOPEN_ATTEMPTS
    MaxOpens,      \* bound: connections opened
    Scenarios      \* bounds: the file an earlier session may have left, the role the page is
                   \* opened with, and how many of the events below may happen

Files == [state : {"none", "broken", "whole"}, cursor : {"null", "live", "expired"},
          wedged : BOOLEAN, dirty : SUBSET Work, kept : SUBSET Work]
Events == {"manual", "losses", "flakes", "refusals", "prunes", "restarts"}

ASSUME InstanceAssumption ==
    /\ MaxReopens \in Nat /\ MaxOpens \in Nat \ {0}
    /\ Scenarios \subseteq [file : Files, editor : BOOLEAN, budget : [Events -> Nat]]

VARIABLES
    file,     \* the file on disk: state, cursor, whether a parent row is missing, the
              \* flagged rows and the refused rows put aside
    server,   \* works the server accepted
    saved,    \* works a tab was told are saved
    editor,   \* has_editor_role
    conn,     \* the current connection and engine, 0 before the first
    held,     \* the connection that holds the file's exclusive handle, 0 if none
    lost,     \* connections whose handle the browser closed
    opened,   \* connections opened so far: the number of the latest
    engine,   \* [1..MaxOpens -> running, halted, strikes and the round in flight]
    task,     \* [Task -> where the recovery stands and what its check vouched for]
    spent,    \* permits used in this worker: "auto", "rebuild", and in this page: "poison"
    reopens,  \* reopen_attempts
    resets,   \* per cause, the file-replacing recoveries this worker started by itself
    budget    \* how often each event may still happen: resets people ask for, handles the
              \* browser closes, openings and downloads that fail by themselves, rounds
              \* the server refuses rows of, prunings past the cursor, workers that die

connVars == <<conn, held, lost, opened>>
permitVars == <<spent, reopens, resets>>
vars == <<file, server, saved, editor, connVars, engine, task, permitVars, budget>>

Conns == 1..MaxOpens
Resets == {"auto", "rebuild", "manual"}
Task == Resets \cup {"boot", "reopen"}

NoFile == [state |-> "none", cursor |-> "null", wedged |-> FALSE, dirty |-> {}, kept |-> {}]
Idle == [pc |-> "idle", conn |-> 0, vouched |-> {}, refused |-> {}]
NoRound == [answer |-> "none", pushed |-> {}, refused |-> {}]
NoStrikes == [kind |-> "none", n |-> 0]
NoResets == [auto |-> 0, rebuild |-> 0]
NoEngine == [running |-> FALSE, halted |-> FALSE, strikes |-> NoStrikes,
             wedgeFired |-> FALSE, round |-> NoRound]

Usable(c) == c # 0 /\ held = c
Spend(event) == budget[event] > 0 /\ budget' = [budget EXCEPT ![event] = @ - 1]
\* Works whose text is somewhere: on the server, flagged in the file, or put aside in it.
Present == server \cup file.dirty \cup file.kept

At(t, pc) == task[t].pc = pc
GoTo(t, pc) == [task EXCEPT ![t].pc = pc]
Ended(t) == [task EXCEPT ![t] = Idle]
Stopped(c) == IF c = 0 THEN engine ELSE [engine EXCEPT ![c].running = FALSE]

Init ==
    /\ \E s \in Scenarios : file = s.file /\ editor = s.editor /\ budget = s.budget
    /\ server = {}
    /\ saved = file.dirty \cup file.kept
    /\ conn = 0 /\ held = 0 /\ lost = {} /\ opened = 0
    /\ engine = [c \in Conns |-> NoEngine]
    /\ task = [t \in Task |-> IF t = "boot" THEN [Idle EXCEPT !.pc = "probe"] ELSE Idle]
    /\ spent = {} /\ reopens = 0 /\ resets = NoResets

-------------------------------------------------------------------------------
(* open_and_wire.                                                           *)

\* open_opfs_prepared: an existing file is opened in place, otherwise a snapshot is fetched.
Probe(t) ==
    /\ At(t, "probe")
    /\ task' = GoTo(t, IF file.state = "none" THEN "fetch" ELSE "open")
    /\ UNCHANGED <<file, server, saved, editor, connVars, engine, permitVars, budget>>

\* A snapshot: live from the server for an editor, as last published for a viewer.
Snapshots ==
    {[NoFile EXCEPT !.state = "whole", !.cursor = c] :
        c \in IF editor THEN {"live"} ELSE {"live", "expired"}}

\* drop_in_snapshot.  Nothing can be written while somebody holds the handle, and a
\* failed download or write is swallowed.
DropIn(t) ==
    /\ At(t, "fetch")
    /\ task' = GoTo(t, "open")
    /\ IF held # 0 THEN UNCHANGED <<file, budget>>
       ELSE \/ /\ file' \in Snapshots
               /\ budget' = budget
            \/ /\ Spend("flakes")
               /\ file' \in {file, [NoFile EXCEPT !.state = "broken"]}
    /\ UNCHANGED <<server, saved, editor, connVars, engine, permitVars>>

\* open_opfs_connection: takes the handle, creates an empty database if there is no file.
OpenSucceeds(t) ==
    /\ At(t, "open")
    /\ held = 0 /\ file.state # "broken" /\ opened < MaxOpens
    /\ opened' = opened + 1
    /\ held' = opened + 1
    /\ file' = IF file.state = "none" THEN [file EXCEPT !.state = "whole"] ELSE file
    /\ task' = [task EXCEPT ![t].pc = "wire", ![t].conn = opened + 1]
    /\ UNCHANGED <<server, saved, editor, conn, lost, engine, permitVars, budget>>

\* Mutant of Throws: a connection that cannot be migrated is left open.
ThrowsLeavingOpen(t) ==
    \/ /\ At(t, "open")
       /\ held # 0 \/ file.state = "broken"
       /\ UNCHANGED <<held, budget>>
    \/ /\ At(t, "open") \/ At(t, "wire")
       /\ Spend("flakes")
       /\ held' = held

\* The opening throws: the handle is taken, the file is broken, or the browser fails it;
\* or a migration does, and the connection is closed again.
Throws(t) ==
    \/ /\ At(t, "open")
       /\ held # 0 \/ file.state = "broken"
       /\ UNCHANGED <<held, budget>>
    \/ /\ At(t, "open")
       /\ Spend("flakes")
       /\ held' = held
    \/ /\ At(t, "wire")
       /\ Spend("flakes")
       /\ held' = IF held = task[t].conn THEN 0 ELSE held

\* poisoned_file_recovery_decision: a viewer's file, once per page session.
MayReplace == ~editor /\ "poison" \notin spent

\* The delete is silently refused while somebody holds the handle.
OpenReplaces(t) ==
    /\ Throws(t)
    /\ MayReplace
    /\ spent' = spent \cup {"poison"}
    /\ file' = IF held' = 0 THEN NoFile ELSE file
    /\ task' = GoTo(t, "fetch")
    /\ UNCHANGED <<server, saved, editor, conn, lost, opened, engine, reopens, resets>>

\* The error reaches the recovery: a boot fails its worker, anything else leaves the
\* instance without a connection.
OpenFails(t) ==
    /\ Throws(t)
    /\ ~MayReplace
    /\ task' = [task EXCEPT ![t] = [Idle EXCEPT !.pc = IF t = "boot" THEN "failed" ELSE "idle"]]
    /\ UNCHANGED <<file, server, saved, editor, conn, lost, opened, engine, permitVars>>

\* The connection becomes the current one and a new engine starts on it; a reset then
\* syncs once.
Wire(t) ==
    /\ At(t, "wire")
    /\ conn' = task[t].conn
    /\ engine' = [engine EXCEPT ![task[t].conn].running = TRUE]
    /\ task' = IF t \in Resets THEN GoTo(t, "sync") ELSE Ended(t)
    /\ UNCHANGED <<file, server, saved, editor, held, lost, opened, permitVars, budget>>

-------------------------------------------------------------------------------
(* Recoveries.                                                              *)

\* has_pending and flush_push_only look at a viewer's file without seeing anything.
Pending == IF editor THEN file.dirty ELSE {}
Vouched == IF editor THEN Present ELSE {}

\* Mutant of AutoReset: once per worker is forgotten.
AutoResetAgain ==
    /\ spent' = spent
    /\ resets' = [resets EXCEPT !.auto = @ + 1]
    /\ task' = GoTo("auto", "check")

\* maybe_auto_reset, started by an expired cursor.
AutoReset ==
    IF "auto" \in spent THEN UNCHANGED <<task, spent, resets>>
    ELSE /\ spent' = spent \cup {"auto"}
         /\ resets' = [resets EXCEPT !.auto = @ + 1]
         /\ task' = GoTo("auto", "check")

\* Mutant of AutoChecks: an error of has_pending counts as nothing pending.
AutoChecksTrusting ==
    /\ At("auto", "check")
    /\ IF Usable(conn) => Pending = {}
       THEN /\ engine' = Stopped(conn)
            /\ task' = [task EXCEPT !["auto"].pc = "teardown", !["auto"].vouched = Vouched]
       ELSE /\ task' = Ended("auto")
            /\ engine' = engine
    /\ UNCHANGED <<file, server, saved, editor, connVars, permitVars, budget>>

\* An error of has_pending counts as work pending; a viewer is not looked at.
AutoChecks ==
    /\ At("auto", "check")
    /\ IF (editor => Usable(conn)) /\ Pending = {}
       THEN /\ engine' = Stopped(conn)
            /\ task' = [task EXCEPT !["auto"].pc = "teardown", !["auto"].vouched = Vouched]
       ELSE /\ task' = Ended("auto")
            /\ engine' = engine
    /\ UNCHANGED <<file, server, saved, editor, connVars, permitVars, budget>>

\* rebuild, started by the second foreign-key failure in a row.
Rebuild ==
    IF "rebuild" \in spent THEN UNCHANGED <<task, spent, resets>>
    ELSE /\ spent' = spent \cup {"rebuild"}
         /\ resets' = [resets EXCEPT !.rebuild = @ + 1]
         /\ task' = GoTo("rebuild", "flush")

\* What the server does with pushed rows: it may refuse some.
Accepts(pushed, refused) ==
    /\ refused \subseteq pushed
    /\ server' = server \cup (pushed \ refused)
    /\ IF refused = {} THEN budget' = budget
       ELSE Spend("refusals")

\* flush_push_only answers nothing about the rows the server refused.
Flushes(t, pc) ==
    /\ At(t, "flush")
    /\ Usable(conn)
    /\ Pending = {} \/ file.cursor # "expired"
    /\ \E refused \in SUBSET Pending :
        /\ Accepts(Pending, refused)
        /\ task' = [task EXCEPT ![t].pc = pc, ![t].vouched = Vouched, ![t].refused = refused]

RebuildFlushes ==
    /\ Flushes("rebuild", "teardown")
    /\ engine' = Stopped(conn)
    /\ UNCHANGED <<file, saved, editor, connVars, permitVars>>

\* reset, asked for by a person.
ManualReset ==
    /\ conn # 0
    /\ At("manual", "idle")
    /\ Spend("manual")
    /\ task' = GoTo("manual", "flush")
    /\ UNCHANGED <<file, server, saved, editor, connVars, engine, permitVars>>

ManualFlushes ==
    /\ Flushes("manual", "check")
    /\ UNCHANGED <<file, saved, editor, connVars, engine, permitVars>>

\* The flush throws: offline, expired, or no connection.
FlushFails(t) ==
    /\ At(t, "flush")
    /\ task' = Ended(t)
    /\ UNCHANGED <<file, server, saved, editor, connVars, engine, permitVars, budget>>

\* The flush clears no flag, so an editor with flagged rows is always refused.
ManualChecks ==
    /\ At("manual", "check")
    /\ IF (editor => Usable(conn)) /\ Pending = {}
       THEN /\ engine' = Stopped(conn)
            /\ task' = [task EXCEPT !["manual"].pc = "teardown", !["manual"].vouched = Vouched]
       ELSE task' = Ended("manual") /\ engine' = engine
    /\ UNCHANGED <<file, server, saved, editor, connVars, permitVars, budget>>

\* Mutant of StorageLost: no budget.
StorageLostUnbudgeted(eng) ==
    IF ~At("reopen", "idle") THEN engine' = eng /\ UNCHANGED <<task, reopens>>
    ELSE /\ engine' = IF conn = 0 THEN eng ELSE [eng EXCEPT ![conn].running = FALSE]
         /\ reopens' = reopens + 1
         /\ task' = GoTo("reopen", "teardown")

\* reopen_after_storage_lost acts on whatever is current, not on what failed.
StorageLost(eng) ==
    IF ~At("reopen", "idle") THEN engine' = eng /\ UNCHANGED <<task, reopens>>
    ELSE /\ engine' = IF conn = 0 THEN eng ELSE [eng EXCEPT ![conn].running = FALSE]
         /\ IF reopens >= MaxReopens THEN UNCHANGED <<task, reopens>>
            ELSE /\ reopens' = reopens + 1
                 /\ task' = GoTo("reopen", "teardown")

\* Mutant of Teardown: the file is deleted before the connection is closed, and kept.
TeardownKeepingHandle(t) ==
    /\ At(t, "teardown")
    /\ UNCHANGED held
    /\ file' = IF t \in Resets /\ held' = 0 THEN NoFile ELSE file
    /\ task' = GoTo(t, "probe")
    /\ UNCHANGED <<server, saved, editor, conn, lost, opened, engine, permitVars, budget>>

\* Under the operation lock: the current connection is closed; a reset deletes the file
\* as well, unless somebody else holds it.
Teardown(t) ==
    /\ At(t, "teardown")
    /\ held' = IF held = conn THEN 0 ELSE held
    /\ file' = IF t \in Resets /\ held' = 0 THEN NoFile ELSE file
    /\ task' = GoTo(t, "probe")
    /\ UNCHANGED <<server, saved, editor, conn, lost, opened, engine, permitVars, budget>>

-------------------------------------------------------------------------------
(* Writes and rounds.                                                       *)

\* exec and dict_write, under the operation lock, on the current connection.
Write(w) ==
    /\ editor /\ w \notin saved
    /\ Usable(conn)
    /\ file' = [file EXCEPT !.dirty = @ \cup {w}]
    /\ saved' = saved \cup {w}
    /\ UNCHANGED <<server, editor, connVars, engine, task, permitVars, budget>>

\* Who starts a round: the engine's timer or a write, a tab, or a reset that is done.
Starters(c) ==
    {by \in {"timer", "tab"} \cup Resets :
        /\ by = "timer" => engine[c].running
        /\ by # "timer" => c = conn
        /\ by \in Resets => At(by, "sync")}

AfterStart(by) == IF by \in Resets THEN Ended(by) ELSE task

\* sync_once up to the server's answer.
RoundStarts(c) ==
    /\ engine[c].round = NoRound /\ ~engine[c].halted
    /\ Usable(c)
    /\ \E by \in Starters(c), refused \in SUBSET Pending :
        LET gone == file.cursor = "expired"
            answer == CASE ~gone -> "ok" [] gone /\ by = "timer" -> "gone" [] OTHER -> "told"
            round == [answer |-> answer, pushed |-> Pending, refused |-> refused]
        IN /\ gone => refused = {}
           /\ IF gone THEN UNCHANGED <<server, budget>> ELSE Accepts(Pending, refused)
           /\ engine' = [engine EXCEPT ![c].round = round]
           /\ task' = AfterStart(by)
    /\ UNCHANGED <<file, saved, editor, connVars, permitVars>>

\* A reset whose one sync cannot run (another is in flight, or the engine halted).
RoundSkipped(t) ==
    /\ t \in Resets /\ At(t, "sync")
    /\ engine[conn].round # NoRound \/ engine[conn].halted \/ ~Usable(conn)
    /\ task' = Ended(t)
    /\ UNCHANGED <<file, server, saved, editor, connVars, engine, permitVars, budget>>

\* A round that succeeds, or fails for a reason that passes: no failure is counted.
Unstruck(c) == [engine EXCEPT ![c].round = NoRound, ![c].strikes = NoStrikes]

\* The breaker: three like failures in a row halt the engine.
Struck(c, kind) ==
    LET n == IF engine[c].strikes.kind = kind THEN engine[c].strikes.n + 1 ELSE 1
    IN [engine EXCEPT ![c].round = NoRound, ![c].strikes = [kind |-> kind, n |-> n],
                      ![c].halted = n >= 3,
                      ![c].wedgeFired = @ \/ (kind = "fk" /\ n >= 2)]

\* A round on a connection that is gone: a closed handle is told apart from a connection
\* that was closed by a recovery.
RoundBroken(c) ==
    /\ ~Usable(c)
    /\ \/ engine[c].round # NoRound
       \/ engine[c].running /\ ~engine[c].halted
    /\ IF c \in lost
       THEN StorageLost(Unstruck(c))
       ELSE engine' = Struck(c, "misuse") /\ UNCHANGED <<task, reopens>>
    /\ UNCHANGED <<file, server, saved, editor, connVars, spent, resets, budget>>

\* The answer is applied under the operation lock.
RoundApplied(c) ==
    /\ engine[c].round.answer = "ok" /\ Usable(c) /\ ~file.wedged
    /\ file' = [file EXCEPT !.dirty = @ \ engine[c].round.pushed,
                            !.kept = @ \cup engine[c].round.refused,
                            !.cursor = "live"]
    /\ engine' = Unstruck(c)
    /\ UNCHANGED <<server, saved, editor, connVars, task, permitVars, budget>>

\* The answer never arrives.
RoundLost(c) ==
    /\ engine[c].round # NoRound
    /\ engine' = Unstruck(c)
    /\ UNCHANGED <<file, server, saved, editor, connVars, task, permitVars, budget>>

\* A parent row is missing: the transaction is rolled back.
RoundWedged(c) ==
    /\ engine[c].round.answer = "ok" /\ Usable(c) /\ file.wedged
    /\ engine' = Struck(c, "fk")
    /\ IF engine'[c].wedgeFired /\ ~engine[c].wedgeFired
       THEN Rebuild
       ELSE UNCHANGED <<task, spent, resets>>
    /\ UNCHANGED <<file, server, saved, editor, connVars, reopens, budget>>

\* 410: translate_sync_error sees it when a tab or a reset asked, never a timer.
RoundGone(c) ==
    /\ engine[c].round.answer \in {"gone", "told"} /\ Usable(c)
    /\ engine' = Unstruck(c)
    /\ IF engine[c].round.answer = "told" THEN AutoReset ELSE UNCHANGED <<task, spent, resets>>
    /\ UNCHANGED <<file, server, saved, editor, connVars, reopens, budget>>

-------------------------------------------------------------------------------
(* Events.                                                                  *)

\* set_role: promoted in place, never demoted.
SetRole ==
    /\ ~editor /\ conn # 0
    /\ editor' = TRUE
    /\ UNCHANGED <<file, server, saved, connVars, engine, task, permitVars, budget>>

\* The browser closes the handle of a suspended tab's worker.
HandleLost ==
    /\ held # 0 /\ held = conn
    /\ Spend("losses")
    /\ lost' = lost \cup {held}
    /\ held' = 0
    /\ UNCHANGED <<file, server, saved, editor, conn, opened, engine, task, permitVars>>

\* Tombstones after the file's cursor are pruned on the server.
Pruned ==
    /\ file.cursor = "live"
    /\ Spend("prunes")
    /\ file' = [file EXCEPT !.cursor = "expired"]
    /\ UNCHANGED <<server, saved, editor, connVars, engine, task, permitVars>>

\* The worker dies and another boots on the same file: in the same page session the
\* poison permit stays spent.
Restart ==
    /\ Spend("restarts")
    /\ conn' = 0 /\ held' = 0
    /\ engine' = [c \in Conns |-> NoEngine]
    /\ task' = [t \in Task |-> IF t = "boot" THEN [Idle EXCEPT !.pc = "probe"] ELSE Idle]
    /\ spent' \in {spent \cap {"poison"}, {}}
    /\ reopens' = 0 /\ resets' = NoResets
    /\ UNCHANGED <<file, server, saved, editor, lost, opened>>

-------------------------------------------------------------------------------
(* Specification.                                                           *)

Recovering ==
    \/ AutoChecks \/ RebuildFlushes \/ ManualFlushes \/ ManualChecks
    \/ FlushFails("rebuild") \/ FlushFails("manual")
    \/ \E t \in Task :
        \/ Teardown(t) \/ Probe(t) \/ DropIn(t) \/ OpenSucceeds(t)
        \/ OpenReplaces(t) \/ OpenFails(t) \/ Wire(t) \/ RoundSkipped(t)
RoundEnds(c) == RoundBroken(c) \/ RoundApplied(c) \/ RoundWedged(c) \/ RoundGone(c)

Next ==
    \/ Recovering
    \/ \E c \in Conns : RoundStarts(c) \/ RoundLost(c) \/ RoundEnds(c)
    \/ \E w \in Work : Write(w)
    \/ ManualReset \/ SetRole \/ HandleLost \/ Pruned \/ Restart

\* Asynchronous steps of a recovery complete, and an engine's timer ticks: its round
\* meets what became of its connection.
Fairness ==
    /\ WF_vars(Recovering)
    /\ WF_vars(\E c \in Conns : RoundEnds(c))

Spec == Init /\ [][Next]_vars /\ Fairness

===============================================================================
