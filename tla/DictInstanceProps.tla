---------------------------- MODULE DictInstanceProps ----------------------------
(***************************************************************************)
(* Correctness properties of DictInstance.                                 *)
(***************************************************************************)
EXTENDS DictInstance

Pcs == {"idle", "check", "flush", "teardown", "probe", "fetch", "open", "wire", "sync", "failed"}
Tasks == [pc : Pcs, conn : 0..MaxOpens, vouched : SUBSET Work, refused : SUBSET Work]
Rounds == [answer : {"none", "ok", "gone", "told"}, pushed : SUBSET Work, refused : SUBSET Work]
Strikes == [kind : {"none", "fk", "misuse"}, n : Nat]
Engines == [running : BOOLEAN, halted : BOOLEAN, strikes : Strikes,
            wedgeFired : BOOLEAN, round : Rounds]

\* Type correctness; reopen_attempts stays within its budget.
TypeOK ==
    /\ file \in Files
    /\ server \subseteq Work /\ saved \subseteq Work
    /\ editor \in BOOLEAN
    /\ conn \in 0..MaxOpens /\ held \in 0..MaxOpens /\ opened \in 0..MaxOpens
    /\ lost \subseteq Conns
    /\ engine \in [Conns -> Engines]
    /\ task \in [Task -> Tasks]
    /\ spent \subseteq {"auto", "rebuild", "poison"}
    /\ reopens \in 0..MaxReopens
    /\ resets \in [{"auto", "rebuild"} -> Nat]
    /\ budget \in [Events -> Nat]

\* The exclusive handle of the file is never left with a connection that nobody serves
\* or is about to serve: it would keep the file from being opened, replaced or deleted
\* until the worker dies (open_and_migrate_at_path closes what it cannot migrate).
HandleHasOwner ==
    held # 0 => held = conn \/ \E t \in Task : At(t, "wire") /\ task[t].conn = held

\* A worker replaces its file by itself at most once for an expired cursor and once for
\* a missing parent row (auto_reset_attempted, rebuild_attempted).
ResetsAreBounded == resets.auto <= 1 /\ resets.rebuild <= 1

\* The work a recovery may discard: what was written after it looked, what its own
\* flush was refused.
Discards(t) == At(t, "teardown") /\ ~At(t, "teardown")'
Unseen(t, w) == w \notin task[t].vouched \/ w \in task[t].refused
\* A download that lands on a file which another recovery made while it was fetched.
Overtaken(t) == At(t, "fetch") /\ At(t, "open")'

\* What a tab was told is saved stays on the server or in the file, through every reset,
\* rebuild, reopening and round, with the exceptions the code has: a viewer's file, rows
\* already put aside in it, what a reset did not see or could not push, and a download
\* that overlapping recoveries let land on a file in use.
WorkIsKept ==
    [][\A w \in Present \ Present' :
        \/ ~editor
        \/ w \in file.kept
        \/ \E t \in Resets : Discards(t) /\ Unseen(t, w)
        \/ \E t \in Task : Overtaken(t)]_vars

Serving == Usable(conn) /\ engine[conn].running
\* What ends a recovery badly: an opening or download that fails by itself, a new worker,
\* a file that cannot be opened, and the model's bound on connections.
Spoiled(flakes) ==
    \/ budget.flakes < flakes \/ task["boot"].pc # "idle"
    \/ file.state = "broken" \/ (opened = MaxOpens /\ held = 0)

\* A recovery that tears the instance down brings it back: tabs are served and an engine
\* runs, whatever other recovery overlaps with it.
ServiceResumes ==
    \A flakes \in 0..1 :
        (\E t \in Task \ {"boot"} : At(t, "teardown")) /\ budget.flakes = flakes
            ~> Serving \/ Spoiled(flakes)

===============================================================================
