------------------------------- MODULE AdminSync -------------------------------
(***************************************************************************)
(* The admins' browsers.  Each keeps a copy of the shared database in a    *)
(* file, edits it through LiveDb and exchanges it with the server in       *)
(* rounds: read the flagged rows table by table, read the tombstones and   *)
(* the cursor, post, apply the answer in one transaction.                  *)
(*                                                                         *)
(* A round awaits between any two statements, on the connection the page   *)
(* writes to: an edit can fall between any two steps of a round, inside    *)
(* its transaction too.                                                    *)
(***************************************************************************)
EXTENDS SharedCatalog

CONSTANTS
    Admin,      \* admins, each with one tab
    HaltAt      \* REPEAT_FAILURE_HALT_THRESHOLD

\* It is three: the page heals its file at the second failure, before the halt.
ASSUME AdminAssumption == HaltAt \in Nat /\ HaltAt > 2

VARIABLES
    file,       \* [Admin -> the database file]
    engine,     \* [Admin -> what the sync engine remembers, and its browser's online.current]
    round       \* [Admin -> the round under way]

adminVars == <<file, engine, round>>

\* The tables a page writes to, in the order a round reads them.
Table(n) == {q \in Row : \/ n = 1 /\ q \in Dict
                         \/ n = 2 /\ q \in Role
                         \/ n = 3 /\ q \in Thread}
LastTable == 3

\* cursor: synced_seq, 0 if never synced.  kept: <<row, text>> in rejected_pushes.
NoFile == [row |-> [q \in Row |-> Absent], dirty |-> {}, queue |-> {}, cursor |-> 0, kept |-> {}]

\* undo: the file as the transaction found it.
NoAnswer == [changes |-> {}, rows |-> [q \in Row |-> Absent], seqs |-> [q \in Row |-> 0],
             deletes |-> {}, refused |-> {}, losing |-> {}, cursor |-> 0]
NoRound == [phase |-> "idle", full |-> FALSE, table |-> 1, read |-> {},
            rows |-> [q \in Row |-> Absent], queue |-> {}, cursor |-> 0,
            answer |-> NoAnswer, undo |-> NoFile]

\* counted: total_dirty > 0.  armed: the auto-flush timer.  last: how the last round
\* ended.  strikes: failures of one kind in a row.  missed is a history variable: the timer
\* has fired offline since the last edit or round.  No action reads it.
NoStrikes == [kind |-> "none", n |-> 0]
NewEngine == [counted |-> FALSE, armed |-> FALSE, last |-> "none", strikes |-> NoStrikes,
              halted |-> FALSE, healed |-> FALSE,
              online |-> TRUE, missed |-> FALSE]

Idle(a) == round[a].phase = "idle"

-------------------------------------------------------------------------------
(* The page's writes.                                                        *)

\* mark_dirty: the timer is armed unless it is already.
Marked(a) == [engine EXCEPT ![a].counted = TRUE, ![a].armed = TRUE, ![a].missed = FALSE]

\* _save: the changed columns, the flag and a new stamp in one statement.
Save(a, q, tag) ==
    /\ q \notin Message /\ file[a].row[q].live
    /\ clock' = clock + 1
    /\ LET v == [file[a].row[q] EXCEPT !.stamp = clock + 1, !.text = clock + 1, !.tag = tag]
       IN  /\ Unique([file[a].row EXCEPT ![q] = v])
           /\ file' = [file EXCEPT ![a].row[q] = v, ![a].dirty = @ \cup {q}]
    /\ engine' = Marked(a)
    /\ UNCHANGED <<row, seq, grave, counter, round>>

\* The file without the rows of S: the rows under them and their flags go too.
Dropped(f, S) ==
    [f EXCEPT !.row = Without(f.row, S), !.dirty = @ \ WithChildren(S)]

\* _delete: the tombstone's trigger deletes the row.
Delete(a, q) ==
    /\ q \notin file[a].queue
    /\ file' = [file EXCEPT ![a] = [Dropped(file[a], {q}) EXCEPT !.queue = file[a].queue \cup {q}]]
    /\ engine' = Marked(a)
    /\ UNCHANGED <<serverVars, round>>

-------------------------------------------------------------------------------
(* A round begins.                                                           *)

Begun(full) == [NoRound EXCEPT !.phase = "reading", !.full = full]

\* #run: the timer is cancelled.  Offline or halted it returns without a trace.
Begin(a) ==
    /\ Idle(a) /\ ~engine[a].halted /\ engine[a].online
    /\ round' = [round EXCEPT ![a] = Begun(FALSE)]
    /\ engine' = [engine EXCEPT ![a].armed = FALSE, ![a].last = "none", ![a].missed = FALSE]
    /\ UNCHANGED <<serverVars, file>>

\* The button, the return to a tab left alone for a while, a grant just made.
Sync(a) == Begin(a)

\* The timer fires: sync_if_needed.  If that returns, nothing arms the timer again but
\* the next edit.
Flush(a) ==
    /\ engine[a].armed
    /\ \/ engine[a].counted /\ Begin(a)
       \/ /\ \/ ~Idle(a) \/ engine[a].halted
             \/ ~engine[a].online \/ ~engine[a].counted
          /\ engine' = [engine EXCEPT ![a].armed = FALSE,
                                      ![a].missed = Idle(a) /\ ~engine[a].online]
          /\ UNCHANGED <<serverVars, file, round>>

\* The browser's network goes and comes back; nothing in the engine listens for it.
Disconnect(a) ==
    /\ engine[a].online
    /\ engine' = [engine EXCEPT ![a].online = FALSE]
    /\ UNCHANGED <<serverVars, file, round>>

Reconnect(a) ==
    /\ ~engine[a].online
    /\ engine' = [engine EXCEPT ![a].online = TRUE]
    /\ UNCHANGED <<serverVars, file, round>>

\* The page is loaded anew: a transaction under way is rolled back, the engine forgets
\* what it counted and, online, syncs at once.
Reload(a) ==
    /\ file' = [file EXCEPT ![a] = IF round[a].phase = "applying" THEN round[a].undo ELSE @]
    /\ engine' = [engine EXCEPT ![a] = [NewEngine EXCEPT !.online = engine[a].online]]
    /\ round' = [round EXCEPT ![a] = IF engine[a].online THEN Begun(FALSE) ELSE NoRound]
    /\ UNCHANGED serverVars

-------------------------------------------------------------------------------
(* A round ends.                                                             *)

\* A failure of a kind the breaker ignores.
Excused(a) ==
    /\ round' = [round EXCEPT ![a] = NoRound]
    /\ engine' = [engine EXCEPT ![a].strikes = NoStrikes, ![a].last = "failed"]

\* The breaker counts; the second foreign key failure starts a full round, once.  Offline
\* that one attempt comes to nothing.
Struck(a, kind) ==
    LET n == IF engine[a].strikes.kind = kind THEN engine[a].strikes.n + 1 ELSE 1
        heals == kind = "fk" /\ n >= 2 /\ ~engine[a].healed
        starts == heals /\ engine[a].online
    IN  /\ round' = [round EXCEPT ![a] = IF starts THEN Begun(TRUE) ELSE NoRound]
        /\ engine' = [engine EXCEPT ![a].strikes = [kind |-> kind, n |-> n],
                                    ![a].last = IF starts THEN "none" ELSE "failed",
                                    ![a].halted = @ \/ n >= HaltAt,
                                    ![a].armed = @ /\ n < HaltAt /\ ~starts,
                                    ![a].healed = @ \/ heals]

\* Mutant: the count is never reset.
SucceededCounting(a) ==
    /\ round' = [round EXCEPT ![a] = NoRound]
    /\ engine' = [engine EXCEPT ![a].strikes = NoStrikes, ![a].last = "done"]

Succeeded(a) ==
    /\ round' = [round EXCEPT ![a] = NoRound]
    /\ engine' = [engine EXCEPT ![a].strikes = NoStrikes, ![a].last = "done",
                                ![a].counted = FALSE]

-------------------------------------------------------------------------------
(* #sync_once.                                                               *)

\* Mutant: the loop over the tables runs once too often.
ReadTablesOver(a) ==
    /\ round[a].phase = "reading" /\ round[a].table <= LastTable + 1
    /\ LET S == Table(round[a].table) \cap file[a].dirty
       IN  round' = [round EXCEPT ![a].table = @ + 1, ![a].read = @ \cup S,
                         ![a].rows = [q \in Row |-> IF q \in S THEN file[a].row[q] ELSE @[q]]]
    /\ UNCHANGED <<serverVars, file, engine>>

ReadTable(a) ==
    /\ round[a].phase = "reading" /\ round[a].table <= LastTable
    /\ LET S == Table(round[a].table) \cap file[a].dirty
       IN  round' = [round EXCEPT ![a].table = @ + 1, ![a].read = @ \cup S,
                         ![a].rows = [q \in Row |-> IF q \in S THEN file[a].row[q] ELSE @[q]]]
    /\ UNCHANGED <<serverVars, file, engine>>

\* Mutant: the full round asks from the cursor too.
AskFromCursor(a) ==
    /\ round[a].phase = "reading" /\ round[a].table > LastTable
    /\ round' = [round EXCEPT ![a].phase = "asked", ![a].queue = file[a].queue,
                              ![a].cursor = file[a].cursor]
    /\ UNCHANGED <<serverVars, file, engine>>

\* The tombstones and the cursor are read, the request leaves.
Ask(a) ==
    /\ round[a].phase = "reading" /\ round[a].table > LastTable
    /\ round' = [round EXCEPT ![a].phase = "asked", ![a].queue = file[a].queue,
                              ![a].cursor = IF round[a].full THEN 0 ELSE file[a].cursor]
    /\ UNCHANGED <<serverVars, file, engine>>

\* The server answers ...
Answer(a) ==
    /\ round[a].phase = "asked" /\ Unique(Merged(round[a]))
    /\ Merge(round[a])
    /\ round' = [round EXCEPT ![a].phase = "answered", ![a].answer = AnswerTo(round[a])]
    /\ UNCHANGED <<clock, file, engine>>

\* ... or throws: a pushed grant has a role that another grant has by now.
Refuse(a) ==
    /\ round[a].phase = "asked" /\ ~Unique(Merged(round[a]))
    /\ Struck(a, "refused")
    /\ UNCHANGED <<serverVars, file>>

\* The request or the answer is lost.
Lose(a) ==
    /\ round[a].phase \in {"asked", "answered"}
    /\ Excused(a)
    /\ UNCHANGED <<serverVars, file>>

\* A tombstone is passed over for a row edited since it was read.
DeletesApplied(a) ==
    round[a].answer.deletes \ (file[a].dirty \ round[a].read)

\* The file with the refused texts put aside and the deletes applied.
Cleared(a) ==
    [Dropped(file[a], DeletesApplied(a)) EXCEPT
        !.kept = @ \cup {<<q, round[a].rows[q].text>> : q \in round[a].answer.refused}]

\* Rows in the order they are upserted: those that won, then by number.
Before(ans, p, q) ==
    IF p \in ans.losing /\ q \in ans.losing THEN ans.seqs[p] < ans.seqs[q]
    ELSE \/ p \in ans.losing
         \/ q \notin ans.losing /\ ans.seqs[p] < ans.seqs[q]

\* Grants in the way of an incoming one, unless they were upserted before it.
InTheWay(f, ans, q) ==
    {p \in Role : /\ SameGrant(p, f.row[p], q, ans.rows[q])
                  /\ ~(p \in ans.changes /\ Before(ans, p, q))}
Collisions(f, ans) == UNION {InTheWay(f, ans, q) : q \in ans.changes \cap Role}

\* Every incoming row replaces the one there is, its flag with it; clean grants in the
\* way are deleted.
Upserted(f, ans) ==
    LET out == Collisions(f, ans)
    IN  [f EXCEPT !.row = [q \in Row |-> IF q \in ans.changes THEN ans.rows[q]
                                         ELSE IF q \in out THEN Absent ELSE @[q]],
                  !.dirty = @ \ ans.changes]

Apply(a) ==
    /\ round[a].phase = "answered"
    /\ LET f == Cleared(a)
           ans == round[a].answer
       IN  \/ /\ Collisions(f, ans) \cap f.dirty = {}
              /\ file' = [file EXCEPT ![a] = Upserted(f, ans)]
              /\ round' = [round EXCEPT ![a].phase = "applying", ![a].undo = file[a]]
              /\ engine' = engine
           \/ /\ Collisions(f, ans) \cap f.dirty # {}
              /\ Struck(a, "unique")
              /\ file' = file
    /\ UNCHANGED serverVars

\* Mutant: every flag is cleared, not those of the rows pushed.
FlaggedNone(a) == {}

\* The flags of the rows pushed are cleared by id.
Flagged(a) == file[a].dirty \ round[a].read

\* On a null cursor: clean rows the answer does not hold, unless just pushed.
Ghosts(a) ==
    IF round[a].cursor # 0 THEN {}
    ELSE {q \in Row : /\ file[a].row[q].live
                      /\ q \notin round[a].answer.changes \cup Flagged(a) \cup round[a].read}

Applied(a) ==
    [Dropped([file[a] EXCEPT !.dirty = Flagged(a)], Ghosts(a)) EXCEPT
        !.cursor = round[a].answer.cursor, !.queue = @ \ round[a].queue]

\* COMMIT checks the foreign keys; a ROLLBACK undoes the page's writes since BEGIN too.
Commit(a) ==
    /\ round[a].phase = "applying"
    /\ \/ /\ FkHolds(Applied(a).row)
          /\ file' = [file EXCEPT ![a] = Applied(a)]
          /\ Succeeded(a)
       \/ /\ ~FkHolds(Applied(a).row)
          /\ file' = [file EXCEPT ![a] = round[a].undo]
          /\ Struck(a, "fk")
    /\ UNCHANGED serverVars

Step(a) == ReadTable(a) \/ Ask(a) \/ Answer(a) \/ Refuse(a) \/ Apply(a) \/ Commit(a)

===============================================================================
