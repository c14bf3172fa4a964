----------------------------- MODULE MCDictInstance -----------------------------
(***************************************************************************)
(* One dictionary file for TLC.                                            *)
(***************************************************************************)
EXTENDS DictInstanceProps

CONSTANTS w1, w2

File(state, cursor, wedged, dirty) ==
    [NoFile EXCEPT !.state = state, !.cursor = cursor, !.wedged = wedged, !.dirty = dirty]
Only(events) == [e \in Events |-> IF e \in events THEN 1 ELSE 0]
Session(f, e, events) == [file |-> f, editor |-> e, budget |-> Only(events)]

Sound == File("whole", "live", FALSE, {})
Worked == File("whole", "live", FALSE, {w1})
Wedged == File("whole", "live", TRUE, {w1})
Expired == File("whole", "expired", FALSE, {})
Broken == File("broken", "null", FALSE, {})

\* Editors on a sound file, on one that needs a rebuild and on one that needs a reset;
\* viewers on files that do not open, hold work of a lapsed role, or are not there yet.
Sessions ==
    {Session(Sound, TRUE, e) : e \in {{"manual", "losses"}, {"flakes", "losses"}}}
    \cup {[Session(Sound, TRUE, {}) EXCEPT !.budget.losses = 2]}
    \cup {Session(Wedged, TRUE, e) : e \in {{"losses", "refusals"}, {"losses", "prunes"}, {"manual"}}}
    \cup {Session(Expired, TRUE, e) : e \in {{"losses", "restarts"}, {"manual"}, {"losses", "flakes"}}}
    \cup {Session(f, FALSE, e) : f \in {NoFile, Broken}, e \in {{"flakes"}, {"restarts"}}}
    \cup {Session(Worked, FALSE, e) : e \in {{"flakes"}, {"prunes"}, {"manual"}}}

===============================================================================
