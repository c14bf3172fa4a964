----------------------------- MODULE CatalogueProps -----------------------------
(***************************************************************************)
(* What the admin sync and the snapshot sweep promise.                     *)
(***************************************************************************)
EXTENDS Catalogue

Phases == {"idle", "reading", "asked", "answered", "applying"}

Files == [row : [Row -> Version], dirty : SUBSET Row, queue : SUBSET Row, cursor : Nat,
          kept : SUBSET (Row \X Nat)]
Answers == [changes : SUBSET Row, rows : [Row -> Version], seqs : [Row -> Nat],
            deletes : SUBSET Row, refused : SUBSET Row, losing : SUBSET Row, cursor : Nat]
Rounds == [phase : Phases, full : BOOLEAN, table : 1..(LastTable + 1), read : SUBSET Row,
           rows : [Row -> Version], queue : SUBSET Row, cursor : Nat, answer : Answers,
           undo : Files]
Engines == [counted : BOOLEAN, armed : BOOLEAN, last : {"none", "failed", "done"},
            strikes : [kind : {"none", "fk", "unique", "refused"}, n : Nat],
            halted : BOOLEAN, healed : BOOLEAN,
            online : BOOLEAN, missed : BOOLEAN]
Sweeps == [pc : {"off", "withdraw", "build", "mark"}, todo : SUBSET Dict, at : SUBSET Dict,
           ts : Nat, bytes : Nat]

MediaRuns == [pc : {"off", "list", "diff", "read", "delete", "drop", "heal", "record"},
         remote : SUBSET Media, todo : SUBSET Dict, at : SUBSET Dict, keys : SUBSET Media,
         gone : BOOLEAN, skipped : SUBSET Dict, batch : SUBSET Media]
MediaTypes ==
    /\ stored \subseteq Media /\ ledger \in [Media -> Entry] /\ used \subseteq Item
    /\ upload \in [Media -> {"none", "sending", "stored", "making", "ready"}]
    /\ unreadable \subseteq Dict /\ run \in MediaRuns /\ weekly \in BOOLEAN
    /\ relinked \subseteq Item /\ bucket \in BOOLEAN

\* Every variable keeps its type.
TypeOK ==
    /\ row \in [Row -> Version] /\ seq \in [Row -> Nat] /\ grave \in [Row -> Nat]
    /\ counter \in Nat /\ clock \in Nat
    /\ file \in [Admin -> Files] /\ engine \in [Admin -> Engines] /\ round \in [Admin -> Rounds]
    /\ content \in [Dict -> Nat] /\ pruned \in [Dict -> Nat] /\ published \in [Dict -> Nat]
    /\ teardown \subseteq Dict /\ sweep \in Sweeps
    /\ reconciled \in BOOLEAN /\ enabled \in BOOLEAN
    /\ outbox \in [Message -> [at : {"none", "uploading", "sending"}, now : Nat]]
    /\ left \in [Events -> Nat]
    /\ MediaTypes

-------------------------------------------------------------------------------
(* Admin sync.                                                               *)

\* The file as the last transaction left it.
Committed(a) == IF round[a].phase = "applying" THEN round[a].undo ELSE file[a]

\* Rows an incremental pull will never bring again and the file does not have.
Missing(a) ==
    {q \in Row : /\ row[q].live /\ seq[q] <= Committed(a).cursor
                 /\ ~Committed(a).row[q].live /\ q \notin WithChildren(Committed(a).queue)}

\* Grants whose text in the file is later than the server's although nothing flags it: they
\* were edited while a round was under way, whose flag the round cleared.
Forgotten(a) ==
    {q \in Role : /\ Committed(a).row[q].live /\ q \notin Committed(a).dirty
                  /\ Committed(a).row[q].text > row[q].stamp}

\* No step of anybody makes an admin miss a row: what the file lacks is above its cursor.
\* A file that misses rows from earlier times misses no more, but for a forgotten grant, whose
\* role another grant may have by now: the file drops it to make way.
MissesNothingMore ==
    [][\A a \in Admin : Missing(a)' \subseteq Missing(a) \cup Forgotten(a)]_vars

\* An admin at rest, level with the server, with nothing to push, shows what the server
\* has, except rows edited while a round was under way, whose flag the round cleared.
AdminsAgree ==
    \A a \in Admin :
        Idle(a) /\ file[a].cursor = counter /\ file[a].dirty = {} /\ file[a].queue = {}
                /\ Missing(a) = {}
        => \A q \in Row : /\ file[a].row[q].live = row[q].live
                          /\ \/ file[a].row[q].text = row[q].text
                             \/ file[a].row[q].text > row[q].stamp

\* A text on the server gives way to later texts only, unless the mirror of a content
\* cursor has set the row's stamp back.
LaterEditWins ==
    [][\A q \in Row : row[q].live /\ row'[q].live /\ row[q].text <= row[q].stamp
                      => row'[q].text >= row[q].text]_vars

Unsent(a) == {e \in Row \X {file[a].row[q].text : q \in file[a].dirty} :
                 e[1] \in file[a].dirty /\ e[2] = file[a].row[e[1]].text}

\* Not in the request under way, whose answer takes its flag, its text or its parent.
CaughtMidRound(a, q, x) ==
    /\ round[a].phase \in {"answered", "applying"}
    /\ ~(q \in round[a].read /\ round[a].rows[q].text = x)
    /\ \/ q \in round[a].read \cup round[a].answer.changes
       \/ q \in Child /\ ~round[a].answer.rows[Parent[q]].live

\* Written inside a transaction that was rolled back.
RolledBack(a, q, x) ==
    /\ round[a].phase = "applying"
    /\ ~(q \in round[a].undo.dirty /\ round[a].undo.row[q].text = x)

\* The server's rows as the round's answer found them; without one, as they are.
Told(a) == IF round[a].phase \in {"answered", "applying"} THEN round[a].answer.rows ELSE row

\* An edit stops waiting to be sent only when a later edit replaced it, when the server
\* has it or a later stamp, when its row was deleted, or when it is on the shelf; or it
\* was made during a round, in one of the two ways above.
EditsAreKept ==
    [][\A a \in Admin : \A e \in Unsent(a) \ Unsent(a)' :
        LET q == e[1]
            x == e[2]
            v == Told(a)[q]
        IN  \/ q \in file'[a].dirty /\ file'[a].row[q].text > x
            \/ v.live /\ (v.text >= x \/ v.stamp > x)
            \/ q \in WithChildren(file'[a].queue)
            \/ e \in file'[a].kept
            \/ CaughtMidRound(a, q, x)
            \/ RolledBack(a, q, x)]_vars

\* The round pushes, or pulls into a flagged row, a grant with the role of another.
Clash(a) ==
    \E q, p \in Role :
        \/ /\ round[a].phase = "asked" /\ q \in round[a].read
           /\ SameGrant(q, round[a].rows[q], p, row[p])
        \/ /\ round[a].phase = "answered" /\ q \in file[a].dirty
           /\ p \in round[a].answer.changes
           /\ SameGrant(q, file[a].row[q], p, round[a].answer.rows[p])

\* A row was deleted on the page after the round had read it; the answer, which takes it to
\* be there, brings rows under it.
Undercut(a) ==
    /\ round[a].phase = "applying"
    /\ \E q \in round[a].read : round[a].answer.rows[q].live /\ ~file[a].row[q].live

\* Only a clash of two grants stops an engine for good: an inconsistent file heals by a
\* full round, which fails only if undercut, unless the one attempt of the page was spent
\* before.
HaltsOnAClash ==
    [][\A a \in Admin : engine'[a].halted /\ ~engine[a].halted
        => Clash(a) \/ (engine[a].healed /\ ~round[a].full) \/ Undercut(a)]_vars

\* A flagged row whose server row is gone has a tombstone there: the push is refused and
\* the text put aside, and no push can leave a child without its parent.
AbsentIsBuried ==
    \A a \in Admin : \A q \in file[a].dirty : ~row[q].live => grave[q] # 0

\* In the end an engine that counts work to push has told the person that it failed, or its
\* timer fired offline and nothing was edited and no round begun since: an edit is pushed
\* without anybody pressing the button, unless a round forgot it or a timer missed it.
EditGoesUp ==
    <>[](\A a \in Admin : engine[a].counted => engine[a].last = "failed" \/ engine[a].missed)

-------------------------------------------------------------------------------
(* The snapshot sweep.                                                       *)

\* A stamp the mirror set back says nothing about the content.
SetBack(q) == row[q].text > row[q].stamp

\* A row that is not due has its content published, unless the mirror failed or a push
\* in vain set its stamp back.
FreshMeansPublished ==
    \A d \in Dict :
        row[d].live /\ row[d].tag # "secure" /\ ~Due(d) /\ d \notin Behind /\ ~SetBack(d)
        => published[d] >= content[d]

\* Visitors of a snapshot older than the tombstones pruned are sent back to it for ever: the row
\* is due for another as long as that lasts, whatever fails, unless its stamp hides it.
ExpiryHeals ==
    \A d \in Dict :
        row[d].live /\ row[d].tag # "secure" /\ pruned[d] > published[d]
        => Due(d) \/ SetBack(d) \/ d \in Behind

\* In the end no secure dictionary that has a mark has a public snapshot.
SecureIsWithdrawn ==
    <>[](\A d \in Dict : enabled /\ Secure(d) /\ row[d].uploaded # 0 => published[d] = 0)

\* In the end every other dictionary's content is published, unless its stamp hides it.
SnapshotCatchesUp ==
    <>[](\A d \in Dict : enabled /\ row[d].live /\ row[d].tag # "secure"
                         => published[d] >= content[d] \/ SetBack(d) \/ d \in Behind)

-------------------------------------------------------------------------------
(* The media job.                                                            *)

\* What live rows name: originals, and the renditions derived from them.
Needed == WithThumbs(used)

\* The deletion clock starts on an object only if no live row named it when the run looked:
\* never because a file could not be read, or because a rendition has no row of its own.
NoFalseMark ==
    [][\A q \in Needed : ledger[q].mark = 0 /\ ledger'[q].mark # 0
                          => q \in WithThumbs(relinked)]_vars

\* The job deletes no object that a live row names, unless the row came after this run looked
\* at the dictionary, or this run could not read the dictionary: there an old mark stands.
LiveMediaKept ==
    [][\A q \in Needed : q \in stored /\ q \notin stored'
                          => q \in WithThumbs(relinked) \/ Home[q] \in run.skipped]_vars

\* A dictionary whose objects the job leaves unmarked until a person looks.
Stuck(d) ==
    /\ row[d].live
    /\ d \in unreadable \/ Braked(ObjectsOf(d), Unmarked(d, Needed))

\* In the end the ledger names the objects stored, all of them in use unless their dictionary
\* is stuck, and no original in use lacks a rendition.
MediaSettles ==
    <>[](bucket => /\ stored = Held
                   /\ \A q \in stored \ Needed : Stuck(Home[q])
                   /\ \A v \in Thumb : Original[v] \in stored \cap used => v \in stored)

===============================================================================
