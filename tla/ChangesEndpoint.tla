---------------------------- MODULE ChangesEndpoint ----------------------------
(***************************************************************************)
(* The server's side of one round trip: POST /api/dictionary/[id]/changes  *)
(* and process_dict_changes, which runs as one BEGIN IMMEDIATE transaction *)
(* of a synchronous database, as functions of the canonical store and the  *)
(* request.                                                                *)
(*                                                                         *)
(* The store keeps, for every row it holds, its version and its server_seq *)
(* and, for every tombstone, its server_seq (0: no tombstone).  The        *)
(* triggers give each row of a transaction a number of its own; cursors    *)
(* are only ever read between transactions, so one number per transaction  *)
(* decides every comparison in the same way.                               *)
(***************************************************************************)
EXTENDS DictRows

CanonRow == [v : Version, seq : Nat]

Request == [cursor : Opt(Nat), rows : [Row -> Opt(Version)],
            tombs : SUBSET Row, probes : [Row -> Opt(Version)]]

Answer == [kind : {"ok", "error", "expired"}, rows : [Row -> Opt(Version)],
           dels : SUBSET Row, cursor : Nat,
           redundant : SUBSET Row, rejected : SUBSET Row]

\* The stages drop a push by someone without an editing role.
Granted(q, editor) ==
    IF editor THEN q ELSE [q EXCEPT !.rows = NoRows, !.tombs = {}]

-------------------------------------------------------------------------------
(* merge_dict_row over a batch.  Base is the store after the batch's        *)
(* tombstones.  Local UNIQUE indexes keep two rows of one natural key from  *)
(* being pushed together, so the rows of a batch do not see each other.     *)

\* The id a pushed row is merged onto: an unknown id whose natural key is
\* already taken adopts the owner's id.
Target(base, r) ==
    IF base[r] = Nil /\ KeyOwners(base, r) # {}
    THEN CHOOSE o \in KeyOwners(base, r) : TRUE
    ELSE r

\* Last write wins by updated_at, the push winning a tie.
Wins(base, r, v) ==
    LET held == base[Target(base, r)] IN held = Nil \/ held.v.at <= v.at

Losers(base, pushed) == {r \in pushed : Target(base, r) # r}

\* Pushed rows whose content lands on x.
Writers(base, q, pushed, x) ==
    {r \in pushed : Target(base, r) = x /\ Wins(base, r, q.rows[r])}

\* Mutant: rows are numbered with the counter before it moves.
MergeStaleNumber(base, q, pushed, seq) ==
    [x \in Row |->
        IF Writers(base, q, pushed, x) = {} THEN base[x]
        ELSE [v |-> q.rows[CHOOSE r \in Writers(base, q, pushed, x) : TRUE],
              seq |-> seq - 1]]

Merge(base, q, pushed, seq) ==
    [x \in Row |->
        IF Writers(base, q, pushed, x) = {} THEN base[x]
        ELSE [v |-> q.rows[CHOOSE r \in Writers(base, q, pushed, x) : TRUE],
              seq |-> seq]]

\* Pushed rows left without a parent: they are skipped when the push is retried.
Orphans(canon, q, seq) ==
    LET base == Cull(canon, q.tombs)
    IN  Dangling(Merge(base, q, Held(q.rows), seq)) \cap Held(q.rows)

\* The pushed rows a transaction merges.
Accepted(canon, q, seq) == Held(q.rows) \ Orphans(canon, q, seq)

\* Mutant: a tombstone does not delete its row.
PushedNoTrigger(canon, q, seq) == Merge(canon, q, Accepted(canon, q, seq), seq)

\* The store's rows after the push of q.
Pushed(canon, q, seq) ==
    Merge(Cull(canon, q.tombs), q, Accepted(canon, q, seq), seq)

\* The retry may find rows that hung from a skipped one: the commit fails again.
PushFails(canon, q, seq) == Dangling(Pushed(canon, q, seq)) # {}

\* Mutant: a natural-key loser gets no tombstone.
BuriedTombsOnly(canon, q, seq) == q.tombs

\* Natural-key losers are tombstoned along with the rows the client deleted.
Buried(canon, q, seq) ==
    q.tombs \cup Losers(Cull(canon, q.tombs), Accepted(canon, q, seq))

Graves(graves, canon, q, seq) ==
    [r \in Row |-> IF r \in Buried(canon, q, seq) THEN seq ELSE graves[r]]

\* Mutant: tombstones draw no sequence number.
WritesRowsOnly(canon, q, seq) ==
    \E x \in Row : Writers(Cull(canon, q.tombs), q, Accepted(canon, q, seq), x) # {}

\* Does the push write anything (and so draw a sequence number)?
Writes(canon, q, seq) ==
    \/ Buried(canon, q, seq) # {}
    \/ \E x \in Row : Writers(Cull(canon, q.tombs), q, Accepted(canon, q, seq), x) # {}

-------------------------------------------------------------------------------
(* The pull stages, over the store the push has left.                       *)

\* Canonical rows echoed whatever the cursor, for the losers to adopt.
Echoed(canon, q, seq) ==
    LET base == Cull(canon, q.tombs)
    IN  {Target(base, r) : r \in Losers(base, Accepted(canon, q, seq))}

\* Mutant: the rows a push was merged onto count as the device's own.
ChangesWithoutMerged(store, cursor, uploaded, echoed) ==
    [r \in Row |->
        IF /\ store[r] # Nil /\ r \notin uploaded \cup echoed
           /\ cursor = Nil \/ store[r].seq > cursor
        THEN store[r].v ELSE Nil]

\* Rows written since the cursor, without those the request itself carried.
Changes(store, cursor, uploaded, echoed) ==
    [r \in Row |->
        IF /\ store[r] # Nil
           /\ \/ r \in echoed
              \/ r \notin uploaded /\ (cursor = Nil \/ store[r].seq > cursor)
        THEN store[r].v ELSE Nil]

\* Tombstones since the cursor, except of rows that exist again.
Deletions(store, graves, cursor) ==
    IF cursor = Nil THEN {}
    ELSE {r \in Row : graves[r] > cursor /\ store[r] = Nil}

\* Mutant: any row the server has is vouched for.
RedundantUnchecked(store, probes) == Held(probes) \cap Held(store)

\* resolve_redundant_dirty: flags the canonical copy already accounts for.
Redundant(store, probes) ==
    {r \in Held(probes) \cap Held(store) : store[r].v.at >= probes[r].at}

NoAnswer == [kind |-> "error", rows |-> NoRows, dels |-> {}, cursor |-> 0,
             redundant |-> {}, rejected |-> {}]

\* Mutant: the oldest pruned tombstone is not counted.
ExpiredTooLate(q, pruned) == q.cursor # Nil /\ q.cursor + 1 < pruned

\* A cursor below the pruned tombstones may have missed one of them.
Expired(q, pruned) == q.cursor # Nil /\ q.cursor < pruned

\* Mutant: the bail looks at the cursor only.
FastBailDroppingPush(q, editor, counter) == q.cursor # Nil /\ counter <= q.cursor

\* Nothing to push, nothing asked, nothing new: the endpoint answers at once.
FastBail(q, editor, counter) ==
    /\ Held(Granted(q, editor).rows) = {} /\ Granted(q, editor).tombs = {}
    /\ Held(q.probes) = {}
    /\ q.cursor # Nil /\ counter <= q.cursor

\* Mutant: the bail answers without a cursor.
BailAnswerNoCursor(q, editor) ==
    [NoAnswer EXCEPT !.kind = "ok", !.cursor = Nil,
                     !.rejected = IF editor THEN {} ELSE Held(q.rows) \cup q.tombs]

BailAnswer(q, editor) ==
    [NoAnswer EXCEPT !.kind = "ok", !.cursor = q.cursor,
                     !.rejected = IF editor THEN {} ELSE Held(q.rows) \cup q.tombs]

\* What process_dict_changes answers once the transaction has left store and
\* tombstones, and the counter stands at cursor.
FullAnswer(canon, store, tombstones, q, editor, seq, cursor) ==
    LET g == Granted(q, editor)
        losers == Losers(Cull(canon, g.tombs), Accepted(canon, g, seq))
        orphans == Orphans(canon, g, seq)
    IN  [kind |-> "ok",
         rows |-> Changes(store, q.cursor, Held(q.rows) \ orphans, Echoed(canon, g, seq)),
         dels |-> losers \cup Deletions(store, tombstones, q.cursor),
         cursor |-> cursor,
         redundant |-> Redundant(store, q.probes),
         rejected |-> IF editor THEN losers \cup orphans ELSE Held(q.rows) \cup q.tombs]

===============================================================================
