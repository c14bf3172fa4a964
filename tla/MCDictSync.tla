------------------------------ MODULE MCDictSync ------------------------------
(***************************************************************************)
(* Small dictionaries for TLC.                                             *)
(***************************************************************************)
EXTENDS DictSyncProps

CONSTANTS ana, ben, una, link, relink, ghost, word, sense, photo, key

\* A device's share of something only the named devices have.
Only(S, rows) == [c \in Client |-> IF c \in S THEN rows ELSE {}]

Nothing == Only({}, {})

\* readers: ana edits, unlinks and relinks the tag of a word she may delete, also
\* while a request of hers is in flight; una reads with a file from before
\* server_seq that may hold a ghost.
ReadersParents == [r \in Row |-> IF r = word THEN {} ELSE {word}]
ReadersKeyOf == [r \in Row |-> IF r \in {link, relink} THEN key ELSE Nil]
ReadersTable == [r \in Row |-> IF r \in {link, relink} THEN 2 ELSE 1]
ReadersBoot == [c \in Client |-> IF c = una THEN "legacy" ELSE "snapshot"]
ReadersMints == Only({ana}, {relink})
ReadersEdits == Only({ana}, {link})
ReadersRacing == {"sent"} \X {"insert", "edit", "delete"}
ReadersDrops == Only({ana}, {word, link})

\* work: two editors link a word to the same tag under different ids, edit and
\* remove the links, and delete the word under each other's hands.  Inserts land
\* at any point of a round trip, deletes once the request has been read.
WorkParents == [r \in Row |-> IF r = word THEN {} ELSE {word}]
WorkBoot == [c \in Client |-> "snapshot"]
WorkMints == [c \in Client |-> IF c = ana THEN {link} ELSE {relink}]
WorkEdits == Only({ana}, {link})
WorkDrops == [c \in Client |-> IF c = ana THEN {word, link} ELSE {relink}]
WorkRacing ==
    ({"reading", "sent", "answered"} \X {"insert"}) \cup ({"sent", "answered"} \X {"delete"})

\* converge: both devices link the same tag under ids of their own, ana edits the
\* word, and each removes what work lets it remove.  Every device writes at one
\* stamp, so no row that both end up writing is lost to a later stamp.
ConvergeEdits == Only({ana}, {word})

\* lost_race and reedit: two editors of one word, who may edit it while a
\* request of theirs is in flight (reedit only).
SharedEdits == [c \in Client |-> {word}]
ReeditRacing == {<<"sent", "edit">>}

\* poison: ben builds a sense and its photo under a word ana deletes.
PoisonDrops == Only({ana}, {word})

\* half_read: ana writes a word and its link between two tables of a request.
HalfReadMints == Only({ana}, {word, link})
HalfReadRacing == {<<"reading", "insert">>}

\* lapsed: una's file is flagged although she boots as a viewer, she may get her
\* role back and delete the word; ben, building under it, may lose his.
LapsedParents ==
    [r \in Row |-> IF r = sense THEN {word} ELSE IF r = photo THEN {sense} ELSE {}]
LapsedKeyOf == [r \in Row |-> Nil]
LapsedTable == [r \in Row |-> IF r = word THEN 1 ELSE IF r = sense THEN 2 ELSE 3]
LapsedBoot == [c \in Client |-> IF c = una THEN "lapsed" ELSE "snapshot"]
LapsedMints == Only({ben}, {sense, photo})
LapsedDrops == Only({una}, {word})

\* lapsed_reset: ana deletes a link, its tombstone is pruned and una, who lost
\* the role with edits unpushed, is told to start over.
LapsedResetDrops == Only({ana}, {link})

===============================================================================
