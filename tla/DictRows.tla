------------------------------- MODULE DictRows -------------------------------
(***************************************************************************)
(* The data both ends of a dictionary's sync work on: rows of the          *)
(* dictionary database, their foreign keys and natural keys, and what the  *)
(* schema does to a set of rows when some of them are hard-deleted.        *)
(*                                                                         *)
(* A row is identified by its uuid; its content is abstracted to the       *)
(* `updated_at` stamp that arbitrates conflicts and the device that wrote  *)
(* it.  A table of rows is a function from Row to a record or Nil.         *)
(***************************************************************************)
EXTENDS Naturals

CONSTANTS
    Client,    \* browsers holding a local copy of the dictionary database
    Row,       \* row ids (uuids)
    Nil,       \* absent row, absent key, no cursor
    Parents,   \* [Row -> SUBSET Row], the ON DELETE CASCADE foreign keys of a row
    KeyOf,     \* [Row -> natural key or Nil], the UNIQUE natural key of a junction
    Table      \* [Row -> 1, 2, ...], position of its table in DICT_SYNCABLE_TABLES

\* Parents come in the same or an earlier table (the list is FK-safe), one table is the
\* last of the list, rows of one natural key are rows of one table that hang from the same
\* parents, and no foreign key refers to a table that has a natural key.
ASSUME SchemaAssumption ==
    /\ Parents \in [Row -> SUBSET Row]
    /\ Table \in [Row -> Nat \ {0}]
    /\ \E r \in Row : \A o \in Row : Table[o] <= Table[r]
    /\ DOMAIN KeyOf = Row
    /\ \A r \in Row : \A p \in Parents[r] : Table[p] <= Table[r] /\ KeyOf[p] = Nil
    /\ \A r, o \in Row : KeyOf[r] = KeyOf[o] /\ KeyOf[r] # Nil =>
           Table[r] = Table[o] /\ Parents[r] = Parents[o]

ASSUME NilAssumption == Nil \notin Nat /\ Nil \notin Client

-------------------------------------------------------------------------------

\* Content of a row: its updated_at stamp and its writer (Nil for the seed).
Version == [at : Nat, by : Client \cup {Nil}]

Opt(S) == S \cup {Nil}

\* What a table holds for a row is not what it holds for an absent one.
ASSUME CellAssumption ==
    /\ Nil \notin Version /\ Nil \notin [Row -> Version \cup {Nil}]
    /\ Nil \notin [v : Version, seq : Nat]
    /\ Nil \notin [v : Version, dirty : BOOLEAN]

NoRows == [r \in Row |-> Nil]

\* The rows a table function holds.
Held(rows) == {r \in Row : rows[r] # Nil}

\* A row with all the rows it hangs from.
Lineage[r \in Row] == {r} \cup UNION {Lineage[p] : p \in Parents[r]}

\* Hard-delete the rows in dead: foreign keys sweep everything under them.
Cull(rows, dead) ==
    [r \in Row |-> IF Lineage[r] \cap dead = {} THEN rows[r] ELSE Nil]

\* Rows whose foreign key refers to no row (what foreign_key_check lists).
Dangling(rows) == {r \in Held(rows) : \E p \in Parents[r] : rows[p] = Nil}

\* Other rows of the table that own r's natural key.
KeyOwners(rows, r) ==
    {o \in Held(rows) \ {r} : KeyOf[o] = KeyOf[r] /\ KeyOf[r] # Nil}

===============================================================================
