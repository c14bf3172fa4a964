------------------------------ MODULE ReplicaFeed ------------------------------
(***************************************************************************)
(* What sync promises a device that only reads a dictionary: its copy moves *)
(* in whole steps, from one state the dictionary really was in to a later  *)
(* one.  A fetch fixes which state that is; installing it replaces the     *)
(* whole copy at once; a fetch that comes to nothing changes nothing.      *)
(***************************************************************************)
CONSTANTS
    Reader,   \* devices that read
    Content,  \* states a dictionary can be in
    None      \* nothing fetched; not a member of Content

VARIABLES
    store,    \* the dictionary
    fetched,  \* the state a reader has asked for and not yet installed, or None
    view      \* each reader's copy

feedVars == <<store, fetched, view>>

Init ==
    /\ store \in Content
    /\ fetched = [c \in Reader |-> None]
    /\ view \in [Reader -> Content]

\* Editors change the dictionary in any way they like.
Publish ==
    /\ store' \in Content
    /\ UNCHANGED <<fetched, view>>

Fetch(c) ==
    /\ fetched' = [fetched EXCEPT ![c] = store]
    /\ UNCHANGED <<store, view>>

Install(c) ==
    /\ fetched[c] # None
    /\ view' = [view EXCEPT ![c] = fetched[c]]
    /\ fetched' = [fetched EXCEPT ![c] = None]
    /\ UNCHANGED store

Abandon(c) ==
    /\ fetched' = [fetched EXCEPT ![c] = None]
    /\ UNCHANGED <<store, view>>

\* A reader starts over from a fresh snapshot.
Refresh(c) ==
    /\ view' = [view EXCEPT ![c] = store]
    /\ fetched' = [fetched EXCEPT ![c] = None]
    /\ UNCHANGED store

Next ==
    \/ Publish
    \/ \E c \in Reader : Fetch(c) \/ Install(c) \/ Abandon(c) \/ Refresh(c)

Spec == Init /\ [][Next]_feedVars

===============================================================================
