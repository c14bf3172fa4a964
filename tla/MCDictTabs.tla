------------------------------ MODULE MCDictTabs ------------------------------
(***************************************************************************)
(* Two tabs for TLC.                                                       *)
(***************************************************************************)
EXTENDS DictTabsProps

CONSTANTS left, right

===============================================================================
