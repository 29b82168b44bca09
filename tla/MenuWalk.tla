------------------------------ MODULE MenuWalk ------------------------------
(***************************************************************************)
(* What the settings display promises: a walk in the tree of pages, one    *)
(* step down or one step back at a time, that stands still while a number  *)
(* of the page it has reached is edited.                                   *)
(***************************************************************************)
EXTENDS Sequences, SequencesExt

CONSTANTS
  Root,      \* the page the display starts with
  Below,     \* the pages a page leads to
  Numbers,   \* the numbers a page lets the user edit
  Nothing

VARIABLES
  path,      \* from the root to the page the user is on
  editing    \* the number being edited, or Nothing

Init == path = <<Root>> /\ editing = Nothing

Down ==
  /\ editing = Nothing /\ UNCHANGED editing
  /\ \E p \in Below[Last(path)] : path' = Append(path, p)

Up ==
  /\ editing = Nothing /\ UNCHANGED editing
  /\ Len(path) > 1 /\ path' = Front(path)

Edit ==
  /\ editing = Nothing /\ editing' \in Numbers[Last(path)]
  /\ UNCHANGED path

Finish == editing # Nothing /\ editing' = Nothing /\ UNCHANGED path

Spec == Init /\ [][Down \/ Up \/ Edit \/ Finish]_<<path, editing>>
=============================================================================
