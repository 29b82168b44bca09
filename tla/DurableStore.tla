---------------------------- MODULE DurableStore ----------------------------
(***************************************************************************)
(* What ConfigManager promises of the settings: a save replaces what is    *)
(* stored by all of the current settings at once, a restart at any moment  *)
(* comes back with what is stored, and stored settings are given up for    *)
(* the defaults only when they cannot be read.                             *)
(***************************************************************************)
CONSTANTS Content,    \* complete sets of settings
          Readable,   \* those that can be read back
          Default

VARIABLES stored,     \* what survives a power loss
          current     \* what the program works with

vars == <<stored, current>>

Init    == stored = Default /\ current = Default

Update  == current' \in Content /\ UNCHANGED stored
Save    == stored' = current /\ UNCHANGED current
Restart == current' = stored /\ UNCHANGED stored
GiveUp  == stored \notin Readable /\ stored' = Default /\ current' = Default

Next == Update \/ Save \/ Restart \/ GiveUp

Spec == Init /\ [][Next]_vars
=============================================================================
