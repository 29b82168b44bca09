---------------------------- MODULE MCUiManager ----------------------------
(* Instances of UiManager: two sensors, two groups of one area, and a board  *)
(* that is new, or was set up before, with one of the areas bound and the    *)
(* delay on.  The brightness has one value: nothing depends on it but what   *)
(* is saved.                                                                 *)
EXTENDS UiManager

New   == [bound |-> {}, delay |-> 0, onlyChange |-> FALSE, limit |-> FALSE]
SetUp == [bound |-> {1}, delay |-> 1, onlyChange |-> TRUE, limit |-> FALSE]

MCSaved == {New, SetUp}
=============================================================================
