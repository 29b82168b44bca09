------------------------------- MODULE MCBoard -------------------------------
(* The transmitters of both UARTs beside the display's; two stages of two    *)
(* fields with two values each; one widget, since the settings of a touch    *)
(* pad and its trigger do not look at those of another, whose touches may    *)
(* grow and fall by more than x_delta; three lines of log, the third of      *)
(* which finds the ring full, and a count that goes below zero.  The         *)
(* capacitances that setChannelSensitivity writes all end at CapMax unless   *)
(* the sensitivity is very high, hence 120.                                  *)
EXTENDS Board

MCBuiltIn == [kind \in {"cap", "th"} |-> IF kind = "cap" THEN 10 ELSE 90]
=============================================================================
