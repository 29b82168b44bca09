-------------------------- MODULE MCSerialBinding --------------------------
(* Instances of SerialBinding: two areas and three channels, so that one    *)
(* channel is left over and two can be held at once.                        *)
EXTENDS SerialBinding

CONSTANTS c1, c2, c3

=============================================================================
