--------------------------- MODULE MCSerialLink ---------------------------
(* Instances of SerialLink: commands of three bytes, a ring of five.        *)
EXTENDS SerialLink
=============================================================================
