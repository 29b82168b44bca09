------------------------ MODULE MCSensitivityQueue ------------------------
(* A ring of three slots (so two requests wait at most) and four requests:  *)
(* the ring fills, drops, wraps and drains.  A relative channel, an         *)
(* absolute one and one of a device that is not registered; two of the      *)
(* values (0..99) the area page offers.                                     *)
EXTENDS SensitivityQueue

MCSensitivity == {20, 99}
MCDefault == 45
=============================================================================
