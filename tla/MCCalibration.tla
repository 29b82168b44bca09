---------------------------- MODULE MCCalibration ----------------------------
(* Two sensors with two channels, the last two offsets of the sweep (so     *)
(* that its end is also the end of the register), and beside the usual      *)
(* target one (10) that is so low that failed reads are on it.              *)
EXTENDS Calibration

MCScanA == -126
MCScanB == -127
=============================================================================
