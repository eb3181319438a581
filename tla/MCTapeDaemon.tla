---------------------------- MODULE MCTapeDaemon ----------------------------
(***************************************************************************)
(* Instances of TapeDaemon for TLC: which faults happen.                   *)
(***************************************************************************)
EXTENDS TapeDaemon

CONSTANTS d1, d2

AllFaults == FaultKinds
CrashOnly == {"crash"}
=============================================================================
