---------------------------- MODULE MCArchiveJobs ----------------------------
(***************************************************************************)
(* Instances of ArchiveJobs for TLC: the tape pool each mount works for.   *)
(***************************************************************************)
EXTENDS ArchiveJobs, TLC

CONSTANTS m1, m2, m3, m4, p1, p2

\* One copy, three mounts of its tape pool one after the other or together.
OnePool == m1 :> 1 @@ m2 :> 1 @@ m3 :> 1

\* Two copies, one or two mounts for each tape pool.
TwoPools == m1 :> 1 @@ m2 :> 2
TwoPoolsTwice == m1 :> 1 @@ m2 :> 2 @@ m3 :> 1 @@ m4 :> 2
=============================================================================
