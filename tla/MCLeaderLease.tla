--------------------------- MODULE MCLeaderLease ---------------------------
(***************************************************************************)
(* Instances of LeaderLease for TLC.                                       *)
(***************************************************************************)
EXTENDS LeaderLease

CONSTANTS a, b           \* two ats-core instances

MCProc == {a, b}
=============================================================================
