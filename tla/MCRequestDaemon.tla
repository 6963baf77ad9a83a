--------------------------- MODULE MCRequestDaemon ---------------------------
(* Instances of RequestDaemon for TLC.                                     *)
EXTENDS RequestDaemon, TLC

Symmetry == Permutations(Rounds)
=============================================================================
