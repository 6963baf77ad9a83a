-------------------------- MODULE MCStateDirectory --------------------------
(* An instance of StateDirectory for TLC.                                  *)
EXTENDS StateDirectory, TLC

Symmetry == Permutations(Procs)
=============================================================================
