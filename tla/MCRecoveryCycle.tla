--------------------------- MODULE MCRecoveryCycle ---------------------------
(* Instances of RecoveryCycle for TLC.                                     *)
EXTENDS RecoveryCycle, TLC

CONSTANTS a1, a2

\* Two attempts for the same work, or for two different ones.
SameWork == (a1 :> "w1") @@ (a2 :> "w1")
TwoWorks == (a1 :> "w1") @@ (a2 :> "w2")

\* The model only asks whether two attempts are for the same work.
Symmetry == Permutations(AttemptIds)
=============================================================================
