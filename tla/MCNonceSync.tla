------------------------- MODULE MCNonceSync -----------------------------
(* An instance of NonceSync for TLC.                                       *)
EXTENDS NonceSync, ResolutionEvidence, TLC

CONSTANTS a1, a2

\* Two attempts for the same work, or for two different ones.
SameWork == (a1 :> "w1") @@ (a2 :> "w1")
TwoWorks == (a1 :> "w1") @@ (a2 :> "w2")

\* The model only asks whether two attempts are for the same work, so the two
\* identities are interchangeable under either assignment.
Symmetry == Permutations(AttemptIds)
=============================================================================
