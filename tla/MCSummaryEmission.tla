-------------------------- MODULE MCSummaryEmission --------------------------
(* Instances of SummaryEmission for TLC. *)
EXTENDS SummaryEmission, TLC

Symmetry == Permutations(Signatures)
=============================================================================
