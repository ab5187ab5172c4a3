------------------------- MODULE MCRotationEvidence -------------------------
(* Rotations of one machine, with their history variables.                 *)
EXTENDS RotationEvidence, TLC

Symmetry == Permutations(Jobs) \union Permutations(IPs)
=============================================================================
