--------------------------- MODULE MC_KeyRotation ---------------------------
(* KeyRotation for TLC: nodes are interchangeable. *)
EXTENDS KeyRotation, TLC

Symmetry == Permutations(Nodes)
=============================================================================
