-------------------------- MODULE MC_RefreshToken --------------------------
(* Small instances of RefreshToken for TLC. *)
EXTENDS RefreshToken, TLC

Symmetry == Permutations(Calls) \cup Permutations(Fingerprints)
=============================================================================
