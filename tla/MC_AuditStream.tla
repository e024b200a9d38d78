--------------------------- MODULE MC_AuditStream ---------------------------
(* AuditStream for TLC: processes are interchangeable. *)
EXTENDS AuditStream, TLC

Symmetry == Permutations(Processes)
=============================================================================
