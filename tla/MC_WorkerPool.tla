--------------------------- MODULE MC_WorkerPool ---------------------------
(* WorkerPool for TLC. *)
EXTENDS WorkerPool, TLC
=============================================================================
