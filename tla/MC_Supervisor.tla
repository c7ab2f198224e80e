--------------------------- MODULE MC_Supervisor ---------------------------
(* A run with two restarts: one of each kind, or two of the same.          *)
EXTENDS Supervisor
=============================================================================
