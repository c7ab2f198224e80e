----------------------------- MODULE MC_Capture -----------------------------
(* A logger of two symbols that live in different partitions.              *)
EXTENDS Capture

MCTimes == 0..2
MCHours == {0}
MCRows == 1..3
MCParts == Symbols \X MCHours
=============================================================================
