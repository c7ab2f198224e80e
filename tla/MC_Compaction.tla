--------------------------- MODULE MC_Compaction ---------------------------
(* Four parts, chunks of two: full and short chunks, late parts between.   *)
EXTENDS Compaction

MCParts == 1..4
=============================================================================
