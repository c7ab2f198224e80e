------------------------------ MODULE MC_Lineage ------------------------------
EXTENDS Lineage

(* Units of six minutes: UTC, and an hour ahead.                            *)
MCOffsets == {0, 10}
(* On time, and an hour and a moment late.                                 *)
MCDelays == {0, 11}
MCRuns == {1, 2}
=============================================================================
