--------------------------- MODULE MC_DayPipeline ---------------------------
(***************************************************************************)
(* The orchestrator's own stage graph, and the command lines that differ   *)
(* in what they do to a day.                                               *)
(***************************************************************************)
EXTENDS DayPipeline, StageGraph

Plain == [force |-> FALSE, rebuild |-> FALSE, allow |-> FALSE,
          keepGoing |-> TRUE, download |-> TRUE, dry |-> FALSE]

MCOptions ==
  { Plain,
    [Plain EXCEPT !.force = TRUE, !.keepGoing = FALSE, !.allow = TRUE],
    [Plain EXCEPT !.rebuild = TRUE],
    [Plain EXCEPT !.dry = TRUE, !.download = FALSE] }
=============================================================================
