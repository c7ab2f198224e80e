----------------------------- MODULE MC_MultiDay -----------------------------
(***************************************************************************)
(* Command lines that differ in what they do: a download, its dry run and  *)
(* its preflight, a forced download without a record limit and with        *)
(* nothing to be skipped, a strict run without a download and its dry run, *)
(* and two that are refused.                                               *)
(***************************************************************************)
EXTENDS MultiDay

Fetch == [dry |-> FALSE, preflight |-> FALSE, download |-> TRUE, allow |-> TRUE,
          ack |-> TRUE, key |-> TRUE, records |-> TRUE, unlimited |-> FALSE,
          unestimated |-> FALSE, force |-> FALSE, truncated |-> FALSE,
          skipNoSilver |-> FALSE, skipNoCme |-> TRUE, keepGoing |-> TRUE]

NoSkips == [Fetch EXCEPT !.skipNoCme = FALSE, !.keepGoing = FALSE]

Local == [NoSkips EXCEPT !.download = FALSE, !.allow = FALSE, !.ack = FALSE,
                         !.key = FALSE]

MCOptions ==
  { Fetch,
    [Fetch EXCEPT !.dry = TRUE],
    [Fetch EXCEPT !.preflight = TRUE],
    [Fetch EXCEPT !.ack = FALSE],
    [NoSkips EXCEPT !.force = TRUE, !.records = FALSE, !.unlimited = TRUE,
                   !.truncated = TRUE],
    Local,
    [Local EXCEPT !.dry = TRUE],
    [Fetch EXCEPT !.skipNoSilver = TRUE, !.key = FALSE] }
=============================================================================
