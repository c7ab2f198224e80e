---------------------------- MODULE DownloadGate ----------------------------
(***************************************************************************)
(* Who may ask the vendor for data: the refusals of                        *)
(* scripts/run_multiday_pipeline.py, the plan of                           *)
(* databento_download_plan.py, the record limit of cme_downloader.py, the  *)
(* gate of databento_cost_guard.py and the two reports that consult it,    *)
(* the preflight and the dry run.  A command line is a record; the         *)
(* --no-...-required switches keep their defaults.                         *)
(***************************************************************************)

CommandLines ==
  [dry : BOOLEAN, preflight : BOOLEAN,
   download : BOOLEAN, allow : BOOLEAN, ack : BOOLEAN, key : BOOLEAN,
   records : BOOLEAN,       \* --max-download-records given
   unlimited : BOOLEAN,     \* --allow-download-without-physical-limit
   unestimated : BOOLEAN,   \* --allow-unestimated-download
   force : BOOLEAN, truncated : BOOLEAN,
   skipNoSilver : BOOLEAN, skipNoCme : BOOLEAN, keepGoing : BOOLEAN]

(* The installed vendor package: absent, without the metadata and limit    *)
(* surfaces, or with both.                                                 *)
Sdks == {"absent", "old", "full"}

(* main, before anything is read or written.                               *)
Refused(o) ==
  /\ o.download
  /\ \/ ~o.allow
     \/ ~o.dry /\ ~o.preflight /\ ~o.ack

WillDownload(o) == o.allow /\ o.download /\ o.key

(* run_download up to its call of get_range.                               *)
ReachesVendor(o, sdk) ==
  /\ o.records \/ o.unlimited
  /\ sdk # "absent"
  /\ o.records /\ sdk = "old" => o.unlimited

-----------------------------------------------------------------------------
(* What can be learned of cost and limit without asking for data.          *)
DetectCostEstimate(o, sdk) ==
  IF ~o.key THEN "UNAVAILABLE"
  ELSE CASE sdk = "absent" -> "API_ERROR"
         [] sdk = "old"    -> "UNAVAILABLE"
         [] sdk = "full"   -> "AVAILABLE"

DetectPhysicalLimit(sdk) ==
  CASE sdk = "absent" -> "API_ERROR"
    [] sdk = "old"    -> "UNSUPPORTED"
    [] sdk = "full"   -> "SUPPORTED"

PreflightBlocked(o, sdk) ==
  \/ ~o.download \/ ~o.allow \/ ~o.ack \/ ~o.key
  \/ DetectCostEstimate(o, sdk) = "UNAVAILABLE" /\ ~o.unestimated
  \/ DetectPhysicalLimit(sdk) # "SUPPORTED" /\ ~o.unlimited

(* decide_download_gate.  Only the dry run calls it, so its first line is  *)
(* the one that answers; the rest is what it would say of a real run.      *)
DecideDownloadGate(o, cost, limit) ==
  IF o.dry THEN "DRY_RUN"
  ELSE IF ~(o.download /\ o.allow) THEN "MISSING_ALLOW"
  ELSE IF ~o.ack THEN "MISSING_ACK"
  ELSE IF ~o.key THEN "MISSING_API_KEY"
  ELSE IF cost \in {"COST_EXCEEDED", "SIZE_EXCEEDED", "API_ERROR"} THEN "COST_GUARD"
  ELSE IF cost = "UNAVAILABLE" /\ ~o.unestimated THEN "ESTIMATE_UNAVAILABLE"
  ELSE IF limit = "SUPPORTED" THEN "APPROVED"
  ELSE IF o.unlimited THEN "APPROVED_WITHOUT_LIMIT"
  ELSE "PHYSICAL_LIMIT"

Approved == {"APPROVED", "APPROVED_WITHOUT_LIMIT"}

-----------------------------------------------------------------------------
(* The dry-run report on one date: the mark of its download and of the     *)
(* stages under it.  It never looks at --force.                            *)
DryRunGate(o) == DecideDownloadGate(o, "NOT_REQUESTED", "NOT_REQUESTED")

CmeDownloadMark(o, hasCmeRaw) ==
  IF hasCmeRaw \/ ~o.download THEN "SKIP"
  ELSE IF DryRunGate(o) \in Approved \cup {"DRY_RUN"} THEN "PLAN"
  ELSE "BLOCKED"

(* The stages' mark, SKIP for an output that is there not told from RUN.   *)
DownstreamMark(o, hasCmeRaw) ==
  IF hasCmeRaw THEN "RUN"
  ELSE IF CmeDownloadMark(o, hasCmeRaw) = "PLAN" THEN "RUN_AFTER_DOWNLOAD"
  ELSE "BLOCKED"

WouldAttempt(o) == WillDownload(o) /\ o.ack
=============================================================================
