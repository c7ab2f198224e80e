----------------------------- MODULE StageGraph -----------------------------
(***************************************************************************)
(* DEFAULT_STAGE_GRAPH of stage_dependencies.py, the stages numbered in    *)
(* graph order, with what their command-line tools do to existing output.  *)
(* Predecessor 0 is SYNTHETIC_CME_DOWNLOAD, the raw file of the day.       *)
(***************************************************************************)
EXTENDS Integers

CME_INGEST          == 1
CME_QUALITY         == 2
ALIGNMENT_QUALITY   == 3
BAR_ALIGNMENT       == 4
BUILD_BAR_FEATURES  == 5
BAR_FEATURE_QUALITY == 6
FEATURE_EDA         == 7

StageCount == 7

DependsOn ==
  << {0}, {CME_INGEST}, {CME_QUALITY}, {ALIGNMENT_QUALITY}, {BAR_ALIGNMENT},
     {BUILD_BAR_FEATURES}, {BUILD_BAR_FEATURES, BAR_FEATURE_QUALITY} >>

IsRequired == 1..StageCount \ {BAR_FEATURE_QUALITY, FEATURE_EDA}

SupportsForce == 1..StageCount \ {CME_QUALITY, BAR_FEATURE_QUALITY}

(* Tools that refuse to run over existing output unless they get --force.  *)
RefusesExisting == {CME_INGEST, BUILD_BAR_FEATURES, FEATURE_EDA}

(* Tools whose output is a directory tree written one partition at a time: *)
(* killed half-way, or given no rows for a symbol, they leave some of the  *)
(* partitions, which detect_artifact_present does not count as an artifact.*)
WritesPartitions == {CME_INGEST, BUILD_BAR_FEATURES}
=============================================================================
