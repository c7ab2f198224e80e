---------------------------- MODULE MC_DemoRun ----------------------------
(***************************************************************************)
(* Three stages, two of them independent, as in test_stage_runner.py, and  *)
(* two processes given the same run id.                                    *)
(***************************************************************************)
EXTENDS DemoRun

MCDeps == << {}, {1}, {1} >>
=============================================================================
