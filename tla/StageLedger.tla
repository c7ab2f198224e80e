---------------------------- MODULE StageLedger ----------------------------
(***************************************************************************)
(* What every runner of this repository promises about a graph of          *)
(* dependent stages, whatever the stages do: the demo runner               *)
(* (orchestration/runner.py) and the multi-day orchestrator                *)
(* (orchestration/pipeline_orchestrator.py) both implement it.             *)
(*                                                                         *)
(* A round opens with every stage undecided.  A stage is settled once, as  *)
(* "good" or as "bad", and it can only be good when every stage it depends *)
(* on already is.  A round is closed as "complete" when all its stages are *)
(* good, as "partial" when the required ones are, and as "failed" at any   *)
(* time.                                                                   *)
(***************************************************************************)
CONSTANTS Stages,     \* the stages of the graph
          Upstream,   \* Upstream[s]: the stages s names as predecessors
          Needed      \* the required stages, a subset of Stages

VARIABLES verdict,    \* verdict[s]: what is decided about s in this round
          outcome     \* how the round stands

ledgerVars == <<verdict, outcome>>

Good == {s \in Stages : verdict[s] = "good"}

LedgerTypeOK ==
  /\ verdict \in [Stages -> {"open", "good", "bad"}]
  /\ outcome \in {"idle", "running", "complete", "partial", "failed"}

LedgerInit ==
  /\ verdict = [s \in Stages |-> "open"]
  /\ outcome = "idle"

Open ==
  /\ outcome # "running"
  /\ outcome' = "running"
  /\ verdict' = [s \in Stages |-> "open"]

Settle(s, v) ==
  /\ outcome = "running"
  /\ verdict[s] = "open"
  /\ v = "good" => Upstream[s] \subseteq Good
  /\ verdict' = [verdict EXCEPT ![s] = v]
  /\ outcome' = outcome

Close(o) ==
  /\ outcome = "running"
  /\ o = "complete" => Good = Stages
  /\ o = "partial" => Needed \subseteq Good
  /\ outcome' = o
  /\ verdict' = verdict

LedgerNext ==
  \/ Open
  \/ \E s \in Stages, v \in {"good", "bad"} : Settle(s, v)
  \/ \E o \in {"complete", "partial", "failed"} : Close(o)

LedgerSpec == LedgerInit /\ [][LedgerNext]_ledgerVars

(* Every stage found good stands on predecessors found good in the same    *)
(* round: what architecture.md calls "a stage runs only after each named   *)
(* predecessor passes".                                                    *)
GoodStandsOnGood ==
  \A s \in Stages : verdict[s] = "good" => Upstream[s] \subseteq Good

(* A round closed as complete has no stage that is undecided or bad.       *)
CompleteIsAllGood == outcome = "complete" => Good = Stages
=============================================================================
