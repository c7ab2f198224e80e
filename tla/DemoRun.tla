------------------------------ MODULE DemoRun ------------------------------
(***************************************************************************)
(* One run directory of the demo pipeline: run_demo and inspect_run of     *)
(* orchestration/demo.py, execute_stages of orchestration/runner.py and    *)
(* publish_json, artifact_record and verify_artifacts of                   *)
(* orchestration/artifacts.py.  Several processes may be started with the  *)
(* same run id; other programs, and the stages themselves, may change or   *)
(* remove a file of the directory at any time, and put back what they      *)
(* changed; a process may die at any step.  A file is its digest: "first"  *)
(* as its stage wrote it, "changed" when something else has written it.    *)
(***************************************************************************)
EXTENDS Integers, FiniteSets

CONSTANTS N,        \* number of stages; stages are 1..N in graph order
          Deps,     \* Deps[s]: the stages s depends on
          Runners,  \* processes started with this run id
          Nobody,   \* no process
          MaxChanges \* bound on the changes other writers make

Stages == 1..N
Files == 0..N       \* 0 is metadata.json, s the output of stage s

ASSUME DemoAssumption ==
  /\ N \in Nat \ {0}
  /\ Deps \in [Stages -> SUBSET Stages]
  /\ \A s \in Stages : Deps[s] \subseteq 1..(s - 1)
  /\ Nobody \notin Runners
  /\ MaxChanges \in Nat

VARIABLES
  owner,       \* the process whose mkdir created the run directory
  phase,       \* where that process is
  at,          \* the stage it is at
  file,        \* file[f]: none, first or changed
  recorded,    \* recorded[f]: digest in all_artifacts, or none
  status,      \* status[s] in the records of execute_stages
  published,   \* published[s]: status in stages/<name>.json, or none
  inventory,   \* digests collected for the manifest
  manifest,    \* status in run_manifest.json, or none
  changes,     \* changes other writers have made so far
  misled,      \* <<s, f>>: stage s acted while file f differed from its record
  undone,      \* <<s, f>> of misled: f was put back before s looked again
  consumed     \* some inspection has read the dataset

vars == <<owner, phase, at, file, recorded, status, published, inventory,
          manifest, changes, misled, undone, consumed>>

(* misled, undone and consumed are history: no action reads them.          *)
history == <<misled, undone, consumed>>

Digests == {"none", "first", "changed"}
Ended == {"done", "error", "crashed"}
InStage == {"verify", "act", "reverify", "record", "publish"}

TypeOK ==
  /\ owner \in Runners \cup {Nobody}
  /\ phase \in {"new", "metadata", "start", "inventory", "manifest"} \cup InStage \cup Ended
  /\ at \in 1..(N + 1)
  /\ file \in [Files -> Digests]
  /\ recorded \in [Files -> Digests]
  /\ status \in [Stages -> {"PENDING", "PASS", "FAIL", "SKIPPED"}]
  /\ published \in [Stages -> {"none", "PASS", "FAIL", "SKIPPED"}]
  /\ inventory \in [Files -> Digests]
  /\ manifest \in {"none", "PASS", "FAIL"}
  /\ changes \in 0..MaxChanges
  /\ misled \subseteq Stages \X Files
  /\ undone \subseteq misled
  /\ consumed \in BOOLEAN

Init ==
  /\ owner = Nobody /\ phase = "new" /\ at = 1
  /\ file = [f \in Files |-> "none"]
  /\ recorded = [f \in Files |-> "none"]
  /\ status = [s \in Stages |-> "PENDING"]
  /\ published = [s \in Stages |-> "none"]
  /\ inventory = [f \in Files |-> "none"]
  /\ manifest = "none"
  /\ changes = 0
  /\ misled = {} /\ undone = {} /\ consumed = FALSE

-----------------------------------------------------------------------------
(* Mutant: mkdir(exist_ok=True).                                           *)
MutantTakesOver(r) ==
  /\ owner' = r /\ phase' = "metadata"
  /\ UNCHANGED <<at, file, recorded, status, published, inventory, manifest,
                 changes, history>>

(* mkdir(exist_ok=False): one process gets the directory, and any other,   *)
(* then or later, gets FileExistsError and changes nothing.                *)
CreateRun(r) ==
  /\ IF owner = Nobody
       THEN owner' = r /\ phase' = "metadata"
       ELSE UNCHANGED <<owner, phase>>
  /\ UNCHANGED <<at, file, recorded, status, published, inventory, manifest,
                 changes, history>>

(* publish_json links a finished temporary file at the final name, which   *)
(* fails when the name exists.  metadata.json is published this way.       *)
PublishMetadata ==
  /\ phase = "metadata" /\ file[0] = "none"
  /\ file' = [file EXCEPT ![0] = "first"]
  /\ phase' = "start"
  /\ UNCHANGED <<owner, at, recorded, status, published, inventory, manifest,
                 changes, history>>

(* execute_stages starts from the digest metadata.json has by then, and    *)
(* from no artifact at all when the file is gone.                          *)
RecordMetadata ==
  /\ phase = "start"
  /\ recorded' = [recorded EXCEPT ![0] = file[0]]
  /\ phase' = "verify"
  /\ UNCHANGED <<owner, at, file, status, published, inventory, manifest,
                 changes, history>>

-----------------------------------------------------------------------------
(* execute_stages, stage `at`.                                             *)
Differs(expected, f) == expected[f] # "none" /\ file[f] # expected[f]

VerifyArtifacts(expected) == \A f \in Files : ~Differs(expected, f)

(* Mutant: a stage runs whatever became of its predecessors.               *)
MutantNeverBlocked(s) == {d \in Deps[s] : status[d] = "PENDING"}

Blocked(s) == {d \in Deps[s] : status[d] # "PASS"}

Conclude(s, st) ==
  /\ status' = [status EXCEPT ![s] = st]
  /\ phase' = "publish"

SkipBlocked(s) ==
  /\ phase = "verify" /\ at = s /\ Blocked(s) # {}
  /\ Conclude(s, "SKIPPED")
  /\ UNCHANGED <<owner, at, file, recorded, published, inventory, manifest,
                 changes, history>>

VerifyBefore(s) ==
  /\ phase = "verify" /\ at = s /\ Blocked(s) = {}
  /\ IF VerifyArtifacts(recorded)
       THEN phase' = "act" /\ status' = status
       ELSE Conclude(s, "FAIL")
  /\ UNCHANGED <<owner, at, file, recorded, published, inventory, manifest,
                 changes, history>>

(* The files stage s acts on while they differ from their records.         *)
Misleads(s) == {s} \X {f \in Files : Differs(recorded, f)}

(* Mutant: a stage whose action raises is tried again.                     *)
MutantTriesAgain(s) ==
  /\ phase = "act" /\ at = s
  /\ misled' = misled \cup Misleads(s)
  /\ \/ /\ file' = [file EXCEPT ![s] = "first"]
        /\ phase' = "reverify"
     \/ /\ file' = file \/ file' = [file EXCEPT ![s] = "first"]
        /\ phase' = "verify"
  /\ UNCHANGED <<owner, at, recorded, status, published, inventory, manifest, changes,
                 undone, consumed>>

(* stage.action(): returns, having written its output, or raises, having   *)
(* written it or not.                                                      *)
Act(s) ==
  /\ phase = "act" /\ at = s
  /\ misled' = misled \cup Misleads(s)
  /\ \/ /\ file' = [file EXCEPT ![s] = "first"]
        /\ phase' = "reverify" /\ status' = status
     \/ /\ file' = file \/ file' = [file EXCEPT ![s] = "first"]
        /\ Conclude(s, "FAIL")
  /\ UNCHANGED <<owner, at, recorded, published, inventory, manifest, changes, undone,
                 consumed>>

(* Mutant: no verification after the action.                               *)
MutantNoSecondLook(s) ==
  /\ phase = "reverify" /\ at = s
  /\ phase' = "record"
  /\ UNCHANGED <<owner, at, file, recorded, status, published, inventory,
                 manifest, changes, history>>

VerifyAfter(s) ==
  /\ phase = "reverify" /\ at = s
  /\ IF VerifyArtifacts(recorded)
       THEN phase' = "record" /\ status' = status
       ELSE Conclude(s, "FAIL")
  /\ UNCHANGED <<owner, at, file, recorded, published, inventory, manifest,
                 changes, history>>

(* artifact_record takes the digest the output has by now.                 *)
RecordOutput(s) ==
  /\ phase = "record" /\ at = s
  /\ IF file[s] = "none"
       THEN Conclude(s, "FAIL") /\ recorded' = recorded
       ELSE Conclude(s, "PASS") /\ recorded' = [recorded EXCEPT ![s] = file[s]]
  /\ UNCHANGED <<owner, at, file, published, inventory, manifest, changes,
                 history>>

PublishStageRecord(s) ==
  /\ phase = "publish" /\ at = s /\ published[s] = "none"
  /\ published' = [published EXCEPT ![s] = status[s]]
  /\ at' = s + 1
  /\ phase' = IF s = N THEN "inventory" ELSE "verify"
  /\ UNCHANGED <<owner, file, recorded, status, inventory, manifest, changes,
                 history>>

-----------------------------------------------------------------------------
(* The final inventory digests every file again, as it is by then.         *)
TakeInventory ==
  /\ phase = "inventory"
  /\ inventory' = file
  /\ phase' = "manifest"
  /\ UNCHANGED <<owner, at, file, recorded, status, published, manifest,
                 changes, history>>

(* Mutant: the status of the last stage stands for the run.                *)
MutantLastStageCounts ==
  /\ phase = "manifest" /\ manifest = "none"
  /\ manifest' = IF status[N] = "PASS" THEN "PASS" ELSE "FAIL"
  /\ phase' = "done"
  /\ UNCHANGED <<owner, at, file, recorded, status, published, inventory,
                 changes, history>>

PublishManifest ==
  /\ phase = "manifest" /\ manifest = "none"
  /\ manifest' = IF \A s \in Stages : status[s] = "PASS" THEN "PASS" ELSE "FAIL"
  /\ phase' = "done"
  /\ UNCHANGED <<owner, at, file, recorded, status, published, inventory,
                 changes, history>>

(* publish_json and artifact_record outside the stage's try block raise    *)
(* out of run_demo: no space, no hard links, a file gone under the scan.   *)
RunRaises ==
  /\ phase \in {"metadata", "start", "publish", "inventory", "manifest"}
  /\ phase' = "error"
  /\ UNCHANGED <<owner, at, file, recorded, status, published, inventory,
                 manifest, changes, history>>

(* The process dies between any two steps, or inside an action that has    *)
(* written its output.                                                     *)
Crash ==
  /\ phase \notin Ended \cup {"new"}
  /\ \/ file' = file
     \/ \E s \in Stages : phase = "act" /\ at = s /\ file' = [file EXCEPT ![s] = "first"]
  /\ phase' = "crashed"
  /\ UNCHANGED <<owner, at, recorded, status, published, inventory, manifest,
                 changes, history>>

(* Anything else that writes in the directory once it is there: a file is  *)
(* created, changed, removed or put back as it was.                        *)
Interfere(f) ==
  /\ owner # Nobody /\ changes < MaxChanges
  /\ changes' = changes + 1
  /\ \E d \in Digests \ {file[f]} :
       /\ file' = [file EXCEPT ![f] = d]
       /\ undone' = IF phase = "reverify" /\ recorded[f] = d
                      THEN undone \cup (misled \cap {<<at, f>>})
                      ELSE undone
  /\ UNCHANGED <<owner, phase, at, recorded, status, published, inventory,
                 manifest, misled, consumed>>

(* Mutant: an intact run is read whatever its status.                      *)
MutantReadsFailedRun ==
  /\ manifest # "none" /\ VerifyArtifacts(inventory) /\ file[N] # "none"
  /\ consumed' = TRUE
  /\ UNCHANGED <<owner, phase, at, file, recorded, status, published,
                 inventory, manifest, changes, misled, undone>>

(* inspect_run: integrity first, then the status, then the dataset.        *)
Inspect ==
  /\ manifest = "PASS" /\ VerifyArtifacts(inventory) /\ file[N] # "none"
  /\ consumed' = TRUE
  /\ UNCHANGED <<owner, phase, at, file, recorded, status, published,
                 inventory, manifest, changes, misled, undone>>

StageStep(s) ==
  \/ SkipBlocked(s)
  \/ VerifyBefore(s)
  \/ Act(s)
  \/ VerifyAfter(s)
  \/ RecordOutput(s)
  \/ PublishStageRecord(s)

RunStep ==
  \/ PublishMetadata
  \/ RecordMetadata
  \/ \E s \in Stages : StageStep(s)
  \/ TakeInventory
  \/ PublishManifest
  \/ RunRaises

Next ==
  \/ \E r \in Runners : CreateRun(r)
  \/ RunStep
  \/ Crash
  \/ \E f \in Files : Interfere(f)
  \/ Inspect

Spec == Init /\ [][Next]_vars

(* A process that is not killed keeps executing; no stage waits.           *)
FairSpec == Spec /\ WF_vars(RunStep)

-----------------------------------------------------------------------------
(* A stage that acted on a changed file passes only if that file was put   *)
(* back before the second verification: a change that slips in between     *)
(* the first verification and the action and stays is caught, whatever     *)
(* else is changed and put back meanwhile (runner.py:58-60).               *)
PassedOnRecordedInputs ==
  \A s \in Stages, f \in Files :
    status[s] = "PASS" /\ <<s, f>> \in misled => <<s, f>> \in undone

(* A manifest is the last word on a run: it exists only when every stage   *)
(* has a published record, and says PASS exactly when they all do.         *)
ManifestSumsUpRecords ==
  manifest # "none" =>
    /\ \A s \in Stages : published[s] = status[s]
    /\ manifest = "PASS" <=> \A s \in Stages : published[s] = "PASS"

(* "A failed run never authorizes dataset consumption, even when partial   *)
(* files exist": inspect_run reads the dataset of a run only when each of  *)
(* its stages is on record as passed, and then no change was left standing *)
(* under a stage's action.  It says nothing of a file that was changed     *)
(* between its record and the inventory: that one is handed out.           *)
ConsumptionIsAuthorized ==
  consumed => /\ \A s \in Stages : published[s] = "PASS"
              /\ misled = undone

(* Immutable metadata: no process, however often the run id is used again, *)
(* replaces a stage record or the manifest of a run, or takes it over.     *)
PublicationIsFinal ==
  [][/\ owner # Nobody => owner' = owner
     /\ manifest # "none" => manifest' = manifest /\ published' = published
     /\ \A s \in Stages : published[s] # "none" => published'[s] = published[s]]_vars

(* What a run has still to do at most: five steps in each stage that is    *)
(* left, and those before and after the stages.                            *)
StageRank ==
  CASE phase = "verify"   -> 5
    [] phase = "act"      -> 4
    [] phase = "reverify" -> 3
    [] phase = "record"   -> 2
    [] phase = "publish"  -> 1

Rank ==
  CASE phase = "new"       -> 5 * N + 5
    [] phase = "metadata"  -> 5 * N + 4
    [] phase = "start"     -> 5 * N + 3
    [] phase \in InStage   -> 5 * (N - at) + StageRank + 2
    [] phase = "inventory" -> 2
    [] phase = "manifest"  -> 1
    [] phase \in Ended     -> 0

(* Nothing is done twice in a run: no failure, interference or second use  *)
(* of the run id takes it back to a stage, or to a step within a stage.    *)
RunAdvances == [][Rank' < Rank \/ UNCHANGED <<phase, at>>]_vars

(* A run that was started and is not killed ends, with a manifest or with  *)
(* an error.                                                               *)
RunEnds == phase = "metadata" ~> phase \in Ended

-----------------------------------------------------------------------------
(* The strengthening: where the loop is, what it has not decided yet, and  *)
(* why a stage cannot pass over a change that stays.                       *)
Owned == phase # "new" => owner # Nobody

LoopPosition ==
  /\ phase \in {"new", "metadata", "start"} => at = 1
  /\ phase \in InStage => at \in Stages
  /\ phase \in {"inventory", "manifest", "done"} => at = N + 1

Later(s) == s > at \/ (s = at /\ phase # "publish")

Undecided ==
  phase \notin Ended =>
    \A s \in Stages :
      /\ Later(s) => status[s] = "PENDING" /\ recorded[s] = "none"
      /\ s < at => published[s] = status[s]

DecidedAt == phase = "publish" => status[at] # "PENDING"

ReadyToAct == phase \in {"act", "reverify", "record"} => Blocked(at) = {}

ChangesAreCaught ==
  \A s \in Stages, f \in Files :
    <<s, f>> \in misled \ undone =>
      \/ status[s] = "FAIL"
      \/ /\ s = at /\ status[s] = "PENDING" /\ phase \in {"reverify", "crashed"}
         /\ phase = "reverify" => Differs(recorded, f)

ManifestIsLast ==
  /\ manifest # "none" => phase = "done"
  /\ consumed => manifest = "PASS"

DemoInv ==
  /\ TypeOK /\ Owned /\ LoopPosition /\ Undecided /\ DecidedAt /\ ReadyToAct
  /\ ChangesAreCaught /\ ManifestIsLast /\ ManifestSumsUpRecords

-----------------------------------------------------------------------------
(* The run as a round of the ledger.                                       *)
Verdict(st) ==
  IF st = "PENDING" THEN "open" ELSE IF st = "PASS" THEN "good" ELSE "bad"

Outcome ==
  IF phase = "new" THEN "idle"
  ELSE IF phase \notin Ended THEN "running"
  ELSE IF manifest = "PASS" THEN "complete" ELSE "failed"

Ledger == INSTANCE StageLedger WITH
  Upstream <- Deps,
  Needed <- Stages,
  verdict <- [s \in Stages |-> Verdict(status[s])],
  outcome <- Outcome

LedgerRefined == Ledger!LedgerSpec
=============================================================================
