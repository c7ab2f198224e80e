--------------------------- MODULE DemoRunProofs ---------------------------
(***************************************************************************)
(* For every ordered graph of stages and every set of processes given the  *)
(* same run id: what a demo run records is what happened, and a run        *)
(* implements the abstract ledger.                                         *)
(***************************************************************************)
EXTENDS DemoRun, TLAPS

LEMMA DepsBefore ==
  ASSUME NEW s \in Stages, NEW d \in Deps[s]
  PROVE  d \in Stages /\ d < s
BY DemoAssumption DEF Stages

(* The initial state satisfies the inductive invariant.                    *)
LEMMA InitInv == Init => DemoInv
<1> SUFFICES ASSUME Init PROVE DemoInv
  OBVIOUS
<1>1. TypeOK
  <2>1. 1 \in 1..(N + 1)
    BY DemoAssumption
  <2>2. 0 \in 0..MaxChanges
    BY DemoAssumption
  <2>3. QED BY <2>1, <2>2 DEF Init, TypeOK, Digests
<1>2. Stages \subseteq Files /\ \A s \in Stages : s \in Int /\ ~(s < 1)
  BY DEF Stages, Files
<1>3. Undecided
  BY <1>2 DEF Init, Undecided
<1>4. Owned /\ LoopPosition /\ DecidedAt /\ ReadyToAct
  BY DEF Init, Owned, LoopPosition, DecidedAt, ReadyToAct, InStage
<1>5. ChangesAreCaught /\ ManifestIsLast /\ ManifestSumsUpRecords
  BY DEF Init, ChangesAreCaught, ManifestIsLast, ManifestSumsUpRecords
<1>6. QED BY <1>1, <1>3, <1>4, <1>5 DEF DemoInv

(* Type correctness is preserved by every step.                            *)
LEMMA TypeStep == TypeOK /\ DecidedAt /\ [Next]_vars => TypeOK'
<1> SUFFICES ASSUME TypeOK, DecidedAt, [Next]_vars PROVE TypeOK'
  OBVIOUS
<1> USE DEF TypeOK, InStage, Ended, Digests, history
<1>1. CASE UNCHANGED vars
  BY <1>1 DEF vars
<1>2. ASSUME NEW r \in Runners, CreateRun(r) PROVE TypeOK'
  BY <1>2 DEF CreateRun
<1>3. CASE PublishMetadata
  BY <1>3 DEF PublishMetadata
<1>10. CASE RecordMetadata
  BY <1>10 DEF RecordMetadata, Files
<1>4. ASSUME NEW s \in Stages, StageStep(s) PROVE TypeOK'
  <2>1. CASE SkipBlocked(s)
    BY <2>1 DEF SkipBlocked, Conclude
  <2>2. CASE VerifyBefore(s)
    BY <2>2 DEF VerifyBefore, Conclude
  <2>3. CASE Act(s)
    <3>1. Misleads(s) \subseteq Stages \X Files
      BY DEF Misleads
    <3>2. QED BY <2>3, <3>1 DEF Act, Conclude
  <2>4. CASE VerifyAfter(s)
    BY <2>4 DEF VerifyAfter, Conclude
  <2>5. CASE RecordOutput(s)
    <3>1. s \in Files
      BY DEF Stages, Files
    <3>2. QED BY <2>5, <3>1 DEF RecordOutput, Conclude
  <2>6. CASE PublishStageRecord(s)
    <3>1. status[s] \in {"PASS", "FAIL", "SKIPPED"}
      BY <2>6 DEF PublishStageRecord, DecidedAt
    <3>2. s + 1 \in 1..(N + 1)
      BY DemoAssumption DEF Stages
    <3>3. QED BY <2>6, <3>1, <3>2 DEF PublishStageRecord
  <2>7. QED BY <1>4, <2>1, <2>2, <2>3, <2>4, <2>5, <2>6 DEF StageStep
<1>5. CASE TakeInventory \/ PublishManifest \/ RunRaises
  BY <1>5 DEF TakeInventory, PublishManifest, RunRaises
<1>6. CASE Crash
  BY <1>6 DEF Crash
<1>7. ASSUME NEW f \in Files, Interfere(f) PROVE TypeOK'
  <2>1. changes' \in 0..MaxChanges
    BY <1>7, DemoAssumption DEF Interfere
  <2>2. undone' \subseteq misled /\ misled' = misled
    BY <1>7 DEF Interfere
  <2>3. file' \in [Files -> Digests]
    BY <1>7 DEF Interfere
  <2>4. QED BY <1>7, <2>1, <2>2, <2>3 DEF Interfere
<1>8. CASE Inspect
  BY <1>8 DEF Inspect
<1>9. QED
  BY <1>1, <1>2, <1>3, <1>4, <1>5, <1>6, <1>7, <1>8, <1>10 DEF Next, RunStep

-----------------------------------------------------------------------------
(* The inductive step, for the steps inside a stage.                       *)

LEMMA StageStepInv ==
  ASSUME DemoInv, NEW s \in Stages, StageStep(s) PROVE DemoInv'
<1>1. TypeOK'
  BY TypeStep DEF DemoInv, Next, RunStep
<1>2. /\ at = s /\ phase \in InStage /\ phase' \in InStage \cup {"inventory"}
      /\ owner' = owner /\ inventory' = inventory
      /\ manifest' = manifest /\ consumed' = consumed
      /\ phase # "done" /\ s \in Int /\ N \in Int /\ phase \notin Ended
  BY DemoAssumption DEF StageStep, SkipBlocked, VerifyBefore, Act, VerifyAfter, RecordOutput,
     PublishStageRecord, Conclude, InStage, Stages, Ended, history
<1>3. Owned' /\ ManifestIsLast' /\ ManifestSumsUpRecords'
  BY <1>2 DEF DemoInv, Owned, ManifestIsLast, ManifestSumsUpRecords, InStage
<1>4. \/ /\ phase # "publish" /\ at' = at /\ published' = published
         /\ phase' \in InStage
         /\ \A t \in Stages \ {s} : status'[t] = status[t] /\ recorded'[t] = recorded[t]
         /\ \/ phase' # "publish" /\ status' = status /\ recorded' = recorded
            \/ phase' = "publish" /\ status'[s] # "PENDING"
      \/ PublishStageRecord(s)
  <2> USE <1>2 DEF Conclude, InStage, DemoInv, TypeOK
  <2>1. CASE SkipBlocked(s)
    BY <2>1 DEF SkipBlocked
  <2>2. CASE VerifyBefore(s)
    BY <2>2 DEF VerifyBefore
  <2>3. CASE Act(s)
    BY <2>3 DEF Act
  <2>4. CASE VerifyAfter(s)
    BY <2>4 DEF VerifyAfter
  <2>5. CASE RecordOutput(s)
    <3>1. status'[s] # "PENDING" /\ phase' = "publish"
      BY <2>5 DEF RecordOutput
    <3>2. \A t \in Stages \ {s} : status'[t] = status[t] /\ recorded'[t] = recorded[t]
      BY <2>5 DEF RecordOutput, Files, Stages
    <3>3. QED BY <2>5, <3>1, <3>2 DEF RecordOutput
  <2>6. QED BY <2>1, <2>2, <2>3, <2>4, <2>5 DEF StageStep
<1>5. LoopPosition'
  BY <1>2, <1>4, DemoAssumption DEF DemoInv, LoopPosition, PublishStageRecord, InStage, Stages
<1>6. Undecided'
  <2>1. CASE PublishStageRecord(s)
    BY <2>1, <1>2 DEF DemoInv, Undecided, Later, PublishStageRecord, Stages, TypeOK
  <2>2. CASE ~PublishStageRecord(s)
    BY <2>2, <1>2, <1>4 DEF DemoInv, Undecided, Later, Stages
  <2>3. QED BY <2>1, <2>2
<1>7. DecidedAt'
  BY <1>2, <1>4 DEF DecidedAt, PublishStageRecord
<1>8. ReadyToAct'
  BY <1>2 DEF StageStep, SkipBlocked, VerifyBefore, Act, VerifyAfter, RecordOutput,
     PublishStageRecord, Conclude, DemoInv, ReadyToAct, Blocked
<1>9. ChangesAreCaught'
  <2> SUFFICES ASSUME NEW t \in Stages, NEW f \in Files, <<t, f>> \in misled' \ undone'
               PROVE  \/ status'[t] = "FAIL"
                      \/ /\ t = at' /\ status'[t] = "PENDING"
                         /\ phase' \in {"reverify", "crashed"}
                         /\ phase' = "reverify" => Differs(recorded, f)'
    BY DEF ChangesAreCaught
  <2> USE <1>2 DEF Conclude, DemoInv, InStage, Ended
  <2>1. undone' = undone
    BY DEF StageStep, SkipBlocked, VerifyBefore, Act, VerifyAfter, RecordOutput,
       PublishStageRecord, history
  <2>2. phase # "publish" => status[s] = "PENDING"
    BY DEF Undecided, Later
  <2>3. CASE <<t, f>> \in misled
    <3>1. \/ status[t] = "FAIL"
          \/ t = s /\ phase = "reverify" /\ Differs(recorded, f)
      BY <2>1, <2>3 DEF ChangesAreCaught
    <3>2. CASE status[t] = "FAIL"
      <4>1. t # s \/ phase = "publish"
        BY <2>2, <3>2
      <4>2. status'[t] = status[t]
        BY <1>4, <4>1 DEF PublishStageRecord
      <4>3. QED BY <3>2, <4>2
    <3>3. CASE t = s /\ phase = "reverify" /\ Differs(recorded, f)
      <4>1. VerifyAfter(s) /\ ~VerifyArtifacts(recorded)
        BY <3>3 DEF StageStep, SkipBlocked, VerifyBefore, Act, RecordOutput,
           PublishStageRecord, VerifyArtifacts
      <4>2. QED BY <3>3, <4>1 DEF VerifyAfter, TypeOK
    <3>4. QED BY <3>1, <3>2, <3>3
  <2>4. CASE <<t, f>> \notin misled
    <3>1. Act(s) /\ <<t, f>> \in Misleads(s)
      BY <2>4 DEF StageStep, SkipBlocked, VerifyBefore, Act, VerifyAfter, RecordOutput,
         PublishStageRecord, history
    <3>2. t = s /\ f # s /\ Differs(recorded, f)
      BY <3>1, <2>2 DEF Act, Misleads, Differs, Undecided, Later
    <3>3. CASE status' = status /\ phase' = "reverify"
      <4>1. file'[f] = file[f] /\ recorded' = recorded
        BY <3>1, <3>2 DEF Act, TypeOK
      <4>2. QED BY <2>2, <3>1, <3>2, <3>3, <4>1 DEF Act, Differs
    <3>4. CASE status' = [status EXCEPT ![s] = "FAIL"]
      BY <3>2, <3>4 DEF TypeOK
    <3>5. QED BY <3>1, <3>3, <3>4 DEF Act
  <2>5. QED BY <2>3, <2>4
<1>10. QED BY <1>1, <1>3, <1>5, <1>6, <1>7, <1>8, <1>9 DEF DemoInv

(* The inductive step, for the steps outside the stages.                   *)
LEMMA RunStepInv ==
  ASSUME DemoInv,
         (\E r \in Runners : CreateRun(r)) \/ PublishMetadata \/ RecordMetadata
           \/ TakeInventory \/ PublishManifest \/ RunRaises \/ Crash \/ Inspect
  PROVE  DemoInv'
<1>1. TypeOK'
  BY TypeStep DEF DemoInv, Next, RunStep
<1> USE DEF DemoInv, history
<1>2. CASE \E r \in Runners : CreateRun(r)
  <2>1. PICK r \in Runners : CreateRun(r)
    BY <1>2
  <2>2. UNCHANGED <<at, file, recorded, status, published, inventory, manifest, misled,
                    undone, consumed>>
    BY <2>1 DEF CreateRun
  <2>3. CASE owner # Nobody
    BY <1>1, <2>1, <2>2, <2>3
       DEF CreateRun, Owned, LoopPosition, Undecided, DecidedAt, ReadyToAct,
       ChangesAreCaught, ManifestIsLast, ManifestSumsUpRecords, Later, VerifyArtifacts, Differs, Blocked
  <2>4. CASE owner = Nobody
    <3>1. phase = "new" /\ phase' = "metadata" /\ owner' # Nobody
      BY <2>1, <2>4, DemoAssumption DEF CreateRun, Owned
    <3>2. Owned' /\ LoopPosition' /\ DecidedAt' /\ ReadyToAct' /\ ManifestIsLast'
      BY <2>2, <3>1 DEF Owned, LoopPosition, DecidedAt, ReadyToAct, ManifestIsLast, InStage
    <3>3. Undecided' /\ ManifestSumsUpRecords'
      BY <2>2, <3>1 DEF Undecided, Later, Ended, ManifestSumsUpRecords
    <3>4. ChangesAreCaught'
      BY <2>2, <3>1 DEF ChangesAreCaught
    <3>5. QED BY <1>1, <3>2, <3>3, <3>4
  <2>5. QED BY <2>3, <2>4
<1>3. CASE PublishMetadata
  <2>1. at = 1 /\ phase = "metadata" /\ phase' = "start" /\ at' = 1
    BY <1>3 DEF PublishMetadata, LoopPosition
  <2>2. \A s \in Stages : status[s] = "PENDING" /\ recorded[s] = "none" /\ ~(s < 1)
    BY <1>3, <2>1 DEF PublishMetadata, Undecided, Later, Ended, Stages
  <2>3. misled \ undone = {}
    BY <2>1, <2>2 DEF ChangesAreCaught, TypeOK
  <2>4. QED
    BY <1>1, <1>3, <2>1, <2>2, <2>3
       DEF PublishMetadata, Owned, LoopPosition, Undecided, DecidedAt, ReadyToAct,
       ChangesAreCaught, ManifestIsLast, ManifestSumsUpRecords, InStage
<1>9. CASE RecordMetadata
  <2>1. at = 1 /\ phase = "start" /\ phase' = "verify" /\ at' = 1 /\ 1 \in Stages
    BY <1>9, DemoAssumption DEF RecordMetadata, LoopPosition, Stages
  <2>2. \A s \in Stages : status[s] = "PENDING" /\ recorded[s] = "none" /\ ~(s < 1)
    BY <1>9, <2>1 DEF RecordMetadata, Undecided, Later, Ended, Stages
  <2>3. misled \ undone = {}
    BY <2>1, <2>2 DEF ChangesAreCaught, TypeOK
  <2>4. \A s \in Stages : recorded'[s] = recorded[s]
    BY <1>9 DEF RecordMetadata, TypeOK, Files, Stages
  <2>5. QED
    BY <1>1, <1>9, <2>1, <2>2, <2>3, <2>4
       DEF RecordMetadata, Owned, LoopPosition, Undecided, DecidedAt, ReadyToAct,
       ChangesAreCaught, ManifestIsLast, ManifestSumsUpRecords, InStage
<1>4. CASE TakeInventory \/ PublishManifest
  <2>1. at = N + 1 /\ phase' \in {"manifest", "done"} /\ phase \in {"inventory", "manifest"}
    BY <1>4 DEF TakeInventory, PublishManifest, LoopPosition
  <2>2. \A s \in Stages : s < at /\ published[s] = status[s]
    BY <2>1, DemoAssumption DEF Undecided, Stages, Ended
  <2>3. ManifestSumsUpRecords' /\ ManifestIsLast'
    BY <1>4, <2>2 DEF TakeInventory, PublishManifest, ManifestSumsUpRecords, ManifestIsLast
  <2>4. QED
    BY <1>1, <1>4, <2>1, <2>3
       DEF TakeInventory, PublishManifest, Owned, LoopPosition, Undecided, DecidedAt,
       ReadyToAct, ChangesAreCaught, Later, InStage, Ended, VerifyArtifacts, Differs
<1>5. CASE RunRaises
  BY <1>1, <1>5
     DEF RunRaises, Owned, LoopPosition, Undecided, DecidedAt, ReadyToAct,
     ChangesAreCaught, ManifestIsLast, ManifestSumsUpRecords, InStage, Ended
<1>6. CASE Crash
  BY <1>1, <1>6
     DEF Crash, Owned, LoopPosition, Undecided, DecidedAt, ReadyToAct,
     ChangesAreCaught, ManifestIsLast, ManifestSumsUpRecords, InStage, Ended
<1>7. CASE Inspect
  BY <1>1, <1>7
     DEF Inspect, Owned, LoopPosition, Undecided, DecidedAt, ReadyToAct,
     ChangesAreCaught, ManifestIsLast, ManifestSumsUpRecords, Later, VerifyArtifacts, Differs,
     Blocked
<1>8. QED BY <1>2, <1>3, <1>4, <1>5, <1>6, <1>7, <1>9

(* Interference repairs a file a stage acted on only by putting it back.   *)
LEMMA InterfereInv == ASSUME DemoInv, NEW f \in Files, Interfere(f) PROVE DemoInv'
<1>1. TypeOK'
  BY TypeStep DEF DemoInv, Next
<1> USE DEF DemoInv
<1>2. ChangesAreCaught'
  <2> SUFFICES ASSUME NEW t \in Stages, NEW g \in Files, <<t, g>> \in misled \ undone',
                      t = at, status[t] = "PENDING", phase = "reverify",
                      Differs(recorded, g)
               PROVE  Differs(recorded, g)'
    BY DEF ChangesAreCaught, Interfere
  <2>1. CASE g = f
    <3>1. recorded[f] # file'[f]
      BY <2>1 DEF Interfere, TypeOK
    <3>2. QED BY <2>1, <3>1 DEF Interfere, Differs
  <2>2. CASE g # f
    BY <2>2 DEF Interfere, TypeOK, Differs
  <2>3. QED BY <2>1, <2>2
<1>3. QED
  BY <1>1, <1>2
     DEF Interfere, Owned, LoopPosition, Undecided, DecidedAt, ReadyToAct,
     ManifestIsLast, ManifestSumsUpRecords, Later, Blocked

LEMMA NextInv == DemoInv /\ [Next]_vars => DemoInv'
<1>1. CASE UNCHANGED vars
  BY <1>1 DEF vars, DemoInv, TypeOK, Owned, LoopPosition, Undecided, DecidedAt, ReadyToAct,
     ChangesAreCaught, ManifestIsLast, ManifestSumsUpRecords, Later,
     Blocked, VerifyArtifacts, Differs
<1>2. QED
  BY <1>1, StageStepInv, RunStepInv, InterfereInv DEF Next, RunStep

-----------------------------------------------------------------------------
(* The inductive invariant holds in every reachable state.                 *)
THEOREM DemoInvariant == Spec => []DemoInv
BY InitInv, NextInv, PTL DEF Spec

(* Every state of a run is well typed.                                     *)
THEOREM DemoTypeOK == Spec => []TypeOK
BY DemoInvariant, PTL DEF DemoInv

(* A stage passes over changed inputs only when each was put back before   *)
(* it looked again.                                                        *)
THEOREM DemoLineage == Spec => []PassedOnRecordedInputs
<1>1. DemoInv => PassedOnRecordedInputs
  BY DEF DemoInv, ChangesAreCaught, PassedOnRecordedInputs
<1>2. QED BY <1>1, DemoInvariant, PTL

(* A manifest sums up the published stage records.                         *)
THEOREM DemoManifest == Spec => []ManifestSumsUpRecords
BY DemoInvariant, PTL DEF DemoInv

(* A dataset is handed out only by a run whose stages are all on record as *)
(* passed, and none of them over a change that was left standing.          *)
THEOREM DemoConsumption == Spec => []ConsumptionIsAuthorized
<1>1. DemoInv => ConsumptionIsAuthorized
  BY DEF DemoInv, ManifestIsLast, ManifestSumsUpRecords, ChangesAreCaught,
     ConsumptionIsAuthorized, TypeOK
<1>2. QED BY <1>1, DemoInvariant, PTL

(* No process and no later use of the run id replaces what was published.  *)
THEOREM DemoPublication == Spec => PublicationIsFinal
<1> DEFINE Final ==
      /\ owner # Nobody => owner' = owner
      /\ manifest # "none" => manifest' = manifest /\ published' = published
      /\ \A s \in Stages : published[s] # "none" => published'[s] = published[s]
<1>1. DemoInv /\ [Next]_vars => [Final]_vars
  <2> SUFFICES ASSUME DemoInv, Next PROVE Final
    OBVIOUS
  <2>1. CASE \E s \in Stages : PublishStageRecord(s)
    BY <2>1 DEF PublishStageRecord, DemoInv, ManifestIsLast, TypeOK
  <2>2. CASE PublishManifest
    BY <2>2 DEF PublishManifest
  <2>3. CASE \E r \in Runners : CreateRun(r)
    BY <2>3 DEF CreateRun
  <2>4. ASSUME UNCHANGED <<owner, manifest, published>> PROVE Final
    BY <2>4
  <2>5. QED
    BY <2>1, <2>2, <2>3, <2>4
       DEF Next, RunStep, StageStep, PublishMetadata, RecordMetadata, SkipBlocked, VerifyBefore, Act,
       VerifyAfter, RecordOutput, TakeInventory, RunRaises, Crash, Interfere, Inspect
<1>2. QED BY <1>1, DemoInvariant, PTL DEF Spec, PublicationIsFinal

(* The steps left are counted by a number.                                 *)
LEMMA RankIsBounded == DemoInv => Rank \in 0..(5 * N + 5)
<1> SUFFICES ASSUME DemoInv PROVE Rank \in 0..(5 * N + 5)
  OBVIOUS
<1>1. N \in Nat \ {0} /\ (phase \in InStage => at \in 1..N)
  BY DemoAssumption DEF DemoInv, LoopPosition, Stages
<1>2. phase \in {"new", "metadata", "start", "inventory", "manifest"} \cup InStage \cup Ended
  BY DEF DemoInv, TypeOK
<1>3. CASE phase \in InStage
  <2>1. StageRank \in 1..5
    BY <1>3 DEF StageRank, InStage
  <2>2. Rank = 5 * (N - at) + StageRank + 2
    BY <1>3 DEF Rank, InStage, Ended
  <2>3. QED BY <1>1, <1>3, <2>1, <2>2
<1>4. CASE phase \notin InStage
  BY <1>1, <1>2, <1>4 DEF Rank, Ended, InStage
<1>5. QED BY <1>3, <1>4

(* A run goes through its stages once, each step once: whatever fails and  *)
(* whoever interferes it takes 5 * N + 5 steps at most (run_demo and       *)
(* execute_stages of orchestration/runner.py).                             *)
THEOREM DemoGoesOneWay == Spec => RunAdvances /\ [](Rank \in 0..(5 * N + 5))
<1>1. DemoInv /\ Next => Rank' < Rank \/ UNCHANGED <<phase, at>>
  <2> SUFFICES ASSUME DemoInv, Next PROVE Rank' < Rank \/ UNCHANGED <<phase, at>>
    OBVIOUS
  <2>1. N \in Nat \ {0} /\ (phase \in InStage => at \in 1..N) /\ (phase \in {"metadata", "start"} => at = 1)
    BY DemoAssumption DEF DemoInv, LoopPosition, Stages
  <2>2. phase \in {"new", "metadata", "start", "inventory", "manifest"} \cup InStage \cup Ended
    BY DEF DemoInv, TypeOK
  <2>3. Rank \in Nat /\ (phase \notin Ended => Rank > 0)
    <3>1. Rank \in Nat
      BY RankIsBounded, <2>1
    <3>2. CASE phase \in InStage
      <4>1. StageRank \in 1..5 /\ Rank = 5 * (N - at) + StageRank + 2
        BY <3>2 DEF StageRank, Rank, InStage, Ended
      <4>2. QED BY <2>1, <3>1, <3>2, <4>1
    <3>3. CASE phase \notin InStage
      BY <2>1, <2>2, <3>1, <3>3 DEF Rank, InStage, Ended
    <3>4. QED BY <3>1, <3>2, <3>3
  <2>4. ASSUME phase' \in Ended, phase \notin Ended PROVE Rank' < Rank
    <3>1. Rank' = 0
      BY <2>4 DEF Rank, Ended, InStage
    <3>2. QED BY <2>3, <2>4, <3>1
  <2>5. ASSUME NEW r \in Runners, CreateRun(r)
        PROVE  Rank' < Rank \/ UNCHANGED <<phase, at>>
    <3>1. CASE owner = Nobody
      <4>1. phase = "new" /\ phase' = "metadata"
        BY <2>5, <3>1 DEF CreateRun, DemoInv, Owned
      <4>2. QED BY <2>1, <4>1 DEF Rank, InStage, Ended
    <3>2. CASE owner # Nobody
      BY <2>5, <3>2 DEF CreateRun
    <3>3. QED BY <3>1, <3>2
  <2>6. CASE PublishMetadata
    BY <2>1, <2>6 DEF PublishMetadata, Rank, InStage, Ended
  <2>12. CASE RecordMetadata
    <3>1. phase = "start" /\ phase' = "verify" /\ at' = at
      BY <2>12 DEF RecordMetadata
    <3>2. QED BY <2>1, <3>1 DEF Rank, StageRank, InStage, Ended
  <2>7. ASSUME NEW s \in Stages, StageStep(s) PROVE Rank' < Rank
    <3>1. CASE PublishStageRecord(s)
      <4>1. /\ phase = "publish" /\ at = s /\ at' = s + 1
            /\ \/ s = N /\ phase' = "inventory"
               \/ s # N /\ phase' = "verify"
        BY <3>1 DEF PublishStageRecord
      <4>2. s \in 1..N
        BY DEF Stages
      <4>3. QED BY <2>1, <4>1, <4>2 DEF Rank, StageRank, InStage, Ended
    <3>2. CASE ~PublishStageRecord(s)
      <4>1. /\ at' = at /\ phase \in InStage
            /\ \/ phase = "verify" /\ phase' \in {"act", "publish"}
               \/ phase = "act" /\ phase' \in {"reverify", "publish"}
               \/ phase = "reverify" /\ phase' \in {"record", "publish"}
               \/ phase = "record" /\ phase' = "publish"
        BY <2>7, <3>2 DEF StageStep, SkipBlocked, VerifyBefore, Act, VerifyAfter,
           RecordOutput, Conclude, InStage
      <4>2. QED BY <2>1, <4>1 DEF Rank, StageRank, InStage, Ended
    <3>3. QED BY <3>1, <3>2
  <2>8. CASE TakeInventory
    BY <2>8 DEF TakeInventory, Rank, InStage, Ended
  <2>9. CASE PublishManifest \/ RunRaises \/ Crash
    BY <2>4, <2>9 DEF PublishManifest, RunRaises, Crash, Ended
  <2>10. CASE Inspect \/ \E f \in Files : Interfere(f)
    BY <2>10 DEF Inspect, Interfere
  <2>11. QED BY <2>5, <2>6, <2>7, <2>8, <2>9, <2>10, <2>12 DEF Next, RunStep
<1>2. QED BY <1>1, RankIsBounded, DemoInvariant, PTL DEF Spec, RunAdvances

-----------------------------------------------------------------------------
(* The refinement.                                                         *)

LEMMA LedgerInitially == Init => Ledger!LedgerInit
BY DEF Init, Ledger!LedgerInit, Verdict, Outcome

LEMMA LedgerStutters ==
  ASSUME status' = status, Outcome' = Outcome
  PROVE  UNCHANGED Ledger!ledgerVars
BY DEF Ledger!ledgerVars, Verdict

(* Deciding a stage that is open, on predecessors that pass, settles it.   *)
LEMMA ConcludeSettles ==
  ASSUME DemoInv, NEW s \in Stages, NEW st \in {"PASS", "FAIL", "SKIPPED"},
         phase \in InStage \ {"publish"}, at = s, phase' \in InStage,
         status' = [status EXCEPT ![s] = st],
         st = "PASS" => Blocked(s) = {}
  PROVE  Ledger!LedgerNext
<1> DEFINE Map == [t \in Stages |-> Verdict(status[t])]
<1>1. Outcome = "running" /\ Outcome' = "running"
  BY DEF Outcome, InStage, Ended
<1>2. status[s] = "PENDING"
  BY DEF DemoInv, Undecided, Later, InStage, Ended
<1>3. Map' = [Map EXCEPT ![s] = Verdict(st)] /\ Map[s] = "open"
  BY <1>2 DEF DemoInv, TypeOK, Verdict
<1>4. Verdict(st) \in {"good", "bad"} /\ (Verdict(st) = "good" => st = "PASS")
  BY DEF Verdict
<1>5. st = "PASS" => \A d \in Deps[s] : d \in Stages /\ Map[d] = "good"
  BY DepsBefore DEF Blocked, Verdict
<1>6. Ledger!Settle(s, Verdict(st))
  BY <1>1, <1>3, <1>4, <1>5 DEF Ledger!Settle, Ledger!Good
<1>7. QED BY <1>4, <1>6 DEF Ledger!LedgerNext

LEMMA LedgerStep ==
  DemoInv /\ [Next]_vars => [Ledger!LedgerNext]_(Ledger!ledgerVars)
<1> SUFFICES ASSUME DemoInv, [Next]_vars
             PROVE  Ledger!LedgerNext \/ UNCHANGED Ledger!ledgerVars
  OBVIOUS
<1> DEFINE Map == [s \in Stages |-> Verdict(status[s])]
<1>1. CASE UNCHANGED vars
  BY <1>1, LedgerStutters DEF vars, Outcome
<1>2. CASE \E r \in Runners : CreateRun(r)
  <2>1. status' = status
    BY <1>2 DEF CreateRun
  <2>2. CASE owner # Nobody
    BY <1>2, <2>1, <2>2, LedgerStutters DEF CreateRun, Outcome
  <2>3. CASE owner = Nobody
    <3>1. Outcome = "idle" /\ Outcome' = "running"
      BY <1>2, <2>3 DEF CreateRun, DemoInv, Owned, Outcome, Ended
    <3>2. \A s \in Stages : status[s] = "PENDING"
      <4>1. phase = "new" /\ at = 1
        BY <2>3 DEF DemoInv, Owned, LoopPosition
      <4>2. QED BY <4>1 DEF DemoInv, Undecided, Later, Ended, Stages
    <3>3. Map' = [s \in Stages |-> "open"]
      BY <2>1, <3>2 DEF Verdict
    <3>4. QED BY <3>1, <3>3 DEF Ledger!Open, Ledger!LedgerNext
  <2>4. QED BY <2>2, <2>3
<1>3. ASSUME status' = status, phase \notin Ended \cup {"new"},
             phase' \notin Ended \cup {"new"}
      PROVE  UNCHANGED Ledger!ledgerVars
  BY <1>3, LedgerStutters DEF Outcome
<1>4. CASE PublishMetadata \/ RecordMetadata \/ TakeInventory
  BY <1>4, <1>3 DEF PublishMetadata, RecordMetadata, TakeInventory, Ended
<1>5. ASSUME NEW s \in Stages, StageStep(s)
      PROVE  Ledger!LedgerNext \/ UNCHANGED Ledger!ledgerVars
  <2>1. CASE SkipBlocked(s)
    BY <2>1, ConcludeSettles DEF SkipBlocked, Conclude, InStage
  <2>2. CASE VerifyBefore(s)
    BY <2>2, <1>3, ConcludeSettles DEF VerifyBefore, Conclude, InStage, Ended
  <2>3. CASE Act(s)
    BY <2>3, <1>3, ConcludeSettles DEF Act, Conclude, InStage, Ended
  <2>4. CASE VerifyAfter(s)
    BY <2>4, <1>3, ConcludeSettles DEF VerifyAfter, Conclude, InStage, Ended
  <2>5. CASE RecordOutput(s)
    <3>1. Blocked(s) = {}
      BY <2>5 DEF RecordOutput, DemoInv, ReadyToAct
    <3>2. QED BY <2>5, <3>1, ConcludeSettles DEF RecordOutput, Conclude, InStage
  <2>6. CASE PublishStageRecord(s)
    BY <2>6, <1>3 DEF PublishStageRecord, Ended
  <2>7. QED BY <1>5, <2>1, <2>2, <2>3, <2>4, <2>5, <2>6 DEF StageStep
<1>6. ASSUME status' = status, Outcome = "running", Outcome' \in {"complete", "failed"},
             Outcome' = "complete" => \A s \in Stages : status[s] = "PASS"
      PROVE  Ledger!LedgerNext
  <2>1. Ledger!Close(Outcome')
    BY <1>6 DEF Ledger!Close, Ledger!Good, Verdict
  <2>2. QED BY <1>6, <2>1 DEF Ledger!LedgerNext
<1>7. CASE PublishManifest
  BY <1>7, <1>6 DEF PublishManifest, Outcome, Ended
<1>8. CASE RunRaises \/ Crash
  <2>1. manifest' = "none" /\ status' = status
    BY <1>8 DEF RunRaises, Crash, DemoInv, ManifestIsLast, Ended
  <2>2. QED BY <1>8, <1>6, <2>1 DEF RunRaises, Crash, Outcome, Ended
<1>9. CASE (\E f \in Files : Interfere(f)) \/ Inspect
  BY <1>9, LedgerStutters DEF Interfere, Inspect, Outcome
<1>10. QED
  BY <1>1, <1>2, <1>4, <1>5, <1>7, <1>8, <1>9 DEF Next, RunStep

(* A run, with any number of processes started for it, implements the      *)
(* abstract ledger.                                                        *)
THEOREM DemoImplementsLedger == Spec => LedgerRefined
BY LedgerInitially, LedgerStep, DemoInvariant, PTL
   DEF Spec, LedgerRefined, Ledger!LedgerSpec
=============================================================================
