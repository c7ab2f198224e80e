------------------------- MODULE DayPipelineProofs -------------------------
(***************************************************************************)
(* For every acyclic stage graph, every set of command lines and every     *)
(* retry budget: the invariants of DayPipeline, and that a day implements  *)
(* the abstract ledger.                                                    *)
(***************************************************************************)
EXTENDS DayPipeline, WellFoundedInduction, TLAPS

(* The predecessors of a stage are stages, and come before it.             *)
LEMMA DepsBefore ==
  ASSUME NEW s \in Stages
  PROVE  /\ StageDeps(s) \subseteq Stages
         /\ \A d \in StageDeps(s) : d < s
         /\ s \notin StageDeps(s)
BY DayAssumption DEF StageDeps, Stages

(* The flags of a command line are Booleans.                               *)
LEMMA OptType ==
  ASSUME TypeOK
  PROVE  /\ opt.dry \in BOOLEAN /\ opt.allow \in BOOLEAN /\ opt.rebuild \in BOOLEAN
         /\ opt.force \in BOOLEAN /\ opt.keepGoing \in BOOLEAN
         /\ opt.download \in BOOLEAN
BY DayAssumption DEF TypeOK

(* The initial states satisfy the inductive invariant.                     *)
LEMMA InitInv == Init => DayInv
BY DayAssumption DEF Init, DayInv, TypeOK, Undecided, Ahead, Behind, Verdicts,
   PresentIsNotRerun, ReusedIsPresent, StandsOnSatisfied, ReuseIsDownwardClosed,
   RanMeansSound, RecordedTruncationBlocks, CompleteIsEarned, Stages, Satisfied,
   Unsatisfied

(* What a download attempt and a tool can write is well typed.             *)
DiskTypeOK ==
  /\ raw \in {"none", "empty", "torn", "cut", "whole"}
  /\ sidecar \in {"none", "COMPLETE", "TRUNCATED", "UNKNOWN"}
  /\ disk \in [Stages -> {"absent", "partial", "present"}]
  /\ sound \subseteq Stages

LEMMA RawNowType ==
  ASSUME TypeOK, NEW e \in RawWrites \cup Described, RawNow(e)
  PROVE  DiskTypeOK'
<1>1. /\ e.raw \in {"none", "empty", "torn", "cut", "whole"}
      /\ e.sidecar \in {"none", "COMPLETE", "TRUNCATED", "UNKNOWN"}
  <2>1. CASE e \in RawWrites
    BY <2>1 DEF RawWrites, TypeOK
  <2>2. CASE e \in Described
    BY <2>2 DEF Described
  <2>3. QED BY <2>1, <2>2
<1>2. QED BY <1>1 DEF RawNow, TypeOK, DiskTypeOK

LEMMA EndsType ==
  ASSUME NEW s
  PROVE  GoodEnds(s) \cup BadEnds(s) \subseteq {"partial", "present"}
BY DEF GoodEnds, BadEnds

LEMMA WroteType ==
  ASSUME TypeOK, NEW s \in Stages, NEW end \in GoodEnds(s) \cup BadEnds(s),
         NEW ok \in BOOLEAN, Wrote(s, end, ok)
  PROVE  DiskTypeOK'
BY EndsType DEF Wrote, TypeOK, DiskTypeOK

LEMMA DiskUnchangedType ==
  ASSUME TypeOK, UNCHANGED diskVars
  PROVE  DiskTypeOK'
BY DEF TypeOK, DiskTypeOK, diskVars

(* The types of a stage verdict and of the cursor that follows it.         *)
LEMMA RecordType ==
  ASSUME TypeOK, NEW s \in Stages, NEW v \in Satisfied \cup Unsatisfied,
         Record(s, v), AtStage(s), cursor' = s + 1 \/ cursor' = N + 1, DiskTypeOK'
  PROVE  TypeOK'
<1>1. cursor' \in 1..(N + 1)
  BY DayAssumption DEF Stages
<1>2. stat' \in [Stages -> {"NONE"} \cup Satisfied \cup Unsatisfied]
  BY DEF Record, TypeOK
<1>3. QED BY <1>1, <1>2 DEF Record, TypeOK, DiskTypeOK

(* Type correctness is preserved by every step.                            *)
LEMMA TypeStep == TypeOK /\ [Next]_vars => TypeOK'
<1> SUFFICES ASSUME TypeOK, [Next]_vars PROVE TypeOK'
  OBVIOUS
<1>1. CASE UNCHANGED vars
  BY <1>1 DEF vars, TypeOK
<1>2. CASE ProcessOneDate
  BY <1>2, DayAssumption DEF ProcessOneDate, diskVars, TypeOK
<1>3. ASSUME StopDay, DiskTypeOK' PROVE TypeOK'
  BY <1>3, DayAssumption DEF StopDay, loopVars, TypeOK, DiskTypeOK
<1>4. CASE DownloadStep
  <2>1. CASE StopBeforeDownload
    BY <2>1, <1>3, DiskUnchangedType DEF StopBeforeDownload
  <2>2. CASE SkipDownload
    BY <2>2 DEF SkipDownload, TypeOK, diskVars, loopVars
  <2>3. CASE DownloadSucceeds
    <3>1. DiskTypeOK'
      BY <2>3, RawNowType DEF DownloadSucceeds
    <3>2. QED BY <2>3, <3>1, DayAssumption
             DEF DownloadSucceeds, TypeOK, DiskTypeOK, loopVars
  <2>4. CASE DownloadFails
    <3>1. DiskTypeOK'
      BY <2>4, RawNowType, DiskUnchangedType DEF DownloadFails
    <3>2. attempt' \in 0..(MaxRetries + 1)
      BY <2>4, DayAssumption DEF DownloadFails, Downloading, TypeOK
    <3>3. QED BY <2>4, <3>1, <3>2 DEF DownloadFails, TypeOK, DiskTypeOK, loopVars
  <2>5. CASE GiveUpDownload
    BY <2>5, <1>3, DiskUnchangedType DEF GiveUpDownload
  <2>6. QED BY <1>4, <2>1, <2>2, <2>3, <2>4, <2>5 DEF DownloadStep
<1>5. CASE CheckBlocks
  BY <1>5, <1>3, DiskUnchangedType DEF CheckBlocks
<1>6. CASE CheckInputs
  BY <1>6 DEF CheckInputs, DetectArtifactPresent, TypeOK, diskVars
<1>7. ASSUME NEW s \in Stages, StageStep(s) PROVE TypeOK'
  <2>1. CASE SkipUpstreamFailed(s) \/ DryRunStage(s) \/ SkipTrusted(s) \/ SkipUntrusted(s)
    BY <2>1, DiskUnchangedType, RecordType
       DEF SkipUpstreamFailed, DryRunStage, SkipTrusted, SkipUntrusted,
           Satisfied, Unsatisfied
  <2>2. CASE StageOk(s)
    BY <2>2, WroteType, RecordType DEF StageOk, Satisfied
  <2>3. CASE StageFail(s)
    <3>1. DiskTypeOK'
      BY <2>3, WroteType, DiskUnchangedType DEF StageFail
    <3>2. QED BY <2>3, <3>1, RecordType DEF StageFail, Unsatisfied
  <2>4. QED BY <1>7, <2>1, <2>2, <2>3 DEF StageStep
<1>8. CASE FinishDay
  BY <1>8 DEF FinishDay, ClassifyDayStatus, diskVars, loopVars, TypeOK
<1>9. CASE Abort
  BY <1>9, <1>3, WroteType, RawNowType, DiskUnchangedType DEF Abort
<1>10. QED
  BY <1>1, <1>2, <1>4, <1>5, <1>6, <1>7, <1>8, <1>9 DEF Next, Progress

-----------------------------------------------------------------------------
(* What a stage step amounts to: s gets its status v, and nothing but the  *)
(* output of s and the soundness of its consumers can change on disk.      *)
StageEffect(s, v) ==
  /\ pc = "stages" /\ cursor = s
  /\ stat' = [stat EXCEPT ![s] = v]
  /\ cursor' = s + 1 \/ cursor' = N + 1
  /\ UNCHANGED <<raw, sidecar, opt, pc, present, intact, day>>
  /\ \A t \in Stages \ {s} : disk'[t] = disk[t] /\ (t \in sound /\ s \notin Deps[t] => t \in sound')
  /\ v = "UPSTREAM" \/ ~FirstUpstreamFailed(s)
  /\ v = "OK" /\ ~opt.dry => s \in sound'
  /\ v = "TRUSTED" => /\ s \in intact /\ s \in present
                      /\ ~opt.dry /\ ~opt.rebuild /\ disk' = disk
  /\ v \in {"OK", "FAIL"} => opt.dry \/ opt.rebuild \/ s \notin present

LEMMA WroteOthers ==
  ASSUME TypeOK, NEW s \in Stages, NEW end, NEW ok \in BOOLEAN, Wrote(s, end, ok)
  PROVE  /\ \A t \in Stages \ {s} :
              disk'[t] = disk[t] /\ (t \in sound /\ s \notin Deps[t] => t \in sound')
         /\ ok => s \in sound'
         /\ UNCHANGED <<raw, sidecar>>
BY DEF Wrote, TypeOK

LEMMA StageStepEffect ==
  ASSUME TypeOK, NEW s \in Stages, StageStep(s)
  PROVE  \E v \in Satisfied \cup Unsatisfied : StageEffect(s, v)
<1>1. CASE SkipUpstreamFailed(s)
  <2>1. StageEffect(s, "UPSTREAM")
    BY <1>1 DEF SkipUpstreamFailed, Record, AtStage, diskVars, StageEffect
  <2>2. QED BY <2>1 DEF Unsatisfied
<1>2. CASE DryRunStage(s)
  <2>1. StageEffect(s, "OK")
    BY <1>2 DEF DryRunStage, Record, AtStage, diskVars, StageEffect
  <2>2. QED BY <2>1 DEF Satisfied
<1>3. CASE SkipTrusted(s)
  <2>1. StageEffect(s, "TRUSTED")
    BY <1>3 DEF SkipTrusted, Reuses, Record, AtStage, diskVars, StageEffect
  <2>2. QED BY <2>1 DEF Satisfied
<1>4. CASE SkipUntrusted(s)
  <2>1. StageEffect(s, "UNTRUSTED")
    BY <1>4 DEF SkipUntrusted, Reuses, Record, AtStage, diskVars, StageEffect
  <2>2. QED BY <2>1 DEF Unsatisfied
<1>5. CASE StageOk(s)
  <2>1. PICK end \in GoodEnds(s) : Wrote(s, end, TRUE)
    BY <1>5 DEF StageOk
  <2>2. StageEffect(s, "OK")
    BY <1>5, <2>1, WroteOthers DEF StageOk, Runs, Record, AtStage, StageEffect
  <2>3. QED BY <2>2 DEF Satisfied
<1>6. CASE StageFail(s)
  <2>1. /\ \A t \in Stages \ {s} :
             disk'[t] = disk[t] /\ (t \in sound /\ s \notin Deps[t] => t \in sound')
        /\ UNCHANGED <<raw, sidecar>>
    <3>1. CASE UNCHANGED diskVars
      BY <3>1 DEF diskVars
    <3>2. CASE \E end \in BadEnds(s) : Wrote(s, end, FALSE)
      BY <3>2, WroteOthers
    <3>3. QED BY <1>6, <3>1, <3>2 DEF StageFail
  <2>2. StageEffect(s, "FAIL")
    BY <1>6, <2>1 DEF StageFail, Runs, Record, AtStage, StageEffect
  <2>3. QED BY <2>2 DEF Unsatisfied
<1>7. QED BY <1>1, <1>2, <1>3, <1>4, <1>5, <1>6 DEF StageStep

(* What the remaining steps amount to, ProcessOneDate and CheckInputs      *)
(* apart: no stage is decided, and what a decided stage rests on is kept.  *)
QuietEffect ==
  /\ UNCHANGED <<opt, loopVars>>
  /\ pc' # "stages"
  /\ pc' \in {"download", "check"} => pc \in {"download", "check"}
  /\ sidecar' = sidecar \/ pc = "download"
  /\ \A t \in Stages : stat[t] # "NONE" =>
       disk'[t] = disk[t] /\ (t \in sound => t \in sound')

LEMMA RawNowQuiet ==
  ASSUME Undecided, pc = "download", NEW e, RawNow(e)
  PROVE  \A t \in Stages : stat[t] = "NONE"
BY DEF Undecided

LEMMA AbortKeeps ==
  ASSUME TypeOK, Ahead, NEW s \in Stages, AtStage(s), NEW end, NEW ok \in BOOLEAN,
         Wrote(s, end, ok), NEW t \in Stages, stat[t] # "NONE"
  PROVE  disk'[t] = disk[t] /\ (t \in sound => t \in sound') /\ sidecar' = sidecar
<1>1. t < s
  BY DEF Ahead, AtStage, TypeOK, Stages
<1>2. s \notin Deps[t]
  BY <1>1, DayAssumption DEF Stages
<1>3. QED BY <1>1, <1>2, WroteOthers DEF Stages

LEMMA QuietSteps ==
  ASSUME TypeOK, Undecided, Ahead,
         DownloadStep \/ CheckBlocks \/ FinishDay \/ Abort
  PROVE  QuietEffect
<1>1. ASSUME StopDay, UNCHANGED diskVars PROVE QuietEffect
  BY <1>1 DEF StopDay, diskVars, QuietEffect
<1>2. CASE DownloadStep
  <2>1. CASE StopBeforeDownload \/ GiveUpDownload
    BY <2>1, <1>1 DEF StopBeforeDownload, GiveUpDownload
  <2>2. CASE SkipDownload
    BY <2>2 DEF SkipDownload, diskVars, QuietEffect
  <2>3. CASE DownloadSucceeds
    BY <2>3 DEF DownloadSucceeds, Downloading, Undecided, QuietEffect
  <2>4. CASE DownloadFails
    BY <2>4 DEF DownloadFails, Downloading, Undecided, QuietEffect
  <2>5. QED BY <1>2, <2>1, <2>2, <2>3, <2>4 DEF DownloadStep
<1>3. CASE CheckBlocks
  BY <1>3, <1>1 DEF CheckBlocks
<1>4. CASE FinishDay
  BY <1>4 DEF FinishDay, diskVars, QuietEffect
<1>5. CASE Abort
  <2>1. CASE UNCHANGED diskVars
    BY <1>5, <2>1, <1>1 DEF Abort
  <2>2. CASE Downloading /\ \E e \in RawWrites \cup Described : RawNow(e)
    BY <1>5, <2>2 DEF Abort, StopDay, Downloading, Undecided, QuietEffect
  <2>3. ASSUME NEW s \in Stages, AtStage(s), NEW end, NEW ok \in BOOLEAN,
               Wrote(s, end, ok)
        PROVE  QuietEffect
    <3>1. sidecar' = sidecar
      BY <2>3, WroteOthers
    <3>2. QED BY <1>5, <2>3, <3>1, AbortKeeps DEF Abort, StopDay, QuietEffect
  <2>4. QED BY <1>5, <2>1, <2>2, <2>3 DEF Abort
<1>6. QED BY <1>2, <1>3, <1>4, <1>5

-----------------------------------------------------------------------------
(* The inductive step, one lemma for each of the three kinds of step and   *)
(* one for ProcessOneDate.                                                 *)
LEMMA EnterStep == DayInv /\ ProcessOneDate => DayInv'
<1> SUFFICES ASSUME DayInv, ProcessOneDate PROVE DayInv'
  OBVIOUS
<1>1. TypeOK'
  BY TypeStep DEF DayInv, Next
<1>2. \A s \in Stages : stat'[s] = "NONE"
  BY DEF ProcessOneDate
<1>3. pc' = "download" /\ day' = "RUNNING" /\ cursor' = 1
  BY DEF ProcessOneDate
<1>4. QED
  BY <1>1, <1>2, <1>3 DEF DayInv, Undecided, Ahead, Behind, Verdicts,
     PresentIsNotRerun, ReusedIsPresent, StandsOnSatisfied, ReuseIsDownwardClosed,
     RanMeansSound, RecordedTruncationBlocks, CompleteIsEarned, Satisfied

LEMMA CheckStep == DayInv /\ CheckInputs => DayInv'
<1> SUFFICES ASSUME DayInv, CheckInputs PROVE DayInv'
  OBVIOUS
<1>1. TypeOK'
  BY TypeStep DEF DayInv, Next, Progress
<1>2. /\ \A s \in Stages : stat'[s] = "NONE"
      /\ cursor' = 1 /\ pc' = "stages"
      /\ UNCHANGED <<diskVars, opt, day>>
  BY DEF CheckInputs, DayInv, Undecided
<1>3. Ahead'
  BY <1>2 DEF Ahead, CheckInputs, DetectArtifactPresent, diskVars
<1>4. Verdicts'
  BY <1>2 DEF Verdicts, CheckInputs, IsTrustVerdict, RawBlocks,
     EvaluateCmeRawTrust, diskVars
<1>5. /\ Undecided' /\ Behind' /\ PresentIsNotRerun' /\ ReusedIsPresent'
      /\ StandsOnSatisfied' /\ ReuseIsDownwardClosed' /\ RanMeansSound'
      /\ RecordedTruncationBlocks'
  <2>1. \A s \in Stages : ~(s < cursor')
    BY <1>2 DEF Stages
  <2>2. present' \subseteq Stages
    BY <1>1 DEF TypeOK
  <2>3. QED BY <1>2, <2>1, <2>2 DEF Undecided, Behind, PresentIsNotRerun,
             ReusedIsPresent, StandsOnSatisfied, ReuseIsDownwardClosed,
             RanMeansSound, RecordedTruncationBlocks, Satisfied
<1>6. CompleteIsEarned'
  BY <1>2 DEF CompleteIsEarned, DayInv, CheckInputs, Undecided
<1>7. QED BY <1>1, <1>3, <1>4, <1>5, <1>6 DEF DayInv

LEMMA QuietStep ==
  DayInv /\ (DownloadStep \/ CheckBlocks \/ FinishDay \/ Abort) => DayInv'
<1> SUFFICES ASSUME DayInv, DownloadStep \/ CheckBlocks \/ FinishDay \/ Abort
             PROVE  DayInv'
  OBVIOUS
<1>1. TypeOK'
  BY TypeStep DEF DayInv, Next, Progress
<1>2. QuietEffect
  BY QuietSteps DEF DayInv
<1>3. stat' = stat /\ cursor' = cursor /\ opt' = opt /\ pc' # "stages"
  BY <1>2 DEF QuietEffect, loopVars
<1>4. Undecided' /\ Ahead' /\ Behind' /\ Verdicts' /\ PresentIsNotRerun'
  BY <1>2, <1>3 DEF QuietEffect, DayInv, Undecided, Ahead, Behind, Verdicts,
     PresentIsNotRerun
<1>5. ReusedIsPresent' /\ RanMeansSound'
  BY <1>2, <1>3 DEF QuietEffect, DayInv, ReusedIsPresent, RanMeansSound
<1>6. StandsOnSatisfied' /\ ReuseIsDownwardClosed'
  BY <1>3 DEF DayInv, StandsOnSatisfied, ReuseIsDownwardClosed
<1>7. RecordedTruncationBlocks'
  <2>1. CASE sidecar' = sidecar
    BY <2>1, <1>3 DEF DayInv, RecordedTruncationBlocks
  <2>2. CASE pc = "download"
    BY <2>2, <1>3 DEF DayInv, Undecided, RecordedTruncationBlocks, Satisfied
  <2>3. QED BY <1>2, <2>1, <2>2 DEF QuietEffect
<1>8. CompleteIsEarned'
  <2>1. CASE day' = day
    BY <2>1, <1>2, <1>3 DEF QuietEffect, DayInv, CompleteIsEarned
  <2>2. CASE FinishDay
    <3> SUFFICES ASSUME day' = "COMPLETE", ~opt'.dry, NEW s \in Stages
                 PROVE  \/ stat'[s] = "OK" /\ s \in sound'
                        \/ stat'[s] = "TRUSTED" /\ disk'[s] = "present"
      BY DEF CompleteIsEarned
    <3>1. stat[s] \in Satisfied
      BY <2>2 DEF FinishDay, ClassifyDayStatus, Unmet
    <3>2. QED
      BY <3>1, <1>3, <1>5 DEF Satisfied, ReusedIsPresent, RanMeansSound
  <2>3. CASE day' = "STOPPED"
    BY <2>3 DEF CompleteIsEarned
  <2>4. day' = day \/ FinishDay \/ day' = "STOPPED"
    BY DEF DownloadStep, StopBeforeDownload, SkipDownload, DownloadSucceeds,
       DownloadFails, GiveUpDownload, CheckBlocks, Abort, StopDay
  <2>5. QED BY <2>1, <2>2, <2>3, <2>4
<1>9. QED BY <1>1, <1>4, <1>5, <1>6, <1>7, <1>8 DEF DayInv

LEMMA LoopStep == ASSUME DayInv, NEW s \in Stages, StageStep(s) PROVE DayInv'
<1>1. TypeOK'
  BY TypeStep DEF DayInv, Next, Progress
<1>2. PICK v \in Satisfied \cup Unsatisfied : StageEffect(s, v)
  BY StageStepEffect DEF DayInv
<1> DEFINE Decided(t) == stat[t] # "NONE"
<1>3. /\ stat'[s] = v
      /\ \A t \in Stages \ {s} : stat'[t] = stat[t]
  BY <1>2 DEF StageEffect, DayInv, TypeOK
<1>4. stat[s] = "NONE" /\ s \in Int /\ N \in Int
  BY <1>2, DayAssumption DEF StageEffect, DayInv, Ahead, Stages
<1>5. \A t \in Stages : Decided(t) =>
        /\ t < s /\ s \notin Deps[t] /\ t # s
        /\ disk'[t] = disk[t] /\ (t \in sound => t \in sound')
  <2> SUFFICES ASSUME NEW t \in Stages, Decided(t)
               PROVE  /\ t < s /\ s \notin Deps[t] /\ t # s
                      /\ disk'[t] = disk[t] /\ (t \in sound => t \in sound')
    OBVIOUS
  <2>1. t < s
    BY <1>2 DEF StageEffect, DayInv, Ahead, Stages
  <2>2. s \notin Deps[t]
    BY <2>1, DayAssumption DEF Stages
  <2>3. QED BY <1>2, <2>1, <2>2, <1>4 DEF StageEffect
<1>6. v \in Satisfied \cup {"FAIL"} => \A d \in StageDeps(s) : stat[d] \in Satisfied
  <2> SUFFICES ASSUME v \in Satisfied \cup {"FAIL"}, NEW d \in StageDeps(s)
               PROVE  stat[d] \in Satisfied
    OBVIOUS
  <2>1. d \in Stages /\ d < s
    BY DepsBefore
  <2>2. stat[d] # "NONE"
    BY <1>2, <2>1 DEF StageEffect, DayInv, Behind, Stages
  <2>3. stat[d] \notin Unsatisfied
    BY <1>2 DEF StageEffect, FirstUpstreamFailed, Satisfied, Unsatisfied
  <2>4. QED BY <2>1, <2>2, <2>3 DEF DayInv, TypeOK
<1>7. v = "TRUSTED" =>
        /\ s \in intact /\ disk'[s] = "present"
        /\ \A d \in StageDeps(s) : stat[d] = "TRUSTED"
  <2> SUFFICES ASSUME v = "TRUSTED"
               PROVE  /\ s \in intact /\ disk'[s] = "present"
                      /\ \A d \in StageDeps(s) : stat[d] = "TRUSTED"
    OBVIOUS
  <2>1. s \in intact /\ s \in present /\ ~opt.dry /\ ~opt.rebuild /\ disk' = disk
    BY <1>2 DEF StageEffect
  <2>2. disk[s] = "present"
    BY <1>2, <1>4, <2>1 DEF StageEffect, DayInv, Ahead
  <2>3. StageDeps(s) \subseteq present
    BY <1>2, <2>1 DEF StageEffect, DayInv, Verdicts, TypeOK
  <2>4. ASSUME NEW d \in StageDeps(s) PROVE stat[d] = "TRUSTED"
    <3>1. stat[d] \in Satisfied
      BY <1>6 DEF Satisfied
    <3>2. stat[d] # "OK"
      BY <1>2, <2>1, <2>3 DEF StageEffect, DayInv, PresentIsNotRerun
    <3>3. QED BY <3>1, <3>2 DEF Satisfied
  <2>5. QED BY <2>1, <2>2, <2>4
<1>8. Undecided' /\ Verdicts'
  BY <1>2 DEF StageEffect, DayInv, Undecided, Verdicts, RawBlocks, EvaluateCmeRawTrust
<1>9. Ahead'
  <2> SUFFICES ASSUME NEW t \in Stages, t >= cursor'
               PROVE  stat'[t] = "NONE" /\ (t \in present' => disk'[t] = "present")
    BY DEF Ahead
  <2>1. t > s /\ t # s
    BY <1>2, <1>4 DEF StageEffect, Stages
  <2>2. QED BY <1>2, <1>3, <2>1 DEF StageEffect, DayInv, Ahead, Stages
<1>10. Behind'
  <2> SUFFICES ASSUME cursor' <= N, NEW t \in Stages, t < cursor'
               PROVE  stat'[t] # "NONE"
    BY DEF Behind
  <2>1. cursor' = s + 1 /\ (t < s \/ t = s)
    BY <1>2, <1>4 DEF StageEffect, Stages
  <2>2. v # "NONE"
    BY DEF Satisfied, Unsatisfied
  <2>3. cursor = s /\ cursor <= N
    BY <1>2 DEF StageEffect, Stages
  <2>4. QED BY <1>2, <1>3, <2>1, <2>2, <2>3 DEF StageEffect, DayInv, Behind
<1>11. PresentIsNotRerun'
  BY <1>1, <1>2, <1>3 DEF StageEffect, DayInv, PresentIsNotRerun, TypeOK
<1>12. ReusedIsPresent'
  BY <1>3, <1>5, <1>7 DEF DayInv, ReusedIsPresent
<1>13. StandsOnSatisfied'
  <2> SUFFICES ASSUME NEW t \in Stages, stat'[t] \in Satisfied \cup {"FAIL"},
                      NEW d \in StageDeps(t)
               PROVE  stat'[d] \in Satisfied
    BY DEF StandsOnSatisfied, StageDeps
  <2>1. d \in Stages
    BY DepsBefore
  <2>2. stat[d] \in Satisfied
    BY <1>3, <1>6 DEF DayInv, StandsOnSatisfied
  <2>3. d # s
    BY <2>2, <1>4 DEF Satisfied
  <2>4. QED BY <1>3, <2>1, <2>2, <2>3
<1>14. ReuseIsDownwardClosed'
  <2> SUFFICES ASSUME NEW t \in Stages, stat'[t] = "TRUSTED", NEW d \in StageDeps(t)
               PROVE  stat'[d] = "TRUSTED"
    BY DEF ReuseIsDownwardClosed, StageDeps
  <2>1. d \in Stages
    BY DepsBefore
  <2>2. stat[d] = "TRUSTED"
    BY <1>3, <1>7 DEF DayInv, ReuseIsDownwardClosed
  <2>3. d # s
    BY <2>2, <1>4
  <2>4. QED BY <1>3, <2>1, <2>2, <2>3
<1>15. RanMeansSound'
  <2>1. opt' = opt /\ (v = "OK" /\ ~opt.dry => s \in sound')
    BY <1>2 DEF StageEffect
  <2>2. QED BY <1>3, <1>5, <2>1 DEF DayInv, RanMeansSound
<1>16. RecordedTruncationBlocks'
  <2>1. /\ sidecar' = sidecar /\ opt' = opt
        /\ ~RawBlocks /\ \A t \in intact : EvaluateCmeRawTrust
    BY <1>2 DEF StageEffect, DayInv, Verdicts
  <2>2. QED BY <1>3, <1>7, <2>1 DEF DayInv, RecordedTruncationBlocks, RawBlocks,
             EvaluateCmeRawTrust
<1>17. CompleteIsEarned'
  BY <1>2, <1>4 DEF StageEffect, DayInv, CompleteIsEarned
<1>18. QED BY <1>1, <1>8, <1>9, <1>10, <1>11, <1>12, <1>13, <1>14, <1>15, <1>16,
             <1>17 DEF DayInv

LEMMA NextInv == DayInv /\ [Next]_vars => DayInv'
<1>1. CASE UNCHANGED vars
  BY <1>1 DEF vars, DayInv, TypeOK, Undecided, Ahead, Behind, Verdicts,
     PresentIsNotRerun, ReusedIsPresent, StandsOnSatisfied, ReuseIsDownwardClosed,
     RanMeansSound, RecordedTruncationBlocks, CompleteIsEarned, RawBlocks,
     EvaluateCmeRawTrust
<1>2. QED
  BY <1>1, EnterStep, CheckStep, QuietStep, LoopStep DEF Next, Progress

-----------------------------------------------------------------------------
(* The inductive invariant holds in every reachable state.                 *)
THEOREM DayInvariant == Spec => []DayInv
BY InitInv, NextInv, PTL DEF Spec

(* Every state of a day, however often it is invoked, is well typed.       *)
THEOREM DayTypeOK == Spec => []TypeOK
BY DayInvariant, PTL DEF DayInv

(* Reused output stands on reused output: process_one_date never combines  *)
(* what it takes from disk with a predecessor it has just run again.       *)
THEOREM DayReuse == Spec => []ReuseIsDownwardClosed
BY DayInvariant, PTL DEF DayInv

(* DAY_COMPLETE is earned stage by stage, whatever the earlier invocations *)
(* left behind and wherever they were cut short.                           *)
THEOREM DayComplete == Spec => []CompleteIsEarned
BY DayInvariant, PTL DEF DayInv

(* What a stage that passed left on disk is what it wrote from inputs the  *)
(* rest of the invocation leaves alone.                                    *)
THEOREM DayRanSound == Spec => []RanMeansSound
BY DayInvariant, PTL DEF DayInv

(* A sidecar that says truncated keeps every stage from being run or       *)
(* reused without the override.                                            *)
THEOREM DayTruncation == Spec => []RecordedTruncationBlocks
BY DayInvariant, PTL DEF DayInv

-----------------------------------------------------------------------------
(* The action property and the refinement.                                 *)

LEMMA WroteKeeps ==
  ASSUME TypeOK, NEW s \in Stages, AtStage(s), s \notin present,
         NEW end, NEW ok \in BOOLEAN, Wrote(s, end, ok), NEW t \in present
  PROVE  disk'[t] = disk[t] /\ (t \in sound' => t \in sound)
BY DEF Wrote, TypeOK

LEMMA LoopWrites ==
  ASSUME pc = "stages", Next
  PROVE  \/ UNCHANGED <<disk, sound>>
         \/ \E s \in Stages, end \in {"partial", "present"}, ok \in BOOLEAN :
              AtStage(s) /\ Runs(s) /\ Wrote(s, end, ok)
<1>1. CASE Abort
  BY <1>1, EndsType DEF Abort, Downloading, diskVars
<1>2. CASE Progress
  <2>1. CASE DownloadStep \/ CheckBlocks \/ CheckInputs \/ FinishDay
    BY <2>1 DEF DownloadStep, StopBeforeDownload, SkipDownload, DownloadSucceeds,
       DownloadFails, GiveUpDownload, Downloading, CheckBlocks, CheckInputs,
       FinishDay, diskVars
  <2>2. ASSUME NEW s \in Stages, StageStep(s)
        PROVE  \/ UNCHANGED <<disk, sound>>
               \/ \E end \in {"partial", "present"}, ok \in BOOLEAN :
                    AtStage(s) /\ Runs(s) /\ Wrote(s, end, ok)
    BY <2>2, EndsType DEF StageStep, SkipUpstreamFailed, DryRunStage, SkipTrusted,
       SkipUntrusted, StageOk, StageFail, diskVars
  <2>3. QED BY <1>2, <2>1, <2>2 DEF Progress
<1>3. CASE ProcessOneDate
  BY <1>3 DEF ProcessOneDate
<1>4. QED BY <1>1, <1>2, <1>3 DEF Next

(* Without --rebuild-existing an output that was whole when the loop began *)
(* is not rewritten, whatever else fails or is killed.                     *)
THEOREM DayKeepsPresent == Spec => NothingPresentIsRewritten
<1> DEFINE Kept ==
      \A s \in Stages :
        pc = "stages" /\ ~opt.rebuild /\ s \in present
          => disk'[s] = disk[s] /\ (s \in sound' => s \in sound)
<1>1. DayInv /\ [Next]_vars => [Kept]_vars
  <2> SUFFICES ASSUME DayInv, Next, pc = "stages", ~opt.rebuild
               PROVE  \A s \in present :
                        disk'[s] = disk[s] /\ (s \in sound' => s \in sound)
    BY DEF DayInv, TypeOK
  <2>1. CASE UNCHANGED <<disk, sound>>
    BY <2>1
  <2>2. ASSUME NEW s \in Stages, NEW end, NEW ok \in BOOLEAN,
               AtStage(s), Runs(s), Wrote(s, end, ok)
        PROVE  \A t \in present : disk'[t] = disk[t] /\ (t \in sound' => t \in sound)
    BY <2>2, WroteKeeps DEF Runs, DayInv
  <2>3. QED BY <2>1, <2>2, LoopWrites
<1>2. QED
  BY <1>1, DayInvariant, PTL DEF Spec, NothingPresentIsRewritten

(* The steps left are counted by a number.                                 *)
LEMMA RankIsBounded == DayInv => Rank \in 0..LongestInvocation
BY DayAssumption DEF DayInv, TypeOK, Rank, LongestInvocation

(* An invocation advances with every step, whatever fails in it: it takes  *)
(* N + MaxRetries + 3 steps at most (the loops of run_day_download and     *)
(* process_one_date).                                                      *)
THEOREM DayAdvances == Spec => InvocationAdvances /\ [](Rank \in 0..LongestInvocation)
<1>1. DayInv /\ [Next]_vars => [pc # "idle" => Rank' < Rank]_vars
  <2> SUFFICES ASSUME DayInv, Next, pc # "idle" PROVE Rank' < Rank
    OBVIOUS
  <2> USE DayAssumption
  <2>1. N \in Nat /\ MaxRetries \in Nat /\ attempt \in 0..(MaxRetries + 1) /\ cursor \in 1..(N + 1)
    BY DEF DayInv, TypeOK
  <2>2. pc \in {"download", "check", "stages"} /\ (pc = "check" => cursor = 1) /\ Rank > 0
    BY <2>1 DEF DayInv, TypeOK, Undecided, Rank
  <2>3. ASSUME pc' = "idle" PROVE Rank' < Rank
    BY <2>1, <2>2, <2>3 DEF Rank
  <2>4. CASE DownloadStep
    <3>1. CASE StopBeforeDownload \/ GiveUpDownload
      BY <2>3, <3>1 DEF StopBeforeDownload, GiveUpDownload, StopDay
    <3>2. CASE SkipDownload \/ DownloadSucceeds
      BY <2>1, <3>2 DEF SkipDownload, DownloadSucceeds, Downloading, Rank
    <3>3. CASE DownloadFails
      BY <2>1, <3>3 DEF DownloadFails, Downloading, Rank
    <3>4. QED BY <2>4, <3>1, <3>2, <3>3 DEF DownloadStep
  <2>5. CASE CheckBlocks \/ FinishDay \/ Abort
    BY <2>3, <2>5 DEF CheckBlocks, FinishDay, Abort, StopDay
  <2>6. CASE CheckInputs
    BY <2>1, <2>2, <2>6 DEF CheckInputs, Rank
  <2>7. ASSUME NEW s \in Stages, StageStep(s) PROVE Rank' < Rank
    <3>1. pc = "stages" /\ pc' = "stages" /\ cursor = s /\ cursor' \in {s + 1, N + 1}
      BY <2>7 DEF StageStep, SkipUpstreamFailed, DryRunStage, SkipTrusted, SkipUntrusted,
         StageOk, StageFail, Record, AtStage
    <3>2. s \in Int /\ s <= N
      BY <2>1 DEF Stages
    <3>3. QED BY <2>1, <3>1, <3>2 DEF Rank
  <2>8. QED BY <2>4, <2>5, <2>6, <2>7 DEF Next, Progress, ProcessOneDate
<1>2. QED
  BY <1>1, RankIsBounded, DayInvariant, PTL DEF Spec, InvocationAdvances

LEMMA LedgerInitially == Init => Ledger!LedgerInit
BY DEF Init, Ledger!LedgerInit, Verdict, Outcome

LEMMA LedgerStutters ==
  ASSUME stat' = stat, Outcome' = Outcome
  PROVE  UNCHANGED Ledger!ledgerVars
BY DEF Ledger!ledgerVars, Verdict

(* Each step of a day opens, settles or closes the round, or stutters.     *)
LEMMA LedgerStep ==
  DayInv /\ [Next]_vars => [Ledger!LedgerNext]_(Ledger!ledgerVars)
<1> SUFFICES ASSUME DayInv, [Next]_vars
             PROVE  Ledger!LedgerNext \/ UNCHANGED Ledger!ledgerVars
  OBVIOUS
<1> DEFINE Map == [s \in Stages |-> Verdict(stat[s])]
<1>1. CASE UNCHANGED vars
  BY <1>1, LedgerStutters DEF vars, Outcome
<1>2. CASE ProcessOneDate
  <2>1. Outcome # "running" /\ Outcome' = "running"
    BY <1>2 DEF ProcessOneDate, Outcome
  <2>2. Map' = [s \in Stages |-> "open"]
    BY <1>2 DEF ProcessOneDate, Verdict
  <2>3. Ledger!Open
    BY <2>1, <2>2 DEF Ledger!Open
  <2>4. QED BY <2>3 DEF Ledger!LedgerNext
<1>3. ASSUME pc # "idle", pc' # "idle", stat' = stat
      PROVE  UNCHANGED Ledger!ledgerVars
  BY <1>3, LedgerStutters DEF Outcome
<1>4. ASSUME pc # "idle", StopDay PROVE Ledger!LedgerNext
  <2>1. Outcome = "running" /\ Outcome' = "failed" /\ Map' = Map
    BY <1>4 DEF StopDay, Outcome, loopVars
  <2>2. Ledger!Close("failed")
    BY <2>1 DEF Ledger!Close
  <2>3. QED BY <2>2 DEF Ledger!LedgerNext
<1>5. CASE DownloadStep
  BY <1>5, <1>3, <1>4 DEF DownloadStep, StopBeforeDownload, SkipDownload,
     DownloadSucceeds, DownloadFails, GiveUpDownload, Downloading, loopVars
<1>6. CASE CheckBlocks \/ Abort
  BY <1>6, <1>4 DEF CheckBlocks, Abort
<1>7. CASE CheckInputs
  BY <1>7, <1>3 DEF CheckInputs
<1>8. ASSUME NEW s \in Stages, StageStep(s) PROVE Ledger!LedgerNext
  <2>1. PICK v \in Satisfied \cup Unsatisfied : StageEffect(s, v)
    BY <1>8, StageStepEffect DEF DayInv
  <2>2. Outcome = "running" /\ Outcome' = "running"
    BY <2>1 DEF StageEffect, Outcome
  <2>3. stat[s] = "NONE" /\ stat'[s] = v
    BY <2>1, DayAssumption DEF StageEffect, DayInv, Ahead, Stages, TypeOK
  <2>4. Map' = [Map EXCEPT ![s] = Verdict(v)]
    BY <2>1, <2>3 DEF StageEffect, DayInv, TypeOK
  <2>5. Verdict(v) \in {"good", "bad"} /\ (Verdict(v) = "good" => v \in Satisfied)
    BY DEF Verdict, Satisfied, Unsatisfied
  <2>6. v \in Satisfied => \A d \in StageDeps(s) : d \in Stages /\ Map[d] = "good"
    <3> SUFFICES ASSUME v \in Satisfied, NEW d \in StageDeps(s)
                 PROVE  d \in Stages /\ Map[d] = "good"
      OBVIOUS
    <3>1. d \in Stages /\ d # s
      BY DepsBefore
    <3>2. StandsOnSatisfied'
      BY <1>8, LoopStep DEF DayInv
    <3>3. stat'[d] \in Satisfied
      BY <2>3, <3>2 DEF StandsOnSatisfied, StageDeps
    <3>4. stat[d] \in Satisfied
      BY <2>1, <3>1, <3>3 DEF StageEffect, DayInv, TypeOK
    <3>5. QED BY <3>1, <3>4 DEF Verdict, Satisfied
  <2>7. Ledger!Settle(s, Verdict(v))
    BY <2>2, <2>3, <2>4, <2>5, <2>6 DEF Ledger!Settle, Ledger!Good, Verdict
  <2>8. QED BY <2>5, <2>7 DEF Ledger!LedgerNext
<1>9. CASE FinishDay
  <2>1. Outcome = "running" /\ Map' = Map
    BY <1>9 DEF FinishDay, Outcome, loopVars
  <2>2. Outcome' \in {"complete", "partial", "failed"}
    BY <1>9 DEF FinishDay, ClassifyDayStatus, Outcome
  <2>3. Outcome' = "complete" => \A s \in Stages : Map[s] = "good"
    BY <1>9 DEF FinishDay, ClassifyDayStatus, Outcome, Unmet, Verdict, Satisfied
  <2>4. Outcome' = "partial" => \A s \in Required : s \in Stages /\ Map[s] = "good"
    BY <1>9, DayAssumption
       DEF FinishDay, ClassifyDayStatus, Outcome, Unmet, Verdict, Satisfied
  <2>5. Ledger!Close(Outcome')
    BY <2>1, <2>2, <2>3, <2>4 DEF Ledger!Close, Ledger!Good
  <2>6. QED BY <2>2, <2>5 DEF Ledger!LedgerNext
<1>10. QED
  BY <1>1, <1>2, <1>5, <1>6, <1>7, <1>8, <1>9 DEF Next, Progress

(* A day, over any number of invocations, implements the abstract ledger.  *)
THEOREM DayImplementsLedger == Spec => LedgerRefined
BY LedgerInitially, LedgerStep, DayInvariant, PTL
   DEF Spec, LedgerRefined, Ledger!LedgerSpec

-----------------------------------------------------------------------------
(* The numbers below a number, as a relation: induction over numbers comes *)
(* from NatLessThanWellFounded, whose relation it is.                      *)
Smaller == {p \in Nat \X Nat : p[1] < p[2]}

(* A set of numbers that is not empty has a least one.                     *)
LEMMA LeastNat ==
  ASSUME NEW T, T \subseteq Nat, T # {}
  PROVE  \E n \in T : \A m \in T : n <= m
<1>1. Smaller = OpToRel(<, Nat)
  BY DEF OpToRel, Smaller
<1>2. \E n \in T : \A m \in T : <<m, n>> \notin Smaller
  BY <1>1, NatLessThanWellFounded, WFMin
<1>3. PICK n \in T : \A m \in T : <<m, n>> \notin Smaller
  BY <1>2
<1>4. ASSUME NEW m \in T PROVE n <= m
  <2>1. m \in Nat /\ n \in Nat /\ <<m, n>> \notin Smaller
    BY <1>3
  <2>2. <<m, n>> \in Nat \X Nat /\ <<m, n>>[1] = m /\ <<m, n>>[2] = n
    BY <2>1
  <2>3. ~(m < n)
    BY <2>1, <2>2 DEF Smaller
  <2>4. QED BY <2>1, <2>3
<1>5. QED BY <1>4

(* A verdict up to stage n: what evaluate_stage_trust has decided when it   *)
(* has been asked for the stages 1..n.                                     *)
IsVerdictUpTo(n, T) ==
  T = {s \in DetectArtifactPresent :
         s <= n /\ EvaluateCmeRawTrust /\ StageDeps(s) \subseteq T}

LEMMA VerdictUpTo == \A n \in 0..N : \E T \in SUBSET Stages : IsVerdictUpTo(n, T)
<1> DEFINE Bad == {n \in 0..N : ~\E T \in SUBSET Stages : IsVerdictUpTo(n, T)}
<1>0. N \in Nat
  BY DayAssumption
<1>1. SUFFICES ASSUME Bad # {} PROVE FALSE
  OBVIOUS
<1>2. PICK n \in Bad : \A m \in Bad : n <= m
  <2>1. Bad \subseteq Nat
    BY <1>0
  <2> HIDE DEF Bad
  <2>2. QED BY <1>1, <2>1, LeastNat
<1>3. n \in 0..N
  OBVIOUS
<1>4. n # 0
  <2>1. IsVerdictUpTo(0, {})
    <3>1. \A s \in Stages : ~(s <= 0)
      BY <1>0 DEF Stages
    <3>2. QED BY <3>1 DEF IsVerdictUpTo, DetectArtifactPresent
  <2>2. QED BY <2>1
<1>5. n - 1 \in 0..N /\ n - 1 \notin Bad
  <2>1. n - 1 \in 0..N /\ ~(n <= n - 1)
    BY <1>0, <1>3, <1>4
  <2> HIDE DEF Bad
  <2>2. QED BY <1>2, <2>1
<1>6. PICK T \in SUBSET Stages : IsVerdictUpTo(n - 1, T)
  BY <1>5
<1> DEFINE U == T \cup {s \in DetectArtifactPresent :
                         s = n /\ EvaluateCmeRawTrust /\ StageDeps(s) \subseteq T}
<1>7. ASSUME NEW s \in Stages, s <= n PROVE StageDeps(s) \subseteq U <=> StageDeps(s) \subseteq T
  <2>1. \A d \in StageDeps(s) : d # n
    BY <1>3, <1>7, DepsBefore DEF Stages
  <2>2. QED BY <2>1
<1>8. \A s \in Stages : s <= n <=> s <= n - 1 \/ s = n
  BY <1>0, <1>3 DEF Stages
<1>9. ASSUME NEW s
      PROVE  s \in U <=> /\ s \in DetectArtifactPresent
                         /\ s <= n /\ EvaluateCmeRawTrust /\ StageDeps(s) \subseteq U
  <2>1. CASE s \notin DetectArtifactPresent
    BY <1>6, <2>1 DEF IsVerdictUpTo
  <2>2. CASE s \in DetectArtifactPresent /\ ~(s <= n)
    BY <1>6, <1>8, <2>2 DEF IsVerdictUpTo, DetectArtifactPresent
  <2>3. CASE s \in DetectArtifactPresent /\ s <= n
    <3>1. s \in Stages /\ (StageDeps(s) \subseteq U <=> StageDeps(s) \subseteq T)
      BY <1>7, <2>3 DEF DetectArtifactPresent
    <3>2. s \in T <=> s <= n - 1 /\ EvaluateCmeRawTrust /\ StageDeps(s) \subseteq T
      BY <1>6, <2>3 DEF IsVerdictUpTo
    <3>3. s <= n - 1 \/ s = n
      BY <1>8, <2>3, <3>1
    <3>4. QED BY <2>3, <3>1, <3>2, <3>3
  <2>4. QED BY <2>1, <2>2, <2>3
<1>10. U \in SUBSET Stages /\ IsVerdictUpTo(n, U)
  <2>1. U \subseteq Stages
    BY DEF DetectArtifactPresent
  <2> HIDE DEF U
  <2>2. QED BY <1>9, <2>1 DEF IsVerdictUpTo
<1>11. QED BY <1>10

(* evaluate_stage_trust has one answer, whatever is on disk and whatever   *)
(* the stage graph: exactly one set of verdicts agrees with the verdicts   *)
(* it gives on the predecessors.  So CheckInputs is never stuck, and       *)
(* chooses nothing.                                                        *)
THEOREM TrustVerdictIsUnique ==
  \E T \in SUBSET DetectArtifactPresent :
    IsTrustVerdict(T) /\ \A U : IsTrustVerdict(U) => U = T
<1>0. N \in Nat
  BY DayAssumption
<1>1. PICK T \in SUBSET Stages : IsVerdictUpTo(N, T)
  BY <1>0, VerdictUpTo
<1>2. IsTrustVerdict(T) /\ T \subseteq DetectArtifactPresent
  <2>1. \A s \in Stages : s <= N
    BY <1>0 DEF Stages
  <2>2. \A s \in DetectArtifactPresent : s <= N
    BY <2>1 DEF DetectArtifactPresent
  <2>3. QED BY <1>1, <2>2 DEF IsVerdictUpTo, IsTrustVerdict
<1>3. ASSUME NEW U, IsTrustVerdict(U) PROVE U = T
  <2> DEFINE Differ == {s \in Stages : s \in U <=> s \notin T}
  <2>1. U \subseteq Stages /\ T \subseteq Stages
    BY <1>2, <1>3 DEF IsTrustVerdict, DetectArtifactPresent
  <2>2. Differ = {}
    <3>1. SUFFICES ASSUME Differ # {} PROVE FALSE
      OBVIOUS
    <3>2. PICK s \in Differ : \A t \in Differ : s <= t
      <4>1. Differ \subseteq Nat
        BY <1>0 DEF Stages
      <4> HIDE DEF Differ
      <4>2. QED BY <3>1, <4>1, LeastNat
    <3>3. \A d \in StageDeps(s) : d \in U <=> d \in T
      <4>1. \A d \in StageDeps(s) : d \in Stages /\ d < s
        BY DepsBefore
      <4>2. \A d \in Stages : d < s => d \notin Differ
        <5>1. \A d \in Stages : d < s => ~(s <= d)
          BY <1>0 DEF Stages
        <5> HIDE DEF Differ
        <5>2. QED BY <3>2, <5>1
      <4>3. QED BY <4>1, <4>2
    <3>4. StageDeps(s) \subseteq U <=> StageDeps(s) \subseteq T
      BY <3>3
    <3>5. s \in U <=> s \in T
      BY <1>2, <1>3, <3>4 DEF IsTrustVerdict
    <3>6. QED BY <3>5
  <2>3. QED BY <2>1, <2>2
<1>4. QED BY <1>2, <1>3

-----------------------------------------------------------------------------
(* The ledger by itself.  Its rounds are opened clean, so what it promises *)
(* of a round holds of every round.                                        *)
LedgerInv ==
  Ledger!LedgerTypeOK /\ Ledger!GoodStandsOnGood /\ Ledger!CompleteIsAllGood

LEMMA LedgerInvStep ==
  LedgerInv /\ [Ledger!LedgerNext]_(Ledger!ledgerVars) => LedgerInv'
<1> DEFINE verdict == [s \in Stages |-> Verdict(stat[s])]
<1> SUFFICES ASSUME LedgerInv, Ledger!LedgerNext \/ UNCHANGED Ledger!ledgerVars
             PROVE  LedgerInv'
  OBVIOUS
<1> USE DEF LedgerInv, Ledger!LedgerTypeOK, Ledger!GoodStandsOnGood,
        Ledger!CompleteIsAllGood, Ledger!Good
<1>0. verdict \in [Stages -> {"open", "good", "bad"}]
  OBVIOUS
<1>1. CASE UNCHANGED Ledger!ledgerVars
  <2>1. verdict' = verdict /\ Outcome' = Outcome
    BY <1>1 DEF Ledger!ledgerVars
  <2>2. QED BY <2>1
<1>2. CASE Ledger!Open
  <2>1. verdict' = [s \in Stages |-> "open"] /\ Outcome' = "running"
    BY <1>2 DEF Ledger!Open
  <2>2. QED BY <2>1
<1>3. ASSUME NEW s \in Stages, NEW v \in {"good", "bad"}, Ledger!Settle(s, v)
      PROVE  LedgerInv'
  <2>1. /\ verdict' = [verdict EXCEPT ![s] = v] /\ Outcome' = Outcome
        /\ Outcome = "running" /\ verdict[s] = "open"
        /\ v = "good" => StageDeps(s) \subseteq {t \in Stages : verdict[t] = "good"}
    BY <1>3 DEF Ledger!Settle
  <2>2. \A t \in Stages : verdict[t] = "good" => verdict'[t] = "good"
    <3> HIDE DEF verdict
    <3>1. QED BY <1>0, <2>1
  <2>3. \A t \in Stages : verdict[t] = "good" => \A d \in StageDeps(t) : d \in Stages /\ verdict[d] = "good"
    OBVIOUS
  <2> HIDE DEF verdict
  <2>4. \A t \in Stages : verdict'[t] = "good" =>
          \A d \in StageDeps(t) : d \in Stages /\ verdict'[d] = "good"
    BY <1>0, <2>1, <2>2, <2>3
  <2>5. verdict' \in [Stages -> {"open", "good", "bad"}]
    BY <1>0, <2>1
  <2> USE DEF verdict
  <2>6. QED BY <2>1, <2>4, <2>5
<1>4. ASSUME NEW o \in {"complete", "partial", "failed"}, Ledger!Close(o)
      PROVE  LedgerInv'
  <2>1. /\ verdict' = verdict /\ Outcome' = o
        /\ o = "complete" => {t \in Stages : verdict[t] = "good"} = Stages
    BY <1>4 DEF Ledger!Close
  <2>2. QED BY <1>4, <2>1
<1>5. QED BY <1>1, <1>2, <1>3, <1>4 DEF Ledger!LedgerNext

(* What the ledger promises is worth implementing: in every round a good   *)
(* stage stands on good ones, and a complete round is all good.            *)
LEMMA LedgerIsSafe ==
  Ledger!LedgerSpec => [](Ledger!GoodStandsOnGood /\ Ledger!CompleteIsAllGood)
<1>1. Ledger!LedgerInit => LedgerInv
  BY DEF Ledger!LedgerInit, LedgerInv, Ledger!LedgerTypeOK, Ledger!GoodStandsOnGood,
         Ledger!CompleteIsAllGood, Ledger!Good
<1>2. LedgerInv => Ledger!GoodStandsOnGood /\ Ledger!CompleteIsAllGood
  BY DEF LedgerInv
<1>3. QED BY <1>1, <1>2, LedgerInvStep, PTL DEF Ledger!LedgerSpec

(* A day inherits it, through the refinement: in every round of run_day a  *)
(* stage counts as good only on good dependencies, and one that is reported*)
(* DAY_COMPLETE has every stage good, over any number of rounds, breaks,   *)
(* failures and kills (orchestration/pipeline_orchestrator.py).            *)
THEOREM DayRoundIsSafe ==
  Spec => [](Ledger!GoodStandsOnGood /\ Ledger!CompleteIsAllGood)
BY DayImplementsLedger, LedgerIsSafe DEF LedgerRefined
=============================================================================
