---------------------------- MODULE DayPipeline ----------------------------
(***************************************************************************)
(* One date under polarix/orchestration/pipeline_orchestrator.py, invoked  *)
(* any number of times: the raw download with its retries and its          *)
(* completeness sidecar, the trust verdicts on what is already on disk,    *)
(* and the stage loop of process_one_date.  What is on disk survives an    *)
(* invocation; every tool may fail, be killed by its timeout or be         *)
(* interrupted between any two of its writes.                              *)
(***************************************************************************)
EXTENDS Integers, FiniteSets

CONSTANTS N,             \* number of stages; stages are 1..N in graph order
          Deps,          \* Deps[s]: predecessors of s, 0 being the raw file
          Required,      \* stages a complete or partial day cannot miss
          ForceCapable,  \* stages whose tool takes --force
          WriteOnce,     \* stages whose tool refuses existing output
          Partitioned,   \* write-once stages that write several partitions
          Options,       \* command lines the operator uses
          MaxRetries     \* max_databento_retries_per_day

Stages == 1..N

ASSUME DayAssumption ==
  /\ N \in Nat \ {0}
  /\ Deps \in [Stages -> SUBSET (0..N)]
  /\ \A s \in Stages : Deps[s] \subseteq 0..(s - 1)
  /\ Required \subseteq Stages
  /\ Partitioned \subseteq WriteOnce
  /\ WriteOnce \subseteq ForceCapable
  /\ ForceCapable \subseteq Stages
  /\ Options \subseteq [force : BOOLEAN, rebuild : BOOLEAN, allow : BOOLEAN,
                        keepGoing : BOOLEAN, download : BOOLEAN, dry : BOOLEAN]
  /\ MaxRetries \in Nat

StageDeps(s) == Deps[s] \ {0}

VARIABLES
  raw,       \* the raw file: none, empty, torn, cut (by the record limit), whole
  sidecar,   \* data_completeness_status beside it, or none
  disk,      \* disk[s]: absent, partial or present output of stage s
  sound,     \* stages whose output a passing tool wrote from the inputs now on disk
  opt,       \* the command line of this invocation
  pc,        \* idle, download, check or stages
  attempt,   \* attempts made by the run_day_download in progress
  present,   \* artifact_presence, as read before the stage loop
  intact,    \* stages whose trust verdict said trust_chain_intact
  cursor,    \* the stage the loop is at
  stat,      \* stage_status
  day        \* final_status of the last report

diskVars == <<raw, sidecar, disk, sound>>
loopVars == <<present, intact, cursor, stat>>
vars == <<raw, sidecar, disk, sound, opt, pc, attempt, present, intact,
          cursor, stat, day>>

Satisfied == {"OK", "TRUSTED"}
Unsatisfied == {"FAIL", "UPSTREAM", "UNTRUSTED"}
Readable == {"cut", "whole"}

TypeOK ==
  /\ raw \in {"none", "empty", "torn", "cut", "whole"}
  /\ sidecar \in {"none", "COMPLETE", "TRUNCATED", "UNKNOWN"}
  /\ disk \in [Stages -> {"absent", "partial", "present"}]
  /\ sound \subseteq Stages
  /\ opt \in Options
  /\ pc \in {"idle", "download", "check", "stages"}
  /\ attempt \in 0..(MaxRetries + 1)
  /\ present \subseteq Stages
  /\ intact \subseteq present
  /\ cursor \in 1..(N + 1)
  /\ stat \in [Stages -> {"NONE"} \cup Satisfied \cup Unsatisfied]
  /\ day \in {"NONE", "RUNNING", "STOPPED", "COMPLETE", "PARTIAL", "FAILED"}

Init ==
  /\ raw = "none" /\ sidecar = "none"
  /\ disk = [s \in Stages |-> "absent"]
  /\ sound = {}
  /\ opt \in Options
  /\ pc = "idle" /\ attempt = 0 /\ day = "NONE"
  /\ present = {} /\ intact = {} /\ cursor = 1
  /\ stat = [s \in Stages |-> "NONE"]

-----------------------------------------------------------------------------
(* Entering process_one_date, and the ways out of it that touch no stage:  *)
(* a resource guard, no MT5 Silver for the date.                           *)

(* Mutant: the statuses of the previous invocation are carried over.       *)
MutantKeepsStatuses ==
  /\ pc = "idle"
  /\ opt' \in Options
  /\ pc' = "download" /\ attempt' = 0 /\ day' = "RUNNING"
  /\ present' = {} /\ intact' = {} /\ cursor' = 1
  /\ UNCHANGED <<diskVars, stat>>

ProcessOneDate ==
  /\ pc = "idle"
  /\ opt' \in Options
  /\ pc' = "download" /\ attempt' = 0 /\ day' = "RUNNING"
  /\ present' = {} /\ intact' = {} /\ cursor' = 1
  /\ stat' = [s \in Stages |-> "NONE"]
  /\ UNCHANGED diskVars

StopDay ==
  /\ pc' = "idle" /\ day' = "STOPPED" /\ attempt' = 0
  /\ UNCHANGED <<opt, loopVars>>

StopBeforeDownload ==
  /\ pc = "download" /\ attempt = 0
  /\ StopDay
  /\ UNCHANGED diskVars

-----------------------------------------------------------------------------
(* The download.                                                           *)

NeedsDownload ==
  /\ ~opt.dry /\ opt.download
  /\ raw \in {"none", "empty"}
  /\ raw = "empty" => opt.force

SkipDownload ==
  /\ pc = "download" /\ attempt = 0 /\ ~NeedsDownload
  /\ pc' = "check"
  /\ UNCHANGED <<diskVars, opt, attempt, loopVars, day>>

(* run_download up to the sidecar: the file is opened, filled, closed, and *)
(* only then described.  A child that dies leaves what it had reached.     *)
RawWrites ==
  {[raw |-> r, sidecar |-> sidecar] : r \in {"empty", "torn", "cut", "whole"}}

(* _detect_completeness on the rows of the file, which can be counted once *)
(* it is written: no limit on the command line says nothing, and a count   *)
(* at the limit says truncated even when the vendor had no more.           *)
Described ==
  [raw : {"whole"}, sidecar : {"COMPLETE", "UNKNOWN", "TRUNCATED"}]
    \cup [raw : {"cut"}, sidecar : {"TRUNCATED"}]

RawNow(e) ==
  /\ raw' = e.raw /\ sidecar' = e.sidecar
  /\ sound' = {s \in sound : 0 \notin Deps[s]}
  /\ disk' = disk

(* Mutant: one attempt more than the retry budget.                         *)
MutantOneMoreAttempt ==
  pc = "download" /\ attempt <= MaxRetries + 1 /\ (attempt = 0 => NeedsDownload)

Downloading ==
  /\ pc = "download"
  /\ attempt <= MaxRetries
  /\ attempt = 0 => NeedsDownload

(* Return code 0, which a truncated download does not get.                 *)
DownloadSucceeds ==
  /\ Downloading
  /\ \E e \in Described : e.sidecar # "TRUNCATED" /\ RawNow(e)
  /\ pc' = "check" /\ attempt' = 0
  /\ UNCHANGED <<opt, loopVars, day>>

(* Mutant: the budget starts again when it is used up.                     *)
MutantBudgetRestarts ==
  /\ Downloading
  /\ \/ UNCHANGED diskVars
     \/ \E e \in RawWrites \cup Described : RawNow(e)
  /\ attempt' = IF attempt = MaxRetries THEN 0 ELSE attempt + 1
  /\ UNCHANGED <<opt, pc, loopVars, day>>

(* Any other end of the child, or its timeout: the attempt is repeated.    *)
DownloadFails ==
  /\ Downloading
  /\ \/ UNCHANGED diskVars
     \/ \E e \in RawWrites \cup Described : RawNow(e)
  /\ attempt' = attempt + 1
  /\ UNCHANGED <<opt, pc, loopVars, day>>

(* Attempts used up, or the vendor says it does not have the range.        *)
GiveUpDownload ==
  /\ pc = "download"
  /\ \/ attempt > MaxRetries
     \/ Downloading
  /\ StopDay
  /\ UNCHANGED diskVars

-----------------------------------------------------------------------------
(* What is on disk is read once, before the loop.                          *)

EvaluateCmeRawTrust ==
  \/ sidecar \in {"none", "COMPLETE"}
  \/ sidecar = "TRUNCATED" /\ opt.allow

DetectArtifactPresent == {s \in Stages : disk[s] = "present"}

(* Mutant: a verdict that does not look at the predecessors.               *)
MutantTrustsAlone(T) == T = {s \in DetectArtifactPresent : EvaluateCmeRawTrust}

(* evaluate_stage_trust, stage by stage: the verdict on s is taken from    *)
(* the raw file's and from the verdicts on the predecessors of s.          *)
IsTrustVerdict(T) ==
  T = {s \in DetectArtifactPresent : EvaluateCmeRawTrust /\ StageDeps(s) \subseteq T}

(* Mutant: the completeness of the raw file is not asked for.              *)
MutantOnlyMissingBlocks == raw = "none"

RawBlocks ==
  \/ raw = "none"
  \/ sidecar = "TRUNCATED" /\ ~opt.allow /\ ~opt.dry

CheckBlocks ==
  /\ pc = "check" /\ RawBlocks
  /\ StopDay
  /\ UNCHANGED diskVars

CheckInputs ==
  /\ pc = "check" /\ ~RawBlocks
  /\ present' = DetectArtifactPresent
  /\ intact' \in SUBSET DetectArtifactPresent
  /\ IsTrustVerdict(intact')
  /\ pc' = "stages"
  /\ UNCHANGED <<diskVars, opt, attempt, cursor, stat, day>>

-----------------------------------------------------------------------------
(* The stage loop.                                                         *)

AtStage(s) == pc = "stages" /\ cursor = s

FirstUpstreamFailed(s) == \E d \in StageDeps(s) : stat[d] \in Unsatisfied

Record(s, v) ==
  /\ stat' = [stat EXCEPT ![s] = v]
  /\ UNCHANGED <<opt, pc, attempt, present, intact, day>>

SkipUpstreamFailed(s) ==
  /\ AtStage(s) /\ FirstUpstreamFailed(s)
  /\ Record(s, "UPSTREAM") /\ cursor' = s + 1
  /\ UNCHANGED diskVars

DryRunStage(s) ==
  /\ AtStage(s) /\ ~FirstUpstreamFailed(s) /\ opt.dry
  /\ Record(s, "OK") /\ cursor' = s + 1
  /\ UNCHANGED diskVars

Reuses(s) == ~FirstUpstreamFailed(s) /\ ~opt.dry /\ s \in present /\ ~opt.rebuild

SkipTrusted(s) ==
  /\ AtStage(s) /\ Reuses(s) /\ s \in intact
  /\ Record(s, "TRUSTED") /\ cursor' = s + 1
  /\ UNCHANGED diskVars

SkipUntrusted(s) ==
  /\ AtStage(s) /\ Reuses(s) /\ s \notin intact
  /\ Record(s, "UNTRUSTED") /\ cursor' = s + 1
  /\ UNCHANGED diskVars

(* Mutant: --force alone runs a stage whose output is there.               *)
MutantForceRebuilds(s) ==
  ~FirstUpstreamFailed(s) /\ ~opt.dry /\ (s \notin present \/ opt.rebuild \/ opt.force)

Runs(s) ==
  ~FirstUpstreamFailed(s) /\ ~opt.dry /\ (s \notin present \/ opt.rebuild)

ForcePassed(s) ==
  s \in ForceCapable /\ (opt.force \/ (opt.rebuild /\ s \in present))

(* What one run of a stage's tool can do to its output: end well (a        *)
(* partitioned tool also ends well when a partition had no rows), or end   *)
(* badly having written.  A report tool that ends badly has either been    *)
(* killed or published a report whose decision is FAIL.                    *)
Refused(s) == s \in WriteOnce /\ ~ForcePassed(s) /\ disk[s] # "absent"

CanRead(s) == 0 \in Deps[s] => raw \in Readable

GoodEnds(s) ==
  IF ~CanRead(s) \/ Refused(s) THEN {}
  ELSE {"present"} \cup (IF s \in Partitioned THEN {"partial"} ELSE {})

BadEnds(s) ==
  IF ~CanRead(s) THEN {}
  ELSE IF s \in Partitioned THEN {"partial", "present"}
  ELSE IF Refused(s) THEN {}
  ELSE {"present"} \cup (IF s \in WriteOnce /\ disk[s] # "present"
                         THEN {"partial"} ELSE {})

Wrote(s, end, ok) ==
  /\ disk' = [disk EXCEPT ![s] = end]
  /\ sound' = ({t \in sound : s \notin Deps[t]} \ {s}) \cup (IF ok THEN {s} ELSE {})
  /\ UNCHANGED <<raw, sidecar>>

(* Mutant: a tool that refuses its existing output counts as passed.       *)
MutantRefusalPasses(s) ==
  /\ AtStage(s) /\ Runs(s)
  /\ \/ \E end \in GoodEnds(s) : Wrote(s, end, TRUE)
     \/ Refused(s) /\ UNCHANGED diskVars
  /\ Record(s, "OK") /\ cursor' = s + 1

StageOk(s) ==
  /\ AtStage(s) /\ Runs(s)
  /\ \E end \in GoodEnds(s) : Wrote(s, end, TRUE)
  /\ Record(s, "OK") /\ cursor' = s + 1

(* A resource guard, a refusal or an error before the first write leaves   *)
(* the output alone.  Without continue_on_day_failure the loop breaks.     *)
StageFail(s) ==
  /\ AtStage(s) /\ Runs(s)
  /\ \/ UNCHANGED diskVars
     \/ \E end \in BadEnds(s) : Wrote(s, end, FALSE)
  /\ Record(s, "FAIL")
  /\ cursor' = IF opt.keepGoing THEN s + 1 ELSE N + 1

(* Mutant: an optional stage does not keep a day from being complete.      *)
MutantOptionalIsMet == {s \in Required : stat[s] \notin Satisfied}

(* classify_day_status: a stage without a record counts as unsatisfied.    *)
Unmet == {s \in Stages : stat[s] \notin Satisfied}

ClassifyDayStatus ==
  IF Unmet \cap Required # {} THEN "FAILED"
  ELSE IF Unmet # {} THEN "PARTIAL"
  ELSE "COMPLETE"

FinishDay ==
  /\ pc = "stages" /\ cursor = N + 1
  /\ day' = ClassifyDayStatus
  /\ pc' = "idle"
  /\ UNCHANGED <<diskVars, opt, attempt, loopVars>>

-----------------------------------------------------------------------------
(* Ctrl-C, a kill or a power loss at any point, the tool that runs dying   *)
(* with the orchestrator.                                                  *)
Abort ==
  /\ pc # "idle"
  /\ \/ UNCHANGED diskVars
     \/ Downloading /\ \E e \in RawWrites \cup Described : RawNow(e)
     \/ \E s \in Stages :
          /\ AtStage(s) /\ Runs(s)
          /\ \/ \E end \in BadEnds(s) : Wrote(s, end, FALSE)
             \/ \E end \in GoodEnds(s) : Wrote(s, end, TRUE)
  /\ StopDay

DownloadStep ==
  \/ StopBeforeDownload
  \/ SkipDownload
  \/ DownloadSucceeds
  \/ DownloadFails
  \/ GiveUpDownload

StageStep(s) ==
  \/ SkipUpstreamFailed(s)
  \/ DryRunStage(s)
  \/ SkipTrusted(s)
  \/ SkipUntrusted(s)
  \/ StageOk(s)
  \/ StageFail(s)

Progress ==
  \/ DownloadStep
  \/ CheckBlocks
  \/ CheckInputs
  \/ \E s \in Stages : StageStep(s)
  \/ FinishDay

Next == ProcessOneDate \/ Progress \/ Abort

Spec == Init /\ [][Next]_vars

(* Every child has a timeout (DEFAULT 1800 s for the download, the stage   *)
(* timeout for a tool), so an invocation that is not aborted keeps moving. *)
FairSpec == Spec /\ WF_vars(Progress)

-----------------------------------------------------------------------------
(* A stage that ran, or whose old output was reused, did so above          *)
(* predecessors that all passed or were reused in the same invocation.     *)
StandsOnSatisfied ==
  \A s \in Stages :
    stat[s] \in Satisfied \cup {"FAIL"} =>
      \A d \in StageDeps(s) : stat[d] \in Satisfied

(* Old output is reused only together with all the old output it was made  *)
(* from: once a predecessor has been run again, nothing below it is taken  *)
(* from disk.  Trust verdicts are snapshots taken before the loop, so this *)
(* is what keeps a snapshot from going stale while the loop runs.          *)
ReuseIsDownwardClosed ==
  \A s \in Stages :
    stat[s] = "TRUSTED" => \A d \in StageDeps(s) : stat[d] = "TRUSTED"

(* The output of a stage that passed in this invocation is what that run   *)
(* wrote, from inputs no later stage of the invocation has replaced.       *)
RanMeansSound ==
  ~opt.dry => \A s \in Stages : stat[s] = "OK" => s \in sound

(* DAY_COMPLETE is reported only when every stage, optional ones included, *)
(* was run and passed or was reused from a present output.                 *)
CompleteIsEarned ==
  day = "COMPLETE" /\ ~opt.dry =>
    \A s \in Stages : \/ stat[s] = "OK" /\ s \in sound
                      \/ stat[s] = "TRUSTED" /\ disk[s] = "present"

(* "A truncated CME download blocks downstream use" as far as the sidecar  *)
(* goes: above a sidecar that says truncated nothing is run or reused      *)
(* without --allow-truncated-cme-sample, and above one that says the       *)
(* completeness is unknown no old output is reused.                        *)
RecordedTruncationBlocks ==
  ~opt.dry =>
    \A s \in Stages :
      /\ stat[s] \in Satisfied \cup {"FAIL"} => (sidecar = "TRUNCATED" => opt.allow)
      /\ stat[s] = "TRUSTED" => sidecar # "UNKNOWN"

(* What operations.md says of truncation, of the raw file itself: "A       *)
(* truncated CME download blocks downstream use unless the caller          *)
(* explicitly selects the documented override".                            *)
TruncatedRawBlocks ==
  ~opt.dry /\ ~opt.allow /\ raw = "cut" =>
    \A s \in Stages : stat[s] \notin Satisfied \cup {"FAIL"}

-----------------------------------------------------------------------------
(* The strengthening that makes the invariants above inductive: what the   *)
(* loop has decided, what it still has to read, and what the snapshots     *)
(* taken before it say.                                                    *)
Undecided ==
  pc \in {"download", "check"} => cursor = 1 /\ \A s \in Stages : stat[s] = "NONE"

Ahead ==
  pc = "stages" =>
    \A s \in Stages : s >= cursor =>
      stat[s] = "NONE" /\ (s \in present => disk[s] = "present")

Behind ==
  pc = "stages" /\ cursor <= N => \A s \in Stages : s < cursor => stat[s] # "NONE"

Verdicts ==
  pc = "stages" =>
    /\ ~RawBlocks
    /\ \A s \in intact : EvaluateCmeRawTrust /\ StageDeps(s) \subseteq intact

PresentIsNotRerun ==
  pc = "stages" /\ ~opt.dry /\ ~opt.rebuild =>
    \A s \in present : stat[s] \notin {"OK", "FAIL"}

ReusedIsPresent == \A s \in Stages : stat[s] = "TRUSTED" => disk[s] = "present"

DayInv ==
  /\ TypeOK /\ Undecided /\ Ahead /\ Behind /\ Verdicts /\ PresentIsNotRerun
  /\ ReusedIsPresent /\ StandsOnSatisfied /\ ReuseIsDownwardClosed
  /\ RanMeansSound /\ RecordedTruncationBlocks /\ CompleteIsEarned

-----------------------------------------------------------------------------
(* Without --rebuild-existing no invocation rewrites an output that was    *)
(* whole when it began, --force or not.                                    *)
NothingPresentIsRewritten ==
  [][\A s \in Stages :
       pc = "stages" /\ ~opt.rebuild /\ s \in present
         => disk'[s] = disk[s] /\ (s \in sound' => s \in sound)]_vars

(* What an invocation has still to do at most: attempts, the check, stages.*)
Rank ==
  CASE pc = "idle"     -> 0
    [] pc = "stages"   -> N + 2 - cursor
    [] pc = "check"    -> N + 2
    [] pc = "download" -> N + 3 + MaxRetries - attempt

LongestInvocation == N + 3 + MaxRetries

(* No failure, retry or skip gives an invocation more to do: it advances   *)
(* with every step, so that it takes LongestInvocation steps at most.      *)
InvocationAdvances == [][pc # "idle" => Rank' < Rank]_vars

(* Every invocation that is not aborted reports on its day.                *)
InvocationEnds == (pc # "idle") ~> (pc = "idle")

-----------------------------------------------------------------------------
(* The day as a round of the ledger.                                       *)
Verdict(v) ==
  IF v = "NONE" THEN "open" ELSE IF v \in Satisfied THEN "good" ELSE "bad"

Outcome ==
  IF pc # "idle" THEN "running"
  ELSE IF day = "NONE" THEN "idle"
  ELSE IF day = "COMPLETE" THEN "complete"
  ELSE IF day = "PARTIAL" THEN "partial"
  ELSE "failed"

Ledger == INSTANCE StageLedger WITH
  Upstream <- [s \in Stages |-> StageDeps(s)],
  Needed <- Required,
  verdict <- [s \in Stages |-> Verdict(stat[s])],
  outcome <- Outcome

LedgerRefined == Ledger!LedgerSpec
=============================================================================
