------------------------------ MODULE MultiDay ------------------------------
(***************************************************************************)
(* scripts/run_multiday_pipeline.py over run_multiday: command lines that  *)
(* are refused, preflights and dry runs, the loop over the dates, the      *)
(* vendor requests of each date, the report of each date, what an          *)
(* interrupt at any point leaves, the summary and the exit code.  The      *)
(* stages of a date are DayPipeline's; here they are their outcome.        *)
(***************************************************************************)
EXTENDS Integers, DownloadGate

CONSTANTS NDates,       \* dates asked for, in their order and without repeats
          MaxRetries,   \* max_databento_retries_per_day
          Options       \* command lines the operator uses

Dates == 1..NDates

ASSUME MultiDayAssumption ==
  /\ NDates \in Nat \ {0}
  /\ MaxRetries \in Nat
  /\ Options \subseteq CommandLines

VARIABLES
  silver,       \* silver[d]: none, fits (one request can cover it) or wide
  sdk,          \* the vendor package installed
  raw,          \* raw[d]: none, empty, cut (sidecar says truncated) or whole
  opt,          \* the command line of this invocation
  pc,           \* idle, main, date, download, check, stages, report, decide,
                \* summary or exit
  at,           \* the date the loop is at
  attempts,     \* attempts of the run_day_download in progress
  status,       \* per_day: final_status of the dates done, NONE of the others
  reports,      \* reports[d] on disk: none, old (an earlier run's) or a status
  interrupted,
  summarised,   \* this invocation's summary, or dry-run report, is on disk
  code,         \* exit status: none, 0, 1, 2, 130, or died (a traceback, a kill)
  told,         \* the latest dry-run report
  before,       \* raw, when this invocation began
  asked         \* asked[d]: requests this invocation has put to the vendor

worldVars == <<silver, sdk, raw>>
outVars == <<reports, summarised, code, told>>
vars == <<silver, sdk, raw, opt, pc, at, attempts, status, reports,
          interrupted, summarised, code, told, before, asked>>

Outcomes == {"COMPLETE", "PARTIAL", "FAILED"}
Statuses == Outcomes \cup {"NO_SILVER", "NO_RANGE", "DOWNLOAD_FAILED",
                           "TRUNCATED", "GUARD_STOP", "INTERRUPTED"}
InLoop == {"date", "download", "check", "stages", "report", "decide"}
RawStates == {"none", "empty", "cut", "whole"}
Usable == {"cut", "whole"}
NoReport == [made |-> FALSE]

TypeOK ==
  /\ silver \in [Dates -> {"none", "fits", "wide"}]
  /\ sdk \in Sdks
  /\ raw \in [Dates -> RawStates]
  /\ opt \in Options
  /\ pc \in InLoop \cup {"idle", "main", "summary", "exit"}
  /\ at \in Dates
  /\ attempts \in 0..(MaxRetries + 1)
  /\ status \in [Dates -> Statuses \cup {"NONE"}]
  /\ reports \in [Dates -> Statuses \cup {"none", "old"}]
  /\ interrupted \in BOOLEAN /\ summarised \in BOOLEAN
  /\ code \in {"none", "0", "1", "2", "130", "died"}
  /\ told \in {NoReport} \cup
              [made : {TRUE}, by : CommandLines, raw : [Dates -> RawStates],
               planned : SUBSET Dates, runnable : SUBSET Dates]
  /\ before \in [Dates -> RawStates]
  /\ asked \in [Dates -> 0..(MaxRetries + 1)]

Init ==
  /\ silver \in [Dates -> {"none", "fits", "wide"}]
  /\ sdk \in Sdks
  /\ raw = [d \in Dates |-> "none"] /\ before = raw
  /\ opt \in Options
  /\ pc = "idle" /\ at = 1 /\ attempts = 0
  /\ status = [d \in Dates |-> "NONE"]
  /\ reports = [d \in Dates |-> "none"]
  /\ interrupted = FALSE /\ summarised = FALSE
  /\ code = "none" /\ told = NoReport
  /\ asked = [d \in Dates |-> 0]

-----------------------------------------------------------------------------
(* The command line.                                                       *)
Invoke ==
  /\ pc = "idle"
  /\ opt' \in Options
  /\ pc' = "main" /\ at' = 1 /\ attempts' = 0
  /\ status' = [d \in Dates |-> "NONE"]
  /\ reports' = [d \in Dates |-> IF reports[d] = "none" THEN "none" ELSE "old"]
  /\ interrupted' = FALSE /\ summarised' = FALSE /\ code' = "none"
  /\ before' = raw
  /\ asked' = [d \in Dates |-> 0]
  /\ UNCHANGED <<worldVars, told>>

EndWith(c) ==
  /\ pc' = "idle" /\ code' = c
  /\ UNCHANGED <<worldVars, opt, at, attempts, status, reports, interrupted,
                 summarised, told, before, asked>>

Refuse == pc = "main" /\ Refused(opt) /\ EndWith("2")

RunDownloadPreflight ==
  /\ pc = "main" /\ ~Refused(opt) /\ opt.preflight
  /\ EndWith(IF PreflightBlocked(opt, sdk) THEN "1" ELSE "0")

Moved == UNCHANGED <<worldVars, opt, status, outVars, interrupted, before, asked>>

StartLoop ==
  /\ pc = "main" /\ ~Refused(opt) /\ ~opt.preflight
  /\ pc' = "date"
  /\ UNCHANGED <<at, attempts>> /\ Moved

-----------------------------------------------------------------------------
(* process_one_date.                                                       *)
Appended(s) ==
  /\ status' = [status EXCEPT ![at] = s]
  /\ pc' = "report" /\ attempts' = 0
  /\ UNCHANGED <<opt, at, outVars, interrupted, before>>

Finish(s) == Appended(s) /\ UNCHANGED <<worldVars, asked>>

FailUnless(carryOn, s) == IF carryOn THEN s ELSE "FAILED"

(* Disk or memory, on entry or before a download.                          *)
ResourceGuardStops == pc = "date" /\ Finish("GUARD_STOP")

NoSilver ==
  /\ pc = "date" /\ silver[at] = "none"
  /\ Finish(FailUnless(opt.skipNoSilver, "NO_SILVER"))

(* assert_window_is_single_day raises through the whole run, whether or    *)
(* not anything would have been downloaded.                                *)
WindowRaises == pc = "date" /\ silver[at] = "wide" /\ EndWith("died")

(* Mutant: a raw file that is there is asked for again under --force.      *)
MutantForceFetches ==
  ~opt.dry /\ (raw[at] = "none" \/ opt.force) /\ WillDownload(opt)

NeedsDownload ==
  /\ ~opt.dry
  /\ raw[at] = "none" \/ (opt.force /\ raw[at] = "empty")
  /\ WillDownload(opt)

SkipDownload ==
  /\ pc = "date" /\ silver[at] = "fits" /\ ~NeedsDownload
  /\ pc' = "check" /\ UNCHANGED <<at, attempts>> /\ Moved

StartDownload ==
  /\ pc = "date" /\ silver[at] = "fits" /\ NeedsDownload
  /\ pc' = "download" /\ UNCHANGED <<at, attempts>> /\ Moved

(* One attempt reaches the vendor and leaves r at the output path.         *)
Asks(r) ==
  /\ pc = "download" /\ attempts <= MaxRetries /\ ReachesVendor(opt, sdk)
  /\ asked' = [asked EXCEPT ![at] = @ + 1]
  /\ raw' = [raw EXCEPT ![at] = r]
  /\ UNCHANGED <<silver, sdk>>

(* What an attempt that ends otherwise than well, or is killed, may leave. *)
Leftover == {raw[at], "empty", "cut", "whole"}

Retried ==
  /\ attempts' = attempts + 1
  /\ UNCHANGED <<opt, pc, at, status, outVars, interrupted, before>>

DownloadOk ==
  /\ Asks("whole")
  /\ pc' = "check" /\ attempts' = 0
  /\ UNCHANGED <<opt, at, status, outVars, interrupted, before>>

(* A timeout, an error, or rows up to the limit, which the child returns   *)
(* as an error.                                                            *)
DownloadFails ==
  /\ \E r \in Leftover : Asks(r)
  /\ Retried

(* The child refuses or cannot start, and is tried again all the same.     *)
ChildRefuses ==
  /\ pc = "download" /\ attempts <= MaxRetries /\ ~ReachesVendor(opt, sdk)
  /\ Retried /\ UNCHANGED <<worldVars, asked>>

RangeUnavailable ==
  /\ Asks(raw[at])
  /\ Appended(FailUnless(opt.skipNoCme, "NO_RANGE"))

GiveUp ==
  /\ pc = "download" /\ attempts > MaxRetries
  /\ Finish(FailUnless(opt.keepGoing, "DOWNLOAD_FAILED"))

NoRaw ==
  /\ pc = "check" /\ raw[at] = "none"
  /\ Finish(FailUnless(opt.skipNoCme, "NO_RANGE"))

TruncatedBlocks == raw[at] = "cut" /\ ~opt.truncated /\ ~opt.dry

TruncatedSample == pc = "check" /\ TruncatedBlocks /\ Finish("TRUNCATED")

CheckPasses ==
  /\ pc = "check" /\ raw[at] # "none" /\ ~TruncatedBlocks
  /\ pc' = "stages" /\ UNCHANGED <<at, attempts>> /\ Moved

(* DayPipeline's loop; every stage of a dry run is taken as passed.        *)
StagesEnd ==
  /\ pc = "stages"
  /\ \E s \in (IF opt.dry THEN {"COMPLETE"} ELSE Outcomes) : Finish(s)

-----------------------------------------------------------------------------
(* run_multiday around it.                                                 *)

(* Mutant: the loop breaks before the failed date's report is written.     *)
MutantReportsSuccess ==
  /\ pc = "report"
  /\ reports' = IF opt.dry \/ status[at] = "FAILED" THEN reports
                ELSE [reports EXCEPT ![at] = status[at]]
  /\ pc' = "decide"
  /\ UNCHANGED <<worldVars, opt, at, attempts, status, interrupted, summarised,
                 code, told, before, asked>>

WritePerDayReport ==
  /\ pc = "report"
  /\ reports' = IF opt.dry THEN reports ELSE [reports EXCEPT ![at] = status[at]]
  /\ pc' = "decide"
  /\ UNCHANGED <<worldVars, opt, at, attempts, status, interrupted, summarised,
                 code, told, before, asked>>

Breaks(s) == (s = "FAILED" /\ ~opt.keepGoing) \/ s = "GUARD_STOP"

NextDate ==
  /\ pc = "decide" /\ ~Breaks(status[at]) /\ at < NDates
  /\ at' = at + 1 /\ pc' = "date"
  /\ UNCHANGED attempts /\ Moved

LeaveLoop ==
  /\ pc = "decide" /\ (Breaks(status[at]) \/ at = NDates)
  /\ pc' = "summary" /\ UNCHANGED <<at, attempts>> /\ Moved

(* The interrupted status goes to the last date in per_day, which is the   *)
(* one before the date in progress until that date has been appended.      *)
LastOfPerDay == IF status[at] # "NONE" \/ at = 1 THEN at ELSE at - 1

Interrupt ==
  /\ pc \in InLoop
  /\ \/ UNCHANGED <<worldVars, asked>>
     \/ \E r \in Leftover : Asks(r)
  /\ interrupted' = TRUE
  /\ status' = [status EXCEPT ![LastOfPerDay] = "INTERRUPTED"]
  /\ pc' = "summary" /\ attempts' = 0
  /\ UNCHANGED <<opt, at, outVars, before>>

(* Mutant: a raw file of any date counts as this date's.                   *)
MutantAnyCmeRaw(d) == \E e \in Dates : raw[e] # "none"

HasCmeRaw(d) == raw[d] # "none"

(* The dry-run report is built before the loop, from raw files the loop of *)
(* a dry run leaves as they are.                                           *)
DryRunReport ==
  [made |-> TRUE, by |-> [opt EXCEPT !.dry = FALSE], raw |-> raw,
   planned |-> {d \in Dates : /\ CmeDownloadMark(opt, HasCmeRaw(d)) = "PLAN"
                              /\ WouldAttempt(opt)},
   runnable |-> {d \in Dates : DownstreamMark(opt, HasCmeRaw(d)) # "BLOCKED"}]

WriteSummary ==
  /\ pc = "summary"
  /\ summarised' = TRUE /\ pc' = "exit"
  /\ told' = IF opt.dry THEN DryRunReport ELSE told
  /\ UNCHANGED <<worldVars, opt, at, attempts, status, reports, interrupted,
                 code, before, asked>>

(* Mutant: only the last date decides.                                     *)
MutantLastFailed == {d \in {at} : status[d] = "FAILED"}

DatesFailed == {d \in Dates : status[d] = "FAILED"}

Exit ==
  /\ pc = "exit"
  /\ EndWith(IF interrupted THEN "130" ELSE IF DatesFailed = {} THEN "0" ELSE "1")

(* A kill, a power loss, an error nothing catches, or a second Ctrl-C.     *)
Dies ==
  /\ pc # "idle" /\ pc' = "idle" /\ code' = "died"
  /\ \/ UNCHANGED <<worldVars, asked>>
     \/ \E r \in Leftover : Asks(r)
  /\ UNCHANGED <<opt, at, attempts, status, reports, interrupted, summarised,
                 told, before>>

ProcessOneDate ==
  \/ ResourceGuardStops \/ NoSilver \/ WindowRaises
  \/ SkipDownload \/ StartDownload
  \/ DownloadOk \/ DownloadFails \/ ChildRefuses \/ RangeUnavailable \/ GiveUp
  \/ NoRaw \/ TruncatedSample \/ CheckPasses \/ StagesEnd

Next ==
  \/ Invoke \/ Refuse \/ RunDownloadPreflight \/ StartLoop
  \/ ProcessOneDate
  \/ WritePerDayReport \/ NextDate \/ LeaveLoop
  \/ Interrupt \/ WriteSummary \/ Exit \/ Dies

Spec == Init /\ [][Next]_vars

-----------------------------------------------------------------------------
(* Where the loop is, read off what it keeps: the parts of the inductive   *)
(* invariant.                                                              *)
Working == {"date", "download", "check", "stages"}
Fresh(d) == reports[d] \in {"none", "old"}
Tells(d) == opt.dry \/ reports[d] = status[d]

PerDayIsPrefix ==
  /\ pc = "main" => at = 1 /\ \A d \in Dates : status[d] = "NONE"
  /\ pc \in Working => \A d \in Dates : status[d] = "NONE" <=> d >= at
  /\ pc \in {"report", "decide"} => \A d \in Dates : status[d] = "NONE" <=> d > at
  /\ pc \in InLoop => \A d \in Dates : d < at => ~Breaks(status[d])
  /\ pc \in InLoop \cup {"main"} => ~interrupted /\ ~summarised
  /\ pc # "idle" => code = "none"

(* Once the loop has been left, n is the last date in per_day.             *)
LeftAt(n) ==
  /\ \A d \in Dates : status[d] = "NONE" <=> d > n
  /\ n < NDates => interrupted \/ Breaks(status[n])
  /\ \A d \in Dates : d < n => Tells(d)
  /\ Tells(n) \/ (interrupted /\ status[n] = "INTERRUPTED")
  /\ \A d \in Dates : d > n => Fresh(d)

ReportsFollow ==
  /\ opt.dry => \A d \in Dates : Fresh(d)
  /\ pc = "main" => \A d \in Dates : Fresh(d)
  /\ pc \in InLoop => \A d \in Dates : (d < at => Tells(d)) /\ (d > at => Fresh(d))
  /\ pc \in Working \cup {"report"} => Fresh(at)
  /\ pc = "decide" => Tells(at)
  /\ pc \in {"summary", "exit"} \/ summarised => \E n \in Dates : LeftAt(n)

Strict == ~(opt.skipNoSilver \/ opt.skipNoCme \/ opt.keepGoing)

EndsAreKept ==
  /\ pc = "exit" => summarised
  /\ pc = "idle" /\ code = "0" /\ ~opt.preflight =>
       summarised /\ ~interrupted /\ DatesFailed = {}
  /\ interrupted => pc \in {"summary", "exit"} \/ (pc = "idle" /\ code \in {"130", "died"})
  /\ code = "130" => interrupted
  /\ \A d \in Dates : status[d] = "INTERRUPTED" => interrupted
  /\ Strict => \A d \in Dates : status[d] \notin {"NO_SILVER", "NO_RANGE", "DOWNLOAD_FAILED"}

Lacking(d) == before[d] = "none" \/ (opt.force /\ before[d] = "empty")

May(d) ==
  /\ WouldAttempt(opt) /\ ~opt.dry
  /\ silver[d] = "fits" /\ Lacking(d)
  /\ \A e \in Dates : e < d => status[e] # "NONE" /\ ~Breaks(status[e])

AskedWithinPlan ==
  /\ pc \in InLoop => ~Refused(opt) /\ ~opt.preflight
  /\ pc = "main" => \A d \in Dates : asked[d] = 0 /\ before[d] = raw[d]
  /\ pc \in InLoop => \A d \in Dates : d > at => asked[d] = 0 /\ before[d] = raw[d]
  /\ pc = "date" => asked[at] = 0 /\ before[at] = raw[at]
  /\ pc = "download" => /\ WillDownload(opt) /\ ~opt.dry /\ silver[at] = "fits"
                        /\ Lacking(at) /\ asked[at] <= attempts
  /\ pc = "stages" => raw[at] # "none"
  /\ \A d \in Dates : raw[d] # before[d] => WillDownload(opt)
  /\ \A d \in Dates : asked[d] > 0 => May(d)
  /\ \A d \in Dates : status[d] \in {"COMPLETE", "PARTIAL"} /\ ~opt.dry =>
                        before[d] # "none" \/ WillDownload(opt)

ToldIsSound ==
  told.made =>
    /\ ~told.by.dry
    /\ \A d \in Dates :
         /\ d \notin told.planned => told.raw[d] # "none" \/ ~WouldAttempt(told.by)
         /\ d \notin told.runnable => told.raw[d] = "none" /\ ~told.by.download

MultiDayInv ==
  /\ TypeOK /\ PerDayIsPrefix /\ ReportsFollow /\ EndsAreKept
  /\ AskedWithinPlan /\ ToldIsSound

-----------------------------------------------------------------------------
(* "A key alone does not authorize a download": the vendor is asked only   *)
(* under --download-cme, --allow-databento-download, the cost              *)
(* acknowledgment and a key, outside a dry run; only for a date that has   *)
(* Silver and had no raw data when the run began; within the retry budget; *)
(* and never after a date that stops the run.                              *)
FetchIsAuthorized ==
  \A d \in Dates :
    asked[d] > 0 =>
      /\ opt.download /\ opt.allow /\ opt.ack /\ opt.key /\ ~opt.dry
      /\ silver[d] = "fits" /\ before[d] \notin Usable
      /\ asked[d] <= MaxRetries + 1
      /\ \A e \in 1..(d - 1) : status[e] # "NONE" /\ ~Breaks(status[e])

(* A summary of a real run speaks of a prefix of the dates asked for: all  *)
(* of them, unless a failure or a guard stopped the run or it was          *)
(* interrupted.  Each status is the one in that date's report on disk; an  *)
(* interrupt may change the last one after its report was written, and is  *)
(* the only thing that may.                                                *)
SummaryTellsReports ==
  summarised /\ ~opt.dry =>
    \E n \in Dates :
      /\ \A d \in Dates : status[d] = "NONE" <=> d > n
      /\ n < NDates => interrupted \/ Breaks(status[n])
      /\ \A d \in 1..n : \/ reports[d] = status[d]
                         \/ interrupted /\ d = n /\ status[d] = "INTERRUPTED"

(* The exit code does not hide a failed date: after 0 no report of the run *)
(* says failed, and with nothing allowed to be skipped every date has had  *)
(* its stages, a truncated sample, or a resource guard that stopped the    *)
(* run.  130 is the interrupted run's and its alone.                       *)
ExitTellsFailures ==
  pc = "idle" =>
    /\ code = "130" => interrupted
    /\ interrupted => code \in {"130", "died"}
    /\ code = "0" /\ ~opt.preflight =>
         /\ \A d \in Dates : reports[d] # "FAILED"
         /\ Strict =>
              \A d \in Dates :
                \/ status[d] \in {"COMPLETE", "PARTIAL", "TRUNCATED"}
                \/ \E e \in 1..d : status[e] = "GUARD_STOP"

(* The dry run foretells the real one: with the same options, no --force   *)
(* and raw files nothing has touched since the report, the vendor is asked *)
(* only for dates whose download was planned, and only dates whose stages  *)
(* were not marked blocked end complete or partial.                        *)
DryRunForetells ==
  ~opt.dry /\ ~opt.force /\ told.made =>
    (told.by = opt /\ told.raw = before =>
       \A d \in Dates :
         /\ d \notin told.planned => asked[d] = 0
         /\ d \notin told.runnable => status[d] \notin {"COMPLETE", "PARTIAL"})

(* How far a run of the script is from its end.  A date takes PerDate      *)
(* steps at most, its attempts included.                                   *)
PerDate == MaxRetries + 7
AtMost == NDates * PerDate + 3

StepRank ==
  CASE pc = "decide"   -> 1
    [] pc = "report"   -> 2
    [] pc = "stages"   -> 3
    [] pc = "check"    -> 4
    [] pc = "download" -> MaxRetries + 6 - attempts
    [] OTHER           -> PerDate

Rank ==
  CASE pc = "idle"    -> 0
    [] pc = "exit"    -> 1
    [] pc = "summary" -> 2
    [] pc \in InLoop  -> (NDates - at) * PerDate + StepRank + 2
    [] pc = "main"    -> AtMost

(* The script cannot run on: every step of an invocation, an attempt that  *)
(* fails, a date that is skipped and an interrupt included, brings it      *)
(* nearer its end, so that it takes AtMost steps.                          *)
RunAdvances == [][pc # "idle" => Rank' < Rank]_vars

(* Raw data that can be used is never replaced, whatever --force says and  *)
(* however an attempt ends: the loop leaves it as the invocation found it. *)
UsableRawIsKept == \A d \in Dates : before[d] \in Usable => raw[d] = before[d]
=============================================================================
