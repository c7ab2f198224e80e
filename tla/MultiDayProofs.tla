--------------------------- MODULE MultiDayProofs ---------------------------
(***************************************************************************)
(* For every number of dates, every retry budget and every set of command  *)
(* lines: who may be asked for data, what the summary and the exit code    *)
(* tell, and what a dry run foretells.                                     *)
(***************************************************************************)
EXTENDS MultiDay, TLAPS

LEMMA DatesAreInts == \A d \in Dates : d \in Int /\ d >= 1 /\ d <= NDates
BY MultiDayAssumption DEF Dates

LEMMA OptionShape ==
  ASSUME TypeOK
  PROVE  /\ opt \in CommandLines
         /\ opt.dry \in BOOLEAN /\ opt.force \in BOOLEAN /\ opt.keepGoing \in BOOLEAN
         /\ opt.skipNoSilver \in BOOLEAN /\ opt.skipNoCme \in BOOLEAN
BY MultiDayAssumption DEF TypeOK, CommandLines

(* The dates of the list one after the other.                              *)
LEMMA NextInDates == ASSUME NEW d \in Dates, d < NDates PROVE d + 1 \in Dates
BY MultiDayAssumption DEF Dates

LEMMA InitInv == Init => MultiDayInv
<1> SUFFICES ASSUME Init PROVE MultiDayInv
  OBVIOUS
<1>1. 1 \in Dates /\ 0 \in 0..(MaxRetries + 1)
  BY MultiDayAssumption DEF Dates
<1>2. TypeOK
  BY <1>1 DEF Init, TypeOK, RawStates, NoReport
<1>3. PerDayIsPrefix /\ ReportsFollow /\ EndsAreKept
  BY DEF Init, PerDayIsPrefix, ReportsFollow, EndsAreKept, Fresh, InLoop, Working
<1>4. AskedWithinPlan /\ ToldIsSound
  BY DEF Init, AskedWithinPlan, ToldIsSound, InLoop, NoReport
<1>5. QED BY <1>2, <1>3, <1>4 DEF MultiDayInv

(* The dry-run report is one of the reports told ranges over.              *)
LEMMA ReportTyped ==
  ASSUME TypeOK
  PROVE  DryRunReport \in [made : {TRUE}, by : CommandLines, raw : [Dates -> RawStates],
                           planned : SUBSET Dates, runnable : SUBSET Dates]
<1>1. [opt EXCEPT !.dry = FALSE] \in CommandLines
  BY OptionShape DEF CommandLines
<1>2. raw \in [Dates -> RawStates]
  BY DEF TypeOK
<1> DEFINE P == {d \in Dates : CmeDownloadMark(opt, HasCmeRaw(d)) = "PLAN" /\ WouldAttempt(opt)}
           R == {d \in Dates : DownstreamMark(opt, HasCmeRaw(d)) # "BLOCKED"}
<1>3. P \in SUBSET Dates /\ R \in SUBSET Dates
  OBVIOUS
<1>4. DryRunReport = [made |-> TRUE, by |-> [opt EXCEPT !.dry = FALSE], raw |-> raw,
                      planned |-> P, runnable |-> R]
  BY DEF DryRunReport
<1> HIDE DEF P, R
<1>5. QED BY <1>1, <1>2, <1>3, <1>4

-----------------------------------------------------------------------------
(* Type correctness.  An attempt that reaches the vendor stays within the  *)
(* budget because the requests of a date never outnumber its attempts.     *)
LEMMA AsksTyped ==
  ASSUME TypeOK, AskedWithinPlan, NEW r \in RawStates, Asks(r)
  PROVE  /\ raw' \in [Dates -> RawStates]
         /\ asked' \in [Dates -> 0..(MaxRetries + 1)]
         /\ silver' = silver /\ sdk' = sdk
         /\ attempts + 1 \in 0..(MaxRetries + 1)
         /\ asked[at] <= attempts /\ asked'[at] = asked[at] + 1
<1>1. asked[at] <= attempts /\ attempts \in Int /\ attempts <= MaxRetries /\ asked[at] \in Nat
  BY MultiDayAssumption DEF Asks, AskedWithinPlan, TypeOK
<1>2. asked[at] + 1 \in 0..(MaxRetries + 1) /\ attempts + 1 \in 0..(MaxRetries + 1)
  BY <1>1, MultiDayAssumption DEF TypeOK
<1>3. QED BY <1>1, <1>2 DEF Asks, TypeOK

LEMMA LeftoverTyped == ASSUME TypeOK PROVE Leftover \subseteq RawStates
BY DEF TypeOK, Leftover, RawStates

LEMMA TypeStep == TypeOK /\ PerDayIsPrefix /\ AskedWithinPlan /\ [Next]_vars => TypeOK'
<1> SUFFICES ASSUME TypeOK, PerDayIsPrefix, AskedWithinPlan, [Next]_vars PROVE TypeOK'
  OBVIOUS
<1> DEFINE World == /\ silver' \in [Dates -> {"none", "fits", "wide"}] /\ sdk' \in Sdks
                    /\ raw' \in [Dates -> RawStates]
                    /\ asked' \in [Dates -> 0..(MaxRetries + 1)]
<1>1. UNCHANGED <<worldVars, asked>> => World
  BY DEF TypeOK, worldVars
<1>2. \A r \in RawStates : Asks(r) => World /\ attempts + 1 \in 0..(MaxRetries + 1)
  BY AsksTyped DEF TypeOK
<1>3. 1 \in Dates /\ 0 \in 0..(MaxRetries + 1)
  BY MultiDayAssumption DEF Dates
<1>4. Leftover \subseteq RawStates /\ raw[at] \in RawStates /\ "whole" \in RawStates
  BY LeftoverTyped DEF TypeOK, RawStates
<1>5. \A s \in Statuses : Appended(s) /\ World => TypeOK'
  <2> SUFFICES ASSUME NEW s \in Statuses, Appended(s), World PROVE TypeOK'
    OBVIOUS
  <2>1. status' \in [Dates -> Statuses \cup {"NONE"}]
    BY DEF Appended, TypeOK
  <2> HIDE DEF World
  <2>2. pc' = "report" /\ attempts' = 0
    BY DEF Appended
  <2>3. QED
    BY <1>3, <2>1, <2>2 DEF World, Appended, outVars, TypeOK, InLoop
<1> HIDE DEF World
<1>6. \A s \in Statuses : Finish(s) => TypeOK'
  BY <1>1, <1>5 DEF Finish
<1>7. Moved => World
  BY <1>1 DEF Moved
<1>8. \A c \in {"0", "1", "2", "130", "died"} : EndWith(c) => TypeOK'
  BY DEF EndWith, TypeOK, worldVars
<1>9. \A b : FailUnless(b, "NO_SILVER") \in Statuses /\ FailUnless(b, "NO_RANGE") \in Statuses
             /\ FailUnless(b, "DOWNLOAD_FAILED") \in Statuses
  BY DEF FailUnless, Statuses, Outcomes
<1>10. {"GUARD_STOP", "TRUNCATED", "INTERRUPTED", "COMPLETE"} \cup Outcomes \subseteq Statuses
  BY DEF Statuses, Outcomes
<1>11. CASE UNCHANGED vars
  BY <1>11 DEF vars, TypeOK
<1>12. CASE Invoke
  BY <1>12, <1>3 DEF Invoke, TypeOK, worldVars
<1>13. CASE Refuse \/ RunDownloadPreflight \/ Exit \/ WindowRaises
  <2>1. PICK c \in {"0", "1", "2", "130", "died"} : EndWith(c)
    BY <1>13 DEF Refuse, RunDownloadPreflight, Exit, WindowRaises
  <2>2. QED BY <2>1, <1>8
<1>14. CASE StartLoop \/ SkipDownload \/ StartDownload \/ CheckPasses \/ LeaveLoop
  BY <1>14 DEF StartLoop, SkipDownload, StartDownload, CheckPasses, LeaveLoop, Moved,
     TypeOK, InLoop, worldVars, outVars
<1>15. CASE NextDate
  BY <1>15, NextInDates DEF NextDate, Moved, TypeOK, InLoop, worldVars, outVars
<1>16. CASE ResourceGuardStops \/ NoSilver \/ GiveUp \/ NoRaw \/ TruncatedSample \/ StagesEnd
  BY <1>16, <1>6, <1>9, <1>10
  DEF ResourceGuardStops, NoSilver, GiveUp, NoRaw, TruncatedSample, StagesEnd
<1>17. CASE RangeUnavailable
  BY <1>17, <1>2, <1>4, <1>5, <1>9 DEF RangeUnavailable
<1>18. CASE DownloadOk
  <2>1. World
    BY <1>18, <1>2, <1>4 DEF DownloadOk
  <2>2. QED BY <1>18, <1>3, <2>1 DEF DownloadOk, World, outVars, TypeOK, InLoop
<1>19. CASE DownloadFails \/ ChildRefuses
  <2>1. World /\ attempts + 1 \in 0..(MaxRetries + 1)
    BY <1>19, <1>1, <1>2, <1>4, MultiDayAssumption
    DEF DownloadFails, ChildRefuses, Asks, TypeOK
  <2>2. Retried
    BY <1>19 DEF DownloadFails, ChildRefuses
  <2>3. QED BY <2>1, <2>2 DEF Retried, World, outVars, TypeOK
<1>20. CASE WritePerDayReport
  <2>1. reports' \in [Dates -> Statuses \cup {"none", "old"}]
    <3>1. status[at] \in Statuses
      BY <1>20, DatesAreInts DEF WritePerDayReport, PerDayIsPrefix, TypeOK
    <3>2. QED BY <1>20, <3>1 DEF WritePerDayReport, TypeOK
  <2>2. QED BY <1>20, <2>1 DEF WritePerDayReport, TypeOK, InLoop, worldVars
<1>21. CASE Interrupt
  <2>1. World
    BY <1>21, <1>1, <1>2, <1>4 DEF Interrupt
  <2>2. status' \in [Dates -> Statuses \cup {"NONE"}]
    BY <1>21, <1>10 DEF Interrupt, TypeOK
  <2>3. QED BY <1>21, <1>3, <2>1, <2>2 DEF Interrupt, World, outVars, TypeOK
<1>22. CASE WriteSummary
  BY <1>22, ReportTyped DEF WriteSummary, TypeOK, worldVars
<1>23. CASE Dies
  <2>1. World
    BY <1>23, <1>1, <1>2, <1>4 DEF Dies
  <2>2. QED BY <1>23, <2>1 DEF Dies, World, TypeOK
<1>24. QED
  BY <1>11, <1>12, <1>13, <1>14, <1>15, <1>16, <1>17, <1>18, <1>19, <1>20, <1>21, <1>22,
     <1>23 DEF Next, ProcessOneDate
-----------------------------------------------------------------------------
(* What the steps of a date do, sorted by what they leave: the date goes   *)
(* on, it is given its status, or the run is thrown out of it.             *)
GoesOn ==
  /\ pc \in Working /\ pc' \in Working \ {"date"} /\ status' = status
  /\ UNCHANGED <<opt, at, reports, summarised, code, told, interrupted, before>>

Given(s) ==
  /\ pc \in Working /\ pc' = "report"
  /\ status' = [status EXCEPT ![at] = s]
  /\ UNCHANGED <<opt, at, reports, summarised, code, told, interrupted, before>>

Skipping(s) ==
  \/ s = "NO_SILVER" /\ opt.skipNoSilver
  \/ s = "NO_RANGE" /\ opt.skipNoCme
  \/ s = "DOWNLOAD_FAILED" /\ opt.keepGoing

LEMMA DateSteps ==
  ASSUME ProcessOneDate
  PROVE  \/ GoesOn
         \/ \E s \in Statuses \ {"INTERRUPTED"} :
              /\ Given(s)
              /\ s \in {"NO_SILVER", "NO_RANGE", "DOWNLOAD_FAILED"} => Skipping(s)
         \/ pc = "date" /\ EndWith("died")
<1> DEFINE Goes(s) == /\ Given(s)
                      /\ s \in {"NO_SILVER", "NO_RANGE", "DOWNLOAD_FAILED"} => Skipping(s)
           Ends == \E s \in Statuses \ {"INTERRUPTED"} : Goes(s)
<1>1. \A s : Appended(s) /\ pc \in Working => Given(s)
  BY DEF Appended, Given, outVars
<1>2. \A s : Finish(s) /\ pc \in Working => Given(s)
  BY <1>1 DEF Finish
<1>3. \A b, s : FailUnless(b, s) = IF b THEN s ELSE "FAILED"
  BY DEF FailUnless
<1>4. {"FAILED", "NO_SILVER", "NO_RANGE", "DOWNLOAD_FAILED", "GUARD_STOP", "TRUNCATED",
       "COMPLETE", "PARTIAL"} \subseteq Statuses \ {"INTERRUPTED"}
  BY DEF Statuses, Outcomes
<1>5. CASE ResourceGuardStops
  <2>1. Goes("GUARD_STOP")
    BY <1>5, <1>2 DEF ResourceGuardStops, Working
  <2>2. QED BY <2>1, <1>4
<1>6. CASE NoSilver
  <2>1. Goes(FailUnless(opt.skipNoSilver, "NO_SILVER"))
    BY <1>6, <1>2, <1>3 DEF NoSilver, Working, Skipping
  <2>2. QED BY <2>1, <1>3, <1>4
<1>7. CASE GiveUp
  <2>1. Goes(FailUnless(opt.keepGoing, "DOWNLOAD_FAILED"))
    BY <1>7, <1>2, <1>3 DEF GiveUp, Working, Skipping
  <2>2. QED BY <2>1, <1>3, <1>4
<1>8. CASE RangeUnavailable \/ NoRaw
  <2>1. Goes(FailUnless(opt.skipNoCme, "NO_RANGE"))
    BY <1>8, <1>1, <1>2, <1>3 DEF RangeUnavailable, Asks, NoRaw, Working, Skipping
  <2>2. QED BY <2>1, <1>3, <1>4
<1>9. CASE TruncatedSample
  <2>1. Goes("TRUNCATED")
    BY <1>9, <1>2 DEF TruncatedSample, Working
  <2>2. QED BY <2>1, <1>4
<1>10. CASE StagesEnd
  <2>1. PICK s \in {"COMPLETE", "PARTIAL", "FAILED"} : Finish(s)
    BY <1>10 DEF StagesEnd, Outcomes
  <2>2. Goes(s)
    BY <1>10, <2>1, <1>2 DEF StagesEnd, Working
  <2>3. QED BY <2>2, <1>4
<1>11. CASE WindowRaises
  BY <1>11 DEF WindowRaises
<1>12. CASE SkipDownload \/ StartDownload \/ CheckPasses
  BY <1>12 DEF SkipDownload, StartDownload, CheckPasses, Moved, GoesOn, Working, outVars
<1>13. CASE DownloadOk \/ DownloadFails \/ ChildRefuses
  BY <1>13 DEF DownloadOk, DownloadFails, ChildRefuses, Asks, Retried, GoesOn, Working, outVars
<1>14. QED
  BY <1>5, <1>6, <1>7, <1>8, <1>9, <1>10, <1>11, <1>12, <1>13 DEF ProcessOneDate

(* The dates with a status are the first ones, at every step.              *)
LEMMA PrefixStep ==
  ASSUME MultiDayInv, Next PROVE PerDayIsPrefix'
<1> USE DatesAreInts DEF MultiDayInv, TypeOK, PerDayIsPrefix, InLoop, Working, Breaks
<1>1. CASE Invoke
  BY <1>1 DEF Invoke
<1>2. CASE Refuse \/ RunDownloadPreflight \/ Exit \/ Dies
  BY <1>2 DEF Refuse, RunDownloadPreflight, Exit, Dies, EndWith
<1>3. CASE StartLoop \/ LeaveLoop
  BY <1>3 DEF StartLoop, LeaveLoop, Moved, outVars, worldVars
<1>4. CASE NextDate
  BY <1>4 DEF NextDate, Moved, outVars, worldVars
<1>5. CASE WritePerDayReport
  BY <1>5 DEF WritePerDayReport
<1>6. CASE WriteSummary
  BY <1>6 DEF WriteSummary
<1>7. CASE Interrupt
  BY <1>7 DEF Interrupt, outVars
<1>8. CASE ProcessOneDate
  <2>1. CASE GoesOn
    BY <2>1 DEF GoesOn
  <2>2. ASSUME NEW s \in Statuses, Given(s) PROVE PerDayIsPrefix'
    <3>1. s # "NONE"
      BY DEF Statuses, Outcomes
    <3>2. \A d \in Dates : status'[d] = IF d = at THEN s ELSE status[d]
      BY <2>2 DEF Given
    <3>3. QED BY <2>2, <3>1, <3>2 DEF Given, Breaks
  <2>3. CASE EndWith("died")
    BY <2>3 DEF EndWith
  <2>4. QED BY <1>8, <2>1, <2>2, <2>3, DateSteps
<1>9. QED BY <1>1, <1>2, <1>3, <1>4, <1>5, <1>6, <1>7, <1>8 DEF Next

(* The reports on disk follow the statuses in memory.                      *)
LEMMA LeftAtKept ==
  ASSUME NEW n \in Dates, LeftAt(n),
         UNCHANGED <<opt, status, reports, interrupted>>
  PROVE  LeftAt(n)'
BY DEF LeftAt, Tells, Fresh, Breaks

LEMMA ReportsStep ==
  ASSUME MultiDayInv, Next PROVE ReportsFollow'
<1> USE DatesAreInts DEF MultiDayInv, TypeOK, ReportsFollow, InLoop, Working
<1>1. CASE Invoke
  <2>1. \A d \in Dates : reports'[d] \in {"none", "old"}
    BY <1>1 DEF Invoke
  <2>2. QED BY <1>1, <2>1 DEF Invoke, Fresh
<1>2. CASE Refuse \/ RunDownloadPreflight \/ Exit \/ Dies \/ WriteSummary
  <2>1. UNCHANGED <<opt, status, reports, interrupted, at>>
    BY <1>2 DEF Refuse, RunDownloadPreflight, Exit, Dies, WriteSummary, EndWith
  <2>2. \/ pc' = "idle" /\ summarised' = summarised
        \/ pc = "summary" /\ pc' = "exit"
    BY <1>2 DEF Refuse, RunDownloadPreflight, Exit, Dies, WriteSummary, EndWith
  <2>3. opt.dry => \A d \in Dates : Fresh(d)'
    BY <2>1 DEF Fresh
  <2>4. pc' = "exit" \/ summarised' => \E n \in Dates : LeftAt(n)'
    BY <2>1, <2>2, LeftAtKept
  <2>5. QED BY <2>1, <2>2, <2>3, <2>4
<1>3. CASE StartLoop \/ NextDate
  <2>1. \A d \in Dates : (Tells(d)' <=> Tells(d)) /\ (Fresh(d)' <=> Fresh(d))
    BY <1>3 DEF StartLoop, NextDate, Moved, outVars, Tells, Fresh
  <2>2. ~summarised' /\ pc' = "date" /\ opt' = opt
    BY <1>3 DEF StartLoop, NextDate, Moved, outVars, PerDayIsPrefix
  <2>3. CASE StartLoop
    BY <2>1, <2>2, <2>3 DEF StartLoop, PerDayIsPrefix
  <2>4. CASE NextDate
    <3>1. at' = at + 1 /\ Tells(at) /\ \A d \in Dates : d < at' => d = at \/ d < at
      BY <2>4 DEF NextDate
    <3>2. \A d \in Dates : (d < at' => Tells(d)) /\ (d >= at' => Fresh(d))
      BY <2>4, <3>1 DEF NextDate
    <3>3. at' \in Dates
      BY <2>4, NextInDates DEF NextDate
    <3>4. QED BY <2>1, <2>2, <3>2, <3>3
  <2>5. QED BY <1>3, <2>3, <2>4
<1>4. CASE LeaveLoop
  <2>1. LeftAt(at)
    <3>1. \A d \in Dates : status[d] = "NONE" <=> d > at
      BY <1>4 DEF LeaveLoop, PerDayIsPrefix
    <3>2. at < NDates => Breaks(status[at])
      BY <1>4 DEF LeaveLoop
    <3>3. QED BY <1>4, <3>1, <3>2 DEF LeaveLoop, LeftAt
  <2>2. LeftAt(at)'
    BY <1>4, <2>1 DEF LeaveLoop, Moved, outVars, LeftAt, Tells, Fresh, Breaks
  <2>3. at' = at /\ opt' = opt /\ reports' = reports /\ pc' = "summary"
    BY <1>4 DEF LeaveLoop, Moved, outVars
  <2>4. at' \in Dates /\ \E n \in Dates : LeftAt(n)'
    BY <2>2, <2>3
  <2>5. QED BY <2>3, <2>4 DEF Fresh
<1>5. CASE WritePerDayReport
  <2>1. /\ \A d \in Dates \ {at} : reports'[d] = reports[d]
        /\ opt.dry => reports' = reports
        /\ opt.dry \/ reports'[at] = status[at]
        /\ status' = status /\ opt' = opt /\ at' = at /\ pc' = "decide"
        /\ ~summarised'
    BY <1>5 DEF WritePerDayReport, PerDayIsPrefix
  <2>2. \A d \in Dates : /\ d < at => Tells(d)'
                         /\ d > at => Fresh(d)'
                         /\ opt.dry => Fresh(d)'
    BY <1>5, <2>1 DEF WritePerDayReport, Tells, Fresh
  <2>3. QED BY <2>1, <2>2 DEF Tells
<1>6. CASE Interrupt
  <2>1. /\ pc \in InLoop /\ pc' = "summary" /\ interrupted'
        /\ status' = [status EXCEPT ![LastOfPerDay] = "INTERRUPTED"]
        /\ UNCHANGED <<opt, at, reports>>
    BY <1>6 DEF Interrupt, outVars
  <2>0. LastOfPerDay \in Dates
    BY MultiDayAssumption DEF LastOfPerDay, Dates
  <2>n. PICK n \in Dates : n = LastOfPerDay
    BY <2>0
  <2>2. n \in Dates /\ n <= at
    BY <2>n DEF LastOfPerDay
  <2>3. \A d \in Dates : status[d] = "NONE" <=> (d > n \/ (d = n /\ status[d] = "NONE"))
    BY <2>1, <2>n DEF LastOfPerDay, PerDayIsPrefix
  <2>4. \A d \in Dates : (d < n => Tells(d)) /\ (d > n => Fresh(d))
    BY <2>1, <2>2, <2>n DEF LastOfPerDay, PerDayIsPrefix
  <2>5. \A d \in Dates : status'[d] = IF d = n THEN "INTERRUPTED" ELSE status[d]
    BY <2>1, <2>n
  <2>6. /\ \A d \in Dates : status'[d] = "NONE" <=> d > n
        /\ \A d \in Dates : (d < n => Tells(d)') /\ (d > n => Fresh(d)')
    BY <2>1, <2>2, <2>3, <2>4, <2>5 DEF Tells, Fresh
  <2>7. LeftAt(n)'
    BY <2>1, <2>2, <2>5, <2>6 DEF LeftAt
  <2>8. QED BY <2>1, <2>2, <2>7 DEF Fresh
<1>7. CASE ProcessOneDate
  <2>1. CASE GoesOn
    BY <2>1 DEF GoesOn, PerDayIsPrefix, Tells, Fresh
  <2>2. ASSUME NEW s \in Statuses, Given(s) PROVE ReportsFollow'
    <3>1. /\ \A d \in Dates : d # at => status'[d] = status[d]
          /\ UNCHANGED <<opt, at, reports, summarised>>
          /\ pc \in Working /\ pc' = "report" /\ ~summarised
      BY <2>2 DEF Given, PerDayIsPrefix
    <3>2. \A d \in Dates : /\ d < at => Tells(d)'
                           /\ d > at => Fresh(d)'
                           /\ opt.dry => Fresh(d)'
      BY <3>1 DEF Tells, Fresh
    <3>3. QED BY <3>1, <3>2 DEF Fresh
  <2>3. CASE pc = "date" /\ EndWith("died")
    BY <2>3 DEF EndWith, PerDayIsPrefix, Fresh
  <2>4. QED BY <1>7, <2>1, <2>2, <2>3, DateSteps
<1>8. QED BY <1>1, <1>2, <1>3, <1>4, <1>5, <1>6, <1>7 DEF Next

(* How an invocation ends is kept until the next one.                      *)
LEMMA EndsStep ==
  ASSUME MultiDayInv, Next PROVE EndsAreKept'
<1> USE DatesAreInts DEF MultiDayInv, TypeOK, EndsAreKept, InLoop, Working
<1>1. CASE Invoke
  BY <1>1 DEF Invoke
<1>2. CASE Refuse \/ RunDownloadPreflight \/ Exit \/ Dies
  <2>1. UNCHANGED <<opt, status, interrupted, summarised>> /\ pc' = "idle" /\ pc # "idle"
    BY <1>2 DEF Refuse, RunDownloadPreflight, Exit, Dies, EndWith
  <2>2. DatesFailed' = DatesFailed
    BY <2>1 DEF DatesFailed
  <2>3. Strict' = Strict
    BY <2>1 DEF Strict
  <2>4. CASE Refuse \/ Dies
    BY <2>1, <2>2, <2>3, <2>4 DEF Refuse, Dies, EndWith, PerDayIsPrefix
  <2>5. CASE RunDownloadPreflight
    BY <2>1, <2>2, <2>3, <2>5 DEF RunDownloadPreflight, EndWith, PerDayIsPrefix
  <2>6. CASE Exit
    BY <2>1, <2>2, <2>3, <2>6 DEF Exit, EndWith
  <2>7. QED BY <1>2, <2>4, <2>5, <2>6
<1>3. CASE StartLoop \/ LeaveLoop \/ NextDate \/ WritePerDayReport \/ WriteSummary
  <2>1. UNCHANGED <<opt, status, interrupted, code>> /\ pc # "idle" /\ pc' # "idle"
    BY <1>3 DEF StartLoop, LeaveLoop, NextDate, WritePerDayReport, WriteSummary, Moved, outVars
  <2>2. interrupted => pc' \in {"summary", "exit"}
    BY <1>3 DEF StartLoop, LeaveLoop, NextDate, WritePerDayReport, WriteSummary, PerDayIsPrefix
  <2>3. pc' = "exit" => summarised'
    BY <1>3 DEF StartLoop, LeaveLoop, NextDate, WritePerDayReport, WriteSummary
  <2>4. Strict' = Strict
    BY <2>1 DEF Strict
  <2>5. QED BY <2>1, <2>2, <2>3, <2>4
<1>4. CASE Interrupt
  <2>1. LastOfPerDay \in Dates
    BY MultiDayAssumption DEF LastOfPerDay, Dates
  <2>2. \A d \in Dates : status'[d] \in {"INTERRUPTED", status[d]}
    BY <1>4, <2>1 DEF Interrupt
  <2>3. interrupted' = TRUE /\ pc' = "summary" /\ opt' = opt /\ code' = code /\ code = "none"
    BY <1>4 DEF Interrupt, outVars, PerDayIsPrefix
  <2>4. Strict' = Strict
    BY <2>3 DEF Strict
  <2>5. QED BY <2>2, <2>3, <2>4
<1>5. CASE ProcessOneDate
  <2>1. ~interrupted /\ pc \in Working /\ code = "none"
    BY <1>5, DateSteps DEF GoesOn, Given, PerDayIsPrefix
  <2>2. CASE GoesOn
    BY <2>1, <2>2 DEF GoesOn, Strict
  <2>3. ASSUME NEW s \in Statuses \ {"INTERRUPTED"}, Given(s),
               s \in {"NO_SILVER", "NO_RANGE", "DOWNLOAD_FAILED"} => Skipping(s)
        PROVE  EndsAreKept'
    <3>1. \A d \in Dates : status'[d] \in {s, status[d]}
      BY <2>3 DEF Given
    <3>2. Strict => s \notin {"NO_SILVER", "NO_RANGE", "DOWNLOAD_FAILED"}
      BY <2>3 DEF Strict, Skipping
    <3>3. Strict' = Strict /\ UNCHANGED <<interrupted, code>> /\ pc' = "report"
      BY <2>3 DEF Strict, Given
    <3>4. QED BY <2>1, <3>1, <3>2, <3>3
  <2>4. CASE EndWith("died")
    BY <2>1, <2>4 DEF EndWith, Strict
  <2>5. QED BY <1>5, <2>2, <2>3, <2>4, DateSteps
<1>6. QED BY <1>1, <1>2, <1>3, <1>4, <1>5 DEF Next

(* The latest dry-run report tells what its command line and raw files     *)
(* imply.                                                                  *)
LEMMA ToldStep ==
  ASSUME MultiDayInv, Next PROVE ToldIsSound'
<1>1. CASE told' = told
  BY <1>1 DEF MultiDayInv, ToldIsSound
<1>2. CASE WriteSummary /\ opt.dry
  <2>1. /\ told' = DryRunReport /\ opt.dry /\ opt \in CommandLines
        /\ opt.download \in BOOLEAN /\ raw \in [Dates -> RawStates]
    BY <1>2, OptionShape DEF WriteSummary, MultiDayInv, TypeOK, CommandLines
  <2> DEFINE o == [opt EXCEPT !.dry = FALSE]
  <2>2. ~o.dry /\ o.download = opt.download /\ WouldAttempt(o) = WouldAttempt(opt)
    BY <2>1 DEF CommandLines, WouldAttempt, WillDownload
  <2>3. told'.by = o /\ told'.raw = raw
    BY <2>1 DEF DryRunReport
  <2>4. \A d \in Dates : raw[d] = "none" /\ opt.download =>
          CmeDownloadMark(opt, HasCmeRaw(d)) = "PLAN"
    BY <2>1 DEF CmeDownloadMark, HasCmeRaw, DryRunGate, DecideDownloadGate
  <2>5. \A d \in Dates : raw[d] # "none" \/ opt.download =>
          DownstreamMark(opt, HasCmeRaw(d)) # "BLOCKED"
    BY <2>4 DEF DownstreamMark, HasCmeRaw
  <2>6. \A d \in Dates : WouldAttempt(opt) => opt.download
    BY DEF WouldAttempt, WillDownload
  <2>7. \A d \in Dates : /\ raw[d] = "none" /\ WouldAttempt(opt) => d \in told'.planned
                         /\ raw[d] # "none" \/ opt.download => d \in told'.runnable
    BY <2>1, <2>4, <2>5, <2>6 DEF DryRunReport
  <2> HIDE DEF o
  <2>8. QED BY <2>2, <2>3, <2>7 DEF ToldIsSound
<1>3. told' = told \/ (WriteSummary /\ opt.dry)
  <2>1. CASE WriteSummary
    BY <2>1 DEF WriteSummary
  <2>2. CASE ProcessOneDate
    BY <2>2, DateSteps DEF GoesOn, Given, EndWith
  <2>3. CASE Invoke \/ Refuse \/ RunDownloadPreflight \/ Exit \/ Dies
    BY <2>3 DEF Invoke, Refuse, RunDownloadPreflight, Exit, Dies, EndWith
  <2>4. CASE StartLoop \/ NextDate \/ LeaveLoop \/ WritePerDayReport \/ Interrupt
    BY <2>4 DEF StartLoop, NextDate, LeaveLoop, WritePerDayReport, Interrupt, Moved, outVars
  <2>5. QED BY <2>1, <2>2, <2>3, <2>4 DEF Next
<1>4. QED BY <1>1, <1>2, <1>3

-----------------------------------------------------------------------------
(* The world, as far as asking the vendor goes: raw files change only      *)
(* through requests, and a request is made only while downloading.         *)
Core ==
  /\ \A d \in Dates : raw'[d] # before[d] => WillDownload(opt)
  /\ \A d \in Dates : asked'[d] > 0 => May(d)
  /\ pc \in InLoop => \A d \in Dates : d > at => asked'[d] = 0 /\ before[d] = raw'[d]
  /\ silver' = silver

LEMMA CoreUnchanged ==
  ASSUME MultiDayInv, UNCHANGED <<worldVars, asked>> PROVE Core
BY DEF MultiDayInv, AskedWithinPlan, Core, worldVars

LEMMA CoreAsks ==
  ASSUME MultiDayInv, NEW r \in RawStates, Asks(r)
  PROVE  Core /\ asked'[at] <= attempts + 1 /\ raw'[at] = r
<1> USE DatesAreInts DEF MultiDayInv, TypeOK, AskedWithinPlan
<1>1. /\ pc = "download" /\ pc \in InLoop /\ pc \in Working
      /\ WillDownload(opt) /\ ~opt.dry /\ silver[at] = "fits" /\ Lacking(at)
      /\ ~Refused(opt) /\ ~opt.preflight
  BY DEF Asks, InLoop, Working
<1>2. WouldAttempt(opt)
  BY <1>1, OptionShape DEF WouldAttempt, WillDownload, Refused, CommandLines
<1>3. May(at)
  BY <1>1, <1>2 DEF May, PerDayIsPrefix
<1>4. \A d \in Dates : d # at => asked'[d] = asked[d] /\ raw'[d] = raw[d]
  BY DEF Asks
<1>5. Core
  BY <1>1, <1>3, <1>4 DEF Core, Asks
<1>6. QED BY <1>5, AsksTyped DEF Asks

(* Dates that may be asked for may still be when only later dates, or the  *)
(* date asked for, are given a status.                                     *)
LEMMA MayKept ==
  ASSUME TypeOK, NEW d \in Dates, May(d), UNCHANGED <<opt, before, silver>>,
         \A e \in Dates : e < d => \/ status'[e] = status[e]
                                  \/ status'[e] = "INTERRUPTED"
  PROVE  May(d)'
<1>1. \A e \in Dates : e < d => status'[e] # "NONE" /\ ~Breaks(status'[e])
  BY DEF May, Breaks
<1>2. \A e \in Dates : e < d => status'[e] # "NONE" /\ ~Breaks(status[e])'
  BY <1>1 DEF Breaks
<1>3. Lacking(d)' /\ silver'[d] = "fits" /\ WouldAttempt(opt)' /\ ~opt'.dry
  BY DEF May, Lacking
<1>4. QED BY <1>2, <1>3 DEF May

LEMMA AskedStep ==
  ASSUME MultiDayInv, Next PROVE AskedWithinPlan'
<1> USE DatesAreInts DEF MultiDayInv, TypeOK, AskedWithinPlan, InLoop, Working
<1>1. CASE Invoke
  BY <1>1 DEF Invoke, worldVars
<1>2. CASE Refuse \/ RunDownloadPreflight \/ Exit \/ WriteSummary \/ LeaveLoop
  <2>1. UNCHANGED <<opt, silver, raw, before, asked, status>>
        /\ pc' \notin InLoop \cup {"main"}
    BY <1>2 DEF Refuse, RunDownloadPreflight, Exit, WriteSummary, LeaveLoop, EndWith, Moved,
       worldVars
  <2>2. \A d \in Dates : May(d)' <=> May(d)
    BY <2>1 DEF May, Lacking, Breaks
  <2>3. QED BY <2>1, <2>2
<1>3. CASE StartLoop \/ NextDate \/ WritePerDayReport
  <2>1. UNCHANGED <<opt, silver, raw, before, asked, status>> /\ pc' \in {"date", "decide"}
    BY <1>3 DEF StartLoop, NextDate, WritePerDayReport, Moved, worldVars
  <2>2. \A d \in Dates : May(d)' <=> May(d)
    BY <2>1 DEF May, Lacking, Breaks
  <2>3. ~Refused(opt) /\ ~opt.preflight
    BY <1>3 DEF StartLoop, NextDate, WritePerDayReport
  <2>4. \A d \in Dates : d > at' \/ (d = at' /\ pc' = "date") =>
                          asked[d] = 0 /\ before[d] = raw[d]
    BY <1>3 DEF StartLoop, NextDate, WritePerDayReport
  <2>5. at' \in Dates
    BY <1>3, NextInDates DEF StartLoop, NextDate, WritePerDayReport
  <2>6. QED BY <2>1, <2>2, <2>3, <2>4, <2>5
<1>4. CASE Interrupt \/ Dies
  <2>1. Core
    BY <1>4, CoreUnchanged, CoreAsks, LeftoverTyped DEF Interrupt, Dies
  <2>2. UNCHANGED <<opt, before>> /\ pc' \notin InLoop \cup {"main"}
    BY <1>4 DEF Interrupt, Dies
  <2>3. LastOfPerDay \in Dates
    BY MultiDayAssumption DEF LastOfPerDay, Dates
  <2>4. \A d \in Dates : status'[d] \in {status[d], "INTERRUPTED"}
    BY <1>4, <2>3 DEF Interrupt, Dies
  <2>5. \A d \in Dates : asked'[d] > 0 => May(d)'
    BY <2>1, <2>2, <2>4, MayKept DEF Core
  <2>6. QED BY <2>1, <2>2, <2>4, <2>5 DEF Core
<1>5. CASE SkipDownload \/ StartDownload \/ CheckPasses
  <2>1. /\ UNCHANGED <<opt, silver, raw, before, asked, status, at, attempts>>
        /\ pc \in {"date", "check"} /\ pc' \in {"check", "download", "stages"}
    BY <1>5 DEF SkipDownload, StartDownload, CheckPasses, Moved, worldVars
  <2>2. \A d \in Dates : (May(d)' <=> May(d)) /\ (Lacking(d)' <=> Lacking(d))
    BY <2>1 DEF May, Lacking, Breaks
  <2>3. pc' = "stages" => raw[at] # "none"
    BY <1>5 DEF SkipDownload, StartDownload, CheckPasses
  <2>4. pc' = "download" => /\ WillDownload(opt) /\ ~opt.dry /\ silver[at] = "fits"
                           /\ Lacking(at) /\ asked[at] <= attempts
    BY <1>5, MultiDayAssumption DEF SkipDownload, StartDownload, CheckPasses, NeedsDownload, Lacking
  <2>5. QED BY <2>1, <2>2, <2>3, <2>4
<1>6. CASE DownloadOk \/ DownloadFails \/ ChildRefuses
  <2>1. Core /\ asked'[at] <= attempts + 1
    <3>1. CASE ChildRefuses
      <4>1. pc = "download" /\ UNCHANGED <<worldVars, asked>>
        BY <3>1 DEF ChildRefuses
      <4>2. asked[at] <= attempts /\ asked[at] \in Int /\ attempts \in Int
        BY <4>1, MultiDayAssumption
      <4>3. Core
        BY <4>1, CoreUnchanged
      <4>4. asked' = asked
        BY <4>1
      <4>5. QED BY <4>2, <4>3, <4>4
    <3>2. CASE DownloadOk
      BY <3>2, CoreAsks DEF DownloadOk, RawStates
    <3>3. CASE DownloadFails
      BY <3>3, CoreAsks, LeftoverTyped DEF DownloadFails
    <3>4. QED BY <1>6, <3>1, <3>2, <3>3
  <2>2. /\ UNCHANGED <<opt, before, status, at, silver>> /\ pc = "download"
        /\ \/ pc' = "download" /\ attempts' = attempts + 1
           \/ pc' = "check"
    BY <1>6, <2>1 DEF DownloadOk, DownloadFails, ChildRefuses, Retried, Asks, Core
  <2>3. \A d \in Dates : asked'[d] > 0 => May(d)'
    BY <2>1, <2>2, MayKept DEF Core
  <2>4. Lacking(at)' /\ silver'[at'] = "fits" /\ WillDownload(opt) /\ ~opt.dry
    BY <2>2 DEF Lacking
  <2>5. QED BY <2>1, <2>2, <2>3, <2>4 DEF Core
<1>7. ASSUME ProcessOneDate, NEW s \in Statuses, Given(s),
             s \in {"COMPLETE", "PARTIAL"} => pc = "stages"
      PROVE  AskedWithinPlan'
  <2>1. Core
    <3>1. CASE RangeUnavailable
      BY <3>1, CoreAsks DEF RangeUnavailable
    <3>2. CASE ~RangeUnavailable
      <4>1. UNCHANGED <<worldVars, asked>>
        BY <1>7, <3>2 DEF ProcessOneDate, Given, ResourceGuardStops, NoSilver, WindowRaises,
           EndWith, SkipDownload, StartDownload, Moved, DownloadOk, DownloadFails, Retried,
           ChildRefuses, GiveUp, NoRaw, TruncatedSample, CheckPasses, StagesEnd, Finish
      <4>2. QED BY <4>1, CoreUnchanged
    <3>3. QED BY <3>1, <3>2
  <2>2. UNCHANGED <<opt, before, at>> /\ pc' = "report" /\ pc \in Working
    BY <1>7 DEF Given
  <2>3. \A d \in Dates : status'[d] = IF d = at THEN s ELSE status[d]
    BY <1>7 DEF Given
  <2>4. \A d \in Dates : asked'[d] > 0 => d <= at
    BY <2>1, <2>2 DEF Core
  <2>5. \A d \in Dates : asked'[d] > 0 => May(d)'
    <3>1. SUFFICES ASSUME NEW d \in Dates, asked'[d] > 0 PROVE May(d)'
      OBVIOUS
    <3>2. May(d) /\ silver' = silver /\ d <= at
      BY <2>1, <2>4, <3>1 DEF Core
    <3>3. \A e \in Dates : e < d => status'[e] = status[e]
      BY <2>3, <3>2
    <3>4. QED BY <2>2, <3>2, <3>3, MayKept
  <2>6. s \in {"COMPLETE", "PARTIAL"} => raw[at] # "none"
    BY <1>7
  <2>7. QED BY <2>1, <2>2, <2>3, <2>5, <2>6 DEF Core
<1>8. CASE pc = "date" /\ EndWith("died")
  <2>1. UNCHANGED <<opt, silver, raw, before, asked, status>> /\ pc' = "idle"
    BY <1>8 DEF EndWith, worldVars
  <2>2. \A d \in Dates : May(d)' <=> May(d)
    BY <2>1 DEF May, Lacking, Breaks
  <2>3. QED BY <2>1, <2>2
<1>9. CASE ProcessOneDate
  <2>1. CASE WindowRaises
    BY <2>1, <1>8 DEF WindowRaises
  <2>2. CASE pc' = "report"
    <3>1. PICK s \in Statuses : Given(s)
      BY <1>9, <2>2, DateSteps DEF GoesOn, EndWith
    <3>2. s \in {"COMPLETE", "PARTIAL"} => pc = "stages"
      <4>1. status'[at] = s
        BY <3>1 DEF Given
      <4>2. CASE StagesEnd
        BY <4>2 DEF StagesEnd
      <4>3. CASE ResourceGuardStops \/ NoSilver \/ RangeUnavailable \/ GiveUp \/ NoRaw
                   \/ TruncatedSample
        BY <4>1, <4>3 DEF ResourceGuardStops, NoSilver, RangeUnavailable, GiveUp, NoRaw,
           TruncatedSample, Finish, Appended, FailUnless
      <4>4. QED
        BY <1>9, <2>2, <4>2, <4>3 DEF ProcessOneDate, WindowRaises, EndWith, SkipDownload,
           StartDownload, DownloadOk, DownloadFails, Asks, Retried, ChildRefuses, CheckPasses
    <3>3. QED BY <1>9, <3>1, <3>2, <1>7
  <2>3. CASE pc' # "report" /\ ~WindowRaises
    BY <1>9, <2>3, <1>5, <1>6 DEF ProcessOneDate, ResourceGuardStops, NoSilver,
       RangeUnavailable, GiveUp, NoRaw, TruncatedSample, StagesEnd, Finish, Appended
  <2>4. QED BY <2>1, <2>2, <2>3
<1>10. QED BY <1>1, <1>2, <1>3, <1>4, <1>6, <1>5, <1>9 DEF Next

-----------------------------------------------------------------------------
LEMMA InvStep == MultiDayInv /\ [Next]_vars => MultiDayInv'
<1> SUFFICES ASSUME MultiDayInv, [Next]_vars PROVE MultiDayInv'
  OBVIOUS
<1>1. TypeOK'
  BY TypeStep DEF MultiDayInv
<1>2. CASE Next
  BY <1>1, <1>2, PrefixStep, ReportsStep, EndsStep, AskedStep, ToldStep DEF MultiDayInv
<1>3. CASE UNCHANGED vars
  <2>1. UNCHANGED <<silver, sdk, raw, opt, pc, at, attempts, status, reports, interrupted,
                    summarised, code, told, before, asked>>
    BY <1>3 DEF vars
  <2>2. PerDayIsPrefix'
    BY <2>1 DEF MultiDayInv, PerDayIsPrefix, Breaks
  <2>3. \A n \in Dates : LeftAt(n)' <=> LeftAt(n)
    BY <2>1 DEF LeftAt, Tells, Fresh, Breaks
  <2>4. ReportsFollow'
    BY <2>1, <2>3 DEF MultiDayInv, ReportsFollow, Tells, Fresh
  <2>5. EndsAreKept'
    BY <2>1 DEF MultiDayInv, EndsAreKept, DatesFailed, Strict
  <2>6. \A d \in Dates : (May(d)' <=> May(d)) /\ (Lacking(d)' <=> Lacking(d))
    BY <2>1 DEF May, Lacking, Breaks
  <2>7. AskedWithinPlan'
    <3>1. at \in Dates
      BY DEF MultiDayInv, TypeOK
    <3>2. QED BY <2>1, <2>6, <3>1 DEF MultiDayInv, AskedWithinPlan
  <2>8. ToldIsSound'
    BY <2>1 DEF MultiDayInv, ToldIsSound
  <2>9. QED BY <1>1, <2>2, <2>4, <2>5, <2>7, <2>8 DEF MultiDayInv
<1>4. QED BY <1>2, <1>3

(* The inductive invariant of the multi-day run.                           *)
THEOREM MultiDayInvHolds == Spec => []MultiDayInv
<1>1. QED BY InitInv, InvStep, PTL DEF Spec

(* Every variable of the multi-day run keeps its type; in particular no    *)
(* date is asked for more often than the retry budget allows.              *)
THEOREM MultiDayTypes == Spec => []TypeOK
<1>1. MultiDayInv => TypeOK
  BY DEF MultiDayInv
<1>2. QED BY <1>1, MultiDayInvHolds, PTL

(* The vendor is asked only as the command line authorizes, for dates that *)
(* lack data, within the retry budget and never after the run has stopped. *)
THEOREM OnlyAuthorizedFetches == Spec => []FetchIsAuthorized
<1>1. MultiDayInv => FetchIsAuthorized
  <2> SUFFICES ASSUME MultiDayInv, NEW d \in Dates, asked[d] > 0
               PROVE  /\ opt.download /\ opt.allow /\ opt.ack /\ opt.key /\ ~opt.dry
                      /\ silver[d] = "fits" /\ before[d] \notin Usable
                      /\ asked[d] <= MaxRetries + 1
                      /\ \A e \in 1..(d - 1) : status[e] # "NONE" /\ ~Breaks(status[e])
    BY DEF FetchIsAuthorized
  <2>1. May(d) /\ asked[d] \in 0..(MaxRetries + 1)
    BY DEF MultiDayInv, AskedWithinPlan, TypeOK
  <2>2. \A e \in 1..(d - 1) : e \in Dates /\ e < d
    BY DatesAreInts, MultiDayAssumption DEF Dates
  <2>3. QED
    BY <2>1, <2>2, MultiDayAssumption
    DEF May, WouldAttempt, WillDownload, Lacking, Usable
<1>2. QED BY <1>1, MultiDayInvHolds, PTL

(* A summary covers a prefix of the dates, all of them unless the run was  *)
(* stopped, and says of each what its report on disk says.                 *)
THEOREM SummariesTellReports == Spec => []SummaryTellsReports
<1>1. MultiDayInv => SummaryTellsReports
  <2> SUFFICES ASSUME MultiDayInv, summarised, ~opt.dry PROVE SummaryTellsReports
    BY DEF SummaryTellsReports
  <2>1. PICK n \in Dates : LeftAt(n)
    BY DEF MultiDayInv, ReportsFollow
  <2>2. \A d \in 1..n : d \in Dates /\ (d < n \/ d = n)
    BY DatesAreInts, MultiDayAssumption DEF Dates
  <2>3. \A d \in 1..n : \/ reports[d] = status[d]
                        \/ interrupted /\ d = n /\ status[d] = "INTERRUPTED"
    BY <2>1, <2>2 DEF LeftAt, Tells
  <2>4. QED BY <2>1, <2>3 DEF SummaryTellsReports, LeftAt
<1>2. QED BY <1>1, MultiDayInvHolds, PTL

(* Exit code 0 hides no failed date and, when nothing may be skipped, no   *)
(* date that was not processed; 130 is the interrupted run's alone.        *)
THEOREM ExitCodesTellFailures == Spec => []ExitTellsFailures
<1>1. MultiDayInv => ExitTellsFailures
  <2> SUFFICES ASSUME MultiDayInv, pc = "idle" PROVE ExitTellsFailures
    BY DEF ExitTellsFailures
  <2>1. (code = "130" => interrupted) /\ (interrupted => code \in {"130", "died"})
    BY DEF MultiDayInv, EndsAreKept
  <2>2. ASSUME code = "0", ~opt.preflight
        PROVE  /\ \A d \in Dates : reports[d] # "FAILED"
               /\ Strict => \A d \in Dates :
                    \/ status[d] \in {"COMPLETE", "PARTIAL", "TRUNCATED"}
                    \/ \E e \in 1..d : status[e] = "GUARD_STOP"
    <3>1. summarised /\ ~interrupted /\ \A d \in Dates : status[d] # "FAILED"
      BY <2>2 DEF MultiDayInv, EndsAreKept, DatesFailed
    <3>2. PICK n \in Dates : LeftAt(n)
      BY <3>1 DEF MultiDayInv, ReportsFollow
    <3>3. \A d \in Dates : d < n \/ d = n \/ d > n
      BY DatesAreInts
    <3>4. \A d \in Dates : reports[d] # "FAILED"
      BY <3>1, <3>2, <3>3 DEF LeftAt, Tells, Fresh, MultiDayInv, ReportsFollow
    <3>5. ASSUME Strict, NEW d \in Dates
          PROVE  \/ status[d] \in {"COMPLETE", "PARTIAL", "TRUNCATED"}
                 \/ \E e \in 1..d : status[e] = "GUARD_STOP"
      <4>1. \A e \in Dates : status[e] \in {"COMPLETE", "PARTIAL", "TRUNCATED",
                                            "GUARD_STOP", "NONE"}
        BY <3>1, <3>5 DEF MultiDayInv, TypeOK, EndsAreKept, Statuses, Outcomes
      <4>2. CASE status[d] = "NONE"
        <5>1. d > n /\ n < NDates
          BY <3>2, <4>2, DatesAreInts, MultiDayAssumption DEF LeftAt
        <5>2. status[n] = "GUARD_STOP" /\ n \in 1..d
          BY <3>1, <3>2, <5>1, DatesAreInts, MultiDayAssumption DEF LeftAt, Breaks
        <5>3. QED BY <5>2
      <4>3. CASE status[d] = "GUARD_STOP"
        <5>1. d \in 1..d
          BY DatesAreInts
        <5>2. QED BY <4>3, <5>1
      <4>4. QED BY <4>1, <4>2, <4>3
    <3>6. QED BY <3>4, <3>5
  <2>3. QED BY <2>1, <2>2 DEF ExitTellsFailures
<1>2. QED BY <1>1, MultiDayInvHolds, PTL

(* A real run does what its dry run planned, as long as the raw files have *)
(* not changed in between and --force is not used.                         *)
THEOREM DryRunsForetell == Spec => []DryRunForetells
<1>1. MultiDayInv => DryRunForetells
  <2> SUFFICES ASSUME MultiDayInv, ~opt.dry, ~opt.force, told.made, told.by = opt,
                      told.raw = before, NEW d \in Dates
               PROVE  /\ d \notin told.planned => asked[d] = 0
                      /\ d \notin told.runnable => status[d] \notin {"COMPLETE", "PARTIAL"}
    BY DEF DryRunForetells
  <2>1. /\ d \notin told.planned => before[d] # "none" \/ ~WouldAttempt(opt)
        /\ d \notin told.runnable => before[d] = "none" /\ ~opt.download
    BY DEF MultiDayInv, ToldIsSound
  <2>2. asked[d] > 0 => before[d] = "none" /\ WouldAttempt(opt)
    BY DEF MultiDayInv, AskedWithinPlan, May, Lacking
  <2>3. asked[d] = 0 \/ asked[d] > 0
    BY MultiDayAssumption DEF MultiDayInv, TypeOK
  <2>4. status[d] \in {"COMPLETE", "PARTIAL"} => before[d] # "none" \/ opt.download
    BY DEF MultiDayInv, AskedWithinPlan, WillDownload
  <2>5. QED BY <2>1, <2>2, <2>3, <2>4
<1>2. QED BY <1>1, MultiDayInvHolds, PTL

(* A date whose raw data can be used is not asked for, and only what is    *)
(* asked for is replaced: no attempt, failed or killed, and no --force     *)
(* reaches it.                                                             *)
RawInv == MultiDayInv /\ UsableRawIsKept

LEMMA RawStep == RawInv /\ [Next]_vars => UsableRawIsKept'
<1> SUFFICES ASSUME RawInv, [Next]_vars PROVE UsableRawIsKept'
  OBVIOUS
<1>1. CASE Invoke
  BY <1>1 DEF Invoke, UsableRawIsKept, worldVars
<1>2. ASSUME before' = before, raw' = raw PROVE UsableRawIsKept'
  BY <1>2 DEF RawInv, UsableRawIsKept
<1>3. ASSUME before' = before, NEW r, Asks(r) PROVE UsableRawIsKept'
  <2>1. before[at] \notin Usable
    BY <1>3 DEF Asks, RawInv, MultiDayInv, AskedWithinPlan, Lacking, Usable
  <2>2. \A d \in Dates : d # at => raw'[d] = raw[d]
    BY <1>3 DEF Asks, RawInv, MultiDayInv, TypeOK
  <2>3. QED BY <1>3, <2>1, <2>2 DEF RawInv, UsableRawIsKept
<1>4. CASE DownloadOk \/ DownloadFails \/ RangeUnavailable
  BY <1>3, <1>4 DEF DownloadOk, DownloadFails, RangeUnavailable, Retried, Appended
<1>5. CASE Interrupt \/ Dies
  BY <1>2, <1>3, <1>5 DEF Interrupt, Dies, worldVars
<1>6. CASE UNCHANGED vars
  BY <1>2, <1>6 DEF vars
<1>7. CASE ProcessOneDate /\ ~(DownloadOk \/ DownloadFails \/ RangeUnavailable)
  BY <1>2, <1>7 DEF ProcessOneDate, ResourceGuardStops, NoSilver, WindowRaises, EndWith,
     SkipDownload, StartDownload, Moved, ChildRefuses, Retried, GiveUp, NoRaw,
     TruncatedSample, CheckPasses, StagesEnd, Finish, Appended, worldVars
<1>8. CASE Refuse \/ RunDownloadPreflight \/ StartLoop \/ WritePerDayReport \/ NextDate
           \/ LeaveLoop \/ WriteSummary \/ Exit
  BY <1>2, <1>8 DEF Refuse, RunDownloadPreflight, StartLoop, WritePerDayReport, NextDate,
     LeaveLoop, WriteSummary, Exit, EndWith, Moved, worldVars
<1>9. QED BY <1>1, <1>4, <1>5, <1>6, <1>7, <1>8 DEF Next

(* Raw data that can be used outlives every run of the script.             *)
THEOREM UsableRawSurvives == Spec => []UsableRawIsKept
<1>1. Init => UsableRawIsKept
  BY DEF Init, UsableRawIsKept
<1>2. MultiDayInv /\ UsableRawIsKept /\ [Next]_vars => UsableRawIsKept'
  BY RawStep DEF RawInv
<1>3. QED BY <1>1, <1>2, MultiDayInvHolds, PTL DEF Spec

-----------------------------------------------------------------------------
(* The end of a run.                                                       *)

LEMMA PerDateIsNat == PerDate \in Nat /\ PerDate = MaxRetries + 7
BY MultiDayAssumption DEF PerDate

(* n dates to come cost as many steps as n - 1 and one more date.          *)
LEMMA OneDateLess ==
  ASSUME NEW n \in Nat, n > 0
  PROVE  (n - 1) * PerDate \in Nat /\ n * PerDate = (n - 1) * PerDate + PerDate
BY PerDateIsNat

LEMMA DatesAhead ==
  ASSUME TypeOK
  PROVE  /\ NDates - at \in Nat /\ NDates - at <= NDates - 1
         /\ (NDates - at) * PerDate \in Nat
         /\ (NDates - at) * PerDate <= (NDates - 1) * PerDate
<1>1. NDates - at \in Nat /\ NDates - at <= NDates - 1 /\ NDates - 1 \in Nat
  BY MultiDayAssumption, DatesAreInts DEF TypeOK
<1>2. \A m, n, k \in Nat : m <= n => m * k \in Nat /\ m * k <= n * k
  OBVIOUS
<1>3. QED BY <1>1, <1>2, PerDateIsNat

LEMMA StepRankIsBounded == TypeOK => StepRank \in 1..PerDate
BY MultiDayAssumption, PerDateIsNat DEF TypeOK, StepRank

LEMMA RankIsBounded == TypeOK => Rank \in 0..AtMost
<1> SUFFICES ASSUME TypeOK PROVE Rank \in 0..AtMost
  OBVIOUS
<1>1. NDates * PerDate = (NDates - 1) * PerDate + PerDate /\ (NDates - 1) * PerDate \in Nat
  BY MultiDayAssumption, OneDateLess
<1> DEFINE A == (NDates - at) * PerDate
           L == (NDates - 1) * PerDate
<1>2. A \in Nat /\ A <= L /\ L \in Nat /\ AtMost = L + PerDate + 3
  BY <1>1, DatesAhead, PerDateIsNat DEF AtMost
<1>3. StepRank \in 1..PerDate
  BY StepRankIsBounded
<1>4. Rank = CASE pc = "idle"    -> 0
               [] pc = "exit"    -> 1
               [] pc = "summary" -> 2
               [] pc \in InLoop  -> A + StepRank + 2
               [] pc = "main"    -> AtMost
  BY DEF Rank
<1> HIDE DEF A, L
<1>5. QED BY <1>2, <1>3, <1>4, PerDateIsNat DEF TypeOK, InLoop

(* A step within a date: the date stays and the step counts down.          *)
LEMMA WithinDate ==
  ASSUME TypeOK, TypeOK', pc \in InLoop, pc' \in InLoop, at' = at, StepRank' < StepRank
  PROVE  Rank' < Rank
<1>1. StepRank \in Int /\ StepRank' \in Int
  <2>1. StepRank \in 1..PerDate
    BY StepRankIsBounded
  <2>2. StepRank' \in 1..PerDate
    BY MultiDayAssumption, PerDateIsNat DEF TypeOK, StepRank, PerDate
  <2>3. QED BY <2>1, <2>2, PerDateIsNat
<1>2. PICK a \in Nat : a = (NDates - at) * PerDate
  BY DatesAhead
<1>3. Rank = a + StepRank + 2
  BY <1>2 DEF Rank, InLoop
<1>4. Rank' = a + StepRank' + 2
  <2>1. Rank' = (NDates - at) * PerDate + StepRank' + 2
    BY DEF Rank, InLoop, PerDate
  <2>2. QED BY <1>2, <2>1
<1>5. \A m, n \in Int : m < n => a + m + 2 < a + n + 2
  OBVIOUS
<1>6. QED BY <1>1, <1>3, <1>4, <1>5

(* Out of the loop, to the summary or to the end.                          *)
LEMMA RankInLoop ==
  ASSUME TypeOK, pc \in InLoop \cup {"main"}
  PROVE  Rank \in Int /\ Rank > 2
<1>1. PICK a \in Nat : a = (NDates - at) * PerDate
  BY DatesAhead
<1>2. NDates * PerDate \in Nat
  BY MultiDayAssumption, PerDateIsNat
<1>3. CASE pc \in InLoop
  <2>1. Rank = a + StepRank + 2
    BY <1>1, <1>3 DEF Rank, InLoop
  <2>2. QED BY <2>1, StepRankIsBounded, PerDateIsNat
<1>4. CASE pc = "main"
  <2>1. Rank = NDates * PerDate + 3
    BY <1>4 DEF Rank, InLoop, AtMost
  <2>2. QED BY <1>2, <2>1
<1>5. QED BY <1>3, <1>4

LEMMA RankAtEnd ==
  /\ pc = "idle" => Rank = 0
  /\ pc = "exit" => Rank = 1
  /\ pc = "summary" => Rank = 2
BY DEF Rank, InLoop

LEMMA OutOfLoop ==
  ASSUME TypeOK, \/ pc # "idle" /\ pc' = "idle"
                 \/ pc \in InLoop /\ pc' = "summary"
                 \/ pc = "summary" /\ pc' = "exit"
  PROVE  Rank' < Rank
<1>1. /\ pc' = "idle" => Rank' = 0
      /\ pc' = "exit" => Rank' = 1
      /\ pc' = "summary" => Rank' = 2
  BY DEF Rank, InLoop
<1>2. pc # "idle" => pc \in InLoop \cup {"main"} \/ pc = "summary" \/ pc = "exit"
  BY DEF TypeOK
<1>3. QED BY <1>1, <1>2, RankInLoop, RankAtEnd

(* Every step of a run of the script brings it nearer its end, so a run    *)
(* takes AtMost steps and cannot go on for ever.                           *)
THEOREM MultiDayAdvances == Spec => RunAdvances /\ [](Rank \in 0..AtMost)
<1>1. ASSUME MultiDayInv, TypeOK', pc # "idle", Next PROVE Rank' < Rank
  <2>1. TypeOK
    BY <1>1 DEF MultiDayInv
  <2>2. ASSUME \/ pc' = "idle"
               \/ pc \in InLoop /\ pc' = "summary"
               \/ pc = "summary" /\ pc' = "exit"
        PROVE  Rank' < Rank
    BY <1>1, <2>1, <2>2, OutOfLoop
  <2>3. CASE StartLoop
    <3>1. at = 1 /\ at' = at /\ pc = "main" /\ pc' = "date"
      BY <1>1, <2>3 DEF StartLoop, MultiDayInv, PerDayIsPrefix
    <3>2. Rank' = (NDates - 1) * PerDate + PerDate + 2 /\ Rank = NDates * PerDate + 3
      BY <3>1 DEF Rank, StepRank, InLoop, AtMost, PerDate
    <3>3. NDates * PerDate = (NDates - 1) * PerDate + PerDate /\ (NDates - 1) * PerDate \in Nat
      BY MultiDayAssumption, OneDateLess
    <3>4. QED BY <3>2, <3>3, PerDateIsNat
  <2>4. CASE NextDate
    <3>1. pc = "decide" /\ pc' = "date" /\ at' = at + 1 /\ at < NDates
      BY <2>4 DEF NextDate
    <3>2. at \in Int /\ NDates - at \in Nat /\ NDates - at > 0
          /\ NDates - at' = (NDates - at) - 1
      BY <2>1, <3>1, DatesAhead, DatesAreInts, MultiDayAssumption DEF TypeOK
    <3>3. Rank = (NDates - at) * PerDate + 3
      BY <3>1, <3>2, PerDateIsNat DEF Rank, StepRank, InLoop
    <3>4. Rank' = (NDates - at - 1) * PerDate + PerDate + 2
      BY <3>1, <3>2 DEF Rank, StepRank, InLoop, PerDate
    <3>5. (NDates - at) * PerDate = (NDates - at - 1) * PerDate + PerDate
          /\ (NDates - at - 1) * PerDate \in Nat
      BY <3>2, OneDateLess
    <3>6. QED BY <3>3, <3>4, <3>5, PerDateIsNat
  <2>5. CASE ProcessOneDate /\ pc' \in InLoop
    <3>1. pc \in InLoop /\ at' = at
      BY <2>5 DEF ProcessOneDate, ResourceGuardStops, NoSilver, WindowRaises, EndWith,
         SkipDownload, StartDownload, DownloadOk, DownloadFails, RangeUnavailable, Retried,
         ChildRefuses, GiveUp, NoRaw, TruncatedSample, CheckPasses, StagesEnd, Finish,
         Appended, Asks, InLoop
    <3>2. \/ pc = "date" /\ pc' \in {"check", "download", "report"}
          \/ pc = "download" /\ pc' \in {"check", "report"}
          \/ pc = "download" /\ pc' = "download" /\ attempts' = attempts + 1
          \/ pc = "check" /\ pc' \in {"stages", "report"}
          \/ pc = "stages" /\ pc' = "report"
      BY <2>5 DEF ProcessOneDate, ResourceGuardStops, NoSilver, WindowRaises, EndWith,
         SkipDownload, StartDownload, DownloadOk, DownloadFails, RangeUnavailable, Retried,
         ChildRefuses, GiveUp, NoRaw, TruncatedSample, CheckPasses, StagesEnd, Finish,
         Appended, Asks, InLoop
    <3>3. attempts \in 0..(MaxRetries + 1) /\ attempts' \in 0..(MaxRetries + 1)
      BY <1>1, <2>1 DEF TypeOK
    <3>4. StepRank' < StepRank
      BY <3>2, <3>3, MultiDayAssumption DEF StepRank, PerDate
    <3>5. QED BY <1>1, <2>1, <2>5, <3>1, <3>4, WithinDate
  <2>6. CASE WritePerDayReport
    <3>1. pc = "report" /\ pc' = "decide" /\ at' = at
      BY <2>6 DEF WritePerDayReport
    <3>2. StepRank' < StepRank
      BY <3>1 DEF StepRank
    <3>3. QED BY <1>1, <2>1, <3>1, <3>2, WithinDate DEF InLoop
  <2>7. CASE Refuse \/ RunDownloadPreflight \/ LeaveLoop \/ Interrupt \/ WriteSummary
             \/ Exit \/ Dies \/ WindowRaises
    BY <2>2, <2>7 DEF Refuse, RunDownloadPreflight, LeaveLoop, Interrupt, WriteSummary, Exit,
       Dies, WindowRaises, EndWith, InLoop
  <2>8. CASE ProcessOneDate /\ pc' \notin InLoop
    <3>1. WindowRaises
      BY <2>8 DEF ProcessOneDate, ResourceGuardStops, NoSilver, SkipDownload, StartDownload,
         DownloadOk, DownloadFails, RangeUnavailable, Retried, ChildRefuses, GiveUp, NoRaw,
         TruncatedSample, CheckPasses, StagesEnd, Finish, Appended, Asks, InLoop
    <3>2. QED BY <2>7, <3>1
  <2>9. CASE Invoke
    BY <1>1, <2>9 DEF Invoke
  <2>10. QED BY <1>1, <2>3, <2>4, <2>5, <2>6, <2>7, <2>8, <2>9 DEF Next
<1>2. ASSUME MultiDayInv, TypeOK', [Next]_vars
      PROVE  [pc # "idle" => Rank' < Rank]_vars
  BY <1>1, <1>2
<1>3. MultiDayInv => Rank \in 0..AtMost
  BY RankIsBounded DEF MultiDayInv
<1>4. QED BY <1>2, <1>3, MultiDayInvHolds, MultiDayTypes, PTL DEF Spec, RunAdvances
=============================================================================
