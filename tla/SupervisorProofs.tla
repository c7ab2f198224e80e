-------------------------- MODULE SupervisorProofs --------------------------
(***************************************************************************)
(* For every restart budget: whatever the loggers, the operator and the    *)
(* clock do, a run leaves no logger behind that it has not at least killed,*)
(* never has two, and gives no PASS that was not earned.                   *)
(***************************************************************************)
EXTENDS Supervisor, TLAPS

USE SupervisorAssumption

LEMMA InitInv == Init => SupervisorInv
<1> SUFFICES ASSUME Init PROVE SupervisorInv
  OBVIOUS
<1> USE DEF Init
<1>1. TypeOK
  <2>1. logger \in [Gens -> {"never", "running", "exit0", "exit1"}]
    OBVIOUS
  <2>2. seen \in BOOLEAN /\ logFailed \in BOOLEAN /\ clearFailed \in BOOLEAN /\ asked \in BOOLEAN
    OBVIOUS
  <2>3. restarts \in 0..MaxRestarts /\ gen \in 0..(MaxRestarts + 1) /\ code \in {-1, 0, 1, 2}
    OBVIOUS
  <2>4. QED BY <2>1, <2>2, <2>3 DEF TypeOK, Reasons
<1>2. StartedInOrder /\ LeftDisposed
  BY DEF StartedInOrder, LeftDisposed, Disposed, Stopping, Gens
<1>3. ReasonGiven /\ NothingOutlives /\ PassIsEarned /\ OwnStopIsNotManual
  BY DEF ReasonGiven, NothingOutlives, PassIsEarned, OwnStopIsNotManual, Stopping
<1>4. QED BY <1>1, <1>2, <1>3 DEF SupervisorInv

(* The values StartLogger and StartRaises give to the new logger.          *)
LEMMA LaunchIsBudgeted ==
  ASSUME TypeOK, StartedInOrder, phase = "start", NEW status \in {"never", "running"}, Launch(status)
  PROVE  /\ gen + 1 \in Gens /\ gen' = gen + 1
         /\ logger' \in [Gens -> {"never", "running", "exit0", "exit1"}]
         /\ logger'[gen + 1] = status
         /\ \A g \in Gens : g # gen + 1 => logger'[g] = logger[g]
BY DEF TypeOK, StartedInOrder, Launch, Gens

(* Every state is well typed: a logger is started only within the budget.  *)
LEMMA TypeStep == TypeOK /\ StartedInOrder /\ [Next]_vars => TypeOK'
<1> SUFFICES ASSUME TypeOK, StartedInOrder, [Next]_vars PROVE TypeOK'
  OBVIOUS
<1> USE DEF runVars, procVars
<1>1. CASE UNCHANGED vars
  BY <1>1 DEF vars, TypeOK
<1>2. CASE PreflightFails \/ PreflightPasses
  BY <1>2 DEF PreflightFails, PreflightPasses, Finish, TypeOK, Reasons, FailReasons
<1>3. CASE StartLogger
  <2>1. gen' \in 0..(MaxRestarts + 1) /\ logger' \in [Gens -> {"never", "running", "exit0", "exit1"}]
    BY <1>3, LaunchIsBudgeted DEF StartLogger, Gens
  <2>2. stopFile' \in {"none", "operator", "supervisor"} /\ clearFailed' \in BOOLEAN
    BY <1>3 DEF StartLogger, ClearStopFile, TypeOK
  <2>3. phase' = "monitor" /\ seen' = FALSE
        /\ UNCHANGED <<why, reason, restarts, mode, code, killed, clock, logFailed, asked>>
    BY <1>3 DEF StartLogger
  <2>4. QED BY <2>1, <2>2, <2>3 DEF TypeOK
<1>4. CASE StartRaises
  <2>1. gen' \in 0..(MaxRestarts + 1) /\ logger' \in [Gens -> {"never", "running", "exit0", "exit1"}]
    BY <1>4, LaunchIsBudgeted DEF StartRaises, Gens, TypeOK
  <2>2. phase' \in {"done", "stopping"} /\ why' \in {"restart", "final"}
        /\ reason' \in Reasons /\ code' \in {-1, 0, 1, 2}
    BY <1>4 DEF StartRaises, Finish, Stop, Fault, TypeOK, Reasons, FailReasons
  <2>3. stopFile' \in {"none", "operator", "supervisor"} /\ clearFailed' \in BOOLEAN
    BY <1>4 DEF StartRaises, ClearStopFile, TypeOK
  <2>4. QED BY <1>4, <2>1, <2>2, <2>3 DEF StartRaises, TypeOK, Stopping
<1>5. CASE DurationElapsed \/ LoggerLeft \/ LoggerFailed
  <2>1. CASE DurationElapsed
    BY <2>1 DEF DurationElapsed, Stop, TypeOK, Stopping, Reasons
  <2>2. CASE LoggerLeft
    <3>1. logFailed' \in BOOLEAN
      BY <2>2 DEF LoggerLeft, TypeOK
    <3>2. QED BY <2>2, <3>1 DEF LoggerLeft, TypeOK, Reasons
  <2>3. CASE LoggerFailed
    BY <2>3 DEF LoggerFailed, Stop, TypeOK, Stopping, Reasons
  <2>4. QED BY <1>5, <2>1, <2>2, <2>3
<1>6. CASE LoggerRuns \/ StopCondition \/ NothingWrong \/ NoOutput \/ LoopFaults
  <2>1. CASE LoggerRuns
    BY <2>1 DEF LoggerRuns, TypeOK
  <2>5. CASE NothingWrong
    <3>1. seen' \in BOOLEAN
      BY <2>5 DEF NothingWrong, TypeOK
    <3>2. phase' = "monitor"
          /\ UNCHANGED <<why, reason, restarts, mode, code, gen, logger, killed,
                         stopFile, clock, logFailed, clearFailed, asked>>
      BY <2>5 DEF NothingWrong
    <3>3. QED BY <3>1, <3>2 DEF TypeOK
  <2>2. CASE StopCondition \/ NoOutput
    BY <2>2 DEF StopCondition, NoOutput, Stop, TypeOK, Stopping, Reasons, FailReasons
  <2>3. CASE LoopFaults
    <3>1. logFailed' \in BOOLEAN
      BY <2>3 DEF LoopFaults, TypeOK
    <3>2. QED BY <2>3, <3>1 DEF LoopFaults, Stop, Fault, TypeOK, Stopping, Reasons, FailReasons
  <2>4. QED BY <1>6, <2>1, <2>2, <2>3, <2>5
<1>7. CASE AlreadyExited \/ ExitNoticed \/ KillWaited
  <2>1. phase \in Stopping /\ (why = "restart" => restarts < MaxRestarts)
    BY <1>7 DEF AlreadyExited, ExitNoticed, KillWaited, StartedInOrder, Stopping
  <2>2. QED BY <1>7, <2>1 DEF AlreadyExited, ExitNoticed, KillWaited, Stopped, TypeOK
<1>8. CASE RequestStop
  BY <1>8 DEF RequestStop, TypeOK, Stopping
<1>9. CASE Escalate
  <2>1. gen \in Gens
    BY <1>9 DEF Escalate, TypeOK, StartedInOrder, Stopping, Gens
  <2>2. killed' \subseteq Gens /\ phase' \in Stopping
    BY <1>9, <2>1 DEF Escalate, TypeOK, Stopping
  <2>3. QED BY <1>9, <2>2 DEF Escalate, TypeOK
<1>10. CASE StopRaises
  <2>1. /\ phase' \in {"stopping", "escaped"} /\ why' \in {"restart", "final"}
        /\ reason' \in Reasons
    BY <1>10 DEF StopRaises, Stop, Fault, TypeOK, Reasons, FailReasons
  <2>2. /\ logFailed' = TRUE
        /\ UNCHANGED <<restarts, mode, seen, code, gen, logger, killed, stopFile,
                       clock, clearFailed, asked>>
    BY <1>10 DEF StopRaises
  <2>3. QED BY <2>1, <2>2 DEF TypeOK, Stopping
<1>11. CASE Cleanup
  <2>1. stopFile' \in {"none", "operator", "supervisor"} /\ clearFailed' \in BOOLEAN
    BY <1>11 DEF Cleanup, ClearStopFile, TypeOK
  <2>2. phase' = "done" /\ reason' = reason /\ code' \in {-1, 0, 1, 2}
    BY <1>11 DEF Cleanup, Finish, ReturnCode
  <2>3. UNCHANGED <<why, restarts, mode, seen, gen, logger, killed, clock, logFailed, asked>>
    BY <1>11 DEF Cleanup
  <2>4. QED BY <2>1, <2>2, <2>3 DEF TypeOK
<1>12. ASSUME NEW g \in Gens, LoggerEnds(g) PROVE TypeOK'
  BY <1>12 DEF LoggerEnds, TypeOK
<1>13. CASE Interrupt \/ Tick
  BY <1>13 DEF Interrupt, Tick, TypeOK
<1>14. CASE OperatorStops
  <2>1. asked' \in BOOLEAN
    BY <1>14 DEF OperatorStops
  <2>2. QED BY <1>14, <2>1 DEF OperatorStops, TypeOK
<1>15. QED
  BY <1>1, <1>2, <1>3, <1>4, <1>5, <1>6, <1>7, <1>8, <1>9, <1>10, <1>11, <1>12, <1>13, <1>14
     DEF Next, SupervisorStep, SupervisorFault

(* Every start is counted, and none is asked for beyond the budget.        *)
LEMMA OrderStep == TypeOK /\ StartedInOrder /\ [Next]_vars => StartedInOrder'
<1> SUFFICES ASSUME TypeOK, StartedInOrder, [Next]_vars PROVE StartedInOrder'
  OBVIOUS
<1> USE DEF runVars, procVars, StartedInOrder
<1>1. CASE UNCHANGED vars
  BY <1>1 DEF vars, Stopping
<1>2. CASE PreflightFails \/ PreflightPasses
  BY <1>2 DEF PreflightFails, PreflightPasses, Finish, Stopping, TypeOK
<1>3. CASE StartLogger
  <2>1. gen' = gen + 1 /\ \A g \in Gens : g # gen + 1 => logger'[g] = logger[g]
    BY <1>3, LaunchIsBudgeted DEF StartLogger
  <2>2. QED BY <1>3, <2>1 DEF StartLogger, TypeOK, Stopping, Gens
<1>4. CASE StartRaises
  <2>1. gen' \in {gen, gen + 1} /\ \A g \in Gens : g > gen' => logger'[g] = "never"
    <3>1. CASE UNCHANGED <<gen, logger>>
      BY <3>1
    <3>2. ASSUME NEW status \in {"never", "running"}, Launch(status)
          PROVE  gen' = gen + 1 /\ \A g \in Gens : g > gen' => logger'[g] = "never"
      BY <1>4, <3>2, LaunchIsBudgeted DEF StartRaises, TypeOK, Gens
    <3>3. QED BY <1>4, <3>1, <3>2 DEF StartRaises
  <2>2. CASE gen = 0
    BY <1>4, <2>1, <2>2 DEF StartRaises, Finish, TypeOK, Stopping
  <2>3. CASE gen # 0
    BY <1>4, <2>1, <2>3 DEF StartRaises, Stop, TypeOK, Stopping
  <2>4. QED BY <2>2, <2>3
<1>5. CASE DurationElapsed \/ LoggerLeft \/ LoggerFailed
  BY <1>5 DEF DurationElapsed, LoggerLeft, LoggerFailed, Stop, TypeOK, Stopping
<1>6. CASE LoggerRuns \/ StopCondition \/ NothingWrong \/ NoOutput \/ LoopFaults
  BY <1>6 DEF LoggerRuns, StopCondition, NothingWrong, NoOutput, LoopFaults, Stop, TypeOK, Stopping
<1>7. CASE AlreadyExited \/ ExitNoticed \/ KillWaited
  BY <1>7 DEF AlreadyExited, ExitNoticed, KillWaited, Stopped, TypeOK, Stopping
<1>8. CASE RequestStop \/ Escalate \/ StopRaises
  BY <1>8 DEF RequestStop, Escalate, StopRaises, Stop, Stopping
<1>9. CASE Cleanup
  BY <1>9 DEF Cleanup, Finish, Stopping
<1>10. ASSUME NEW g \in Gens, LoggerEnds(g) PROVE StartedInOrder'
  BY <1>10 DEF LoggerEnds, Stopping, TypeOK
<1>11. CASE Interrupt \/ OperatorStops \/ Tick
  BY <1>11 DEF Interrupt, OperatorStops, Tick, Stopping, TypeOK
<1>12. QED
  BY <1>1, <1>2, <1>3, <1>4, <1>5, <1>6, <1>7, <1>8, <1>9, <1>10, <1>11 DEF Next, SupervisorStep, SupervisorFault

(* No logger is started before the one before it has ended or was killed.  *)
LEMMA DisposedStep == TypeOK /\ StartedInOrder /\ LeftDisposed /\ [Next]_vars => LeftDisposed'
<1> SUFFICES ASSUME TypeOK, StartedInOrder, LeftDisposed, [Next]_vars PROVE LeftDisposed'
  OBVIOUS
<1> USE DEF runVars, procVars, LeftDisposed, Disposed
<1>1. CASE UNCHANGED vars
  BY <1>1 DEF vars
<1>2. CASE PreflightFails \/ PreflightPasses
  BY <1>2 DEF PreflightFails, PreflightPasses, Finish, StartedInOrder
<1>3. CASE StartLogger
  <2>1. gen' = gen + 1 /\ \A g \in Gens : g # gen + 1 => logger'[g] = logger[g]
    BY <1>3, LaunchIsBudgeted DEF StartLogger
  <2>2. QED BY <1>3, <2>1 DEF StartLogger, TypeOK, Gens
<1>4. CASE StartRaises
  <2>1. CASE UNCHANGED <<gen, logger>>
    BY <1>4, <2>1 DEF StartRaises, Finish, Stop
  <2>2. ASSUME NEW status \in {"never", "running"}, Launch(status) PROVE LeftDisposed'
    <3>1. gen' = gen + 1 /\ \A g \in Gens : g # gen + 1 => logger'[g] = logger[g]
      BY <1>4, <2>2, LaunchIsBudgeted DEF StartRaises
    <3>2. QED BY <1>4, <3>1 DEF StartRaises, Finish, Stop, TypeOK, Gens
  <2>3. QED BY <1>4, <2>1, <2>2 DEF StartRaises
<1>5. CASE DurationElapsed \/ LoggerLeft \/ LoggerFailed
  BY <1>5 DEF DurationElapsed, LoggerLeft, LoggerFailed, Stop
<1>6. CASE LoggerRuns \/ StopCondition \/ NothingWrong \/ NoOutput \/ LoopFaults
  BY <1>6 DEF LoggerRuns, StopCondition, NothingWrong, NoOutput, LoopFaults, Stop
<1>7. CASE AlreadyExited \/ ExitNoticed \/ KillWaited
  BY <1>7 DEF AlreadyExited, ExitNoticed, KillWaited, Stopped, Alive, TypeOK, StartedInOrder
<1>8. CASE RequestStop \/ StopRaises
  BY <1>8 DEF RequestStop, StopRaises, Stop
<1>9. CASE Escalate
  BY <1>9 DEF Escalate
<1>10. CASE Cleanup
  BY <1>10 DEF Cleanup, Finish
<1>11. ASSUME NEW h \in Gens, LoggerEnds(h) PROVE LeftDisposed'
  <2>1. \A g \in Gens : logger'[g] = "running" => logger[g] = "running"
    BY <1>11 DEF LoggerEnds, TypeOK
  <2>2. gen = 0 \/ gen \in Gens
    BY DEF TypeOK, Gens
  <2>3. QED BY <1>11, <2>1, <2>2 DEF LoggerEnds, TypeOK
<1>12. CASE Interrupt \/ OperatorStops \/ Tick
  BY <1>12 DEF Interrupt, OperatorStops, Tick
<1>13. QED
  BY <1>1, <1>2, <1>3, <1>4, <1>5, <1>6, <1>7, <1>8, <1>9, <1>10, <1>11, <1>12
     DEF Next, SupervisorStep, SupervisorFault

(* The exit reason is there once the monitoring is over, and only then.    *)
LEMMA ReasonStep ==
  TypeOK /\ StartedInOrder /\ ReasonGiven /\ [Next]_vars => ReasonGiven'
<1> SUFFICES ASSUME TypeOK, StartedInOrder, ReasonGiven, [Next]_vars PROVE ReasonGiven'
  OBVIOUS
<1> USE DEF runVars, procVars, ReasonGiven, Stopping
<1>1. CASE UNCHANGED vars
  BY <1>1 DEF vars
<1>2. CASE PreflightFails \/ PreflightPasses
  BY <1>2 DEF PreflightFails, PreflightPasses, Finish
<1>3. CASE StartLogger
  BY <1>3 DEF StartLogger, ClearStopFile
<1>4. CASE StartRaises
  BY <1>4 DEF StartRaises, Finish, Stop, Fault
<1>5. CASE DurationElapsed
  BY <1>5 DEF DurationElapsed, Stop
<1>6. CASE LoggerLeft
  BY <1>6 DEF LoggerLeft, TypeOK
<1>7. CASE LoggerFailed
  BY <1>7 DEF LoggerFailed, Stop
<1>8. CASE LoggerRuns \/ NothingWrong
  BY <1>8 DEF LoggerRuns, NothingWrong
<1>9. CASE StopCondition
  BY <1>9 DEF StopCondition, Stop, StopReasons
<1>10. CASE NoOutput
  BY <1>10 DEF NoOutput, Stop
<1>11. CASE LoopFaults
  BY <1>11 DEF LoopFaults, Stop, Fault
<1>12. CASE AlreadyExited \/ ExitNoticed \/ KillWaited
  BY <1>12 DEF AlreadyExited, ExitNoticed, KillWaited, Stopped, TypeOK
<1>13. CASE RequestStop \/ Escalate
  BY <1>13 DEF RequestStop, Escalate
<1>14. CASE StopRaises
  BY <1>14 DEF StopRaises, Stop, Fault
<1>15. CASE Cleanup
  BY <1>15 DEF Cleanup, Finish
<1>16. ASSUME NEW g \in Gens, LoggerEnds(g) PROVE ReasonGiven'
  BY <1>16 DEF LoggerEnds
<1>17. CASE Interrupt \/ OperatorStops
  BY <1>17 DEF Interrupt, OperatorStops, Ended
<1>18. CASE Tick
  BY <1>18 DEF Tick
<1>19. QED
  BY <1>1, <1>2, <1>3, <1>4, <1>5, <1>6, <1>7, <1>8, <1>9, <1>10, <1>11, <1>12, <1>13,
     <1>14, <1>15, <1>16, <1>17, <1>18 DEF Next, SupervisorStep, SupervisorFault

(* run() returns from three places: before any logger, with one that was   *)
(* not written down, and after the cleanup.                                *)
LEMMA OutliveStep ==
  TypeOK /\ StartedInOrder /\ LeftDisposed /\ NothingOutlives /\ [Next]_vars => NothingOutlives'
<1> SUFFICES ASSUME TypeOK, StartedInOrder, LeftDisposed, NothingOutlives, [Next]_vars
             PROVE  NothingOutlives'
  OBVIOUS
<1> USE DEF runVars, procVars, NothingOutlives
<1>1. CASE UNCHANGED vars
  BY <1>1 DEF vars
<1>2. CASE PreflightFails
  <2>1. \A g \in Gens : logger[g] = "never"
    BY <1>2 DEF PreflightFails, StartedInOrder, Gens
  <2>2. QED BY <1>2, <2>1 DEF PreflightFails
<1>3. CASE StartRaises
  <2>1. CASE gen # 0
    BY <1>3, <2>1 DEF StartRaises, Stop
  <2>2. CASE gen = 0 /\ logFailed' = FALSE
    <3>1. Launch("never")
      BY <1>3, <2>2 DEF StartRaises
    <3>2. /\ \A g \in Gens : g # gen + 1 => logger'[g] = logger[g]
          /\ logger'[gen + 1] = "never"
      BY <1>3, <3>1, LaunchIsBudgeted DEF StartRaises
    <3>3. \A g \in Gens : logger'[g] = "never"
      BY <2>2, <3>2 DEF StartedInOrder, Gens
    <3>4. QED BY <3>3
  <2>3. logFailed' \in BOOLEAN
    BY <1>3 DEF TypeOK, StartRaises
  <2>4. QED BY <2>1, <2>2, <2>3
<1>4. CASE Cleanup
  <2>1. \A g \in Gens : g = gen \/ g < gen \/ logger[g] = "never"
    BY DEF StartedInOrder, TypeOK, Gens
  <2>2. \A g \in Gens : logger[g] = "running" => g \in killed
    BY <1>4, <2>1 DEF Cleanup, LeftDisposed, Disposed, Gens, StartedInOrder, Stopping
  <2>3. QED BY <1>4, <2>2 DEF Cleanup
<1>5. ASSUME NEW h \in Gens, LoggerEnds(h) PROVE NothingOutlives'
  BY <1>5 DEF LoggerEnds, TypeOK
<1>6. CASE PreflightPasses \/ StartLogger
  BY <1>6 DEF PreflightPasses, StartLogger
<1>7. CASE DurationElapsed \/ LoggerLeft \/ LoggerFailed
  BY <1>7 DEF DurationElapsed, LoggerLeft, LoggerFailed, Stop
<1>8. CASE LoggerRuns \/ StopCondition \/ NothingWrong \/ NoOutput \/ LoopFaults
  BY <1>8 DEF LoggerRuns, StopCondition, NothingWrong, NoOutput, LoopFaults, Stop
<1>9. CASE AlreadyExited \/ ExitNoticed \/ KillWaited
  BY <1>9 DEF AlreadyExited, ExitNoticed, KillWaited, Stopped
<1>10. CASE RequestStop \/ Escalate \/ StopRaises
  BY <1>10 DEF RequestStop, Escalate, StopRaises, Stop
<1>11. CASE Interrupt \/ OperatorStops \/ Tick
  BY <1>11 DEF Interrupt, OperatorStops, Tick
<1>12. QED
  BY <1>1, <1>2, <1>3, <1>4, <1>5, <1>6, <1>7, <1>8, <1>9, <1>10, <1>11 DEF Next, SupervisorStep, SupervisorFault

(* The verdict is right wherever run() returns, and stays so.              *)
LEMMA VerdictStep ==
  TypeOK /\ StartedInOrder /\ ReasonGiven /\ PassIsEarned /\ [Next]_vars => PassIsEarned'
<1> SUFFICES ASSUME TypeOK, StartedInOrder, ReasonGiven, PassIsEarned, [Next]_vars
             PROVE  PassIsEarned'
  OBVIOUS
<1> USE DEF runVars, procVars, PassIsEarned, Decision
<1>1. CASE UNCHANGED vars
  BY <1>1 DEF vars
<1>2. CASE PreflightFails
  BY <1>2 DEF PreflightFails, Finish, FailReasons
<1>3. CASE StartRaises
  BY <1>3 DEF StartRaises, Finish, Stop, FailReasons
<1>4. CASE Cleanup
  <2>1. gen > 0 /\ gen <= restarts + 1 /\ reason # "none" /\ mode # "not_started"
    BY <1>4 DEF Cleanup, StartedInOrder, ReasonGiven, Stopping
  <2>2. phase' = "done" /\ reason' = reason /\ code' = ReturnCode /\ UNCHANGED <<gen, restarts, mode, clock>>
    BY <1>4 DEF Cleanup, Finish
  <2>3. Decision = "PASS" => reason = "DURATION_ELAPSED" /\ restarts = 0
    BY <2>1 DEF TypeOK, Reasons
  <2>4. Decision = "FAIL" => ReturnCode = 1
    BY DEF ReturnCode, FailReasons, StopReasons
  <2>5. reason = "DURATION_ELAPSED" => ReturnCode = 0 /\ clock # "early"
    BY DEF ReturnCode, ReasonGiven
  <2>6. Decision' = Decision
    BY <2>2
  <2>7. QED BY <2>1, <2>2, <2>3, <2>4, <2>5, <2>6 DEF TypeOK
<1>5. CASE PreflightPasses \/ StartLogger
  BY <1>5 DEF PreflightPasses, StartLogger
<1>6. CASE DurationElapsed \/ LoggerLeft \/ LoggerFailed
  BY <1>6 DEF DurationElapsed, LoggerLeft, LoggerFailed, Stop
<1>7. CASE LoggerRuns \/ StopCondition \/ NothingWrong \/ NoOutput \/ LoopFaults
  BY <1>7 DEF LoggerRuns, StopCondition, NothingWrong, NoOutput, LoopFaults, Stop
<1>8. CASE AlreadyExited \/ ExitNoticed \/ KillWaited
  BY <1>8 DEF AlreadyExited, ExitNoticed, KillWaited, Stopped
<1>9. CASE RequestStop \/ Escalate \/ StopRaises
  BY <1>9 DEF RequestStop, Escalate, StopRaises, Stop
<1>10. ASSUME NEW g \in Gens, LoggerEnds(g) PROVE PassIsEarned'
  BY <1>10 DEF LoggerEnds
<1>11. CASE Interrupt \/ OperatorStops
  BY <1>11 DEF Interrupt, OperatorStops
<1>12. CASE Tick
  BY <1>12 DEF Tick
<1>13. QED
  BY <1>1, <1>2, <1>3, <1>4, <1>5, <1>6, <1>7, <1>8, <1>9, <1>10, <1>11, <1>12
     DEF Next, SupervisorStep, SupervisorFault

(* A logger is monitored with the supervisor's own stop file gone.         *)
LEMMA ManualStep ==
  TypeOK /\ ReasonGiven /\ OwnStopIsNotManual /\ [Next]_vars => OwnStopIsNotManual'
<1> SUFFICES ASSUME TypeOK, ReasonGiven, OwnStopIsNotManual, [Next]_vars PROVE OwnStopIsNotManual'
  OBVIOUS
<1> USE DEF runVars, procVars, OwnStopIsNotManual, ReasonGiven
<1>1. CASE UNCHANGED vars
  BY <1>1 DEF vars
<1>2. CASE PreflightFails \/ PreflightPasses
  BY <1>2 DEF PreflightFails, PreflightPasses, Finish
<1>3. CASE StartLogger \/ StartRaises
  BY <1>3 DEF StartLogger, StartRaises, ClearStopFile, Finish, Stop, Fault
<1>4. CASE DurationElapsed
  BY <1>4 DEF DurationElapsed, Stop
<1>5. CASE LoggerLeft
  BY <1>5 DEF LoggerLeft
<1>6. CASE LoggerFailed
  BY <1>6 DEF LoggerFailed, Stop
<1>7. CASE LoggerRuns \/ StopCondition \/ NothingWrong \/ NoOutput
  BY <1>7 DEF LoggerRuns, StopCondition, NothingWrong, NoOutput, Stop, StopReasons
<1>8. CASE LoopFaults
  BY <1>8 DEF LoopFaults, Stop, Fault
<1>9. CASE AlreadyExited \/ ExitNoticed \/ KillWaited
  BY <1>9 DEF AlreadyExited, ExitNoticed, KillWaited, Stopped
<1>10. CASE RequestStop \/ Escalate
  BY <1>10 DEF RequestStop, Escalate, Stopping
<1>11. CASE StopRaises
  BY <1>11 DEF StopRaises, Stop, Fault
<1>12. CASE Cleanup
  BY <1>12 DEF Cleanup, Finish, ClearStopFile
<1>13. ASSUME NEW g \in Gens, LoggerEnds(g) PROVE OwnStopIsNotManual'
  BY <1>13 DEF LoggerEnds
<1>14. CASE Interrupt \/ OperatorStops \/ Tick
  BY <1>14 DEF Interrupt, OperatorStops, Tick
<1>15. QED
  BY <1>1, <1>2, <1>3, <1>4, <1>5, <1>6, <1>7, <1>8, <1>9, <1>10, <1>11, <1>12, <1>13, <1>14
     DEF Next, SupervisorStep, SupervisorFault

(* The inductive invariant holds throughout a run.                         *)
THEOREM SupervisorInvHolds == Spec => []SupervisorInv
<1>1. SupervisorInv /\ [Next]_vars => SupervisorInv'
  BY TypeStep, OrderStep, DisposedStep, ReasonStep, OutliveStep, VerdictStep, ManualStep
     DEF SupervisorInv
<1>2. QED BY InitInv, <1>1, PTL DEF Spec

(* Every state of the supervisor and its loggers is well typed, so that no *)
(* more than max_restarts + 1 loggers are ever started.                    *)
THEOREM SupervisorTypes == Spec => []TypeOK
<1>1. SupervisorInv => TypeOK
  BY DEF SupervisorInv
<1>2. QED BY SupervisorInvHolds, <1>1, PTL

(* start_logger never makes a second live logger beside one that kill()    *)
(* was not called for.                                                     *)
THEOREM NeverTwoLoggers == Spec => []OneLogger
<1>1. SupervisorInv => OneLogger
  <2> SUFFICES ASSUME SupervisorInv, NEW g \in Gens, NEW h \in Gens, g < h,
                      logger[g] = "running", logger[h] = "running"
               PROVE  g \in killed
    BY DEF OneLogger
  <2>1. h <= gen
    BY DEF SupervisorInv, StartedInOrder, TypeOK, Gens
  <2>2. g < gen
    BY <2>1 DEF SupervisorInv, TypeOK, Gens
  <2>3. QED BY <2>2 DEF SupervisorInv, LeftDisposed, Disposed
<1>2. QED BY SupervisorInvHolds, <1>1, PTL

(* run() returns with its loggers ended or killed, short of a health log   *)
(* that cannot be written.                                                 *)
THEOREM NoLoggerOutlives == Spec => []NothingOutlives
<1>1. SupervisorInv => NothingOutlives
  BY DEF SupervisorInv
<1>2. QED BY SupervisorInvHolds, <1>1, PTL

(* The verdict and the return code agree, and PASS is earned.              *)
THEOREM VerdictIsEarned == Spec => []PassIsEarned
<1>1. SupervisorInv => PassIsEarned
  BY DEF SupervisorInv
<1>2. QED BY SupervisorInvHolds, <1>1, PTL

(* An orderly end is never put down to the operator while the stop file is *)
(* the supervisor's own.                                                   *)
THEOREM ManualIsManual == Spec => []OwnStopIsNotManual
<1>1. SupervisorInv => OwnStopIsNotManual
  BY DEF SupervisorInv
<1>2. QED BY SupervisorInvHolds, <1>1, PTL

(* The steps left are counted by a number.                                 *)
LEMMA RankIsBounded == SupervisorInv => Rank \in 0..LongestRun
<1> SUFFICES ASSUME SupervisorInv PROVE Rank \in 0..LongestRun
  OBVIOUS
<1>1. restarts \in 0..MaxRestarts
  BY DEF SupervisorInv, TypeOK
<1>2. ~Ended => PhaseRank \in 1..12
  BY DEF SupervisorInv, TypeOK, Stopping, Ended, PhaseRank
<1>3. QED BY <1>1, <1>2 DEF Rank, LongestRun

(* A run spends its restarts and its phases and gets none back, whatever   *)
(* faults: outside its monitoring rounds it takes 6 * max_restarts + 12    *)
(* steps at most (run and stop_logger_graceful).                           *)
THEOREM RunGoesOneWay == Spec => RunAdvances /\ [](Rank \in 0..LongestRun)
<1> DEFINE Advances ==
      /\ Rank' \in 0..Rank
      /\ Rank' = Rank => phase' = phase \/ {phase, phase'} = Rounds
<1>0. SupervisorInv' => (Rank \in 0..LongestRun)'
  BY RankIsBounded, PTL
<1>1. SupervisorInv /\ SupervisorInv' /\ Next => Advances
  <2> SUFFICES ASSUME SupervisorInv, SupervisorInv', Next PROVE Advances
    OBVIOUS
  <2> USE DEF runVars, procVars
  <2>1. Rank \in 0..LongestRun /\ Rank' \in 0..LongestRun'
    BY RankIsBounded, <1>0
  <2>2. restarts \in 0..MaxRestarts /\ (phase \in Stopping /\ why = "restart" => restarts < MaxRestarts)
        /\ why \in {"restart", "final"}
    BY DEF SupervisorInv, TypeOK, StartedInOrder
  <2>3. Rank \in Nat /\ Rank' \in Nat
    BY <2>1 DEF LongestRun
  <2>4. SUFFICES \/ Rank' < Rank
                 \/ Rank' = Rank /\ (phase' = phase \/ {phase, phase'} = Rounds)
    BY <2>3
  <2>5. ASSUME phase' = phase, why' = why, restarts' = restarts
        PROVE  Rank' = Rank /\ phase' = phase
    <3>1. Ended' = Ended /\ (~Ended => PhaseRank' = PhaseRank)
      BY <2>5 DEF SupervisorInv, TypeOK, Stopping, Ended, PhaseRank
    <3>2. QED BY <2>5, <3>1 DEF Rank
  <2>6. ASSUME phase' \in {"done", "escaped"}, ~Ended PROVE Rank' < Rank
    <3>1. PhaseRank \in 1..12
      BY <2>6 DEF SupervisorInv, TypeOK, Stopping, Ended, PhaseRank
    <3>2. QED BY <2>2, <2>6, <3>1 DEF Rank, Ended
  <2> USE DEF Rank, PhaseRank, Ended, Rounds
  <2>7. CASE PreflightFails \/ PreflightPasses
    BY <2>2, <2>6, <2>7 DEF PreflightFails, PreflightPasses, Finish
  <2>8. CASE StartLogger \/ StartRaises
    BY <2>2, <2>6, <2>8 DEF StartLogger, StartRaises, Finish, Stop
  <2>9. CASE DurationElapsed \/ LoggerLeft \/ LoggerFailed
    <3>1. CASE DurationElapsed \/ LoggerLeft
      <4>1. /\ phase = "monitor" /\ restarts' = restarts
            /\ \/ phase' = "stopping" /\ why' = "final"
               \/ phase' = "cleanup"
        BY <3>1 DEF DurationElapsed, LoggerLeft, Stop
      <4>2. QED BY <2>2, <4>1
    <3>2. CASE LoggerFailed
      <4>1. /\ phase = "monitor"
            /\ \/ phase' = "stopping" /\ why' = "final" /\ restarts' = restarts
               \/ phase' = "start" /\ restarts' = restarts + 1
        BY <3>2 DEF LoggerFailed, Stop
      <4>2. QED BY <2>2, <4>1
    <3>3. QED BY <2>9, <3>1, <3>2
  <2>10. CASE LoggerRuns \/ NothingWrong
    <3>1. phase \in Rounds /\ phase' \in Rounds /\ phase' # phase /\ restarts' = restarts
      BY <2>10 DEF LoggerRuns, NothingWrong
    <3>2. {phase, phase'} = Rounds
      BY <3>1
    <3>3. Rank' = Rank
      BY <3>1
    <3>4. QED BY <3>2, <3>3
  <2>11. CASE StopCondition \/ NoOutput \/ LoopFaults
    <3>1. /\ phase \in {"monitor", "probe"} /\ phase' = "stopping" /\ restarts' = restarts
          /\ why' \in {"restart", "final"}
      BY <2>11 DEF StopCondition, NoOutput, LoopFaults, Stop
    <3>2. QED BY <2>2, <3>1
  <2>12. CASE AlreadyExited \/ ExitNoticed \/ KillWaited
    BY <2>2, <2>12 DEF AlreadyExited, ExitNoticed, KillWaited, Stopped, Stopping
  <2>13. CASE RequestStop \/ Escalate
    BY <2>2, <2>13 DEF RequestStop, Escalate
  <2>14. CASE StopRaises
    BY <2>2, <2>6, <2>14 DEF StopRaises, Stop
  <2>15. CASE Cleanup \/ Interrupt
    BY <2>6, <2>15 DEF Cleanup, Interrupt, Finish
  <2>16. ASSUME NEW g \in Gens, LoggerEnds(g) PROVE Rank' = Rank /\ phase' = phase
    BY <2>5, <2>16 DEF LoggerEnds
  <2>17. CASE OperatorStops \/ Tick
    BY <2>5, <2>17 DEF OperatorStops, Tick
  <2>18. QED
    BY <2>7, <2>8, <2>9, <2>10, <2>11, <2>12, <2>13, <2>14, <2>15, <2>16, <2>17
       DEF Next, SupervisorStep, SupervisorFault
<1>2. QED
  BY <1>1, RankIsBounded, SupervisorInvHolds, PTL DEF Spec, RunAdvances
=============================================================================
