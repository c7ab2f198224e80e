----------------------------- MODULE Supervisor -----------------------------
(***************************************************************************)
(* Supervisor of orchestration/supervisor.py: one run, from the preflight  *)
(* to the verdict, with the loggers it starts, the stop file it shares     *)
(* with the operator, and time.                                            *)
(*                                                                         *)
(* run() asks whether the health snapshot is None to notice that MT5 is    *)
(* gone, but _record_health_snapshot turns None into {}: that branch and   *)
(* its exit reason cannot happen and are not here.                         *)
(***************************************************************************)
EXTENDS Integers

CONSTANT MaxRestarts   \* max_restarts

ASSUME SupervisorAssumption == MaxRestarts \in Nat

Gens == 1..(MaxRestarts + 1)   \* the loggers of a run, in the order of their start

VARIABLES
  phase,      \* where run() is
  why,        \* what stop_logger_graceful is called for: restart, final
  reason,     \* exit_reason
  restarts,   \* restart_count
  mode,       \* shutdown_mode
  seen,       \* first_parquet_seen
  code,       \* what run() returned
  gen,        \* the logger of _proc, 0 before the first
  logger,     \* logger[g]: never started, running, or ended with 0 or another code
  killed,     \* loggers that kill() was called for
  stopFile,   \* stop.signal and who wrote it
  clock,      \* now, against the deadline less one interval and the deadline
  logFailed,  \* history: the supervisor's health log refused a line
  clearFailed,\* history: stop.signal could not be removed
  asked       \* history: the operator asked for a stop during the run

runVars == <<phase, why, reason, restarts, mode, seen, code>>
procVars == <<gen, logger, killed>>
vars == <<runVars, procVars, stopFile, clock, logFailed, clearFailed, asked>>

StopReasons == {"TERMINAL_TRADE_ALLOWED", "DISK_PRESSURE", "MEMORY_PRESSURE", "CRITICAL_HEALTH"}

FailReasons == StopReasons \cup {"NO_PARQUET_OUTPUT", "PREFLIGHT_FAILED", "SUPERVISOR_FAULT"}

Reasons == FailReasons \cup {"none", "DURATION_ELAPSED", "MANUAL_STOP", "LOGGER_EXITED"}

Stopping == {"stopping", "graceful", "terminating", "killing"}

TypeOK ==
  /\ phase \in {"preflight", "start", "monitor", "probe", "cleanup", "done", "escaped"} \cup Stopping
  /\ why \in {"restart", "final"}
  /\ reason \in Reasons
  /\ restarts \in 0..MaxRestarts
  /\ mode \in {"not_started", "already_exited", "graceful", "terminated", "killed"}
  /\ seen \in BOOLEAN
  /\ code \in {-1, 0, 1, 2}
  /\ gen \in 0..(MaxRestarts + 1)
  /\ logger \in [Gens -> {"never", "running", "exit0", "exit1"}]
  /\ killed \subseteq Gens
  /\ stopFile \in {"none", "operator", "supervisor"}
  /\ clock \in {"early", "near", "over"}
  /\ logFailed \in BOOLEAN /\ clearFailed \in BOOLEAN /\ asked \in BOOLEAN

Init ==
  /\ phase = "preflight" /\ why = "final"
  /\ reason = "none" /\ restarts = 0 /\ mode = "not_started"
  /\ seen = FALSE /\ code = -1
  /\ gen = 0 /\ logger = [g \in Gens |-> "never"] /\ killed = {}
  /\ stopFile \in {"none", "operator", "supervisor"}
  /\ clock = "early"
  /\ logFailed = FALSE /\ clearFailed = FALSE /\ asked = FALSE

-----------------------------------------------------------------------------
Alive == gen > 0 /\ logger[gen] = "running"

(* _decide_pass_fail and the return value of _finalize.                    *)
Decision ==
  IF reason \in FailReasons THEN "FAIL"
  ELSE IF reason \in {"LOGGER_EXITED", "MANUAL_STOP"} \/ restarts > 0 THEN "PARTIAL"
  ELSE "PASS"

ReturnCode ==
  IF \/ reason \in {"DURATION_ELAPSED", "MANUAL_STOP", "none"}
     \/ reason = "LOGGER_EXITED" /\ logger[gen] = "exit0"
  THEN 0 ELSE 1

Finish(r, c) == phase' = "done" /\ reason' = r /\ code' = c

Stop(w, r) == phase' = "stopping" /\ why' = w /\ reason' = r

Fault == IF reason = "none" THEN "SUPERVISOR_FAULT" ELSE reason

(* A preflight that raises, fails, or cannot import the logger.            *)
PreflightFails ==
  /\ phase = "preflight"
  /\ \E r \in {"SUPERVISOR_FAULT", "PREFLIGHT_FAILED"} : Finish(r, 2)
  /\ UNCHANGED <<why, restarts, mode, seen, procVars, stopFile, clock,
                 logFailed, clearFailed, asked>>

PreflightPasses ==
  /\ phase = "preflight" /\ phase' = "start"
  /\ UNCHANGED <<why, reason, restarts, mode, seen, code, procVars, stopFile,
                 clock, logFailed, clearFailed, asked>>

-----------------------------------------------------------------------------
(* Mutant: a stop file is stale only before the first logger.              *)
MutantClearsOnce ==
  IF gen = 0 THEN stopFile' = "none" /\ clearFailed' = clearFailed
  ELSE UNCHANGED <<stopFile, clearFailed>>

(* Whatever stop file there is is taken for a stale one.                   *)
ClearStopFile ==
  \/ stopFile' = "none" /\ clearFailed' = clearFailed
  \/ stopFile # "none" /\ stopFile' = stopFile /\ clearFailed' = TRUE

Launch(status) == gen' = gen + 1 /\ logger' = [logger EXCEPT ![gen'] = status]

StartLogger ==
  /\ phase = "start" /\ ClearStopFile /\ Launch("running")
  /\ phase' = "monitor" /\ seen' = FALSE
  /\ UNCHANGED <<why, reason, restarts, mode, code, killed, clock, logFailed, asked>>

(* The process cannot be created, or the line that says so is refused, or  *)
(* already the one on the stop file.  The first time run() returns at      *)
(* once, whatever runs by then, later the loop faults.                     *)
StartRaises ==
  /\ phase = "start" /\ ClearStopFile
  /\ \/ Launch("never") /\ logFailed' = logFailed
     \/ Launch("running") /\ logFailed' = TRUE
     \/ stopFile # "none" /\ logFailed' = TRUE /\ UNCHANGED <<gen, logger>>
  /\ IF gen = 0 THEN Finish("SUPERVISOR_FAULT", 2) /\ why' = why
     ELSE Stop("final", Fault) /\ code' = code
  /\ UNCHANGED <<restarts, mode, seen, killed, clock, asked>>

-----------------------------------------------------------------------------
DurationElapsed ==
  /\ phase = "monitor" /\ clock = "over"
  /\ Stop("final", "DURATION_ELAPSED")
  /\ UNCHANGED <<restarts, mode, seen, code, procVars, stopFile, clock, logFailed,
                 clearFailed, asked>>

(* Return code 0 is taken for an orderly end.                              *)
LoggerLeft ==
  /\ phase = "monitor" /\ clock # "over" /\ logger[gen] = "exit0"
  /\ reason' = IF clock = "near" THEN "DURATION_ELAPSED" ELSE "MANUAL_STOP"
  /\ mode' = "graceful"
  /\ phase' = "cleanup"
  /\ logFailed' \in {logFailed, TRUE}
  /\ UNCHANGED <<why, restarts, seen, code, procVars, stopFile, clock, clearFailed, asked>>

(* Mutant: a crashed logger is restarted whatever the budget says.         *)
MutantNoBudget ==
  /\ phase = "monitor" /\ clock # "over" /\ logger[gen] = "exit1"
  /\ restarts' = restarts + 1 /\ phase' = "start" /\ UNCHANGED <<why, reason>>
  /\ UNCHANGED <<mode, seen, code, procVars, stopFile, clock, logFailed, clearFailed,
                 asked>>

(* Mutant: a restart after a crash is not counted in the verdict.          *)
MutantCountsOnlyIdle ==
  /\ phase = "monitor" /\ clock # "over" /\ logger[gen] = "exit1"
  /\ \/ Stop("final", "LOGGER_EXITED") /\ restarts' = restarts
     \/ /\ gen <= MaxRestarts
        /\ restarts' = restarts /\ phase' = "start" /\ UNCHANGED <<why, reason>>
  /\ UNCHANGED <<mode, seen, code, procVars, stopFile, clock, logFailed, clearFailed,
                 asked>>

(* Any other code: another logger, if the budget and a preflight allow it. *)
LoggerFailed ==
  /\ phase = "monitor" /\ clock # "over" /\ logger[gen] = "exit1"
  /\ \/ Stop("final", "LOGGER_EXITED") /\ restarts' = restarts
     \/ /\ restarts < MaxRestarts
        /\ restarts' = restarts + 1 /\ phase' = "start" /\ UNCHANGED <<why, reason>>
  /\ UNCHANGED <<mode, seen, code, procVars, stopFile, clock, logFailed, clearFailed,
                 asked>>

LoggerRuns ==
  /\ phase = "monitor" /\ clock # "over" /\ Alive
  /\ phase' = "probe"
  /\ UNCHANGED <<why, reason, restarts, mode, seen, code, procVars, stopFile, clock,
                 logFailed, clearFailed, asked>>

StopCondition ==
  /\ phase = "probe"
  /\ \E r \in StopReasons : Stop("final", r)
  /\ UNCHANGED <<restarts, mode, seen, code, procVars, stopFile, clock, logFailed,
                 clearFailed, asked>>

(* A part file is there, from this logger or an earlier one, or is waited  *)
(* for; then the supervisor sleeps.                                        *)
NothingWrong ==
  /\ phase = "probe"
  /\ seen' \in {seen, TRUE}
  /\ phase' = "monitor"
  /\ UNCHANGED <<why, reason, restarts, mode, code, procVars, stopFile, clock,
                 logFailed, clearFailed, asked>>

(* Mutant: the new logger is started beside the silent one.                *)
MutantStartsBeside ==
  /\ phase = "probe" /\ ~seen
  /\ \/ restarts < MaxRestarts /\ restarts' = restarts + 1 /\ phase' = "start" /\ UNCHANGED <<why, reason>>
     \/ restarts = MaxRestarts /\ Stop("final", "NO_PARQUET_OUTPUT") /\ restarts' = restarts
  /\ UNCHANGED <<mode, seen, code, procVars, stopFile, clock, logFailed,
                 clearFailed, asked>>

(* No part file within market_open_grace_minutes.                          *)
NoOutput ==
  /\ phase = "probe" /\ ~seen
  /\ \/ restarts < MaxRestarts /\ Stop("restart", reason)
     \/ restarts = MaxRestarts /\ Stop("final", "NO_PARQUET_OUTPUT")
  /\ UNCHANGED <<restarts, mode, seen, code, procVars, stopFile, clock, logFailed,
                 clearFailed, asked>>

(* An exception in the monitoring loop; a refused health line is one.      *)
LoopFaults ==
  /\ phase \in {"monitor", "probe"} /\ (phase = "monitor" => clock # "over")
  /\ Stop("final", Fault)
  /\ logFailed' \in {logFailed, TRUE}
  /\ UNCHANGED <<restarts, mode, seen, code, procVars, stopFile, clock, clearFailed,
                 asked>>

-----------------------------------------------------------------------------
(* The end of stop_logger_graceful: its answer is dropped before a restart.*)
Stopped(m) ==
  IF why = "restart"
  THEN restarts' = restarts + 1 /\ phase' = "start" /\ mode' = mode
  ELSE mode' = m /\ phase' = "cleanup" /\ restarts' = restarts

AlreadyExited ==
  /\ phase = "stopping" /\ ~Alive /\ Stopped("already_exited")
  /\ UNCHANGED <<why, reason, seen, code, procVars, stopFile, clock, logFailed,
                 clearFailed, asked>>

(* The stop file is written, or cannot be, which is ignored.               *)
RequestStop ==
  /\ phase = "stopping" /\ Alive
  /\ stopFile' \in {"supervisor", stopFile}
  /\ phase' = "graceful"
  /\ UNCHANGED <<why, reason, restarts, mode, seen, code, procVars, clock, logFailed,
                 clearFailed, asked>>

ExitNoticed ==
  /\ ~Alive
  /\ \/ phase = "graceful" /\ Stopped("graceful")
     \/ phase = "terminating" /\ Stopped("terminated")
  /\ UNCHANGED <<why, reason, seen, code, procVars, stopFile, clock, logFailed,
                 clearFailed, asked>>

(* Mutant: the graceful stop waits as long as it takes.                    *)
MutantWaitsForever ==
  /\ phase = "terminating"
  /\ phase' = "killing" /\ killed' = killed \cup {gen}
  /\ UNCHANGED <<why, reason, restarts, mode, seen, code, gen, logger, stopFile, clock,
                 logFailed, clearFailed, asked>>

(* Mutant: the wait after terminate() is the last resort.                  *)
MutantNeverKills ==
  /\ \/ phase = "graceful" /\ phase' = "terminating"
     \/ phase = "terminating" /\ phase' = "killing"
  /\ UNCHANGED <<why, reason, restarts, mode, seen, code, procVars, stopFile, clock,
                 logFailed, clearFailed, asked>>

(* The wait for the stop file times out: terminate(); the wait after       *)
(* terminate() times out: kill().                                          *)
Escalate ==
  /\ \/ phase = "graceful" /\ phase' = "terminating" /\ killed' = killed
     \/ phase = "terminating" /\ phase' = "killing" /\ killed' = killed \cup {gen}
  /\ UNCHANGED <<why, reason, restarts, mode, seen, code, gen, logger, stopFile, clock,
                 logFailed, clearFailed, asked>>

(* wait(5) returns, with the logger gone or not.                           *)
KillWaited ==
  /\ phase = "killing" /\ Stopped("killed")
  /\ UNCHANGED <<why, reason, seen, code, procVars, stopFile, clock, logFailed,
                 clearFailed, asked>>

(* A refused health line on the way: before a restart the loop faults and  *)
(* the logger is stopped again, otherwise the exception leaves run().      *)
StopRaises ==
  /\ phase \in {"stopping", "graceful", "terminating"}
  /\ phase = "stopping" => Alive
  /\ logFailed' = TRUE
  /\ IF why = "restart" THEN Stop("final", Fault)
     ELSE phase' = "escaped" /\ UNCHANGED <<why, reason>>
  /\ UNCHANGED <<restarts, mode, seen, code, procVars, stopFile, clock, clearFailed,
                 asked>>

(* The stop file goes after a graceful end only.                           *)
Cleanup ==
  /\ phase = "cleanup"
  /\ \/ mode = "graceful" /\ ClearStopFile
     \/ mode # "graceful" /\ UNCHANGED <<stopFile, clearFailed>>
  /\ Finish(reason, ReturnCode)
  /\ UNCHANGED <<why, restarts, mode, seen, procVars, clock, logFailed, asked>>

-----------------------------------------------------------------------------
Ended == phase \in {"done", "escaped"}

(* KeyboardInterrupt, SIGTERM, a power loss, or a report of the preflight  *)
(* that cannot be written.                                                 *)
Interrupt ==
  /\ ~Ended /\ phase' = "escaped"
  /\ UNCHANGED <<why, reason, restarts, mode, seen, code, procVars, stopFile, clock,
                 logFailed, clearFailed, asked>>

(* A logger ends by itself, or by the stop file, terminate() or kill().    *)
LoggerEnds(g) ==
  /\ logger[g] = "running"
  /\ \E x \in {"exit0", "exit1"} : logger' = [logger EXCEPT ![g] = x]
  /\ UNCHANGED <<runVars, gen, killed, stopFile, clock, logFailed, clearFailed, asked>>

OperatorStops ==
  /\ stopFile = "none" /\ stopFile' = "operator"
  /\ asked' = (asked \/ (gen > 0 /\ ~Ended))
  /\ UNCHANGED <<runVars, procVars, clock, logFailed, clearFailed>>

Tick ==
  /\ \/ clock = "early" /\ clock' = "near"
     \/ clock = "near" /\ clock' = "over"
  /\ UNCHANGED <<runVars, procVars, stopFile, logFailed, clearFailed, asked>>

SupervisorStep ==
  \/ PreflightFails \/ PreflightPasses \/ StartLogger
  \/ DurationElapsed \/ LoggerLeft \/ LoggerFailed \/ LoggerRuns
  \/ StopCondition \/ NothingWrong \/ NoOutput
  \/ AlreadyExited \/ RequestStop \/ ExitNoticed \/ Escalate \/ KillWaited
  \/ Cleanup

SupervisorFault == StartRaises \/ LoopFaults \/ StopRaises

Next ==
  \/ SupervisorStep \/ SupervisorFault
  \/ \E g \in Gens : LoggerEnds(g)
  \/ Interrupt \/ OperatorStops \/ Tick

Spec == Init /\ [][Next]_vars

(* Every wait of the supervisor has a timeout, and time passes.  No fault  *)
(* is counted on.                                                          *)
FairSpec == Spec /\ WF_vars(SupervisorStep) /\ WF_vars(Tick)

-----------------------------------------------------------------------------
(* Of the loggers a run started at most one runs that was not killed: each *)
(* restart is preceded by the end of the logger before, or by kill().      *)
OneLogger ==
  \A g, h \in Gens :
    logger[g] = "running" /\ logger[h] = "running" /\ g < h => g \in killed

(* When run() returns, the logger has ended or kill() was called for it,   *)
(* unless the supervisor could not write its own health log.               *)
NothingOutlives ==
  phase = "done" /\ ~logFailed =>
    \A g \in Gens : logger[g] = "running" => g \in killed

(* PASS is given only to a run of a single logger that reached the last    *)
(* interval, a failure is never returned as 0 and a PASS never as another. *)
PassIsEarned ==
  phase = "done" =>
    /\ Decision = "PASS" => gen = 1 /\ clock # "early" /\ ~(mode = "not_started")
    /\ Decision = "FAIL" => code # 0
    /\ code # 0 => Decision # "PASS"

(* The stop file the supervisor writes to replace a silent logger does not *)
(* end its successor: such an end would be reported as the operator's.     *)
OwnStopIsNotManual ==
  reason = "MANUAL_STOP" /\ ~clearFailed => stopFile # "supervisor"

(* What a run has still to do: its restarts, and how far it is in this one.*)
PhaseRank ==
  CASE phase = "preflight"           -> 12
    [] phase = "start"               -> 11
    [] phase \in {"monitor", "probe"} -> 10
    [] phase = "stopping"            -> IF why = "restart" THEN 9 ELSE 5
    [] phase = "graceful"            -> IF why = "restart" THEN 8 ELSE 4
    [] phase = "terminating"         -> IF why = "restart" THEN 7 ELSE 3
    [] phase = "killing"             -> IF why = "restart" THEN 6 ELSE 2
    [] phase = "cleanup"             -> 1

Rank == IF Ended THEN 0 ELSE 6 * (MaxRestarts - restarts) + PhaseRank

LongestRun == 6 * MaxRestarts + 12

Rounds == {"monitor", "probe"}

(* Whatever its loggers, its own faults and the operator do, a run goes    *)
(* one way: it leaves no phase for an earlier one without spending one of  *)
(* its restarts, and only the rounds of its monitoring repeat.             *)
RunAdvances ==
  [][/\ Rank' \in 0..Rank
     /\ Rank' = Rank => phase' = phase \/ {phase, phase'} = Rounds]_vars

(* A run ends, however its loggers behave.                                 *)
SupervisorEnds == <>Ended

(* Once the operator has asked for a stop, no logger is started.           *)
OperatorStopIsKept == [][asked => gen' = gen]_vars

-----------------------------------------------------------------------------
(* What the properties rest on: the strengthening every step preserves.    *)

(* Loggers are started in order, each within the budget.                   *)
StartedInOrder ==
  /\ gen <= IF phase = "start" THEN restarts ELSE restarts + 1
  /\ phase = "preflight" => gen = 0
  /\ phase \in {"monitor", "probe", "cleanup"} \cup Stopping => gen > 0
  /\ phase \in Stopping /\ why = "restart" => restarts < MaxRestarts
  /\ \A g \in Gens : g > gen => logger[g] = "never"

(* A logger is left behind only ended or killed.                           *)
Disposed(g) == logger[g] = "running" => g \in killed

LeftDisposed ==
  /\ \A g \in Gens : g < gen => Disposed(g)
  /\ phase \in {"start", "killing", "cleanup"} => gen = 0 \/ Disposed(gen)

(* The exit reason is given once the monitoring is over, and says why.     *)
ReasonGiven ==
  /\ phase \in {"preflight", "start", "monitor", "probe"} => reason = "none"
  /\ phase \in Stopping => (reason = "none") = (why = "restart")
  /\ phase = "cleanup" => reason # "none" /\ mode # "not_started"
  /\ reason = "DURATION_ELAPSED" => clock # "early"
  /\ reason = "MANUAL_STOP" => phase \in {"cleanup", "done", "escaped"}
  /\ phase \in {"monitor", "probe"} /\ ~clearFailed => stopFile # "supervisor"

SupervisorInv ==
  /\ TypeOK /\ StartedInOrder /\ LeftDisposed /\ ReasonGiven
  /\ NothingOutlives /\ PassIsEarned /\ OwnStopIsNotManual
=============================================================================
