------------------------------- MODULE Lineage -------------------------------
(***************************************************************************)
(* From the broker's clock to Silver: live runs one after another, each     *)
(* with the loggers its supervisor starts (main.run_logger,                *)
(* supervisor._finalize), and normalizations at any time.  Which logger     *)
(* runs when is the business of Supervisor, whose promise that no logger    *)
(* outlives its run is relied on here.  Every tick gets its row: what the   *)
(* filter suppresses or a lost buffer takes along only makes Bronze smaller, *)
(* and a job that ends early leaves the same Silver.                       *)
(***************************************************************************)
EXTENDS Normalization

CONSTANTS ServerOffset, \* the offset of the broker's clock at first
          Delays,       \* how late a tick may be
          MaxClock,     \* bound on time
          MaxShifts     \* bound on changes of the broker's offset

ASSUME LineageAssumption ==
  /\ Delays \subseteq Nat /\ MaxClock \in Nat /\ MaxShifts \in Nat
  /\ ServerOffset \in Offsets

VARIABLES
  clock,   \* UTC
  broker,  \* the offset of the broker's clock
  shifts,  \* how often it changed
  run,     \* number of live runs begun
  phase    \* idle, up (the supervisor runs), logging

vars == <<semVars, recordVars, bronze, silver, clock, broker, shifts, run, phase>>

TypeOK ==
  /\ SemTypeOK /\ RecordTypeOK /\ NormTypeOK
  /\ clock \in Nat /\ broker \in Offsets /\ shifts \in 0..MaxShifts
  /\ run \in Runs \cup {0} /\ phase \in {"idle", "up", "logging"}

Init ==
  /\ SemInit /\ RecordInit /\ NormInit
  /\ clock = 0 /\ broker = ServerOffset /\ shifts = 0
  /\ run = 0 /\ phase = "idle"

-----------------------------------------------------------------------------
Pass ==
  /\ clock < MaxClock /\ clock' = clock + 1
  /\ UNCHANGED <<semVars, recordVars, bronze, silver, broker, shifts, run, phase>>

(* Daylight saving, or another server.                                     *)
BrokerShifts ==
  /\ shifts < MaxShifts /\ shifts' = shifts + 1
  /\ broker' \in Offsets \ {broker}
  /\ UNCHANGED <<semVars, recordVars, bronze, silver, clock, run, phase>>

(* Its start is later than the last tick of the run before: the bridge and   *)
(* the checks lie between.                                                 *)
StartRun ==
  /\ phase = "idle" /\ run + 1 \in Runs
  /\ \A x \in bronze : x.at < clock
  /\ run' = run + 1 /\ phase' = "up"
  /\ startAt' = [startAt EXCEPT ![run + 1] = clock]
  /\ UNCHANGED <<semVars, manifest, health, arch, bronze, silver, clock,
                 broker, shifts>>

(* The first logger of the run or a restart.  One that finds no terminal     *)
(* leaves nothing.                                                         *)
StartLogger ==
  /\ phase = "up" /\ phase' = "logging"
  /\ UNCHANGED <<semVars, recordVars, bronze, silver, clock, broker, shifts, run>>

(* One tick through the loop, at a time of its own.                         *)
Poll(sym, d) ==
  /\ phase = "logging" /\ clock < MaxClock
  /\ clock' = clock + 1
  /\ LET raw == clock' - d + broker IN
     /\ Observe([at |-> clock', raw |-> raw])
     /\ bronze' = bronze \cup {[at |-> clock', raw |-> raw, sym |-> sym,
                                run |-> run]}
  /\ UNCHANGED <<recordVars, silver, broker, shifts, run, phase>>

Reconnect ==
  /\ phase = "logging" /\ ResetForReconnect
  /\ UNCHANGED <<recordVars, bronze, silver, clock, broker, shifts, run, phase>>

CheckStaleness ==
  /\ phase = "logging" /\ EvaluateStaleness(clock)
  /\ UNCHANGED <<recordVars, bronze, silver, clock, broker, shifts, run, phase>>

(* _emit_health and _emit_manifest, each overwriting what all loggers share. *)
EmitHealth == health' = Snapshot(clock)
EmitManifest == manifest' = Snapshot(clock)

(* Every 30 s, in this order.                                              *)
EmitBoth ==
  /\ phase = "logging" /\ EmitHealth /\ EmitManifest
  /\ UNCHANGED <<semVars, startAt, arch, bronze, silver, clock, broker, shifts,
                 run, phase>>

(* The logger ends after a last snapshot, in the middle of one, or without:  *)
(* the terminal gives no answer, a file is not writable, it is killed.  Its  *)
(* timestamp semantics end with it.                                        *)
EndLogger ==
  /\ phase = "logging" /\ phase' = "up" /\ NewStart
  /\ \/ UNCHANGED <<health, manifest>>
     \/ EmitHealth /\ (EmitManifest \/ UNCHANGED manifest)
  /\ UNCHANGED <<startAt, arch, bronze, silver, clock, broker, shifts, run>>

(* The newest data file was written with the last row or later, when parts   *)
(* were flushed or compacted.                                              *)
LatestWrites(now) ==
  IF bronze = {} THEN {None} ELSE {t \in 0..now : \A x \in bronze : x.at <= t}

(* _finalize, also of a run whose preflight failed.  Between the end of the    *)
(* run and the look at the data files time may pass.                        *)
Finalize ==
  /\ phase = "up" /\ phase' = "idle"
  /\ clock' \in {clock, clock + 1} /\ clock' <= MaxClock
  /\ \E latest \in LatestWrites(clock') : Archive(run, clock, latest)
  /\ UNCHANGED <<semVars, manifest, health, startAt, bronze, silver, broker,
                 shifts, run>>

Normalization ==
  /\ \E date \in Dates :
       \/ \E r \in Runs : NormalizeRun(r, date)
       \/ \E o \in Offsets : NormalizeDate(date, o)
  /\ UNCHANGED <<semVars, recordVars, bronze, clock, broker, shifts, run, phase>>

Next ==
  \/ Pass \/ BrokerShifts \/ StartRun \/ StartLogger
  \/ \E sym \in Symbols, d \in Delays : Poll(sym, d)
  \/ Reconnect \/ CheckStaleness \/ EmitBoth \/ EndLogger \/ Finalize
  \/ Normalization

Spec == Init /\ [][Next]_vars

-----------------------------------------------------------------------------
(* The ticks a run recorded suffice to verify an offset.                    *)
TicksOf(r) == {[at |-> x.at, raw |-> x.raw] : x \in {y \in bronze : y.run = r}}
EarnedBy(r, off) ==
  \E S \in SUBSET {t \in TicksOf(r) : Fresh(t, off)} : Earned(S, off)

(* The offset of a Silver row was verified on ticks that are in Bronze, of    *)
(* one run and fresh under it, whichever logger wrote the shared record and   *)
(* however it came to the job.  Below run_id=<run> that is no later run, and  *)
(* it is this run unless its record is from before its start.                *)
SilverOffsetIsEarned ==
  \A x \in silver :
    /\ \E r \in Runs : EarnedBy(r, x.offset) /\ (x.scope # 0 => r <= x.scope)
    /\ x.scope # 0 /\ SourceOf(x.scope).made > startAt[x.scope]
         => EarnedBy(x.scope, x.offset)

(* Below run_id=<run> there are only rows that run received, once its        *)
(* summary is archived; without one the window is the instant its record     *)
(* was made.                                                               *)
NoForeignRows ==
  \A x \in silver : x.scope # 0 =>
    x.row.run = x.scope \/ arch[x.scope].summary = NoDoc
=============================================================================
