------------------------------ MODULE Capture ------------------------------
(***************************************************************************)
(* The MT5 logger: run_logger of ingestion/main.py with its tick filter    *)
(* and its Parquet writer.  The terminal, the stop file, the disk and      *)
(* signals are the environment: the kill switch may find the terminal      *)
(* trading, or silent, at any look.  A row is numbered by total_emitted.   *)
(* The switch is configured on; --once, which leaves the loop after one    *)
(* round as the stop file does, is left out.                               *)
(***************************************************************************)
EXTENDS TickFilter, ParquetWriter

CONSTANTS Hours,        \* hours a row may be received in
          FlushRows,    \* flush_max_rows
          MaxTicks,     \* bound on the ticks the terminal produces
          MaxSignals    \* bound on the signals delivered

ASSUME CaptureAssumption ==
  /\ Rows = 1..MaxTicks
  /\ Parts = Symbols \X Hours
  /\ MaxTicks \in Nat /\ MaxSignals \in Nat /\ FlushRows \in Nat \ {0}

VARIABLES
  pc,         \* off, top of the loop, poll, tick or event in hand, flush, closing, exit
  todo,       \* symbols this round has still to poll
  lastSeen,   \* last_seen_time_msc, as a set of symbol and time pairs
  hand,       \* the tick in hand and its symbol
  rc,         \* return code to leave with, or how the process died
  refused,    \* the closing flush raised
  stop,       \* the stop file exists
  signals     \* signals delivered so far

loopVars == <<todo, lastSeen, hand>>
envVars == <<stop, signals>>
vars == <<filterVars, writerVars, pc, loopVars, rc, refused, envVars>>

TypeOK ==
  /\ FilterTypeOK /\ WriterTypeOK
  /\ pc \in {"off", "top", "poll", "tick", "event", "flush", "closing", "exit"}
  /\ todo \subseteq Symbols
  /\ lastSeen \subseteq Symbols \X Times
  /\ hand \in [sym : Symbols, tick : Ticks] \cup {NoQuote}
  /\ rc \in {"none", "0", "1", "2", "killed"}
  /\ refused \in BOOLEAN /\ stop \in BOOLEAN
  /\ signals \in 0..MaxSignals
  /\ seen <= MaxTicks

Init ==
  /\ FilterInit /\ WriterInit
  /\ pc = "off" /\ todo = {} /\ lastSeen = {} /\ hand = NoQuote
  /\ rc = "none" /\ refused = FALSE
  /\ stop \in BOOLEAN /\ signals = 0

-----------------------------------------------------------------------------
(* Leaving the loop by a return or an exception: the finally block closes  *)
(* the writer, which flushes.                                              *)
Leave(code) ==
  /\ pc' = "closing" /\ rc' = code
  /\ wpc' = "hook"

(* No terminal, a kill switch that trips at once, or the loop.             *)
Start ==
  /\ pc = "off"
  /\ \/ pc' = "exit" /\ rc' = "2" /\ wpc' = wpc
     \/ Leave("1")
     \/ pc' = "top" /\ UNCHANGED <<rc, wpc>>
  /\ UNCHANGED <<filterVars, buffer, pending, done, cur, copies, loopVars,
                 refused, envVars>>

(* Mutant: the stop file is looked for only when a flush begins.           *)
MutantIgnoresStop ==
  /\ pc = "top"
  /\ \/ pc' = "poll" /\ todo' = Symbols /\ UNCHANGED <<rc, wpc>>
     \/ Leave("1") /\ UNCHANGED todo
  /\ UNCHANGED <<filterVars, buffer, pending, done, cur, copies, lastSeen, hand,
                 refused, envVars>>

(* The kill switch, which raises too when the terminal gives no answer,    *)
(* and the stop file.                                                      *)
TopOfLoop ==
  /\ pc = "top"
  /\ \/ ~stop /\ pc' = "poll" /\ todo' = Symbols /\ UNCHANGED <<rc, wpc>>
     \/ stop /\ Leave("0") /\ UNCHANGED todo
     \/ Leave("1") /\ UNCHANGED todo
  /\ UNCHANGED <<filterVars, buffer, pending, done, cur, copies, lastSeen, hand,
                 refused, envVars>>

(* No tick, or one with the time stamp of the last: nothing to consider.   *)
PollNothing(s) ==
  /\ pc = "poll" /\ s \in todo
  /\ todo' = todo \ {s}
  /\ UNCHANGED <<filterVars, writerVars, pc, lastSeen, hand, rc, refused, envVars>>

PollTick(s, tick) ==
  /\ pc = "poll" /\ s \in todo /\ seen < MaxTicks
  /\ <<s, tick.time>> \notin lastSeen
  /\ lastSeen' = {x \in lastSeen : x[1] # s} \cup {<<s, tick.time>>}
  /\ hand' = [sym |-> s, tick |-> tick]
  /\ todo' = todo \ {s}
  /\ pc' = "tick"
  /\ UNCHANGED <<filterVars, writerVars, rc, refused, envVars>>

(* Mutant: the reconnect that fails ends the process on the spot.          *)
MutantNoClose ==
  /\ pc = "tick" \/ (pc = "poll" /\ todo # {})
  /\ \/ pc' = "poll" /\ UNCHANGED rc
     \/ pc' = "exit" /\ rc' = "1"
  /\ todo' = {} /\ hand' = NoQuote
  /\ UNCHANGED <<filterVars, writerVars, lastSeen, refused, envVars>>

(* MT5UnavailableError from the terminal: the tick in hand is dropped.     *)
(* Reconnecting ends the polls of the round, fails, or trips the switch.   *)
SessionLost ==
  /\ pc = "tick" \/ (pc = "poll" /\ todo # {})
  /\ \/ pc' = "poll" /\ UNCHANGED <<rc, wpc>>
     \/ Leave("1")
  /\ todo' = {} /\ hand' = NoQuote
  /\ UNCHANGED <<filterVars, buffer, pending, done, cur, copies, lastSeen,
                 refused, envVars>>

ConsiderRepeat ==
  /\ pc = "tick" /\ Suppress(hand.sym, hand.tick)
  /\ pc' = "poll" /\ hand' = NoQuote
  /\ UNCHANGED <<writerVars, todo, lastSeen, rc, refused, envVars>>

ConsiderNews ==
  /\ pc = "tick" /\ Emit(hand.sym, hand.tick)
  /\ pc' = "event"
  /\ UNCHANGED <<writerVars, loopVars, rc, refused, envVars>>

(* ParquetWriter.add: the buffer is full, or flush_max_seconds are over.   *)
Add ==
  /\ pc = "event"
  /\ \E h \in Hours :
       buffer' = buffer \cup {[id |-> emitted, part |-> <<hand.sym, h>>]}
  /\ \/ pc' = "flush" /\ wpc' = "hook"
     \/ Cardinality(buffer') < FlushRows /\ pc' = "poll" /\ wpc' = wpc
  /\ hand' = NoQuote
  /\ UNCHANGED <<filterVars, pending, done, cur, copies, todo, lastSeen, rc, refused,
                 envVars>>

(* The rest of a round: staleness and health, where the terminal or the    *)
(* disk may raise.                                                         *)
EndRound ==
  /\ pc = "poll" /\ todo = {}
  /\ \/ pc' = "top" /\ UNCHANGED <<rc, wpc>>
     \/ Leave("1")
  /\ UNCHANGED <<filterVars, buffer, pending, done, cur, copies, loopVars,
                 refused, envVars>>

-----------------------------------------------------------------------------
Flushing == pc \in {"flush", "closing"}

(* rc of an exception on its way out; in the closing flush it is swallowed.*)
Raising(code) == rc' = IF pc = "flush" THEN code ELSE rc

FlushRuns ==
  /\ Flushing
  /\ FlushStep \/ (~stop /\ TakeBuffer)
  /\ UNCHANGED <<filterVars, pc, loopVars, rc, refused, envVars>>

FlushFails ==
  /\ Flushing
  /\ \/ HookRaises /\ stop /\ Raising("0")
     \/ (HookRaises \/ PartFails) /\ Raising("1")
  /\ UNCHANGED <<filterVars, pc, loopVars, refused, envVars>>

FlushEnds ==
  /\ pc = "flush" /\ wpc \in {"returned", "raised"}
  /\ IF wpc = "returned" THEN pc' = "poll" /\ wpc' = "idle" /\ rc' = rc
     ELSE Leave(rc)
  /\ UNCHANGED <<filterVars, buffer, pending, done, cur, copies, loopVars, refused,
                 envVars>>

Exit ==
  /\ pc = "closing" /\ wpc \in {"returned", "raised"}
  /\ pc' = "exit" /\ wpc' = "idle"
  /\ refused' = (wpc = "raised")
  /\ UNCHANGED <<filterVars, buffer, pending, done, cur, copies, loopVars, rc, envVars>>

-----------------------------------------------------------------------------
(* SIGINT or SIGTERM: the handler raises GracefulExit wherever it is.      *)
Signal ==
  /\ signals < MaxSignals /\ signals' = signals + 1
  /\ \/ /\ pc \in {"top", "poll", "tick", "event"} /\ Leave("0")
        /\ UNCHANGED <<buffer, pending, done, cur, copies>>
     \/ /\ Flushing /\ FlushInterrupted
        /\ Raising("0") /\ UNCHANGED pc
  /\ UNCHANGED <<filterVars, loopVars, refused, stop>>

(* SIGKILL, a power loss, or TerminateProcess.                             *)
Die ==
  /\ pc \notin {"off", "exit"}
  /\ signals < MaxSignals /\ signals' = signals + 1
  /\ pc' = "exit" /\ rc' = "killed"
  /\ UNCHANGED <<filterVars, writerVars, loopVars, refused, stop>>

RequestStop ==
  /\ ~stop /\ stop' = TRUE
  /\ UNCHANGED <<filterVars, writerVars, pc, loopVars, rc, refused, signals>>

LoggerStep ==
  \/ Start
  \/ TopOfLoop
  \/ \E s \in Symbols : PollNothing(s) \/ \E tick \in Ticks : PollTick(s, tick)
  \/ SessionLost
  \/ ConsiderRepeat
  \/ ConsiderNews
  \/ Add
  \/ EndRound
  \/ FlushRuns
  \/ FlushFails
  \/ FlushEnds
  \/ Exit

Next == LoggerStep \/ Signal \/ Die \/ RequestStop

Spec == Init /\ [][Next]_vars

(* The logger sleeps between rounds but never blocks: every call to the    *)
(* terminal returns, and safe_replace gives up after six attempts.         *)
FairSpec == Spec /\ WF_vars(LoggerStep)

-----------------------------------------------------------------------------
InHand == IF pc = "event" THEN {emitted} ELSE {}

Held == InHand \cup Ids(buffer) \cup Ids(pending \ (done \cup cur))

(* Through any number of flushes that fail half-way, every row emitted is  *)
(* in exactly one place: in hand, in the buffer, in the flush in progress  *)
(* or in one part file.  A logger that has ended holds nothing any more:   *)
(* its rows are all in part files, except those a refused closing flush    *)
(* put back, which are lost.  Only signals change that, and each can double*)
(* a row once: flush of ingestion/parquet_writer.py, run_logger.           *)
EveryRowOnce ==
  /\ \A n \in Rows : copies[n] <= 1 + signals
  /\ signals = 0 =>
       /\ Held \cup Published = 1..emitted
       /\ Held \cap Published = {}
       /\ Ids(buffer) \cap Ids(pending) = {}
       /\ pc = "exit" =>
            Published = (1..emitted) \ IF refused THEN Ids(buffer) ELSE {}

(* Whatever ends run_logger, short of a signal, it has saved its rows or   *)
(* its closing flush was refused: by the stop file or the kill switch,     *)
(* which the hook looks at again, by the terminal, or by the disk.         *)
NothingLeftBehind ==
  pc = "exit" /\ signals = 0 /\ ~refused => Held = {}

(* Once the stop file is there, run_logger ends, whatever the terminal,    *)
(* the kill switch and the disk do.                                        *)
StopIsObeyed == stop ~> pc = "exit"

(* How far the logger is from its end once the stop file is there: what is *)
(* left of a flush, of the round, and of the closing flush.                *)
FlushRank ==
  CASE wpc = "idle"                    -> 0
    [] wpc \in {"returned", "raised"}  -> 1
    [] wpc \in {"hook", "undo"}        -> 2
    [] wpc = "write"                   -> 2 * Cardinality(Unpublished) + 3
    [] wpc = "book"                    -> 2 * Cardinality(Unpublished \ cur) + 4
    [] wpc = "group"                   -> 2 * Cardinality(Unpublished) + 4

Rank ==
  CASE pc = "exit"    -> 0
    [] pc = "closing" -> 1 + FlushRank
    [] pc = "top"     -> 4
    [] pc = "off"     -> 5
    [] pc = "poll"    -> 5 * Cardinality(todo) + 5
    [] pc = "flush"   -> 5 * Cardinality(todo) + 5 + FlushRank
    [] pc = "event"   -> 5 * Cardinality(todo) + 8
    [] pc = "tick"    -> 5 * Cardinality(todo) + 9

LastSteps == 5 * Cardinality(Symbols) + 2 * MaxTicks + 9

(* With the stop file there, every step, a failure, a signal or a flush    *)
(* under way included, brings the logger nearer its end: it takes          *)
(* LastSteps more at most.                                                 *)
StopAdvances == [][stop => Rank' < Rank]_vars

-----------------------------------------------------------------------------
(* The logger as a journal of rows.                                        *)
Ending ==
  IF pc # "exit" THEN "open"
  ELSE IF rc = "killed" \/ refused THEN "dropped" ELSE "closed"

Journal == INSTANCE RowJournal WITH
  AllRows <- Rows, Capacity <- FlushRows,
  made <- emitted, rows <- Held, saved <- copies, faults <- signals, state <- Ending

(* The logger implements the journal: no step takes a row out of a part    *)
(* file or drops one that is held, unless it is a signal or a kill, and    *)
(* flush_max_rows is the most it holds.                                    *)
JournalRefined == Journal!JournalSpec

-----------------------------------------------------------------------------
(* What EveryRowOnce rests on: the strengthening that every step preserves.*)

(* A flush is under way exactly in its own phases, and its local variables *)
(* live no longer than the phases that use them.                           *)
LocalsEnd ==
  /\ pc \notin {"flush", "closing", "exit"} => wpc = "idle"
  /\ IF wpc \in {"group", "write", "book", "undo"}
     THEN buffer = {}
     ELSE pending = {}
  /\ wpc \notin {"book", "undo"} => cur = {}
  /\ wpc = "undo" /\ signals = 0 => cur = {}

(* A tick in hand is still to be counted, an event has been.               *)
TickInHand ==
  /\ pc \in {"tick", "event"} => hand \in [sym : Symbols, tick : Ticks]
  /\ pc = "tick" => seen < MaxTicks
  /\ pc = "event" => emitted > 0
  /\ emitted <= seen

(* A row keeps its number, and numbers are given once.                     *)
NumbersAreUnique ==
  \A r \in buffer \cup pending :
    /\ r.id <= emitted
    /\ pc = "event" => r.id < emitted
    /\ \A q \in buffer \cup pending : q.id = r.id => q = r

(* The rows still to be written by this flush or a later one.              *)
Waiting == buffer \cup (pending \ (done \cup IF wpc = "book" THEN cur ELSE {}))

(* A row that waits has been published only if a signal came between its   *)
(* publication and the note of it; a row that is noted has been published. *)
CopiesAreNoted ==
  /\ \A n \in Rows : copies[n] <= 1 + signals /\ (n > emitted => copies[n] = 0)
  /\ \A r \in Waiting : copies[r.id] <= signals
  /\ pc = "event" => copies[emitted] <= signals
  /\ \A r \in done : copies[r.id] > 0
  /\ wpc = "book" => \A r \in cur : copies[r.id] > 0

(* A row nobody holds any more has been published.                         *)
NoRowDropped ==
  signals = 0 =>
    \A n \in 1..emitted :
      \/ copies[n] > 0
      \/ pc = "event" /\ n = emitted
      \/ \E r \in buffer \cup (pending \ done) : r.id = n

CaptureInv ==
  TypeOK /\ LocalsEnd /\ TickInHand /\ NumbersAreUnique /\ CopiesAreNoted /\ NoRowDropped

(* A flush that returned has emptied the buffer.                           *)
FlushedIsEmpty ==
  /\ pc = "off" \/ wpc = "returned" => buffer = {}
  /\ pc = "exit" /\ signals = 0 => wpc = "idle" /\ (refused \/ buffer = {})

(* What a flush may have to write, or a signal to drop, is flush_max_rows  *)
(* at most: a row is added only where fewer are held.                      *)
RowsFit ==
  /\ Cardinality(buffer \cup pending) <= FlushRows
  /\ pc \in {"top", "poll", "tick", "event"} => Cardinality(buffer) < FlushRows
=============================================================================
