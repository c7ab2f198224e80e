----------------------------- MODULE TickFilter -----------------------------
(***************************************************************************)
(* ingestion/tick_filter.py: which ticks of a symbol become rows.  A quote *)
(* stands for what the filter compares: the scaled bid, ask and last, the  *)
(* volume and the flags.                                                   *)
(***************************************************************************)
EXTENDS Integers, FiniteSetsExt

CONSTANTS Symbols,
          Quotes,
          NoQuote,   \* nothing emitted for the symbol yet
          Times,     \* terminal time stamps, time_msc
          Gap        \* stale_heartbeat_max_gap_ms

ASSUME FilterAssumption ==
  /\ IsFiniteSet(Symbols)
  /\ NoQuote \notin Quotes
  /\ Times \subseteq Int
  /\ Gap \in Nat \ {0}

VARIABLES
  onFile,      \* onFile[s]: the quote of the last row emitted for s
  since,       \* since[s]: its time stamp
  held,        \* held[s]: suppressed_count, ticks suppressed since that row
  seen, emitted, suppressed,  \* the totals of the metrics
  carried,     \* suppressed_count summed over the rows emitted so far
  latest       \* latest[s]: the last tick considered

filterVars == <<onFile, since, held, seen, emitted, suppressed, carried, latest>>

Ticks == [quote : Quotes, time : Times]

FilterTypeOK ==
  /\ onFile \in [Symbols -> Quotes \cup {NoQuote}]
  /\ since \in [Symbols -> Int]
  /\ held \in [Symbols -> Nat]
  /\ seen \in Nat /\ emitted \in Nat /\ suppressed \in Nat /\ carried \in Nat
  /\ latest \in [Symbols -> [quote : Quotes \cup {NoQuote}, time : Int]]

FilterInit ==
  /\ onFile = [s \in Symbols |-> NoQuote]
  /\ since = [s \in Symbols |-> 0]
  /\ held = [s \in Symbols |-> 0]
  /\ seen = 0 /\ emitted = 0 /\ suppressed = 0 /\ carried = 0
  /\ latest = [s \in Symbols |-> [quote |-> NoQuote, time |-> 0]]

(* Mutant: the heartbeat is off by one.                                    *)
MutantLateHeartbeat(s, tick) ==
  onFile[s] = tick.quote /\ tick.time - since[s] <= Gap

(* Neither the first tick of s, nor a changed quote, nor a heartbeat.      *)
IsRepeat(s, tick) ==
  onFile[s] = tick.quote /\ tick.time - since[s] < Gap

Suppress(s, tick) ==
  /\ IsRepeat(s, tick)
  /\ held' = [held EXCEPT ![s] = @ + 1]
  /\ suppressed' = suppressed + 1 /\ seen' = seen + 1
  /\ latest' = [latest EXCEPT ![s] = tick]
  /\ UNCHANGED <<onFile, since, emitted, carried>>

(* Mutant: the count of suppressed ticks survives the row that reports it. *)
MutantKeepsCount(s, tick) ==
  /\ ~IsRepeat(s, tick)
  /\ carried' = carried + held[s]
  /\ onFile' = [onFile EXCEPT ![s] = tick.quote]
  /\ since' = [since EXCEPT ![s] = tick.time]
  /\ emitted' = emitted + 1 /\ seen' = seen + 1
  /\ latest' = [latest EXCEPT ![s] = tick]
  /\ UNCHANGED <<held, suppressed>>

Emit(s, tick) ==
  /\ ~IsRepeat(s, tick)
  /\ carried' = carried + held[s]
  /\ held' = [held EXCEPT ![s] = 0]
  /\ onFile' = [onFile EXCEPT ![s] = tick.quote]
  /\ since' = [since EXCEPT ![s] = tick.time]
  /\ emitted' = emitted + 1 /\ seen' = seen + 1
  /\ latest' = [latest EXCEPT ![s] = tick]
  /\ UNCHANGED suppressed

(* Every tick the filter was given is a row, or is counted in the          *)
(* suppressed_count of a later row of its symbol, or waits to be.          *)
TicksAddUp ==
  /\ seen = emitted + suppressed
  /\ suppressed = carried + MapThenSumSet(LAMBDA s : held[s], Symbols)

(* A reader of the rows knows the last quote of every symbol: a suppressed *)
(* tick repeats the last row's quote, less than one heartbeat after it.    *)
RowsShowLatest ==
  \A s \in Symbols :
    /\ latest[s].quote = onFile[s]
    /\ latest[s].time - since[s] < Gap
=============================================================================
