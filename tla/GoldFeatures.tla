---------------------------- MODULE GoldFeatures ----------------------------
(***************************************************************************)
(* One pair and date from the raw sample and the ticks to the exported     *)
(* dataset: the stages the demo and the day's pipeline run, in the order    *)
(* they have in both, on data that do not change meanwhile.  Between two    *)
(* runs the day goes on and more is recorded.                              *)
(*                                                                         *)
(* The bar report is a stage of the day's pipeline only and the export one  *)
(* of the demo only; here a run may have both.                             *)
(***************************************************************************)
EXTENDS Alignment

CONSTANTS
  Gate,      \* decisions with which a run goes on: PASS in the demo, with
             \* PARTIAL in the day's pipeline
  Quotes,    \* the kinds of ticks there may be, see AllQuotes
  MaxTime,   \* bounds on the day and on what is recorded in it
  MaxTrades,
  MaxTicks

(* Join-safe or not; of a spread above max_spread_price_threshold or not, and *)
(* not where there is no such threshold.                                    *)
AllQuotes == [safe : BOOLEAN, wide : BOOLEAN]

ASSUME GoldAssumption ==
  /\ Quotes \subseteq AllQuotes
  /\ Gate \in {{"PASS"}, {"PASS", "PARTIAL"}}
  /\ {MaxTime, MaxTrades, MaxTicks} \subseteq Nat

NoReport == [decision |-> "none", overlap |-> FALSE, aligned |-> {}]

VARIABLES
  now,        \* the horizon: everything before it is recorded
  raw,        \* records of the CME sample
  ticks,      \* MT5 Silver
  truncated,  \* the sample's sidecar says TRUNCATED_BY_LIMIT
  phase,      \* the stage a run is at
  trades,     \* the reference_trades partition
  tickReport, \* alignment_quality of the run
  barReport,  \* bar_alignment_quality of the run
  gold,       \* the Gold feature partition
  exported    \* history: rows of the datasets so far, and whether the
              \* windows of the two sources overlapped then

inputVars == <<now, raw, ticks, truncated>>
vars == <<inputVars, phase, trades, tickReport, barReport, gold, exported>>

Records == [at : 0..MaxTime, kind : Kinds]
Trades == [at : 0..MaxTime, valid : BOOLEAN, priced : BOOLEAN, size : {0, 1}]
Ticks == [at : 0..MaxTime, safe : BOOLEAN, wide : BOOLEAN]

TypeOK ==
  /\ now \in 0..MaxTime
  /\ raw \subseteq Records /\ trades \subseteq Trades /\ ticks \subseteq Ticks
  /\ \A e \in raw \cup trades \cup ticks : e.at <= now
  /\ truncated \in BOOLEAN
  /\ phase \in {"data", "ingested", "checked", "aligned", "built", "rated", "failed"}
  /\ \A report \in {tickReport, barReport} :
       /\ report.decision \in {"none", "PASS", "PARTIAL", "FAIL"}
       /\ report.overlap \in BOOLEAN
  /\ tickReport.aligned \subseteq Trades
  /\ \A x \in exported : x.settled \in BOOLEAN

Init ==
  /\ now = 0 /\ raw = {} /\ ticks = {} /\ truncated = FALSE
  /\ phase = "data" /\ trades = {}
  /\ tickReport = NoReport /\ barReport = NoReport
  /\ gold = {} /\ exported = {}

-----------------------------------------------------------------------------
(* The day goes on.                                                        *)
Pass ==
  /\ phase = "data" /\ now < MaxTime
  /\ now' = now + 1
  /\ UNCHANGED <<raw, ticks, truncated, phase, trades, tickReport, barReport,
                 gold, exported>>

RecordCme(kind) ==
  /\ phase = "data" /\ Cardinality(raw) < MaxTrades
  /\ raw' = raw \cup {[at |-> now, kind |-> kind]}
  /\ UNCHANGED <<now, ticks, truncated, phase, trades, tickReport, barReport,
                 gold, exported>>

RecordTick(quote) ==
  /\ phase = "data" /\ now % Ms = 0 /\ Cardinality(ticks) < MaxTicks
  /\ ticks' = ticks \cup {[at |-> now, safe |-> quote.safe, wide |-> quote.wide]}
  /\ UNCHANGED <<now, raw, truncated, phase, trades, tickReport, barReport,
                 gold, exported>>

-----------------------------------------------------------------------------
(* A stage that is not passed ends the run.                                 *)
After(decision, next) == phase' = IF decision \in Gate THEN next ELSE "failed"

(* The next run makes reports of its own.                                   *)
EndRun ==
  /\ phase' = "data" /\ tickReport' = NoReport /\ barReport' = NoReport

GiveUp ==
  /\ phase = "failed" /\ EndRun
  /\ UNCHANGED <<inputVars, trades, gold, exported>>

(* ingest, with force or not; the sample, or its sidecar, may be cut off.    *)
IngestCme(force, cut) ==
  /\ phase = "data" /\ truncated' = cut
  /\ LET refused == raw = {} \/ (trades # {} /\ ~force) IN
     /\ phase' = IF refused THEN "failed" ELSE "ingested"
     /\ trades' = IF refused THEN trades ELSE ReferenceTrades(raw)
  /\ UNCHANGED <<now, raw, ticks, tickReport, barReport, gold, exported>>

(* cme_reference_quality; a high share of unknown sides or a missing book is *)
(* a warning.  How many trades are valid makes no difference.               *)
CheckCme(warned) ==
  /\ phase = "ingested"
  /\ After(IF trades = {} THEN "FAIL"
           ELSE IF truncated \/ warned THEN "PARTIAL" ELSE "PASS", "checked")
  /\ UNCHANGED <<inputVars, trades, tickReport, barReport, gold, exported>>

AlignTicks ==
  /\ phase = "checked"
  /\ tickReport' = TickReport(trades, ticks, truncated)
  /\ After(tickReport'.decision, "aligned")
  /\ UNCHANGED <<inputVars, trades, barReport, gold, exported>>

AlignBars ==
  /\ phase = "aligned" /\ barReport = NoReport
  /\ LET report == BarReport(trades, ticks) IN
     /\ barReport' = report
     /\ After(report.decision, "aligned")
  /\ UNCHANGED <<inputVars, trades, tickReport, gold, exported>>

(* build with --include-diagnostic-5s: files there are already stop it unless *)
(* they may be replaced; one without rows is not written.                   *)
BuildFeatures(force) ==
  /\ phase = "aligned"
  /\ LET refused == trades = {} \/ ticks = {} \/ (gold # {} /\ ~force) IN
     /\ phase' = IF refused THEN "failed" ELSE "built"
     /\ gold' = IF refused THEN gold ELSE FeatureRows(trades, ticks)
  /\ UNCHANGED <<inputVars, trades, tickReport, barReport, exported>>

(* bar_feature_quality, which asks for eligible rows of the required sizes.  *)
RateFeatures ==
  /\ phase = "built"
  /\ After(IF gold = {} THEN "FAIL"
           ELSE IF \E row \in gold : row.bar.size \in ModelSizes /\ Eligible(row)
             THEN "PASS" ELSE "PARTIAL", "rated")
  /\ UNCHANGED <<inputVars, trades, tickReport, barReport, gold, exported>>

(* export_dataset with the horizon as watermark; a run without a closed       *)
(* eligible row fails.                                                     *)
Export ==
  /\ phase = "rated" /\ EndRun
  /\ exported' = exported \cup
       {[row |-> row, settled |-> Overlap(trades, ticks)] :
          row \in {x \in gold : Eligible(x) /\ End(x) <= now /\ x.bar.size \in ModelSizes}}
  /\ UNCHANGED <<inputVars, trades, gold>>

Next ==
  \/ Pass \/ (\E kind \in Kinds : RecordCme(kind))
  \/ (\E quote \in Quotes : RecordTick(quote))
  \/ \E force, cut \in BOOLEAN : IngestCme(force, cut)
  \/ \E warned \in BOOLEAN : CheckCme(warned)
  \/ AlignTicks \/ AlignBars
  \/ \E force \in BOOLEAN : BuildFeatures(force)
  \/ RateFeatures \/ Export \/ GiveUp

Spec == Init /\ [][Next]_vars

-----------------------------------------------------------------------------
Events(bars) == UNION {x.cme \cup x.mt5 : x \in bars}

(* A feature row shows nothing of its bucket's end or later, in whatever     *)
(* column: its own bar, the row before, the rolling window.                 *)
NoLookAhead ==
  \A row \in gold : \A e \in Events({row.bar} \cup row.previous \cup row.trailing) :
    e.at < End(row)

(* A dataset row stays as it was exported when the horizon is extended and   *)
(* the features are built again, once the windows of the two sources had    *)
(* overlapped when it was exported.                                        *)
SettledRowsStay ==
  phase \in {"built", "rated"} =>
    \A x \in exported : x.settled => x.row \in gold

(* The same for every row.                                                 *)
EarlierRowsUnchanged ==
  phase \in {"built", "rated"} => \A x \in exported : x.row \in gold

(* What the tick report says of a date holds of its data, also when it sees    *)
(* no overlap and looks at no trade: a trade it aligns has a join-safe quote   *)
(* that is not later and, to the millisecond, in reach; a valid trade it does  *)
(* not align has none within the tolerance; and a date refused for want of an *)
(* overlap has none for the bar tools, which look for it without tolerance.   *)
ReportIsRight ==
  phase \in {"aligned", "failed"} /\ tickReport # NoReport =>
    /\ Overlap(trades, ticks) => tickReport.overlap
    /\ \A t \in tickReport.aligned :
         \E k \in ticks : k.safe /\ k.at <= t.at /\ t.at - k.at < Tolerance + Ms
    /\ \A t \in trades, k \in ticks :
         t.valid /\ k.safe /\ k.at <= t.at /\ t.at - k.at <= Tolerance
           => t \in tickReport.aligned

(* The builder classifies the bars a second time, by its own rules and the    *)
(* close where the bar report has the VWAP.  Where both ran and the windows   *)
(* overlap they agree all the same, thanks to what ingestion calls a valid    *)
(* trade: of the sizes a model is fed the rows that may be exported are just  *)
(* the bars the report calls aligned, and of the diagnostic one, which the    *)
(* report may well call aligned, none is.                                   *)
EligibleIsAligned ==
  phase \in {"built", "rated"} /\ barReport.overlap =>
    {row.bar : row \in {x \in gold : Eligible(x)}}
      = {x \in barReport.aligned : x.size \in ModelSizes}

(* A bucket has one row.  The row reads the bar of its size before it if any, *)
(* and of the bars up to its own the last ones without a gap, as many as the  *)
(* window holds or all there are: shift(1) and rolling(Window), where         *)
(* buckets are missing and where the day begins as well.                     *)
WindowsAreFull ==
  \A row \in gold :
    LET bars == {r.bar : r \in {q \in gold : q.bar.size = row.bar.size}}
        past == {b \in bars : b.start <= row.bar.start}
    IN
    /\ \A b \in bars : b.start = row.bar.start => b = row.bar
    /\ IF past = {row.bar} THEN row.previous = {}
       ELSE \E p \in past \ {row.bar} :
              /\ row.previous = {p}
              /\ \A b \in past \ {row.bar} : b.start <= p.start
    /\ row.bar \in row.trailing /\ row.trailing \subseteq past
    /\ \A b \in past \ row.trailing, p \in row.trailing : b.start < p.start
    /\ Cardinality(row.trailing) = Window \/ row.trailing = past
    /\ Cardinality(row.trailing) <= Window
=============================================================================
