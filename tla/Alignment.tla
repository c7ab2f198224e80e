------------------------------ MODULE Alignment ------------------------------
(***************************************************************************)
(* What the batch tools compute from the reference trades T and the MT5     *)
(* Silver ticks K of one pair and date: ingestion/cme_reference_ingest.py,  *)
(* alignment/alignment_quality.py, features/bar_aggregation.py,             *)
(* alignment/bar_alignment_quality.py and features/bar_feature_builder.py.  *)
(*                                                                         *)
(* Times count from some instant of the date; a tick's is a whole number of *)
(* milliseconds, a trade's is not.  A bar has its size and the events it    *)
(* was aggregated from, so that a price, a volume or a statistic of it is a *)
(* function of the bar.                                                    *)
(***************************************************************************)
EXTENDS Integers, FiniteSets, FiniteSetsExt

CONSTANTS
  Kinds,        \* the records there may be in a raw sample, see AllKinds
  Ms,           \* MS_TO_NS
  Tolerance,    \* alignment_tolerance_ms, in the unit of time
  ReportSizes,  \* bucket_size_ns of the bar report
  ModelSizes,   \* REQUIRED_BUCKET_LABELS, the sizes a model is fed
  Diagnostic,   \* DIAGNOSTIC_BUCKET_SIZE, built beside them
  Window,       \* ZSCORE_WINDOW
  MinSafe,      \* min_join_safe_tick_ratio, in percent as those that follow
  MinMatch,     \* min_match_rate_50ms
  MaxUnmatched, \* max_unmatched_volume_ratio_50ms
  PassRate,     \* pass_bar_alignment_rate
  PassVolume    \* pass_cme_volume_alignment_ratio

(* A record of the raw sample: a trade, one without a positive price, one    *)
(* without a size, or something else than a trade of a requested symbol.    *)
AllKinds == {"trade", "unpriced", "unsized", "other"}

ASSUME AlignmentAssumption ==
  /\ Kinds \subseteq AllKinds
  /\ Ms \in Nat \ {0}
  /\ ReportSizes \subseteq Nat \ {0} /\ ModelSizes \subseteq ReportSizes
  /\ Diagnostic \in ReportSizes \ ModelSizes
  /\ Tolerance \in Nat /\ Tolerance % Ms = 0
  /\ Window \in Nat \ {0}
  /\ {MinSafe, MinMatch, MaxUnmatched, PassRate, PassVolume} \subseteq 0..100

(* Mutant: a trade counts whether it has a price or not.                    *)
MutantReferenceTrades(raw) ==
  {[at |-> r.at, valid |-> r.kind \in {"trade", "unpriced"},
    priced |-> r.kind # "unpriced", size |-> IF r.kind = "unsized" THEN 0 ELSE 1] :
     r \in {s \in raw : s.kind # "other"}}

(* The reference trades of a sample.  A symbol is matched by its ticker or   *)
(* a name that begins with it; records without one are dropped.  A trade is  *)
(* valid with a positive price and a positive size only.                    *)
ReferenceTrades(raw) ==
  {[at |-> r.at, valid |-> r.kind = "trade", priced |-> r.kind # "unpriced",
    size |-> IF r.kind = "unsized" THEN 0 ELSE 1] :
     r \in {s \in raw : s.kind # "other"}}

Volume(T) == MapThenSumSet(LAMBDA t : t.size, T)

-----------------------------------------------------------------------------
(* The tick report.                                                        *)
EventMs(t) == t.at - (t.at % Ms)

(* Mutant: the windows must meet as they are.                               *)
MutantQuoteOverlap(T, K) ==
  \E t, u \in T, k, l \in K : t.at <= k.at /\ l.at <= u.at

(* The two windows meet, that of the trades extended back by the tolerance. *)
QuoteOverlap(T, K) ==
  /\ \E t \in T, k \in K : t.at - Tolerance <= k.at
  /\ \E t \in T, k \in K : k.at <= t.at

Prior(t, K) == {k \in K : k.at <= EventMs(t)}
InReach(t, K) == {k \in Prior(t, K) : EventMs(t) - k.at <= Tolerance}
(* Scanning back from the trade, the tool takes the last of these.          *)
Matches(t, K) == {k \in InReach(t, K) : k.safe}

Outcome(t, T, K) ==
  IF ~t.valid THEN "missing_required_columns"
  ELSE IF ~QuoteOverlap(T, K) THEN "no_overlap_window"
  ELSE IF Prior(t, K) = {} THEN "no_prior_quote"
  ELSE IF Matches(t, K) # {} THEN "aligned"
  ELSE IF InReach(t, K) # {} THEN "mt5_not_join_safe"
  ELSE "outside_tolerance"

Aligned(T, K) == {t \in T : Outcome(t, T, K) = "aligned"}

BelowThreshold(T, K) ==
  \/ 100 * Cardinality(Aligned(T, K)) < MinMatch * Cardinality(T)
  \/ 100 * (Volume(T) - Volume(Aligned(T, K))) > MaxUnmatched * Volume(T)

TickReport(T, K, truncated) ==
  [decision |->
     IF T = {} \/ K = {} \/ ~QuoteOverlap(T, K) THEN "FAIL"
     ELSE IF truncated \/ BelowThreshold(T, K) THEN "PARTIAL" ELSE "PASS",
   overlap |-> QuoteOverlap(T, K),
   aligned |-> Aligned(T, K)]

-----------------------------------------------------------------------------
(* Bars of size w.                                                         *)
Start(e, w) == e.at - (e.at % w)

CmeBar(b, w, T) == {t \in T : t.valid /\ Start(t, w) = b}
Mt5Bar(b, w, K) == {k \in K : Start(k, w) = b}

(* The full join of the two tables of bars.                                 *)
Bar(b, w, T, K) ==
  [start |-> b, size |-> w, cme |-> CmeBar(b, w, T), mt5 |-> Mt5Bar(b, w, K)]
BarStarts(w, T, K) ==
  {Start(t, w) : t \in {u \in T : u.valid}} \cup {Start(k, w) : k \in K}
Joined(w, T, K) == {Bar(b, w, T, K) : b \in BarStarts(w, T, K)}
BarEnd(bar) == bar.start + bar.size

(* The windows meet: the later beginning, lo, is no later than the earlier   *)
(* end, hi.  All trades count here, also those without a bar.               *)
Overlap(T, K) ==
  /\ \E t \in T, k \in K : t.at <= k.at
  /\ \E t \in T, k \in K : k.at <= t.at

(* bucket_start + bucket_size > lo and bucket_start <= hi.                  *)
InOverlap(bar, T, K) ==
  /\ \E t \in T, k \in K : t.at < BarEnd(bar) /\ k.at < BarEnd(bar)
  /\ \E t \in T, k \in K : bar.start <= t.at /\ bar.start <= k.at

SafeTicks(bar) == {k \in bar.mt5 : k.safe}

(* What a bar is refused for in both tools: a source is missing, nothing was *)
(* traded, too few ticks are join-safe, or the spread is above the maximum   *)
(* both are given.  A bar of ticks has at least one, and each has a mid.     *)
MissingSource(bar) == bar.cme = {} \/ bar.mt5 = {}
ZeroVolume(bar) == \A t \in bar.cme : t.size = 0
LowJoinSafe(bar) == 100 * Cardinality(SafeTicks(bar)) < MinSafe * Cardinality(bar.mt5)
SpreadTooWide(bar) == \E k \in bar.mt5 : k.wide
(* What each refuses it for on its own: the report looks at cme_vwap, a sum   *)
(* over the trades, and the builder at cme_close_price, that of the last.   *)
InvalidVwap(bar) == \A t \in bar.cme : ~t.priced \/ t.size = 0
InvalidClose(bar) ==
  \E t \in bar.cme : ~t.priced /\ \A u \in bar.cme : u.at <= t.at

(* is_bar_aligned of the bar report: no bar_reject_reason applies.          *)
IsBarAligned(bar) ==
  ~(\/ MissingSource(bar) \/ ZeroVolume(bar) \/ LowJoinSafe(bar)
    \/ InvalidVwap(bar) \/ SpreadTooWide(bar))

(* The thresholds hold for some size; a size without a bar has no rate.      *)
BarReport(T, K) ==
  LET bars == {x \in UNION {Joined(w, T, K) : w \in ReportSizes} :
                 Overlap(T, K) /\ InOverlap(x, T, K)}
      good == {x \in bars : IsBarAligned(x)}
      OfSize(B, w) == {x \in B : x.size = w}
      Traded(B) == Volume(UNION {x.cme : x \in B})
      Passes(w) ==
        LET all == OfSize(bars, w)
            fit == OfSize(good, w)
        IN /\ all # {} /\ Traded(all) # 0
           /\ 100 * Cardinality(fit) >= PassRate * Cardinality(all)
           /\ 100 * Traded(fit) >= PassVolume * Traded(all)
  IN [decision |-> IF ~Overlap(T, K) THEN "FAIL"
                   ELSE IF \E w \in ReportSizes : Passes(w) THEN "PASS" ELSE "PARTIAL",
      overlap |-> Overlap(T, K),
      aligned |-> good]

-----------------------------------------------------------------------------
(* The features.  Without an overlap no bar is filtered out.                *)
FeatureBars(w, T, K) ==
  {x \in Joined(w, T, K) : Overlap(T, K) => InOverlap(x, T, K)}

(* Mutants: shift(-1); the day's mean and deviation instead of rolling ones.  *)
MutantPrevious(x, B) ==
  {p \in B : p.start > x.start /\ \A q \in B : q.start > x.start => q.start >= p.start}
MutantTrailing(x, B) == B

(* shift(1): the row before, however far back.                              *)
Previous(x, B) ==
  {p \in B : p.start < x.start /\ \A q \in B : q.start < x.start => q.start <= p.start}
(* rolling over the last rows, this one included.                           *)
Trailing(x, B) ==
  {p \in B : /\ p.start <= x.start
             /\ Cardinality({q \in B : p.start < q.start /\ q.start <= x.start}) < Window}

(* The values of a row are a function of these bars, all of one size.        *)
Row(x, B) == [bar |-> x, previous |-> Previous(x, B), trailing |-> Trailing(x, B)]
BuiltSizes == ModelSizes \cup {Diagnostic}
RowsOfSize(w, T, K) == LET B == FeatureBars(w, T, K) IN {Row(x, B) : x \in B}
FeatureRows(T, K) == UNION {RowsOfSize(w, T, K) : w \in BuiltSizes}

(* is_model_eligible_candidate: the flag is OK, which that of a diagnostic    *)
(* bucket never is.                                                        *)
Eligible(row) ==
  ~(\/ MissingSource(row.bar) \/ ZeroVolume(row.bar) \/ InvalidClose(row.bar)
    \/ LowJoinSafe(row.bar) \/ SpreadTooWide(row.bar) \/ row.bar.size = Diagnostic)
End(row) == BarEnd(row.bar)
=============================================================================
