----------------------------- MODULE GoldProofs -----------------------------
(***************************************************************************)
(* Proofs about GoldFeatures, for any unit of time, buckets, tolerance and  *)
(* window and any number of records.                                       *)
(*                                                                         *)
(* The heart is RowKept: events at or after the end of a row's bucket leave  *)
(* the row as it is, provided the windows of the two sources overlapped      *)
(* before: then the later of the two beginnings does not move, the earlier  *)
(* end only moves on, and the bars up to the row's own are the same.        *)
(***************************************************************************)
EXTENDS GoldFeatures, FiniteSetTheorems, TLAPS

TradeSet(T) == T \subseteq [at : Nat, valid : BOOLEAN, priced : BOOLEAN, size : {0, 1}]
TickSet(K) == K \subseteq [at : Nat, safe : BOOLEAN, wide : BOOLEAN]

(* Start lies at most a bucket before its event.                            *)
LEMMA StartBounds ==
  ASSUME NEW e, e.at \in Nat, NEW w \in Nat \ {0}
  PROVE  Start(e, w) \in Int /\ Start(e, w) <= e.at /\ e.at < Start(e, w) + w
<1>1. e.at % w \in 0..(w - 1)
  OBVIOUS
<1> QED
  BY <1>1 DEF Start

(* The sizes the builder builds.                                            *)
LEMMA Sizes ==
  /\ BuiltSizes \subseteq ReportSizes /\ ReportSizes \subseteq Nat \ {0}
  /\ ModelSizes \subseteq BuiltSizes /\ Diagnostic \notin ModelSizes
BY AlignmentAssumption DEF BuiltSizes

(* What a bar is, and that of feature bars those of one start are the same.   *)
LEMMA BarFields ==
  ASSUME NEW b, NEW w, NEW T, NEW K
  PROVE  /\ Bar(b, w, T, K).start = b /\ Bar(b, w, T, K).size = w
         /\ Bar(b, w, T, K).cme = CmeBar(b, w, T) /\ Bar(b, w, T, K).mt5 = Mt5Bar(b, w, K)
         /\ BarEnd(Bar(b, w, T, K)) = b + w
BY DEF Bar, BarEnd

LEMMA JoinedFields ==
  ASSUME NEW w, NEW T, NEW K, NEW x \in Joined(w, T, K)
  PROVE  /\ x.start \in BarStarts(w, T, K) /\ x.size = w /\ BarEnd(x) = x.start + w
         /\ x = Bar(x.start, w, T, K)
         /\ x.cme = CmeBar(x.start, w, T) /\ x.mt5 = Mt5Bar(x.start, w, K)
<1>1. PICK b \in BarStarts(w, T, K) : x = Bar(b, w, T, K)
  BY DEF Joined
<1> QED  BY <1>1, BarFields

(* The whole multiple of m below a is the last one not above it.            *)
LEMMA Multiples ==
  ASSUME NEW m \in Nat \ {0}, NEW a \in Nat, NEW b \in Nat, b % m = 0, b <= a
  PROVE  b <= a - (a % m)
<1>1. PICK q \in Int : q = a \div m
  OBVIOUS
<1>2. PICK p \in Int : p = b \div m
  OBVIOUS
<1>3. PICK r \in Int : r = a % m
  OBVIOUS
<1>4. a = m * q + r /\ 0 <= r /\ r < m
  BY <1>1, <1>3
<1>5. b = m * p
  BY <1>2
<1>6. CASE p <= q
  <2>1. m * p <= m * q
    BY <1>6
  <2>2. PICK x \in Int, y \in Int : x = m * p /\ y = m * q
    OBVIOUS
  <2>3. b <= y /\ y = a - r
    BY <1>4, <1>5, <2>1, <2>2
  <2> QED  BY <1>3, <2>3
<1>7. CASE p >= q + 1
  <2>1. m * p >= m * (q + 1)
    BY <1>7
  <2>2. m * (q + 1) = m * q + m
    OBVIOUS
  <2>3. m * p \in Int /\ m * q \in Int
    OBVIOUS
  <2> QED  BY <1>4, <1>5, <2>1, <2>2, <2>3
<1> QED  BY <1>6, <1>7

(* Milliseconds: a tick not later than a trade is not later than the trade's *)
(* millisecond.                                                            *)
LEMMA MsBounds ==
  ASSUME NEW t, t.at \in Nat
  PROVE  /\ EventMs(t) \in Int /\ EventMs(t) <= t.at /\ t.at < EventMs(t) + Ms
         /\ \A k \in Nat : k % Ms = 0 /\ k <= t.at => k <= EventMs(t)
<1>1. Ms \in Nat \ {0}
  BY AlignmentAssumption
<1>2. t.at % Ms \in 0..(Ms - 1)
  BY <1>1
<1> QED
  BY <1>1, <1>2, Multiples DEF EventMs

-----------------------------------------------------------------------------
(* Bars begin at whole numbers.                                             *)
LEMMA StartsAreInts ==
  ASSUME NEW T, NEW K, TradeSet(T), TickSet(K), NEW w \in Nat \ {0}
  PROVE  BarStarts(w, T, K) \subseteq Int
<1>1. ASSUME NEW e \in T \cup K  PROVE Start(e, w) \in Int
  <2>1. e.at \in Nat
    BY <1>1 DEF TradeSet, TickSet
  <2> QED  BY <2>1, StartBounds
<1> QED  BY <1>1 DEF BarStarts

(* The bars up to that of x, and which of them are features, are the same    *)
(* after events at n or later, the end of its bucket being no later.        *)
LEMMA BarsKept ==
  ASSUME NEW w \in Nat \ {0}, NEW T, NEW K, NEW T2, NEW K2, NEW n \in Nat, NEW x,
         TradeSet(T2), TickSet(K2), T \subseteq T2, K \subseteq K2,
         \A e \in (T2 \ T) \cup (K2 \ K) : e.at >= n,
         Overlap(T, K), x \in FeatureBars(w, T, K), x.start + w <= n
  PROVE  /\ Overlap(T2, K2)
         /\ x.start \in Int
         /\ {p \in FeatureBars(w, T, K) : p.start <= x.start}
              = {p \in FeatureBars(w, T2, K2) : p.start <= x.start}
<1> DEFINE s == x.start
<1>1. TradeSet(T) /\ TickSet(K)
  BY DEF TradeSet, TickSet
<1>2. Overlap(T2, K2)
  BY DEF Overlap
<1>3. /\ s \in Int
      /\ \E t \in T, k \in K : s <= t.at /\ s <= k.at
  BY <1>1, StartsAreInts, JoinedFields DEF FeatureBars, InOverlap
<1>4. ASSUME NEW e \in T2 \cup K2
      PROVE /\ e.at \in Nat /\ Start(e, w) \in Int
            /\ Start(e, w) <= e.at /\ e.at < Start(e, w) + w
  <2>1. e.at \in Nat
    BY <1>4 DEF TradeSet, TickSet
  <2> QED  BY <2>1, StartBounds
<1>5. ASSUME NEW e \in (T2 \ T) \cup (K2 \ K)  PROVE Start(e, w) > s
  <2>1. e.at >= n /\ e.at < Start(e, w) + w /\ e.at \in Nat /\ Start(e, w) \in Int
    BY <1>4
  <2> QED  BY <1>3, <2>1
<1>6. ASSUME NEW b \in Int, b <= s
      PROVE  /\ Bar(b, w, T2, K2) = Bar(b, w, T, K)
             /\ b \in BarStarts(w, T2, K2) <=> b \in BarStarts(w, T, K)
             /\ InOverlap(Bar(b, w, T, K), T2, K2) <=> InOverlap(Bar(b, w, T, K), T, K)
  <2>1. \A e \in (T2 \ T) \cup (K2 \ K) : Start(e, w) # b
    BY <1>3, <1>4, <1>5, <1>6
  <2>2. Bar(b, w, T2, K2) = Bar(b, w, T, K)
    BY <2>1 DEF CmeBar, Mt5Bar, Bar
  <2>3. b \in BarStarts(w, T2, K2) <=> b \in BarStarts(w, T, K)
    BY <2>1 DEF BarStarts
  <2>4. ASSUME NEW e \in T2 \cup K2, e.at < b + w  PROVE e \notin (T2 \ T) \cup (K2 \ K)
    BY <1>3, <1>4, <1>6, <2>4
  <2>5. \E t \in T, k \in K : b <= t.at /\ b <= k.at
    <3>1. PICK t \in T, k \in K : s <= t.at /\ s <= k.at
      BY <1>3
    <3>2. t.at \in Nat /\ k.at \in Nat
      BY <1>4
    <3> QED  BY <1>3, <1>6, <3>1, <3>2
  <2>6. (\E t \in T2, k \in K2 : t.at < b + w /\ k.at < b + w)
          <=> \E t \in T, k \in K : t.at < b + w /\ k.at < b + w
    BY <2>4
  <2>7. InOverlap(Bar(b, w, T, K), T2, K2) <=> InOverlap(Bar(b, w, T, K), T, K)
    BY <2>5, <2>6, BarFields DEF InOverlap
  <2> QED  BY <2>2, <2>3, <2>7
<1>7. ASSUME NEW p, p \in FeatureBars(w, T, K) \/ p \in FeatureBars(w, T2, K2), p.start <= s
      PROVE  p \in FeatureBars(w, T, K) <=> p \in FeatureBars(w, T2, K2)
  <2>1. p \in Joined(w, T, K) \/ p \in Joined(w, T2, K2)
    BY <1>7 DEF FeatureBars
  <2>2. /\ p.start \in Int
        /\ p = Bar(p.start, w, T, K) \/ p = Bar(p.start, w, T2, K2)
    BY <1>1, <2>1, StartsAreInts, JoinedFields
  <2>3. /\ p = Bar(p.start, w, T, K) /\ p = Bar(p.start, w, T2, K2)
        /\ p.start \in BarStarts(w, T2, K2) <=> p.start \in BarStarts(w, T, K)
        /\ InOverlap(p, T2, K2) <=> InOverlap(p, T, K)
    BY <1>6, <1>7, <2>2
  <2>4. p \in Joined(w, T, K) <=> p \in Joined(w, T2, K2)
    BY <2>1, <2>3, JoinedFields DEF Joined
  <2> QED
    BY <1>2, <2>3, <2>4 DEF FeatureBars
<1> QED
  BY <1>2, <1>3, <1>7

(* A row is kept.                                                          *)
LEMMA RowKept ==
  ASSUME NEW T, NEW K, NEW T2, NEW K2, NEW n \in Nat, NEW row,
         TradeSet(T2), TickSet(K2), T \subseteq T2, K \subseteq K2,
         \A e \in (T2 \ T) \cup (K2 \ K) : e.at >= n,
         Overlap(T, K), row \in FeatureRows(T, K), End(row) <= n
  PROVE  Overlap(T2, K2) /\ row \in FeatureRows(T2, K2)
<1>0. PICK w \in BuiltSizes : row \in RowsOfSize(w, T, K)
  BY DEF FeatureRows
<1> DEFINE B == FeatureBars(w, T, K)
           B2 == FeatureBars(w, T2, K2)
<1>1. PICK x \in B : row = Row(x, B)
  BY <1>0 DEF RowsOfSize
<1>2. row.bar = x /\ x.start + w <= n /\ w \in Nat \ {0}
  <2>1. row.bar = x /\ End(row) = x.start + w
    BY <1>1, JoinedFields DEF Row, End, FeatureBars
  <2> QED  BY <2>1, Sizes
<1>3. /\ Overlap(T2, K2) /\ x.start \in Int
      /\ {p \in B : p.start <= x.start} = {p \in B2 : p.start <= x.start}
  BY <1>1, <1>2, BarsKept
<1>4. x \in B2
  BY <1>3
<1>5. ASSUME NEW p, p \in B \/ p \in B2  PROVE p.start \in Int
  <2>1. TradeSet(T) /\ TickSet(K)
    BY DEF TradeSet, TickSet
  <2> QED  BY <1>2, <1>5, <2>1, StartsAreInts, JoinedFields DEF FeatureBars
<1> HIDE DEF B, B2
<1>6. Previous(x, B) = Previous(x, B2)
  BY <1>3, <1>5 DEF Previous
<1>7. ASSUME NEW p  PROVE {q \in B : p.start < q.start /\ q.start <= x.start}
                            = {q \in B2 : p.start < q.start /\ q.start <= x.start}
  BY <1>3
<1>8. Trailing(x, B) = Trailing(x, B2)
  BY <1>3, <1>7 DEF Trailing
<1> QED
  BY <1>0, <1>1, <1>3, <1>4, <1>6, <1>8 DEF FeatureRows, RowsOfSize, Row, B, B2

(* No row looks ahead.                                                     *)
LEMMA RowsLookBack ==
  ASSUME NEW T, NEW K, TradeSet(T), TickSet(K), NEW row \in FeatureRows(T, K),
         NEW e \in Events({row.bar} \cup row.previous \cup row.trailing)
  PROVE  e.at < End(row)
<1>0. PICK w \in BuiltSizes : row \in RowsOfSize(w, T, K)
  BY DEF FeatureRows
<1> DEFINE B == FeatureBars(w, T, K)
<1>1. PICK x \in B : row = Row(x, B)
  BY <1>0 DEF RowsOfSize
<1>2. PICK p \in B : p.start <= x.start /\ e \in p.cme \cup p.mt5
  <2>1. ASSUME NEW y \in B  PROVE y.start \in Int
    BY <2>1, StartsAreInts, JoinedFields, Sizes DEF FeatureBars
  <2>2. \A y \in {row.bar} \cup row.previous \cup row.trailing :
          y \in B /\ y.start <= x.start
    BY <1>1, <2>1 DEF Row, Previous, Trailing
  <2> QED  BY <2>2 DEF Events
<1>3. /\ p.start \in Int /\ x.start \in Int /\ w \in Nat \ {0}
      /\ End(row) = x.start + w
      /\ e \in T \cup K /\ Start(e, w) = p.start
  <2>1. p \in Joined(w, T, K) /\ x \in Joined(w, T, K) /\ w \in Nat \ {0}
    BY <1>2, Sizes DEF FeatureBars
  <2>2. p.start \in Int /\ x.start \in Int
    BY <2>1, StartsAreInts, JoinedFields
  <2>3. e \in CmeBar(p.start, w, T) \cup Mt5Bar(p.start, w, K)
    BY <1>2, <2>1, JoinedFields
  <2> QED
    BY <1>1, <2>1, <2>2, <2>3, JoinedFields DEF End, Row, CmeBar, Mt5Bar
<1>4. e.at \in Nat
  BY <1>3 DEF TradeSet, TickSet
<1>5. e.at < p.start + w
  BY <1>3, <1>4, StartBounds
<1> QED
  BY <1>2, <1>3, <1>4, <1>5

-----------------------------------------------------------------------------
(* The reports of a run are about its data, and the partitions are made from *)
(* what the stage before left.                                             *)
StagesFit ==
  /\ phase \notin {"data", "failed"} => trades = ReferenceTrades(raw)
  /\ phase \in {"built", "rated"} => gold = FeatureRows(trades, ticks)
  /\ tickReport # NoReport =>
       /\ tickReport.overlap = QuoteOverlap(trades, ticks)
       /\ tickReport.aligned = Aligned(trades, ticks)
  /\ barReport.overlap =>
       /\ Overlap(trades, ticks)
       /\ barReport.aligned = {x \in UNION {Joined(w, trades, ticks) : w \in ReportSizes} :
            InOverlap(x, trades, ticks) /\ IsBarAligned(x)}
  /\ phase \in {"data", "ingested", "checked"} =>
       tickReport = NoReport /\ barReport = NoReport

(* What is valid in the partition has a price and a size.                   *)
ValidIsPriced == \A t \in trades : t.valid => t.priced /\ t.size = 1

TicksOnMs == \A k \in ticks : k.at % Ms = 0

(* A settled row is over, and a build from what is recorded now has it.      *)
Settled(x) ==
  /\ End(x.row) <= now
  /\ Overlap(ReferenceTrades(raw), ticks)
  /\ x.row \in FeatureRows(ReferenceTrades(raw), ticks)

IInv ==
  /\ TypeOK /\ StagesFit /\ ValidIsPriced /\ TicksOnMs /\ NoLookAhead
  /\ \A x \in exported : x.settled => Settled(x)

LEMMA RecordsTyped ==
  ASSUME TypeOK
  PROVE  /\ TradeSet(ReferenceTrades(raw)) /\ TradeSet(trades) /\ TickSet(ticks)
         /\ ReferenceTrades(raw) \subseteq Trades
         /\ \A e \in ReferenceTrades(raw) : e.at <= now
         /\ \A e \in ReferenceTrades(raw) : e.valid => e.priced /\ e.size = 1
<1>1. MaxTime \in Nat
  BY GoldAssumption
<1>2. trades \subseteq Trades /\ ticks \subseteq Ticks /\ raw \subseteq Records
  BY DEF TypeOK
<1>3. TradeSet(trades) /\ TickSet(ticks)
  BY <1>1, <1>2 DEF TradeSet, TickSet, Trades, Ticks
<1>4. ASSUME NEW t \in ReferenceTrades(raw)
      PROVE  t \in Trades /\ t.at <= now /\ (t.valid => t.priced /\ t.size = 1)
  <2>1. PICK r \in raw : t = [at |-> r.at, valid |-> r.kind = "trade",
                              priced |-> r.kind # "unpriced", size |-> IF r.kind = "unsized" THEN 0 ELSE 1]
    BY <1>4 DEF ReferenceTrades
  <2>2. r.at \in 0..MaxTime /\ r.at <= now
    BY <1>2, <2>1 DEF Records, TypeOK
  <2> QED  BY <2>1, <2>2 DEF Trades
<1>5. TradeSet(ReferenceTrades(raw))
  BY <1>1, <1>4 DEF TradeSet, Trades
<1> QED  BY <1>3, <1>4, <1>5

LEMMA GateIsDecision ==
  ASSUME NEW decision, NEW next, After(decision, next)
  PROVE  phase' \in {next, "failed"}
BY DEF After

(* What may be added leaves settled rows settled.                           *)
LEMMA SettledKept ==
  ASSUME TypeOK, TypeOK', NEW x, Settled(x),
         ReferenceTrades(raw) \subseteq ReferenceTrades(raw)', ticks \subseteq ticks',
         \A e \in (ReferenceTrades(raw)' \ ReferenceTrades(raw)) \cup (ticks' \ ticks) :
           e.at >= now,
         now' >= now
  PROVE  Settled(x)'
<1>1. now \in Nat /\ now' \in Nat
  BY GoldAssumption DEF TypeOK
<1>2. TradeSet(ReferenceTrades(raw))' /\ TickSet(ticks)'
  <2>1. MaxTime \in Nat
    BY GoldAssumption
  <2>2. TickSet(ticks)'
    BY <2>1 DEF TickSet, TypeOK, Ticks
  <2>3. ASSUME NEW t \in ReferenceTrades(raw)'  PROVE t \in Trades
    <3>1. PICK r \in raw' : t = [at |-> r.at, valid |-> r.kind = "trade",
                                 priced |-> r.kind # "unpriced", size |-> IF r.kind = "unsized" THEN 0 ELSE 1]
      BY <2>3 DEF ReferenceTrades
    <3> QED  BY <3>1 DEF TypeOK, Records, Trades
  <2> QED  BY <2>1, <2>2, <2>3 DEF TradeSet, Trades
<1>3. /\ Overlap(ReferenceTrades(raw)', ticks')
      /\ x.row \in FeatureRows(ReferenceTrades(raw)', ticks')
  <2> DEFINE T == ReferenceTrades(raw)
             T2 == ReferenceTrades(raw)'
  <2>1. TradeSet(T2) /\ TickSet(ticks')
    BY <1>2 DEF TradeSet, TickSet
  <2>2. Overlap(T, ticks) /\ x.row \in FeatureRows(T, ticks) /\ End(x.row) <= now
    BY DEF Settled
  <2> HIDE DEF T, T2
  <2>3. /\ T \subseteq T2
        /\ \A e \in (T2 \ T) \cup (ticks' \ ticks) : e.at >= now
    BY DEF T, T2
  <2>4. Overlap(T2, ticks') /\ x.row \in FeatureRows(T2, ticks')
    BY <1>1, <2>1, <2>2, <2>3, RowKept
  <2> QED  BY <2>4 DEF T2
<1>4. End(x.row) <= now'
  <2>1. End(x.row) \in Int
    <3>1. PICK w \in BuiltSizes :
            \E y \in FeatureBars(w, ReferenceTrades(raw), ticks) : x.row.bar = y
      BY DEF Settled, FeatureRows, RowsOfSize, Row
    <3>2. x.row.bar \in Joined(w, ReferenceTrades(raw), ticks) /\ w \in Nat \ {0}
      BY <3>1, Sizes DEF FeatureBars
    <3>3. x.row.bar.start \in Int /\ End(x.row) = x.row.bar.start + w
      BY <3>2, RecordsTyped, StartsAreInts, JoinedFields DEF End
    <3> QED  BY <3>2, <3>3
  <2> QED  BY <1>1, <2>1 DEF Settled
<1> QED
  BY <1>3, <1>4 DEF Settled, End

-----------------------------------------------------------------------------
LEMMA EmptyReport ==
  /\ NoReport.decision = "none" /\ NoReport.overlap = FALSE
  /\ NoReport.aligned = {}
BY DEF NoReport

LEMMA GoldInit == Init => IInv
<1> SUFFICES ASSUME Init  PROVE IInv
  OBVIOUS
<1>1. MaxTime \in Nat
  BY GoldAssumption
<1>2. TypeOK
  <2>1. /\ now \in 0..MaxTime /\ raw = {} /\ trades = {} /\ ticks = {} /\ exported = {}
        /\ truncated = FALSE /\ phase = "data"
        /\ tickReport = NoReport /\ barReport = NoReport
    BY <1>1 DEF Init
  <2>2. \A e \in raw \cup trades \cup ticks : e.at <= now
    BY <2>1
  <2> QED  BY <2>1, <2>2, EmptyReport DEF TypeOK
<1>3. StagesFit /\ ValidIsPriced /\ TicksOnMs /\ NoLookAhead
  BY DEF Init, StagesFit, ValidIsPriced, TicksOnMs, NoLookAhead, NoReport
<1> QED
  BY <1>2, <1>3 DEF Init, IInv

(* The day goes on: nothing is changed, only added at the horizon.            *)
LEMMA DayGoesOn ==
  ASSUME IInv,
         Pass \/ (\E kind \in Kinds : RecordCme(kind)) \/ (\E quote \in Quotes : RecordTick(quote))
  PROVE  IInv'
<1>0. MaxTime \in Nat /\ now \in 0..MaxTime /\ TypeOK /\ StagesFit
  BY GoldAssumption DEF IInv, TypeOK
<1>1. CASE Pass
  <2>1. TypeOK'
    BY <1>0, <1>1 DEF TypeOK, Pass, Records, Ticks, Trades
  <2>2. ASSUME NEW x, Settled(x)  PROVE Settled(x)'
    <3>1. ReferenceTrades(raw)' = ReferenceTrades(raw) /\ ticks' = ticks /\ now' >= now
      BY <1>0, <1>1 DEF Pass, ReferenceTrades
    <3> QED  BY <1>0, <2>1, <2>2, <3>1, SettledKept
  <2>3. StagesFit' /\ TicksOnMs' /\ NoLookAhead' /\ ValidIsPriced'
    BY <1>0, <1>1 DEF Pass, StagesFit, IInv, TicksOnMs, NoLookAhead, ValidIsPriced, NoReport, Events, End
  <2> QED
    BY <1>1, <2>1, <2>2, <2>3 DEF IInv, Pass
<1>2. ASSUME NEW kind \in Kinds, RecordCme(kind)  PROVE IInv'
  <2>1. TypeOK'
    BY <1>0, <1>2 DEF TypeOK, RecordCme, Records, Ticks, Trades
  <2>2. ASSUME NEW x, Settled(x)  PROVE Settled(x)'
    <3>1. /\ ReferenceTrades(raw) \subseteq ReferenceTrades(raw)'
          /\ \A e \in ReferenceTrades(raw)' \ ReferenceTrades(raw) : e.at = now
      BY <1>2 DEF RecordCme, ReferenceTrades
    <3>2. ticks' = ticks /\ now' = now
      BY <1>2 DEF RecordCme
    <3> QED  BY <1>0, <2>1, <2>2, <3>1, <3>2, SettledKept
  <2>3. StagesFit' /\ TicksOnMs' /\ NoLookAhead' /\ ValidIsPriced'
    BY <1>0, <1>2 DEF RecordCme, StagesFit, IInv, TicksOnMs, NoLookAhead, ValidIsPriced, NoReport, Events, End
  <2> QED
    BY <1>2, <2>1, <2>2, <2>3 DEF IInv, RecordCme
<1>3. ASSUME NEW quote \in Quotes, RecordTick(quote)  PROVE IInv'
  <2>1. TypeOK'
    <3>1. quote.safe \in BOOLEAN /\ quote.wide \in BOOLEAN
      BY <1>3, GoldAssumption DEF AllQuotes
    <3> QED  BY <1>0, <1>3, <3>1 DEF TypeOK, RecordTick, Records, Ticks, Trades
  <2>2. ASSUME NEW x, Settled(x)  PROVE Settled(x)'
    <3>1. ReferenceTrades(raw)' = ReferenceTrades(raw) /\ now' = now
      BY <1>3 DEF RecordTick, ReferenceTrades
    <3>2. ticks \subseteq ticks' /\ \A e \in ticks' \ ticks : e.at = now
      BY <1>3 DEF RecordTick
    <3> QED  BY <1>0, <2>1, <2>2, <3>1, <3>2, SettledKept
  <2>3. StagesFit'
    BY <1>0, <1>3 DEF RecordTick, StagesFit, NoReport
  <2>4. TicksOnMs' /\ NoLookAhead' /\ ValidIsPriced'
    BY <1>0, <1>3 DEF RecordTick, IInv, TicksOnMs, NoLookAhead, ValidIsPriced, Events, End
  <2> QED
    BY <1>3, <2>1, <2>2, <2>3, <2>4 DEF IInv, RecordTick
<1> QED
  BY <1>1, <1>2, <1>3

(* A stage that changes neither the data nor what was exported keeps what is  *)
(* settled.                                                                *)
LEMMA StageKeepsSettled ==
  ASSUME IInv, raw' = raw, ticks' = ticks, now' = now, exported' = exported
  PROVE  \A x \in exported' : x.settled => Settled(x)'
BY DEF IInv, Settled, ReferenceTrades, End

LEMMA StagesKeep ==
  ASSUME IInv,
         \/ \E force, cut \in BOOLEAN : IngestCme(force, cut)
         \/ \E warned \in BOOLEAN : CheckCme(warned)
         \/ AlignTicks \/ AlignBars \/ GiveUp
  PROVE  IInv'
<1>0. TypeOK /\ StagesFit /\ ValidIsPriced /\ TicksOnMs /\ NoLookAhead
  BY DEF IInv
<1>1. ASSUME NEW force \in BOOLEAN, NEW cut \in BOOLEAN, IngestCme(force, cut)
      PROVE  IInv'
  <2>1. \A x \in exported' : x.settled => Settled(x)'
    BY <1>1, StageKeepsSettled DEF IngestCme
  <2>2. TypeOK'
    BY <1>0, <1>1, RecordsTyped DEF IngestCme, TypeOK
  <2>3. StagesFit'
    BY <1>0, <1>1 DEF IngestCme, StagesFit, NoReport, ReferenceTrades
  <2>4. TicksOnMs' /\ NoLookAhead' /\ ValidIsPriced'
    BY <1>0, <1>1, RecordsTyped DEF IngestCme, TicksOnMs, NoLookAhead, ValidIsPriced, Events, End
  <2> QED  BY <2>1, <2>2, <2>3, <2>4 DEF IInv
<1>2. ASSUME NEW warned \in BOOLEAN, CheckCme(warned)  PROVE IInv'
  <2>1. /\ phase = "ingested" /\ phase' \in {"checked", "failed"}
        /\ UNCHANGED <<inputVars, trades, tickReport, barReport, gold, exported>>
    BY <1>2, GateIsDecision DEF CheckCme
  <2>2. \A x \in exported' : x.settled => Settled(x)'
    BY <2>1, StageKeepsSettled DEF inputVars
  <2>3. TypeOK'
    BY <1>0, <2>1 DEF TypeOK, inputVars
  <2>4. StagesFit'
    BY <1>0, <2>1 DEF StagesFit, inputVars, NoReport, ReferenceTrades
  <2>5. TicksOnMs' /\ NoLookAhead' /\ ValidIsPriced'
    BY <1>0, <2>1 DEF inputVars, TicksOnMs, NoLookAhead, ValidIsPriced, Events, End
  <2> QED  BY <2>2, <2>3, <2>4, <2>5 DEF IInv
<1>3. CASE AlignTicks
  <2>1. /\ phase = "checked" /\ phase' \in {"aligned", "failed"}
        /\ tickReport' = TickReport(trades, ticks, truncated)
        /\ UNCHANGED <<inputVars, trades, barReport, gold, exported>>
    BY <1>3, GateIsDecision DEF AlignTicks
  <2>2. \A x \in exported' : x.settled => Settled(x)'
    BY <2>1, StageKeepsSettled DEF inputVars
  <2>3. TypeOK'
    BY <1>0, <2>1 DEF TypeOK, inputVars, TickReport, Aligned, QuoteOverlap
  <2>4. StagesFit'
    BY <1>0, <2>1 DEF StagesFit, inputVars, TickReport, NoReport, ReferenceTrades
  <2>5. TicksOnMs' /\ NoLookAhead' /\ ValidIsPriced'
    BY <1>0, <2>1 DEF inputVars, TicksOnMs, NoLookAhead, ValidIsPriced, Events, End
  <2> QED  BY <2>2, <2>3, <2>4, <2>5 DEF IInv
<1>4. CASE AlignBars
  <2> DEFINE report == BarReport(trades, ticks)
  <2>1. /\ phase = "aligned" /\ phase' \in {"aligned", "failed"}
        /\ barReport' = report
        /\ UNCHANGED <<inputVars, trades, tickReport, gold, exported>>
    BY <1>4, GateIsDecision DEF AlignBars
  <2>2. \A x \in exported' : x.settled => Settled(x)'
    BY <2>1, StageKeepsSettled DEF inputVars
  <2>3. /\ report.decision \in {"PASS", "PARTIAL", "FAIL"} /\ report.overlap \in BOOLEAN
        /\ report.overlap =>
             /\ Overlap(trades, ticks)
             /\ report.aligned = {x \in UNION {Joined(w, trades, ticks) : w \in ReportSizes} :
                  InOverlap(x, trades, ticks) /\ IsBarAligned(x)}
    BY DEF BarReport, Overlap
  <2> HIDE DEF report
  <2>4. TypeOK'
    BY <1>0, <2>1, <2>3 DEF TypeOK, inputVars
  <2>5. StagesFit'
    BY <1>0, <2>1, <2>3 DEF StagesFit, inputVars, NoReport, ReferenceTrades
  <2>6. TicksOnMs' /\ NoLookAhead' /\ ValidIsPriced'
    BY <1>0, <2>1 DEF inputVars, TicksOnMs, NoLookAhead, ValidIsPriced, Events, End
  <2> QED  BY <2>2, <2>4, <2>5, <2>6 DEF IInv
<1>5. CASE GiveUp
  <2>1. \A x \in exported' : x.settled => Settled(x)'
    BY <1>5, StageKeepsSettled DEF GiveUp, inputVars
  <2>2. TypeOK'
    BY <1>0, <1>5 DEF GiveUp, EndRun, TypeOK, inputVars, NoReport
  <2>3. StagesFit'
    BY <1>0, <1>5 DEF GiveUp, EndRun, StagesFit, inputVars, NoReport
  <2>4. TicksOnMs' /\ NoLookAhead' /\ ValidIsPriced'
    BY <1>0, <1>5 DEF GiveUp, inputVars, TicksOnMs, NoLookAhead, ValidIsPriced, Events, End
  <2> QED  BY <2>1, <2>2, <2>3, <2>4 DEF IInv
<1> QED
  BY <1>1, <1>2, <1>3, <1>4, <1>5

LEMMA GoldStagesKeep ==
  ASSUME IInv, (\E force \in BOOLEAN : BuildFeatures(force)) \/ RateFeatures \/ Export
  PROVE  IInv'
<1>0. TypeOK /\ StagesFit /\ ValidIsPriced /\ TicksOnMs /\ NoLookAhead
  BY DEF IInv
<1>1. ASSUME NEW force \in BOOLEAN, BuildFeatures(force)  PROVE IInv'
  <2>1. \A x \in exported' : x.settled => Settled(x)'
    BY <1>1, StageKeepsSettled DEF BuildFeatures, inputVars
  <2>2. TypeOK'
    BY <1>0, <1>1 DEF BuildFeatures, TypeOK, inputVars
  <2>3. StagesFit'
    BY <1>0, <1>1 DEF BuildFeatures, StagesFit, inputVars, NoReport, ReferenceTrades
  <2>4. NoLookAhead'
    <3>1. \A row \in FeatureRows(trades, ticks) :
            \A e \in Events({row.bar} \cup row.previous \cup row.trailing) : e.at < End(row)
      BY <1>0, RecordsTyped, RowsLookBack
    <3> QED  BY <1>0, <1>1, <3>1 DEF BuildFeatures, NoLookAhead, Events, End
  <2>5. TicksOnMs' /\ ValidIsPriced'
    BY <1>0, <1>1 DEF BuildFeatures, inputVars, TicksOnMs, ValidIsPriced
  <2> QED  BY <2>1, <2>2, <2>3, <2>4, <2>5 DEF IInv
<1>2. CASE RateFeatures
  <2>1. /\ phase = "built" /\ phase' \in {"rated", "failed"}
        /\ UNCHANGED <<inputVars, trades, tickReport, barReport, gold, exported>>
    BY <1>2, GateIsDecision DEF RateFeatures
  <2>2. \A x \in exported' : x.settled => Settled(x)'
    BY <2>1, StageKeepsSettled DEF inputVars
  <2>3. TypeOK'
    BY <1>0, <2>1 DEF TypeOK, inputVars
  <2>4. StagesFit'
    BY <1>0, <2>1 DEF StagesFit, inputVars, NoReport, ReferenceTrades
  <2>5. TicksOnMs' /\ NoLookAhead' /\ ValidIsPriced'
    BY <1>0, <2>1 DEF inputVars, TicksOnMs, NoLookAhead, ValidIsPriced, Events, End
  <2> QED  BY <2>2, <2>3, <2>4, <2>5 DEF IInv
<1>3. CASE Export
  <2>1. UNCHANGED <<now, raw, ticks>>
    BY <1>3 DEF Export, inputVars
  <2>2. ASSUME NEW x \in exported', x.settled  PROVE Settled(x)'
    <3>1. CASE x \in exported
      BY <2>1, <2>2, <3>1 DEF IInv, Settled, ReferenceTrades, End
    <3>2. CASE x \notin exported
      <4>1. PICK row \in gold : End(row) <= now
                /\ x = [row |-> row, settled |-> Overlap(trades, ticks)]
        BY <1>3, <3>2 DEF Export
      <4>2. trades = ReferenceTrades(raw) /\ gold = FeatureRows(trades, ticks)
        BY <1>0, <1>3 DEF Export, StagesFit
      <4>3. Settled(x)
        BY <2>2, <4>1, <4>2 DEF Settled
      <4> QED  BY <2>1, <4>3 DEF Settled, ReferenceTrades, End
    <3> QED  BY <3>1, <3>2
  <2>3. TypeOK'
    <3>1. \A x \in exported' : x.settled \in BOOLEAN
      <4> DEFINE o == Overlap(trades, ticks)
      <4>1. o \in BOOLEAN
        BY DEF Overlap
      <4>2. \A x \in exported : x.settled \in BOOLEAN
        BY <1>0 DEF TypeOK
      <4> HIDE DEF o
      <4>3. \A x \in exported' : x \in exported \/ \E row : x = [row |-> row, settled |-> o]
        BY <1>3 DEF Export, o
      <4> QED  BY <4>1, <4>2, <4>3
    <3>2. /\ phase' = "data" /\ tickReport' = NoReport /\ barReport' = NoReport
          /\ UNCHANGED <<now, raw, ticks, truncated, trades>>
      BY <1>3 DEF Export, EndRun, inputVars
    <3>3. /\ now' \in 0..MaxTime
          /\ raw' \subseteq Records /\ trades' \subseteq Trades /\ ticks' \subseteq Ticks
          /\ \A e \in raw' \cup trades' \cup ticks' : e.at <= now'
          /\ truncated' \in BOOLEAN
      BY <1>0, <3>2 DEF TypeOK
    <3>4. /\ \A report \in {tickReport', barReport'} :
               /\ report.decision \in {"none", "PASS", "PARTIAL", "FAIL"}
               /\ report.overlap \in BOOLEAN
          /\ tickReport'.aligned \subseteq Trades
      BY <3>2, EmptyReport
    <3> QED
      BY <3>1, <3>2, <3>3, <3>4 DEF TypeOK, Records, Trades, Ticks
  <2>4. StagesFit'
    BY <1>0, <1>3 DEF Export, EndRun, StagesFit, inputVars, NoReport
  <2>5. TicksOnMs' /\ NoLookAhead' /\ ValidIsPriced'
    BY <1>0, <1>3 DEF Export, inputVars, TicksOnMs, NoLookAhead, ValidIsPriced, Events, End
  <2> QED  BY <2>2, <2>3, <2>4, <2>5 DEF IInv
<1> QED
  BY <1>1, <1>2, <1>3

(* The invariant.                                                          *)
THEOREM GoldInvHolds == Spec => []IInv
<1>1. Init => IInv
  BY GoldInit
<1>2. IInv /\ [Next]_vars => IInv'
  <2> SUFFICES ASSUME IInv, [Next]_vars  PROVE IInv'
    OBVIOUS
  <2>1. CASE Next
    BY <2>1, DayGoesOn, StagesKeep, GoldStagesKeep DEF Next
  <2>2. CASE UNCHANGED vars
    BY <2>2 DEF vars, inputVars, IInv, TypeOK, StagesFit, ValidIsPriced, TicksOnMs, NoLookAhead,
                Settled, ReferenceTrades, Events, End
  <2> QED  BY <2>1, <2>2
<1> QED
  BY <1>1, <1>2, PTL DEF Spec

THEOREM GoldTypes == Spec => []TypeOK
<1>1. IInv => TypeOK
  BY DEF IInv
<1> QED  BY <1>1, GoldInvHolds, PTL

(* No feature of any row is made from the future.                           *)
THEOREM FeaturesLookBack == Spec => []NoLookAhead
<1>1. IInv => NoLookAhead
  BY DEF IInv
<1> QED  BY <1>1, GoldInvHolds, PTL

(* Extending the horizon leaves settled rows as they are.                   *)
THEOREM SettledRowsAreKept == Spec => []SettledRowsStay
<1>1. IInv => SettledRowsStay
  BY DEF IInv, SettledRowsStay, Settled, StagesFit
<1> QED  BY <1>1, GoldInvHolds, PTL

(* Of a bar of the partition's trades both tools think the same: what is      *)
(* valid there has a price and a size.                                     *)
LEMMA ToolsAgree ==
  ASSUME ValidIsPriced, NEW w, NEW x \in Joined(w, trades, ticks)
  PROVE  IsBarAligned(x) <=>
           ~(\/ MissingSource(x) \/ ZeroVolume(x) \/ InvalidClose(x)
             \/ LowJoinSafe(x) \/ SpreadTooWide(x))
<1>1. \A t \in x.cme : t.priced /\ t.size = 1
  <2>1. x.cme = CmeBar(x.start, w, trades)
    BY JoinedFields
  <2> QED  BY <2>1 DEF CmeBar, ValidIsPriced
<1>2. ~InvalidClose(x)
  BY <1>1 DEF InvalidClose
<1>3. InvalidVwap(x) <=> x.cme = {}
  BY <1>1 DEF InvalidVwap
<1> QED  BY <1>2, <1>3 DEF IsBarAligned, MissingSource

(* The builder's classification is the bar report's on the sizes a model is   *)
(* fed, and no row of the diagnostic size is eligible.                       *)
THEOREM BuilderFollowsReport == Spec => []EligibleIsAligned
<1>1. IInv => EligibleIsAligned
  <2> DEFINE F(w) == FeatureBars(w, trades, ticks)
             J(w) == Joined(w, trades, ticks)
  <2> SUFFICES ASSUME IInv, phase \in {"built", "rated"}, barReport.overlap
               PROVE {row.bar : row \in {x \in gold : Eligible(x)}}
                       = {x \in barReport.aligned : x.size \in ModelSizes}
    BY DEF EligibleIsAligned
  <2>1. /\ Overlap(trades, ticks)
        /\ barReport.aligned = {x \in UNION {J(w) : w \in ReportSizes} :
             InOverlap(x, trades, ticks) /\ IsBarAligned(x)}
    BY DEF IInv, StagesFit
  <2>2. \A w : F(w) = {x \in J(w) : InOverlap(x, trades, ticks)}
    BY <2>1 DEF FeatureBars
  <2>3. \A w : \A x \in J(w) : x.size = w
    BY JoinedFields
  <2>4. ASSUME NEW row
        PROVE  row \in gold <=> \E w \in BuiltSizes : \E x \in F(w) : row = Row(x, F(w))
    BY DEF IInv, StagesFit, FeatureRows, RowsOfSize
  <2>5. ASSUME NEW w \in BuiltSizes, NEW x \in F(w)
        PROVE  /\ Row(x, F(w)).bar = x /\ x.size = w /\ x \in J(w)
               /\ Eligible(Row(x, F(w))) <=> w \in ModelSizes /\ IsBarAligned(x)
    <3>1. Row(x, F(w)).bar = x
      BY DEF Row
    <3>2. x \in J(w) /\ x.size = w
      BY <2>2, <2>3, <2>5
    <3>3. w = Diagnostic <=> w \notin ModelSizes
      BY AlignmentAssumption DEF BuiltSizes
    <3>4. ValidIsPriced
      BY DEF IInv
    <3> QED  BY <3>1, <3>2, <3>3, <3>4, ToolsAgree DEF Eligible
  <2> HIDE DEF F, J
  <2>6. ASSUME NEW row \in gold, Eligible(row)
        PROVE  row.bar \in {x \in barReport.aligned : x.size \in ModelSizes}
    <3>0. PICK w \in BuiltSizes : \E x \in F(w) : row = Row(x, F(w))
      BY <2>4, <2>6
    <3>1. PICK x \in F(w) : row = Row(x, F(w))
      BY <3>0
    <3>2. row.bar = x /\ x \in J(w) /\ w \in ModelSizes /\ x.size = w /\ IsBarAligned(x)
      BY <2>5, <2>6, <3>1
    <3> QED  BY <2>1, <2>2, <3>1, <3>2, Sizes
  <2>7. ASSUME NEW x \in barReport.aligned, x.size \in ModelSizes
        PROVE  \E row \in gold : Eligible(row) /\ row.bar = x
    <3>1. PICK w \in ReportSizes : x \in J(w)
      BY <2>1, <2>7
    <3>2. w \in ModelSizes /\ w \in BuiltSizes /\ x \in F(w) /\ IsBarAligned(x)
      BY <2>1, <2>2, <2>3, <2>7, <3>1, Sizes
    <3>3. Row(x, F(w)) \in gold
      BY <2>4, <3>2
    <3> QED  BY <2>5, <3>2, <3>3
  <2> QED  BY <2>6, <2>7
<1> QED  BY <1>1, GoldInvHolds, PTL

(* What the tick report says is so.                                         *)
THEOREM TickReportIsRight == Spec => []ReportIsRight
<1>1. IInv => ReportIsRight
  <2> SUFFICES ASSUME IInv, tickReport # NoReport
               PROVE  /\ Overlap(trades, ticks) => tickReport.overlap
                      /\ \A t \in tickReport.aligned :
                           \E k \in ticks : /\ k.safe /\ k.at <= t.at
                                            /\ t.at - k.at < Tolerance + Ms
                      /\ \A t \in trades, k \in ticks :
                           t.valid /\ k.safe /\ k.at <= t.at /\ t.at - k.at <= Tolerance
                             => t \in tickReport.aligned
    BY DEF ReportIsRight
  <2>1. /\ tickReport.overlap = QuoteOverlap(trades, ticks)
        /\ tickReport.aligned = Aligned(trades, ticks)
    BY DEF IInv, StagesFit
  <2>2. /\ \A e \in trades \cup ticks : e.at \in Nat
        /\ Tolerance \in Nat /\ Ms \in Nat
    BY RecordsTyped, AlignmentAssumption DEF IInv, TradeSet, TickSet
  <2>3. Overlap(trades, ticks) => QuoteOverlap(trades, ticks)
    BY <2>2 DEF Overlap, QuoteOverlap
  <2>4. ASSUME NEW t \in Aligned(trades, ticks)
        PROVE  \E k \in ticks : k.safe /\ k.at <= t.at /\ t.at - k.at < Tolerance + Ms
    <3>1. t \in trades /\ Matches(t, ticks) # {}
      BY <2>4 DEF Aligned, Outcome
    <3>2. PICK k \in ticks : /\ k.safe /\ k.at <= EventMs(t)
                            /\ EventMs(t) - k.at <= Tolerance
      BY <3>1 DEF Matches, InReach, Prior
    <3>3. EventMs(t) \in Int /\ EventMs(t) <= t.at /\ t.at < EventMs(t) + Ms
      BY <2>2, <3>1, MsBounds
    <3> QED  BY <2>2, <3>1, <3>2, <3>3
  <2>5. ASSUME NEW t \in trades, NEW k \in ticks, t.valid, k.safe, k.at <= t.at,
               t.at - k.at <= Tolerance
        PROVE  t \in Aligned(trades, ticks)
    <3>1. QuoteOverlap(trades, ticks)
      BY <2>2, <2>5 DEF QuoteOverlap
    <3>2. /\ EventMs(t) \in Int /\ EventMs(t) <= t.at
          /\ k.at <= EventMs(t)
      BY <2>2, <2>5, MsBounds DEF IInv, TicksOnMs
    <3>3. k \in Matches(t, ticks) /\ k \in Prior(t, ticks)
      BY <2>2, <2>5, <3>2 DEF Matches, InReach, Prior
    <3> QED  BY <2>5, <3>1, <3>3 DEF Aligned, Outcome
  <2> QED  BY <2>1, <2>3, <2>4, <2>5
<1> QED  BY <1>1, GoldInvHolds, PTL
-----------------------------------------------------------------------------
(* What a row reads: the windows over the bars there are.                   *)
Smaller == {p \in Nat \X Nat : p[1] < p[2]}

LEMMA LeastNat ==
  ASSUME NEW T, T \subseteq Nat, T # {}
  PROVE  \E n \in T : \A m \in T : n <= m
<1>1. Smaller = OpToRel(<, Nat)
  BY DEF OpToRel, Smaller
<1>2. PICK n \in T : \A m \in T : <<m, n>> \notin Smaller
  BY <1>1, NatLessThanWellFounded, WFMin
<1>3. ASSUME NEW m \in T PROVE n <= m
  <2>1. m \in Nat /\ n \in Nat /\ <<m, n>> \notin Smaller
    BY <1>2
  <2>2. <<m, n>> \in Nat \X Nat /\ <<m, n>>[1] = m /\ <<m, n>>[2] = n
    BY <2>1
  <2> QED BY <2>1, <2>2 DEF Smaller
<1> QED BY <1>3

(* Finitely many bars with different beginnings.                            *)
Bars(B) ==
  /\ IsFiniteSet(B)
  /\ \A b \in B : b.start \in Int
  /\ \A b, c \in B : b.start = c.start => b = c

LEMMA SomeBars ==
  ASSUME NEW B, Bars(B), NEW S \in SUBSET B
  PROVE  /\ Bars(S) /\ Cardinality(S) \in Nat
         /\ \A R \in SUBSET S : Cardinality(R) <= Cardinality(S)
         /\ \A R \in SUBSET S : R # S => Cardinality(R) < Cardinality(S)
<1>1. IsFiniteSet(S) /\ Cardinality(S) \in Nat
  BY FS_Subset, FS_CardinalityType DEF Bars
<1>2. ASSUME NEW R \in SUBSET S
      PROVE  Cardinality(R) <= Cardinality(S) /\ (R # S => Cardinality(R) < Cardinality(S))
  BY <1>1, FS_Subset, FS_CardinalityType
<1>3. Bars(S)
  BY <1>1 DEF Bars
<1> QED BY <1>1, <1>2, <1>3

(* The last of some bars has the fewest after it, the first the fewest      *)
(* before it.                                                              *)
LEMMA LastBar ==
  ASSUME NEW B, Bars(B), B # {}
  PROVE  \E m \in B : \A b \in B : b.start <= m.start
<1> DEFINE Beyond(b) == {c \in B : b.start < c.start}
           N == {Cardinality(Beyond(b)) : b \in B}
<1>1. ASSUME NEW b \in B
      PROVE  Beyond(b) \in SUBSET B /\ Cardinality(Beyond(b)) \in Nat
  BY SomeBars
<1>2. PICK n \in N : \A k \in N : n <= k
  <2>1. N \subseteq Nat /\ N # {}
    <3> HIDE DEF Beyond
    <3> QED BY <1>1
  <2> HIDE DEF N
  <2> QED BY <2>1, LeastNat
<1>3. PICK m \in B : n = Cardinality(Beyond(m))
  BY <1>2
<1>4. ASSUME NEW b \in B, ~(b.start <= m.start) PROVE FALSE
  <2>1. b.start \in Int /\ m.start \in Int /\ m.start < b.start
    BY <1>4 DEF Bars
  <2>2. /\ Beyond(b) \in SUBSET Beyond(m)
        /\ b \in Beyond(m) /\ b \notin Beyond(b)
    <3>1. \A c \in B : b.start < c.start => m.start < c.start
      BY <2>1 DEF Bars
    <3> QED BY <2>1, <3>1
  <2> HIDE DEF Beyond
  <2>3. Cardinality(Beyond(b)) < Cardinality(Beyond(m))
    BY <1>1, <2>2, SomeBars
  <2>4. Cardinality(Beyond(m)) <= Cardinality(Beyond(b))
    BY <1>2, <1>3
  <2> QED BY <1>1, <2>3, <2>4
<1> QED BY <1>4 DEF Bars

LEMMA FirstBar ==
  ASSUME NEW B, Bars(B), B # {}
  PROVE  \E m \in B : \A b \in B : m.start <= b.start
<1> DEFINE Ahead(b) == {c \in B : c.start < b.start}
           N == {Cardinality(Ahead(b)) : b \in B}
<1>1. ASSUME NEW b \in B
      PROVE  Ahead(b) \in SUBSET B /\ Cardinality(Ahead(b)) \in Nat
  BY SomeBars
<1>2. PICK n \in N : \A k \in N : n <= k
  <2>1. N \subseteq Nat /\ N # {}
    <3> HIDE DEF Ahead
    <3> QED BY <1>1
  <2> HIDE DEF N
  <2> QED BY <2>1, LeastNat
<1>3. PICK m \in B : n = Cardinality(Ahead(m))
  BY <1>2
<1>4. ASSUME NEW b \in B, ~(m.start <= b.start) PROVE FALSE
  <2>1. b.start \in Int /\ m.start \in Int /\ b.start < m.start
    BY <1>4 DEF Bars
  <2>2. /\ Ahead(b) \in SUBSET Ahead(m)
        /\ b \in Ahead(m) /\ b \notin Ahead(b)
    <3>1. \A c \in B : c.start < b.start => c.start < m.start
      BY <2>1 DEF Bars
    <3> QED BY <2>1, <3>1
  <2> HIDE DEF Ahead
  <2>3. Cardinality(Ahead(b)) < Cardinality(Ahead(m))
    BY <1>1, <2>2, SomeBars
  <2>4. Cardinality(Ahead(m)) <= Cardinality(Ahead(b))
    BY <1>2, <1>3
  <2> QED BY <1>1, <2>3, <2>4
<1> QED BY <1>4 DEF Bars

(* shift(1): the row before, or none before the first.                      *)
LEMMA PreviousIsTheBarBefore ==
  ASSUME NEW B, Bars(B), NEW x \in B
  PROVE  LET past == {b \in B : b.start <= x.start} IN
         IF past = {x} THEN Previous(x, B) = {}
         ELSE \E p \in past \ {x} :
                /\ Previous(x, B) = {p}
                /\ \A b \in past \ {x} : b.start <= p.start
<1> DEFINE past == {b \in B : b.start <= x.start}
           before == {b \in B : b.start < x.start}
<1>1. past \ {x} = before /\ x \in past
  <2>1. \A b \in B : b.start \in Int /\ (b.start = x.start <=> b = x)
    BY DEF Bars
  <2> QED BY <2>1
<1>2. Previous(x, B) = {p \in before : \A q \in before : q.start <= p.start}
  BY DEF Previous
<1>3. CASE before = {}
  <2>1. past = {x} BY <1>1, <1>3
  <2>2. Previous(x, B) = {} BY <1>2, <1>3
  <2> QED BY <2>1, <2>2
<1>4. CASE before # {}
  <2>1. Bars(before)
    BY SomeBars
  <2> HIDE DEF past, before
  <2>2. PICK p \in before : \A b \in before : b.start <= p.start
    BY <1>4, <2>1, LastBar
  <2>3. ASSUME NEW q \in before, \A b \in before : b.start <= q.start PROVE q = p
    <3>1. q.start \in Int /\ p.start \in Int /\ q.start <= p.start /\ p.start <= q.start
      BY <2>1, <2>2, <2>3 DEF Bars
    <3>2. q.start = p.start
      BY <3>1
    <3> QED BY <2>1, <3>2 DEF Bars
  <2>4. Previous(x, B) = {p}
    BY <1>2, <2>2, <2>3
  <2>5. past # {x} /\ p \in past \ {x} /\ \A b \in past \ {x} : b.start <= p.start
    BY <1>1, <1>4, <2>2
  <2> QED BY <2>4, <2>5 DEF past
<1> QED BY <1>3, <1>4

(* rolling(Window): the last bars up to the row's own, Window of them, or   *)
(* all of them early in the day.                                           *)
LEMMA TrailingIsTheWindow ==
  ASSUME NEW B, Bars(B), NEW x \in B
  PROVE  LET past == {b \in B : b.start <= x.start}
             R == Trailing(x, B)
         IN /\ x \in R /\ R \subseteq past
            /\ \A b \in past \ R, p \in R : b.start < p.start
            /\ Cardinality(R) = Window \/ R = past
            /\ Cardinality(R) <= Window
<1> DEFINE past == {b \in B : b.start <= x.start}
           Later(p) == {q \in past : p.start < q.start}
           R == Trailing(x, B)
<1>1. Window \in Nat \ {0}
  BY AlignmentAssumption
<1>2. R = {p \in past : Cardinality(Later(p)) < Window}
  BY DEF Trailing
<1>3. Bars(past) /\ x \in past /\ \A b \in past : b.start <= x.start
  BY SomeBars DEF Bars
<1>4. \A p \in past : Later(p) \in SUBSET past /\ Cardinality(Later(p)) \in Nat
  BY <1>3, SomeBars
<1>5. \A p, q \in past : q \in Later(p) <=> p.start < q.start
  OBVIOUS
<1> HIDE DEF past, R, Later
<1>6. x \in R
  <2>1. Later(x) = {}
    BY <1>3, <1>4, <1>5 DEF Bars
  <2> QED BY <1>1, <1>2, <1>3, <2>1, FS_EmptySet
<1>7. R \in SUBSET past /\ Bars(R) /\ Cardinality(R) \in Nat
  BY <1>2, <1>3, SomeBars
<1>8. ASSUME NEW b \in past \ R, NEW p \in R PROVE b.start < p.start
  <2>1. b \in past /\ p \in past /\ b.start \in Int /\ p.start \in Int
    BY <1>3, <1>7 DEF Bars
  <2>2. ASSUME ~(b.start < p.start) PROVE FALSE
    <3>1. Later(b) \in SUBSET Later(p)
      <4>1. ASSUME NEW q \in Later(b) PROVE q \in Later(p)
        <5>1. q \in past /\ b.start < q.start /\ q.start \in Int
          BY <1>3, <1>4, <1>5, <2>1, <4>1 DEF Bars
        <5>2. p.start < q.start
          BY <2>1, <2>2, <5>1
        <5> QED BY <1>5, <2>1, <5>1, <5>2
      <4> QED BY <4>1
    <3>2. Cardinality(Later(b)) <= Cardinality(Later(p))
      BY <1>3, <1>4, <2>1, <3>1, SomeBars
    <3>3. Cardinality(Later(p)) < Window /\ ~(Cardinality(Later(b)) < Window)
      BY <1>2, <2>1
    <3> QED BY <1>1, <1>4, <2>1, <3>2, <3>3
  <2> QED BY <2>2
<1>9. Cardinality(R) <= Window
  <2>1. PICK p \in R : \A q \in R : p.start <= q.start
    BY <1>6, <1>7, FirstBar
  <2>2. R \ {p} \in SUBSET Later(p)
    <3>1. ASSUME NEW q \in R \ {p} PROVE q \in Later(p)
      <4>1. q \in past /\ p \in past /\ p.start <= q.start /\ p.start # q.start
        BY <1>7, <2>1 DEF Bars
      <4>2. p.start \in Int /\ q.start \in Int
        BY <1>7 DEF Bars
      <4>3. p.start < q.start
        BY <4>1, <4>2
      <4> QED BY <1>5, <4>1, <4>3
    <3> QED BY <3>1
  <2>3. Cardinality(R \ {p}) <= Cardinality(Later(p)) /\ Cardinality(Later(p)) < Window
    BY <1>2, <1>3, <1>4, <1>7, <2>2, SomeBars
  <2>4. Cardinality(R \ {p}) = Cardinality(R) - 1
    BY <1>7, FS_RemoveElement DEF Bars
  <2> QED BY <1>1, <1>2, <1>4, <1>7, <2>3, <2>4
<1>10. ASSUME R # past PROVE Cardinality(R) = Window
  <2>1. past \ R # {} /\ Bars(past \ R)
    BY <1>3, <1>7, <1>10, SomeBars
  <2>2. PICK m \in past \ R : \A b \in past \ R : b.start <= m.start
    BY <2>1, LastBar
  <2>3. Later(m) \in SUBSET R
    <3>1. ASSUME NEW q \in Later(m), q \notin R PROVE FALSE
      <4>1. q \in past \ R
        BY <1>4, <2>2, <3>1
      <4>2. q.start <= m.start /\ m.start < q.start /\ q.start \in Int /\ m.start \in Int
        BY <1>3, <1>5, <2>2, <3>1, <4>1 DEF Bars
      <4> QED BY <4>2
    <3> QED BY <3>1
  <2>4. Cardinality(Later(m)) <= Cardinality(R)
    BY <1>7, <2>3, SomeBars
  <2>5. ~(Cardinality(Later(m)) < Window) /\ Cardinality(Later(m)) \in Nat
    BY <1>2, <1>4, <2>2
  <2> QED BY <1>1, <1>7, <1>9, <2>4, <2>5
<1> QED BY <1>6, <1>7, <1>8, <1>9, <1>10 DEF past, R

(* The feature bars of a size are finitely many: they begin within the day,  *)
(* each elsewhere.                                                         *)
LEMMA FeatureBarsAreBars ==
  ASSUME TypeOK, NEW w \in BuiltSizes PROVE Bars(FeatureBars(w, trades, ticks))
<1> DEFINE B == FeatureBars(w, trades, ticks)
<1>1. w \in Nat \ {0} /\ MaxTime \in Nat
  BY Sizes, GoldAssumption
<1>2. ASSUME NEW e \in trades \cup ticks PROVE Start(e, w) \in (-w)..MaxTime
  <2>1. e.at \in 0..MaxTime
    BY <1>2 DEF TypeOK, Trades, Ticks
  <2>2. e.at \in Nat
    BY <2>1
  <2> QED BY <1>1, <2>1, <2>2, StartBounds
<1>3. BarStarts(w, trades, ticks) \subseteq (-w)..MaxTime
  BY <1>2 DEF BarStarts
<1>4. ASSUME NEW x \in B
      PROVE  x.start \in (-w)..MaxTime /\ x = Bar(x.start, w, trades, ticks)
  <2>1. x \in Joined(w, trades, ticks)
    BY <1>4 DEF FeatureBars
  <2> QED BY <1>3, <2>1, JoinedFields
<1> HIDE DEF B
<1>5. [x \in B |-> x.start] \in Injection(B, (-w)..MaxTime)
  BY <1>4 DEF Injection, IsInjective
<1>6. IsFiniteSet(B)
  <2>1. IsFiniteSet((-w)..MaxTime)
    BY <1>1, FS_Interval
  <2> QED BY <1>5, <2>1, FS_Injection
<1>7. /\ \A b \in B : b.start \in Int
      /\ \A b, c \in B : b.start = c.start => b = c
  BY <1>1, <1>4
<1> QED BY <1>6, <1>7 DEF Bars, B

(* Every feature row is made from the windows its columns promise, over     *)
(* whatever bars there are (_build_features_one_pair).                      *)
THEOREM WindowsAreRight == Spec => []WindowsAreFull
<1>1. Init => WindowsAreFull
  BY DEF Init, WindowsAreFull
<1>2. ASSUME TypeOK, WindowsAreFull, [Next]_vars PROVE WindowsAreFull'
  <2>1. gold' = gold \/ gold' = FeatureRows(trades, ticks)
    BY <1>2 DEF Next, vars, Pass, RecordCme, RecordTick, IngestCme, CheckCme, AlignTicks,
       AlignBars, BuildFeatures, RateFeatures, Export, GiveUp
  <2>2. CASE gold' = gold
    BY <1>2, <2>2 DEF WindowsAreFull
  <2>3. CASE gold' = FeatureRows(trades, ticks)
    <3> DEFINE F(w) == FeatureBars(w, trades, ticks)
    <3>1. \A w \in BuiltSizes : Bars(F(w))
      BY <1>2, FeatureBarsAreBars
    <3>2. \A row : row \in gold' <=> \E w \in BuiltSizes : \E x \in F(w) : row = Row(x, F(w))
      BY <2>3 DEF FeatureRows, RowsOfSize
    <3>3. \A w : \A x \in F(w) : Row(x, F(w)).bar = x /\ x.size = w
      BY JoinedFields DEF Row, FeatureBars
    <3> HIDE DEF F
    <3>4. ASSUME NEW w \in BuiltSizes
          PROVE  {r.bar : r \in {q \in gold' : q.bar.size = w}} = F(w)
      <4>1. ASSUME NEW x \in F(w)
            PROVE  \E r \in gold' : r.bar.size = w /\ r.bar = x
        <5>1. Row(x, F(w)) \in gold'
          BY <3>2, <4>1
        <5> QED BY <3>3, <4>1, <5>1
      <4>2. ASSUME NEW r \in gold', r.bar.size = w PROVE r.bar \in F(w)
        <5>1. PICK v \in BuiltSizes : \E x \in F(v) : r = Row(x, F(v))
          BY <3>2
        <5> QED BY <3>3, <4>2, <5>1
      <4> QED BY <4>1, <4>2
    <3> SUFFICES ASSUME NEW row \in gold'
                 PROVE LET bars == {r.bar : r \in {q \in gold' : q.bar.size = row.bar.size}}
                           past == {b \in bars : b.start <= row.bar.start}
                       IN
                       /\ \A b \in bars : b.start = row.bar.start => b = row.bar
                       /\ IF past = {row.bar} THEN row.previous = {}
                          ELSE \E p \in past \ {row.bar} :
                                 /\ row.previous = {p}
                                 /\ \A b \in past \ {row.bar} : b.start <= p.start
                       /\ row.bar \in row.trailing /\ row.trailing \subseteq past
                       /\ \A b \in past \ row.trailing, p \in row.trailing :
                            b.start < p.start
                       /\ Cardinality(row.trailing) = Window \/ row.trailing = past
                       /\ Cardinality(row.trailing) <= Window
      BY DEF WindowsAreFull
    <3>0. PICK w \in BuiltSizes : \E x \in F(w) : row = Row(x, F(w))
      BY <3>2
    <3>5. PICK x \in F(w) : row = Row(x, F(w))
      BY <3>0
    <3> DEFINE B == F(w)
    <3>6. /\ {r.bar : r \in {q \in gold' : q.bar.size = row.bar.size}} = B
          /\ row.bar = x /\ x \in B /\ Bars(B)
      BY <3>1, <3>3, <3>4, <3>5
    <3>7. row.previous = Previous(x, B) /\ row.trailing = Trailing(x, B)
      BY <3>5 DEF Row
    <3> HIDE DEF B
    <3>8. \A b \in B : b.start = x.start => b = x
      BY <3>6 DEF Bars
    <3> QED BY <3>6, <3>7, <3>8, PreviousIsTheBarBefore, TrailingIsTheWindow
  <2> QED BY <2>1, <2>2, <2>3
<1>3. IInv => TypeOK
  BY DEF IInv
<1> QED BY <1>1, <1>2, <1>3, GoldInvHolds, PTL DEF Spec
=============================================================================
