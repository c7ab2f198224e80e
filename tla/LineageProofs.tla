---------------------------- MODULE LineageProofs ----------------------------
(***************************************************************************)
(* Proofs about Lineage, for any offsets, delays, runs, symbols and         *)
(* thresholds: what verification, archives, windows and the offsets of      *)
(* Silver rows are worth.                                                  *)
(***************************************************************************)
EXTENDS Lineage, FiniteSetTheorems, TLAPS

(* What the logger's candidates hold, and what made it verify.             *)
CandidatesFit ==
  /\ IsFiniteSet(since)
  /\ \A o \in Offsets : cand[o] = {t \in since : Fresh(t, o)}

VerifiedHasCandidates ==
  status \in Verified =>
    /\ offset \in Offsets /\ (status = "utc" <=> offset = 0)
    /\ \E S \in SUBSET cand[offset] : Earned(S, offset)

SemInv == CandidatesFit /\ VerifiedHasCandidates

(* A run is archived once, when it is over; the summary says what the       *)
(* archived manifest says and is not in the future.                        *)
ArchivedWhenOver ==
  /\ phase # "idle" => run \in Runs
  /\ \A r \in Runs : arch[r] # Empty => r < run \/ (r = run /\ phase = "idle")

SummaryAgrees ==
  \A r \in Runs : arch[r].summary # NoDoc =>
    /\ arch[r].summary.verified = IsVerified(arch[r].manifest)
    /\ arch[r].summary.verified => arch[r].summary.offset = arch[r].manifest.offset
    /\ arch[r].summary \in Summaries /\ WindowEnd(arch[r].summary) <= clock

(* Rows are where and when their run was.                                  *)
RowsOfThisRun ==
  phase # "idle" => \A x \in bronze : x.at >= startAt[run] => x.run = run

WindowsHoldTheirRun ==
  \A r \in Runs : arch[r].summary # NoDoc =>
    \A x \in bronze : x.at \in arch[r].summary.started..WindowEnd(arch[r].summary)
                        => x.run = r

SilverIsBronze ==
  \A x \in silver : x.row \in bronze /\ (x.scope # 0 => arch[x.scope] # Empty)

RecordInv ==
  /\ ArchivedWhenOver /\ SummaryAgrees /\ RowsOfThisRun
  /\ WindowsHoldTheirRun /\ SilverIsBronze /\ NoForeignRows

LineageInv == TypeOK /\ SemInv /\ RecordInv

-----------------------------------------------------------------------------
(* What a job leaves was there before or was built from the rows it read.   *)
LEMMA NormalizeAdds ==
  ASSUME NEW date, NEW scope, NEW off, NEW window,
         Normalize(date, scope, off, window), NEW x \in silver', x \notin silver
  PROVE  /\ x.date = date /\ x.scope = scope /\ x.offset = off
         /\ x.row \in bronze /\ x = [date |-> date, scope |-> scope,
                                     row |-> x.row, offset |-> off]
         /\ scope = 0 \/ x.row.at \in window
<1>1. PICK syms : x \in Built(date, scope, off, window, syms)
  BY DEF Normalize
<1> QED
  BY <1>1 DEF Built, BronzeOf

LEMMA SnapshotType ==
  ASSUME TypeOK PROVE \A now \in Nat : Snapshot(now) \in Docs
BY DEF TypeOK, SemTypeOK, Snapshot, Docs

LEMMA SourceType ==
  ASSUME TypeOK, NEW r \in Runs, Resolves(r)
  PROVE  SourceOf(r) \in Docs /\ SourceOf(r).offset \in Offsets /\ arch[r] # Empty
<1>1. arch[r] \in Archives BY DEF TypeOK, RecordTypeOK
<1>2. SourceOf(r) # NoDoc BY DEF Resolves
<1>3. IsVerified(SourceOf(r)) /\ SourceOf(r) \in {arch[r].manifest, arch[r].health}
  BY <1>2 DEF SourceOf
<1>4. SourceOf(r) \in Docs BY <1>1, <1>2, <1>3 DEF Archives
<1>5. SourceOf(r).offset \in Offsets BY <1>3, <1>4 DEF IsVerified, Docs
<1>6. arch[r] # Empty BY <1>2, <1>3 DEF Empty
<1> QED BY <1>4, <1>5, <1>6

LEMMA ArchiveType ==
  ASSUME TypeOK, NEW r \in Runs, NEW latest \in Nat \cup {None}, Archive(r, clock, latest)
  PROVE  arch' \in [Runs -> Archives] /\ Summary(r, clock, latest) \in Summaries
<1>1. Summary(r, clock, latest) \in Summaries
  <2>1. manifest # NoDoc => manifest.offset \in Offsets \cup {None}
    BY DEF TypeOK, RecordTypeOK, Docs
  <2> QED BY <2>1 DEF Summary, Summaries, TypeOK, RecordTypeOK, IsVerified
<1>2. PICK upTo \in 0..4 : arch' = [arch EXCEPT ![r] =
         [dir |-> upTo >= 1,
          manifest |-> IF upTo >= 2 THEN manifest ELSE NoDoc,
          health |-> IF upTo >= 3 THEN health ELSE NoDoc,
          summary |-> IF upTo = 4 THEN Summary(r, clock, latest) ELSE NoDoc]]
  BY DEF Archive
<1>3. [dir |-> upTo >= 1,
       manifest |-> IF upTo >= 2 THEN manifest ELSE NoDoc,
       health |-> IF upTo >= 3 THEN health ELSE NoDoc,
       summary |-> IF upTo = 4 THEN Summary(r, clock, latest) ELSE NoDoc] \in Archives
  BY <1>1 DEF Archives, TypeOK, RecordTypeOK
<1> QED BY <1>1, <1>2, <1>3 DEF TypeOK, RecordTypeOK

(* The newest file is written by now.                                      *)
LEMMA LatestType ==
  ASSUME NEW now \in Nat, NEW latest \in LatestWrites(now)
  PROVE  latest \in Nat \cup {None} /\ (latest # None => latest <= now)
BY DEF LatestWrites

LEMMA WindowEnds ==
  ASSUME NEW x \in Summaries
  PROVE  /\ WindowEnd(x) \in Nat /\ x.ended <= WindowEnd(x)
         /\ \A now \in Nat : x.ended <= now /\ (x.latest # None => x.latest <= now)
                               => WindowEnd(x) <= now
BY DEF WindowEnd, Summaries

LEMMA NewStartType ==
  ASSUME NewStart PROVE SemTypeOK'
BY SemanticsAssumption DEF NewStart, SemTypeOK

LEMMA ObserveType ==
  ASSUME TypeOK, NEW t \in Tick, Observe(t)
  PROVE  SemTypeOK'
<1> DEFINE fits == {o \in Offsets : Fresh(t, o)}
           cands == [o \in Offsets |-> IF o \in fits THEN cand[o] \cup {t} ELSE cand[o]]
           st == IF status = "unsafe" /\ fits # {} THEN "pending" ELSE status
<1>1. /\ first' = IF first = None THEN t.at ELSE first
      /\ lastFresh' = IF fits = {} THEN lastFresh ELSE t.at
      /\ cand' = cands /\ since' = since \cup {t} /\ MaybeVerify(st, cands)
  BY DEF Observe
<1>2. first' \in Nat \cup {None} /\ lastFresh' \in Nat \cup {None}
  BY <1>1 DEF TypeOK, SemTypeOK, Tick
<1>3. cand' \in [Offsets -> SUBSET Tick] /\ since' \subseteq Tick
  BY <1>1 DEF TypeOK, SemTypeOK
<1>4. status' \in {"pending", "unsafe"} \cup Verified /\ offset' \in Offsets \cup {None}
  <2> st \in {"pending", "unsafe"} \cup Verified BY DEF TypeOK, SemTypeOK
  <2> HIDE DEF st, cands
  <2> QED BY <1>1 DEF MaybeVerify, Verified, TypeOK, SemTypeOK
<1> QED BY <1>2, <1>3, <1>4 DEF SemTypeOK

LEMMA StalenessType ==
  ASSUME TypeOK, EvaluateStaleness(clock)
  PROVE  SemTypeOK'
<1>1. CASE Downgrade(clock)
  BY <1>1 DEF Downgrade, TypeOK, SemTypeOK
<1>2. CASE MarkUnsafe(clock)
  BY <1>2 DEF MarkUnsafe, TypeOK, SemTypeOK
<1> QED BY <1>1, <1>2 DEF EvaluateStaleness

LEMMA PolledRow ==
  ASSUME TypeOK, ArchivedWhenOver, NEW sym \in Symbols, NEW d \in Delays, Poll(sym, d)
  PROVE  /\ clock' = clock + 1 /\ run \in Runs
         /\ [at |-> clock + 1, raw |-> clock + 1 - d + broker] \in Tick
         /\ Observe([at |-> clock + 1, raw |-> clock + 1 - d + broker])
         /\ [at |-> clock + 1, raw |-> clock + 1 - d + broker, sym |-> sym,
             run |-> run] \in Rows
         /\ bronze' = bronze \cup {[at |-> clock + 1, raw |-> clock + 1 - d + broker,
                                    sym |-> sym, run |-> run]}
<1>1. clock \in Nat /\ d \in Nat /\ broker \in Int /\ broker \in Offsets
  BY LineageAssumption, SemanticsAssumption DEF TypeOK
<1>2. run \in Runs BY DEF Poll, ArchivedWhenOver
<1>3. clock' = clock + 1 BY DEF Poll
<1>4. clock + 1 \in Nat /\ clock + 1 - d + broker \in Int BY <1>1
<1> QED BY <1>1, <1>2, <1>3, <1>4 DEF Poll, Tick, Rows

(* What a job adds is of the right type.                                    *)
LEMMA SilverType ==
  ASSUME TypeOK, NEW date \in Dates, NEW scope \in Scopes, NEW off \in Offsets,
         NEW window, Normalize(date, scope, off, window)
  PROVE  silver' \subseteq SilverRows
<1> SUFFICES ASSUME NEW x \in silver', x \notin silver PROVE x \in SilverRows
  BY DEF TypeOK, NormTypeOK
<1>1. x.row \in Rows /\ x = [date |-> date, scope |-> scope, row |-> x.row,
                             offset |-> off]
  BY NormalizeAdds DEF TypeOK, NormTypeOK
<1> QED BY <1>1 DEF SilverRows

THEOREM LineageTypeStep ==
  ASSUME TypeOK, ArchivedWhenOver, [Next]_vars
  PROVE  TypeOK'
<1> USE DEF TypeOK
<1>1. CASE UNCHANGED vars
  BY <1>1 DEF vars, semVars, recordVars, SemTypeOK, RecordTypeOK, NormTypeOK
<1>2. CASE Pass
  BY <1>2 DEF Pass, semVars, recordVars, SemTypeOK, RecordTypeOK, NormTypeOK
<1>3. CASE BrokerShifts
  <2>1. shifts' \in 0..MaxShifts BY <1>3, LineageAssumption DEF BrokerShifts
  <2> QED BY <1>3, <2>1 DEF BrokerShifts, semVars, recordVars, SemTypeOK, RecordTypeOK,
                           NormTypeOK
<1>4. CASE StartRun
  BY <1>4 DEF StartRun, semVars, SemTypeOK, RecordTypeOK, NormTypeOK
<1>5. CASE StartLogger
  BY <1>5 DEF StartLogger, semVars, recordVars, SemTypeOK, RecordTypeOK, NormTypeOK
<1>6. ASSUME NEW sym \in Symbols, NEW d \in Delays, Poll(sym, d) PROVE TypeOK'
  <2>1. SemTypeOK' BY <1>6, PolledRow, ObserveType
  <2>2. NormTypeOK'
    <3>1. \E x \in Rows : bronze' = bronze \cup {x} BY <1>6, PolledRow
    <3>2. silver' = silver BY <1>6 DEF Poll
    <3> QED BY <3>1, <3>2 DEF NormTypeOK
  <2>3. clock' \in Nat BY <1>6 DEF Poll
  <2> QED BY <1>6, <2>1, <2>2, <2>3 DEF Poll, recordVars, RecordTypeOK
<1>7. CASE Reconnect
  BY <1>7, NewStartType DEF Reconnect, ResetForReconnect, recordVars, RecordTypeOK, NormTypeOK
<1>8. CASE CheckStaleness
  BY <1>8, StalenessType DEF CheckStaleness, recordVars, RecordTypeOK, NormTypeOK
<1>9. CASE EmitBoth
  BY <1>9, SnapshotType DEF EmitBoth, EmitHealth, EmitManifest, semVars, SemTypeOK,
                            RecordTypeOK, NormTypeOK
<1>10. CASE EndLogger
  BY <1>10, NewStartType, SnapshotType
     DEF EndLogger, EmitHealth, EmitManifest, RecordTypeOK, NormTypeOK
<1>11. CASE Finalize
  <2>0. clock' \in Nat /\ run \in Runs
    BY <1>11 DEF Finalize, ArchivedWhenOver
  <2>1. arch' \in [Runs -> Archives]
    BY <1>11, <2>0, ArchiveType, LatestType DEF Finalize
  <2> QED BY <1>11, <2>0, <2>1 DEF Finalize, semVars, SemTypeOK, RecordTypeOK, NormTypeOK
<1>12. CASE Normalization
  <2>1. silver' \subseteq SilverRows
    <3>1. PICK date \in Dates :
            \/ \E r \in Runs : NormalizeRun(r, date)
            \/ \E o \in Offsets : NormalizeDate(date, o)
      BY <1>12 DEF Normalization
    <3>2. ASSUME NEW r \in Runs, NormalizeRun(r, date) PROVE silver' \subseteq SilverRows
      BY <3>2, SourceType, SilverType DEF NormalizeRun, Scopes
    <3>3. ASSUME NEW o \in Offsets, NormalizeDate(date, o) PROVE silver' \subseteq SilverRows
      BY <3>3, SilverType DEF NormalizeDate, Scopes
    <3> QED BY <3>1, <3>2, <3>3
  <2> QED BY <1>12, <2>1 DEF Normalization, semVars, recordVars, SemTypeOK, RecordTypeOK,
                             NormTypeOK
<1> QED
  BY <1>1, <1>2, <1>3, <1>4, <1>5, <1>6, <1>7, <1>8, <1>9, <1>10, <1>11, <1>12 DEF Next

-----------------------------------------------------------------------------
(* Verification.                                                           *)
LEMMA NewStartSem ==
  ASSUME NewStart PROVE SemInv'
<1>1. IsFiniteSet(since') BY FS_EmptySet DEF NewStart
<1>2. \A o \in Offsets : cand'[o] = {t \in since' : Fresh(t, o)}
  BY DEF NewStart
<1>3. status' \notin Verified BY DEF NewStart, Verified
<1> QED BY <1>1, <1>2, <1>3 DEF SemInv, CandidatesFit, VerifiedHasCandidates

(* The numbers below a number, as a relation: that a set of numbers has a   *)
(* least one comes from NatLessThanWellFounded, whose relation it is.       *)
Smaller == {p \in Nat \X Nat : p[1] < p[2]}

LEMMA LeastNat ==
  ASSUME NEW T, T \subseteq Nat, T # {}
  PROVE  \E n \in T : \A m \in T : n <= m
<1>1. Smaller = OpToRel(<, Nat)
  BY DEF OpToRel, Smaller
<1>2. PICK n \in T : \A m \in T : <<m, n>> \notin Smaller
  BY <1>1, NatLessThanWellFounded, WFMin
<1>3. ASSUME NEW m \in T PROVE n <= m
  <2>1. m \in Nat /\ n \in Nat /\ <<m, n>> \notin Smaller
    BY <1>2
  <2>2. <<m, n>> \in Nat \X Nat /\ <<m, n>>[1] = m /\ <<m, n>>[2] = n
    BY <2>1
  <2> QED BY <2>1, <2>2 DEF Smaller
<1> QED BY <1>3

(* The percentiles.                                                        *)
LEMMA AgeType ==
  ASSUME NEW t \in Tick, NEW o \in Int PROVE Age(t, o) \in Int
BY DEF Tick, Age

LEMMA SomeOfThem ==
  ASSUME NEW S, IsFiniteSet(S), NEW T, T \subseteq S
  PROVE  /\ IsFiniteSet(T) /\ Cardinality(T) \in Nat /\ Cardinality(S) \in Nat
         /\ Cardinality(T) <= Cardinality(S)
         /\ S # T => Cardinality(T) < Cardinality(S)
BY FS_Subset, FS_CardinalityType

(* Some tick is the oldest.                                                *)
LEMMA Oldest ==
  ASSUME NEW S, IsFiniteSet(S), S # {}, S \subseteq Tick, NEW o \in Int
  PROVE  \E t \in S : \A u \in S : Age(u, o) <= Age(t, o)
<1> DEFINE Young2(t) == Young(S, o, Age(t, o))
           N == {Cardinality(S) - Cardinality(Young2(t)) : t \in S}
<1>1. \A t \in S : /\ IsFiniteSet(Young2(t)) /\ Cardinality(Young2(t)) \in Nat
                   /\ Cardinality(S) \in Nat /\ Cardinality(Young2(t)) <= Cardinality(S)
  BY SomeOfThem DEF Young
<1>2. N \subseteq Nat /\ N # {}
  BY <1>1
<1>3. PICK n \in N : \A m \in N : n <= m
  <2> HIDE DEF N
  <2> QED BY <1>2, LeastNat
<1>4. PICK t \in S : n = Cardinality(S) - Cardinality(Young2(t))
  BY <1>3
<1>5. ASSUME NEW u \in S, ~(Age(u, o) <= Age(t, o)) PROVE FALSE
  <2>1. Age(u, o) \in Int /\ Age(t, o) \in Int /\ \A v \in S : Age(v, o) \in Int
    BY AgeType
  <2>2. Young2(t) \subseteq Young2(u) /\ u \in Young2(u) /\ u \notin Young2(t)
    BY <1>5, <2>1 DEF Young
  <2>3. Cardinality(Young2(t)) < Cardinality(Young2(u))
    BY <1>1, <2>2, SomeOfThem
  <2>4. n <= Cardinality(S) - Cardinality(Young2(u))
    BY <1>3
  <2> QED BY <1>1, <1>4, <2>3, <2>4
<1> QED BY <1>5

(* There is a k-th smallest age: the one AgeAt stands for.                 *)
LEMMA AgeAtExists ==
  ASSUME NEW S, IsFiniteSet(S), S \subseteq Tick, NEW o \in Int,
         NEW k \in 1..Cardinality(S)
  PROVE  /\ AgeAt(S, o, k) \in Int
         /\ Cardinality({t \in S : Age(t, o) < AgeAt(S, o, k)}) < k
         /\ Cardinality(Young(S, o, AgeAt(S, o, k))) >= k
<1> DEFINE Below(a) == {t \in S : Age(t, o) < a}
           Upto(a) == {t \in S : Age(t, o) <= a}
           Ages == {Age(t, o) : t \in S}
           Enough == {a \in Ages : Cardinality(Upto(a)) >= k}
           N == {Cardinality(Upto(a)) : a \in Enough}
<1>1. k \in Nat /\ k > 0 /\ Cardinality(S) \in Nat /\ k <= Cardinality(S)
  BY FS_CardinalityType
<1>2. \A a : /\ IsFiniteSet(Below(a)) /\ Cardinality(Below(a)) \in Nat
             /\ IsFiniteSet(Upto(a)) /\ Cardinality(Upto(a)) \in Nat
  BY SomeOfThem
<1>3. \A t \in S : Age(t, o) \in Int
  BY AgeType
<1>4. Enough # {}
  <2>1. S # {}
    BY <1>1, FS_EmptySet
  <2>2. PICK t \in S : \A u \in S : Age(u, o) <= Age(t, o)
    BY <2>1, Oldest
  <2>3. Upto(Age(t, o)) = S
    BY <2>2
  <2> QED BY <1>1, <2>3
<1>5. PICK n \in N : \A m \in N : n <= m
  <2>1. N \subseteq Nat /\ N # {}
    BY <1>2, <1>4
  <2> HIDE DEF N
  <2> QED BY <2>1, LeastNat
<1>6. PICK a \in Enough : n = Cardinality(Upto(a))
  BY <1>5
<1>7. Cardinality(Below(a)) < k
  <2> SUFFICES ASSUME Cardinality(Below(a)) >= k PROVE FALSE
    BY <1>1, <1>2
  <2>1. Below(a) # {} /\ Below(a) \subseteq Tick
    BY <1>1, FS_EmptySet
  <2>2. PICK t \in Below(a) : \A u \in Below(a) : Age(u, o) <= Age(t, o)
    <3> HIDE DEF Below
    <3> QED BY <1>2, <2>1, Oldest
  <2>3. Upto(Age(t, o)) = Below(a)
    BY <1>3, <1>6, <2>2
  <2>4. n <= Cardinality(Below(a))
    <3>1. Age(t, o) \in Enough
      BY <2>2, <2>3
    <3> QED BY <1>5, <2>3, <3>1
  <2>5. PICK s \in S : a = Age(s, o)
    BY <1>6
  <2>6. Below(a) \subseteq Upto(a) /\ s \in Upto(a) /\ s \notin Below(a)
    BY <1>3, <2>5
  <2>7. Cardinality(Below(a)) < Cardinality(Upto(a))
    BY <1>2, <2>6, SomeOfThem
  <2> QED BY <1>2, <1>6, <2>4, <2>7
<1>8. \E b \in Ages : Cardinality(Below(b)) < k /\ Cardinality(Upto(b)) >= k
  BY <1>6, <1>7
<1>9. AgeAt(S, o, k) = CHOOSE b \in Ages : Cardinality(Below(b)) < k /\ Cardinality(Upto(b)) >= k
  BY DEF AgeAt
<1>10. AgeAt(S, o, k) \in Ages /\ Cardinality(Below(AgeAt(S, o, k))) < k
       /\ Cardinality(Upto(AgeAt(S, o, k))) >= k
  <2> HIDE DEF Ages, Below, Upto
  <2> QED BY <1>8, <1>9
<1> QED BY <1>3, <1>10 DEF Young

(* It is the only one, and the next is no smaller.                         *)
LEMMA AgesInOrder ==
  ASSUME NEW S, IsFiniteSet(S), S \subseteq Tick, NEW o \in Int,
         NEW k \in 1..Cardinality(S), NEW a \in Int, NEW b \in Int,
         Cardinality({t \in S : Age(t, o) < a}) < k, Cardinality(Young(S, o, b)) >= k
  PROVE  a <= b
<1> SUFFICES ASSUME b < a PROVE FALSE OBVIOUS
<1>1. Young(S, o, b) \subseteq {t \in S : Age(t, o) < a}
  BY AgeType DEF Young
<1>2. IsFiniteSet({t \in S : Age(t, o) < a}) /\ IsFiniteSet(Young(S, o, b))
  BY SomeOfThem DEF Young
<1>3. Cardinality(Young(S, o, b)) <= Cardinality({t \in S : Age(t, o) < a})
  BY <1>1, <1>2, SomeOfThem
<1>4. /\ Cardinality(Young(S, o, b)) \in Nat
      /\ Cardinality({t \in S : Age(t, o) < a}) \in Nat /\ k \in Int
  BY <1>2, FS_CardinalityType
<1> QED BY <1>3, <1>4

(* The order statistic behind a percentile of a set of ticks is within any  *)
(* bound the percentile is within.                                         *)
LEMMA PercentileBounds ==
  ASSUME NEW S, IsFiniteSet(S), S \subseteq Tick, S # {}, NEW o \in Int,
         NEW pct \in {50, 95}, NEW bound \in Int, Percentile(S, o, pct) <= 100 * bound
  PROVE  Cardinality(Young(S, o, bound)) >= ((Cardinality(S) - 1) * pct) \div 100 + 1
<1> DEFINE k == (Cardinality(S) - 1) * pct
           f == k \div 100 + 1
           w == k % 100
<1>1. Cardinality(S) \in Nat /\ Cardinality(S) >= 1
  BY FS_CardinalityType, FS_EmptySet
<1>2. /\ k \in Nat /\ k <= 95 * (Cardinality(S) - 1) /\ f \in Nat /\ w \in 0..99
      /\ k = 100 * (f - 1) + w
  <2>1. \A n \in Nat : n >= 1 => /\ (n - 1) * 50 \in Nat /\ (n - 1) * 50 <= 95 * (n - 1)
                                /\ (n - 1) * 95 \in Nat /\ (n - 1) * 95 <= 95 * (n - 1)
    OBVIOUS
  <2>2. k \in Nat /\ k <= 95 * (Cardinality(S) - 1)
    BY <1>1, <2>1
  <2> HIDE DEF k
  <2> QED BY <2>2
<1>3. f \in 1..Cardinality(S) /\ (w # 0 => f + 1 \in 1..Cardinality(S))
  <2> HIDE DEF k, f, w
  <2> QED BY <1>1, <1>2
<1>4. /\ AgeAt(S, o, f) \in Int
      /\ Cardinality({t \in S : Age(t, o) < AgeAt(S, o, f)}) < f
      /\ Cardinality(Young(S, o, AgeAt(S, o, f))) >= f
  BY <1>3, AgeAtExists
<1>5. w # 0 => /\ AgeAt(S, o, f + 1) \in Int
               /\ AgeAt(S, o, f) <= AgeAt(S, o, f + 1)
  <2> SUFFICES ASSUME w # 0
               PROVE  AgeAt(S, o, f + 1) \in Int /\ AgeAt(S, o, f) <= AgeAt(S, o, f + 1)
    OBVIOUS
  <2>1. /\ AgeAt(S, o, f + 1) \in Int
        /\ Cardinality(Young(S, o, AgeAt(S, o, f + 1))) >= f + 1
    BY <1>3, AgeAtExists
  <2>2. Cardinality(Young(S, o, AgeAt(S, o, f + 1))) \in Nat
    BY SomeOfThem DEF Young
  <2>3. Cardinality(Young(S, o, AgeAt(S, o, f + 1))) >= f
    <3> HIDE DEF f
    <3> QED BY <1>2, <2>1, <2>2
  <2> HIDE DEF f
  <2> QED BY <1>3, <1>4, <2>1, <2>3, AgesInOrder
<1>6. Percentile(S, o, pct) = IF w = 0 THEN 100 * AgeAt(S, o, f)
                              ELSE (100 - w) * AgeAt(S, o, f) + w * AgeAt(S, o, f + 1)
  BY DEF Percentile
<1>7. AgeAt(S, o, f) <= bound
  <2> HIDE DEF k, f, w
  <2>1. \A v \in 0..99, x, y \in Int :
          x <= y => (100 - v) * x + v * y >= 100 * x
    OBVIOUS
  <2>2. w # 0 => Percentile(S, o, pct) >= 100 * AgeAt(S, o, f)
    BY <1>2, <1>4, <1>5, <1>6, <2>1
  <2>3. CASE w = 0
    <3>1. 100 * AgeAt(S, o, f) <= 100 * bound
      BY <1>6, <2>3
    <3> QED BY <1>4, <3>1
  <2>4. CASE w # 0
    <3>1. Percentile(S, o, pct) \in Int
      BY <1>2, <1>4, <1>5, <1>6
    <3> QED BY <1>4, <2>2, <2>4, <3>1
  <2> QED BY <2>3, <2>4
<1>8. Young(S, o, AgeAt(S, o, f)) \subseteq Young(S, o, bound)
  <2> HIDE DEF f
  <2> QED BY <1>4, <1>7, AgeType DEF Young
<1>9. /\ Cardinality(Young(S, o, AgeAt(S, o, f))) <= Cardinality(Young(S, o, bound))
      /\ Cardinality(Young(S, o, AgeAt(S, o, f))) \in Nat
      /\ Cardinality(Young(S, o, bound)) \in Nat
  <2>1. IsFiniteSet(Young(S, o, bound))
    BY SomeOfThem DEF Young
  <2> QED BY <1>8, <2>1, SomeOfThem
<1>10. Cardinality(Young(S, o, bound)) >= f
  <2> HIDE DEF f
  <2> QED BY <1>2, <1>4, <1>9
<1> QED BY <1>10

(* Ticks that make an offset eligible show what it takes.                  *)
LEMMA EligibleEarns ==
  ASSUME NEW S, IsFiniteSet(S), S \subseteq Tick, NEW o \in Offsets, Eligible(S, o)
  PROVE  Earned(S, o)
<1>1. o \in Int /\ P50Max \in Int /\ P95Max \in Int /\ Required \in Nat \ {0}
  BY SemanticsAssumption
<1>2. Cardinality(S) \in Nat /\ Cardinality(S) >= Required /\ S # {}
  BY <1>1, FS_CardinalityType, FS_EmptySet DEF Eligible
<1>3. /\ Cardinality(Young(S, o, P50Max)) >= ((Cardinality(S) - 1) * 50) \div 100 + 1
      /\ Cardinality(Young(S, o, P95Max)) >= ((Cardinality(S) - 1) * 95) \div 100 + 1
  BY <1>1, <1>2, PercentileBounds DEF Eligible
<1>4. Cardinality(Young(S, o, P50Max)) \in Nat /\ Cardinality(Young(S, o, P95Max)) \in Nat
  BY SomeOfThem DEF Young
<1>5. \A n, y \in Nat : /\ n > 0 /\ y >= ((n - 1) * 50) \div 100 + 1 => 2 * y >= n
                        /\ n > 0 /\ y >= ((n - 1) * 95) \div 100 + 1 => 20 * y > 19 * (n - 1)
  OBVIOUS
<1>6. Cardinality(S) > 0
  BY <1>1, <1>2
<1> QED BY <1>2, <1>3, <1>4, <1>5, <1>6 DEF Earned, Eligible

LEMMA ObserveSem ==
  ASSUME TypeOK, SemInv, NEW t \in Tick, Observe(t)
  PROVE  SemInv'
<1> DEFINE fits == {o \in Offsets : Fresh(t, o)}
           cands == [o \in Offsets |-> IF o \in fits THEN cand[o] \cup {t} ELSE cand[o]]
           st == IF status = "unsafe" /\ fits # {} THEN "pending" ELSE status
<1>1. cand' = cands /\ since' = since \cup {t} /\ MaybeVerify(st, cands)
  BY DEF Observe
<1>2. CandidatesFit'
  <2>1. IsFiniteSet(since') BY <1>1, FS_AddElement DEF SemInv, CandidatesFit
  <2>2. ASSUME NEW o \in Offsets PROVE cand'[o] = {u \in since' : Fresh(u, o)}
    <3>1. cand[o] = {u \in since : Fresh(u, o)} BY DEF SemInv, CandidatesFit
    <3> HIDE DEF fits
    <3>2. o \in fits <=> Fresh(t, o) BY DEF fits
    <3> QED BY <1>1, <3>1, <3>2
  <2> QED BY <2>1, <2>2 DEF CandidatesFit
<1>3. VerifiedHasCandidates'
  <2> SUFFICES ASSUME status' \in Verified
               PROVE /\ offset' \in Offsets /\ (status' = "utc" <=> offset' = 0)
                     /\ \E S \in SUBSET cand'[offset'] : Earned(S, offset')
    BY DEF VerifiedHasCandidates, Earned, Young, Age
  <2>1. CASE status' = st /\ offset' = offset
    <3>1. status \in Verified /\ status' = status
      BY <2>1 DEF Verified
    <3>2. /\ offset \in Offsets /\ (status = "utc" <=> offset = 0)
          /\ \E S \in SUBSET cand[offset] : Earned(S, offset)
      BY <3>1 DEF SemInv, VerifiedHasCandidates
    <3>3. cand[offset] \subseteq cand'[offset] BY <1>1, <3>2
    <3> QED BY <2>1, <3>1, <3>2, <3>3
  <2>2. CASE \E o \in Offsets : /\ Eligible(cands[o], o) /\ offset' = o
                               /\ status' = IF o = 0 THEN "utc" ELSE "offset"
    <3>1. PICK o \in Offsets : /\ Eligible(cands[o], o) /\ offset' = o
                              /\ status' = IF o = 0 THEN "utc" ELSE "offset"
      BY <2>2
    <3>2. cand'[o] = cands[o] /\ IsFiniteSet(cand'[o]) /\ cand'[o] \subseteq Tick
      <4>1. cand'[o] \subseteq since' /\ IsFiniteSet(since') BY <1>2 DEF CandidatesFit
      <4>2. since' \subseteq Tick BY <1>1 DEF TypeOK, SemTypeOK
      <4> QED BY <1>1, <4>1, <4>2, FS_Subset
    <3>3. Earned(cand'[o], o)
      <4> HIDE DEF cands
      <4> QED BY <3>1, <3>2, EligibleEarns
    <3> QED BY <3>1, <3>3
  <2>3. \/ status' = st /\ offset' = offset
        \/ \E o \in Offsets : /\ Eligible(cands[o], o) /\ offset' = o
                              /\ status' = IF o = 0 THEN "utc" ELSE "offset"
    <3> HIDE DEF cands, st
    <3> QED BY <1>1 DEF MaybeVerify
  <2> QED BY <2>1, <2>2, <2>3
<1> QED BY <1>2, <1>3 DEF SemInv

LEMMA StalenessSem ==
  ASSUME SemInv, EvaluateStaleness(clock)
  PROVE  SemInv'
<1>1. CASE Downgrade(clock)
  <2>1. IsFiniteSet(since') BY <1>1, FS_EmptySet DEF Downgrade
  <2>2. \A o \in Offsets : cand'[o] = {t \in since' : Fresh(t, o)}
    BY <1>1 DEF Downgrade
  <2>3. status' \notin Verified BY <1>1 DEF Downgrade, Verified
  <2> QED BY <2>1, <2>2, <2>3 DEF SemInv, CandidatesFit, VerifiedHasCandidates
<1>2. CASE MarkUnsafe(clock)
  BY <1>2 DEF MarkUnsafe, SemInv, CandidatesFit, VerifiedHasCandidates, Verified
<1> QED BY <1>1, <1>2 DEF EvaluateStaleness

THEOREM LineageSemStep ==
  ASSUME TypeOK, ArchivedWhenOver, SemInv, [Next]_vars
  PROVE  SemInv'
<1> DEFINE Same == UNCHANGED semVars
<1>1. CASE Same
  BY <1>1 DEF semVars, SemInv, CandidatesFit, VerifiedHasCandidates, Earned
<1>2. ASSUME NEW sym \in Symbols, NEW d \in Delays, Poll(sym, d) PROVE SemInv'
  BY <1>2, PolledRow, ObserveSem
<1>3. CASE Reconnect
  BY <1>3, NewStartSem DEF Reconnect, ResetForReconnect
<1>4. CASE CheckStaleness
  BY <1>4, StalenessSem DEF CheckStaleness
<1>5. CASE EndLogger
  BY <1>5, NewStartSem DEF EndLogger
<1>6. CASE \/ UNCHANGED vars \/ Pass \/ BrokerShifts \/ StartRun \/ StartLogger
           \/ EmitBoth \/ Finalize \/ Normalization
  BY <1>1, <1>6 DEF vars, Pass, BrokerShifts, StartRun, StartLogger, EmitBoth, Finalize,
                    Normalization
<1> QED BY <1>2, <1>3, <1>4, <1>5, <1>6 DEF Next

(* What a verified offset rests on, as the run states it.                   *)
LEMMA SemGivesEarned ==
  ASSUME SemInv PROVE VerifiedIsEarned
BY DEF SemInv, CandidatesFit, VerifiedHasCandidates, VerifiedIsEarned

-----------------------------------------------------------------------------
(* Records, windows and rows.                                              *)

(* What RecordInv speaks of, when only time passes or nothing happens to it. *)
LEMMA RecordsStay ==
  ASSUME TypeOK, RecordInv, clock' \in Nat, clock' >= clock,
         UNCHANGED <<arch, startAt, bronze, silver, run>>,
         (phase' = "idle") <=> (phase = "idle")
  PROVE  RecordInv'
<1>1. ArchivedWhenOver' BY DEF RecordInv, ArchivedWhenOver
<1>2. SummaryAgrees'
  <2>1. \A r \in Runs : arch[r].summary # NoDoc => WindowEnd(arch[r].summary) \in Nat
    BY WindowEnds DEF RecordInv, SummaryAgrees
  <2> QED BY <2>1 DEF RecordInv, SummaryAgrees, TypeOK, IsVerified
<1> QED
  BY <1>1, <1>2
     DEF RecordInv, RowsOfThisRun, WindowsHoldTheirRun, SilverIsBronze, NoForeignRows

LEMMA PollRecords ==
  ASSUME TypeOK, RecordInv, NEW sym \in Symbols, NEW d \in Delays, Poll(sym, d)
  PROVE  RecordInv'
<1> DEFINE new == [at |-> clock + 1, raw |-> clock + 1 - d + broker, sym |-> sym,
                   run |-> run]
<1>1. clock \in Nat /\ clock' = clock + 1 /\ bronze' = bronze \cup {new}
  BY PolledRow DEF RecordInv, TypeOK
<1>2. UNCHANGED <<startAt, arch, silver, run, phase>> BY DEF Poll, recordVars
<1>3. new.at = clock + 1 /\ new.run = run OBVIOUS
<1> HIDE DEF new
<1>4. ArchivedWhenOver' BY <1>2 DEF RecordInv, ArchivedWhenOver
<1>5. \A r \in Runs : arch[r].summary # NoDoc =>
        arch[r].summary.started \in Nat /\ WindowEnd(arch[r].summary) \in Nat
  BY WindowEnds DEF RecordInv, SummaryAgrees, Summaries
<1>6. SummaryAgrees' BY <1>1, <1>2, <1>5 DEF RecordInv, SummaryAgrees, IsVerified
<1>8. RowsOfThisRun' BY <1>1, <1>2, <1>3 DEF RecordInv, RowsOfThisRun
<1>9. WindowsHoldTheirRun'
  <2> SUFFICES ASSUME NEW r \in Runs, arch[r].summary # NoDoc, NEW x \in bronze',
                      x.at \in arch[r].summary.started..WindowEnd(arch[r].summary)
               PROVE  x.run = r
    BY <1>2 DEF WindowsHoldTheirRun
  <2>1. CASE x \in bronze BY <2>1 DEF RecordInv, WindowsHoldTheirRun
  <2>2. CASE x = new
    <3>1. WindowEnd(arch[r].summary) <= clock BY DEF RecordInv, SummaryAgrees
    <3>2. clock + 1 <= WindowEnd(arch[r].summary) BY <1>3, <1>5, <2>2
    <3> QED BY <1>1, <1>5, <3>1, <3>2
  <2> QED BY <1>1, <2>1, <2>2
<1>10. SilverIsBronze' BY <1>1, <1>2 DEF RecordInv, SilverIsBronze
<1>11. NoForeignRows' BY <1>2 DEF RecordInv, NoForeignRows
<1> QED BY <1>4, <1>6, <1>8, <1>9, <1>10, <1>11 DEF RecordInv

LEMMA StartRecords ==
  ASSUME TypeOK, RecordInv, StartRun
  PROVE  RecordInv'
<1>1. /\ phase = "idle" /\ phase' # "idle" /\ run + 1 \in Runs /\ run' = run + 1
      /\ run \in Nat /\ clock \in Nat /\ Runs \subseteq Nat
      /\ startAt'[run'] = clock /\ \A x \in bronze : x.at < clock
      /\ UNCHANGED <<arch, bronze, silver, clock>>
  BY RunsAssumption DEF StartRun, TypeOK, RecordTypeOK
<1>2. ArchivedWhenOver' BY <1>1 DEF RecordInv, ArchivedWhenOver
<1>3. SummaryAgrees' /\ WindowsHoldTheirRun' /\ SilverIsBronze' /\ NoForeignRows'
  BY <1>1 DEF RecordInv, SummaryAgrees, WindowsHoldTheirRun, SilverIsBronze, NoForeignRows,
              IsVerified
<1>4. RowsOfThisRun'
  <2>1. \A x \in bronze : x.at \in Nat BY DEF TypeOK, NormTypeOK, Rows
  <2> QED BY <1>1, <2>1 DEF RowsOfThisRun
<1> QED BY <1>2, <1>3, <1>4 DEF RecordInv

LEMMA FinalizeRecords ==
  ASSUME TypeOK, RecordInv, Finalize
  PROVE  RecordInv'
<1>1. /\ phase # "idle" /\ phase' = "idle" /\ run \in Runs /\ run \in Nat
      /\ clock \in Nat /\ clock' \in Nat /\ clock <= clock'
      /\ UNCHANGED <<startAt, bronze, silver, run>>
  BY RunsAssumption DEF Finalize, RecordInv, ArchivedWhenOver, TypeOK
<1>0. PICK latest \in Nat \cup {None} :
        Archive(run, clock, latest) /\ (latest # None => latest <= clock')
  BY <1>1, LatestType DEF Finalize
<1> DEFINE summary == Summary(run, clock, latest)
<1>2. PICK upTo \in 0..4 : arch' = [arch EXCEPT ![run] =
         [dir |-> upTo >= 1,
          manifest |-> IF upTo >= 2 THEN manifest ELSE NoDoc,
          health |-> IF upTo >= 3 THEN health ELSE NoDoc,
          summary |-> IF upTo = 4 THEN summary ELSE NoDoc]]
  BY <1>0 DEF Archive
<1>12. /\ summary \in Summaries /\ summary.started = startAt[run] /\ summary.ended = clock
       /\ summary.latest = latest /\ summary.verified = IsVerified(manifest)
       /\ IsVerified(manifest) => summary.offset = manifest.offset
  BY <1>0, <1>1, ArchiveType DEF Summary, IsVerified
<1> HIDE DEF summary
<1>13. WindowEnd(summary) <= clock'
  BY <1>0, <1>1, <1>12, WindowEnds
<1>3. \A r \in Runs \ {run} : arch'[r] = arch[r]
  BY <1>2 DEF TypeOK, RecordTypeOK
<1>4. /\ arch'[run].manifest = IF upTo >= 2 THEN manifest ELSE NoDoc
      /\ arch'[run].summary = IF upTo = 4 THEN summary ELSE NoDoc
  BY <1>1, <1>2 DEF TypeOK, RecordTypeOK
<1>5. arch[run] = Empty BY <1>1 DEF RecordInv, ArchivedWhenOver
<1>6. ArchivedWhenOver'
  <2>1. ASSUME NEW r \in Runs, arch'[r] # Empty PROVE r < run \/ r = run
    <3>1. CASE r # run
      BY <1>1, <1>3, <2>1, <3>1 DEF RecordInv, ArchivedWhenOver
    <3> QED BY <3>1
  <2> QED BY <1>1, <2>1 DEF ArchivedWhenOver
<1>7. SummaryAgrees'
  <2> SUFFICES ASSUME NEW r \in Runs, arch'[r].summary # NoDoc
               PROVE /\ arch'[r].summary.verified = IsVerified(arch'[r].manifest)
                     /\ arch'[r].summary.verified => arch'[r].summary.offset = arch'[r].manifest.offset
                     /\ arch'[r].summary \in Summaries
                     /\ WindowEnd(arch'[r].summary) <= clock'
    BY <1>1 DEF SummaryAgrees, IsVerified, WindowEnd
  <2>1. CASE r = run
    <3>1. upTo = 4 BY <1>4, <2>1
    <3>2. arch'[r].manifest = manifest /\ arch'[r].summary = summary
      BY <1>4, <2>1, <3>1
    <3> QED BY <1>12, <1>13, <3>2
  <2>2. CASE r # run
    <3>1. arch'[r] = arch[r]
      BY <1>3, <2>2
    <3>2. /\ arch[r].summary.verified = IsVerified(arch[r].manifest)
          /\ arch[r].summary.verified => arch[r].summary.offset = arch[r].manifest.offset
          /\ arch[r].summary \in Summaries /\ WindowEnd(arch[r].summary) <= clock
      BY <3>1 DEF RecordInv, SummaryAgrees
    <3>3. WindowEnd(arch[r].summary) \in Nat
      BY <3>2, WindowEnds
    <3> QED BY <1>1, <3>1, <3>2, <3>3
  <2> QED BY <2>1, <2>2
<1>8. RowsOfThisRun' BY <1>1 DEF RecordInv, RowsOfThisRun
<1>9. WindowsHoldTheirRun'
  <2> SUFFICES ASSUME NEW r \in Runs, arch'[r].summary # NoDoc, NEW x \in bronze,
                      x.at \in arch'[r].summary.started..WindowEnd(arch'[r].summary)
               PROVE  x.run = r
    BY <1>1 DEF WindowsHoldTheirRun, WindowEnd
  <2>1. CASE r = run
    <3>1. arch'[r].summary = summary BY <1>4, <2>1
    <3>2. x.at \in startAt[run]..WindowEnd(summary) BY <1>12, <3>1
    <3>3. x.at >= startAt[run] BY <1>1, <3>2 DEF TypeOK, RecordTypeOK
    <3> QED BY <1>1, <2>1, <3>3 DEF RecordInv, RowsOfThisRun
  <2>2. CASE r # run BY <1>3, <2>2 DEF RecordInv, WindowsHoldTheirRun
  <2> QED BY <2>1, <2>2
<1>10. \A x \in silver : x.scope # 0 => x.scope \in Runs \ {run}
  BY <1>5 DEF RecordInv, SilverIsBronze, TypeOK, NormTypeOK, SilverRows, Scopes
<1>11. SilverIsBronze' /\ NoForeignRows'
  BY <1>1, <1>3, <1>10 DEF RecordInv, SilverIsBronze, NoForeignRows
<1> QED BY <1>6, <1>7, <1>8, <1>9, <1>11 DEF RecordInv

LEMMA NormalizationRecords ==
  ASSUME TypeOK, RecordInv, Normalization
  PROVE  RecordInv'
<1>1. UNCHANGED <<startAt, arch, bronze, clock, run, phase>>
  BY DEF Normalization, recordVars
<1>2. ASSUME NEW x \in silver', x \notin silver
      PROVE  /\ x.row \in bronze
             /\ x.scope # 0 => /\ x.scope \in Runs /\ arch[x.scope] # Empty
                              /\ x.row.at \in WindowOf(x.scope)
  <2>1. PICK date \in Dates :
          \/ \E r \in Runs : NormalizeRun(r, date)
          \/ \E o \in Offsets : NormalizeDate(date, o)
    BY DEF Normalization
  <2>2. ASSUME NEW r \in Runs, NormalizeRun(r, date)
        PROVE  x.row \in bronze /\ x.scope = r /\ arch[r] # Empty /\ x.row.at \in WindowOf(r)
    <3>1. r # 0 BY RunsAssumption
    <3>2. Normalize(date, r, SourceOf(r).offset, WindowOf(r)) /\ Resolves(r)
      BY <2>2 DEF NormalizeRun
    <3>3. x.row \in bronze /\ x.scope = r /\ (r = 0 \/ x.row.at \in WindowOf(r))
      BY <1>2, <3>2, NormalizeAdds
    <3> QED BY <3>1, <3>2, <3>3, SourceType
  <2>3. ASSUME NEW o \in Offsets, NormalizeDate(date, o)
        PROVE  x.row \in bronze /\ x.scope = 0
    BY <1>2, <2>3, NormalizeAdds DEF NormalizeDate
  <2> QED BY <2>1, <2>2, <2>3
<1>3. SilverIsBronze' BY <1>1, <1>2 DEF RecordInv, SilverIsBronze
<1>4. NoForeignRows'
  <2> SUFFICES ASSUME NEW x \in silver', x.scope # 0, arch[x.scope].summary # NoDoc
               PROVE  x.row.run = x.scope
    BY <1>1 DEF NoForeignRows
  <2>1. CASE x \in silver BY <2>1 DEF RecordInv, NoForeignRows
  <2>2. CASE x \notin silver
    <3>1. x.row \in bronze /\ x.scope \in Runs /\ x.row.at \in WindowOf(x.scope)
      BY <1>2, <2>2
    <3>2. x.row.at \in arch[x.scope].summary.started..WindowEnd(arch[x.scope].summary)
      BY <3>1 DEF WindowOf
    <3> QED BY <3>1, <3>2 DEF RecordInv, WindowsHoldTheirRun
  <2> QED BY <2>1, <2>2
<1>5. ArchivedWhenOver' /\ SummaryAgrees' /\ RowsOfThisRun' /\ WindowsHoldTheirRun'
  BY <1>1 DEF RecordInv, ArchivedWhenOver, SummaryAgrees, RowsOfThisRun,
              WindowsHoldTheirRun, IsVerified
<1> QED BY <1>3, <1>4, <1>5 DEF RecordInv

-----------------------------------------------------------------------------
LEMMA LineageInit ==
  Init => LineageInv
<1> SUFFICES ASSUME Init PROVE LineageInv OBVIOUS
<1>1. TypeOK
  BY SemanticsAssumption, LineageAssumption
     DEF Init, SemInit, RecordInit, NormInit, TypeOK, SemTypeOK, RecordTypeOK, NormTypeOK,
         Archives, Empty
<1>2. SemInv
  <2>1. IsFiniteSet(since) BY FS_EmptySet DEF Init, SemInit
  <2>2. \A o \in Offsets : cand[o] = {t \in since : Fresh(t, o)} BY DEF Init, SemInit
  <2>3. status \notin Verified BY DEF Init, SemInit, Verified
  <2> QED BY <2>1, <2>2, <2>3 DEF SemInv, CandidatesFit, VerifiedHasCandidates
<1>3. \A r \in Runs : arch[r] = Empty BY DEF Init, RecordInit
<1>4. RecordInv
  <2>1. phase = "idle" /\ bronze = {} /\ silver = {} BY DEF Init, NormInit
  <2>2. \A r \in Runs : arch[r].summary = NoDoc BY <1>3 DEF Empty
  <2> QED BY <1>3, <2>1, <2>2
          DEF RecordInv, ArchivedWhenOver, SummaryAgrees, RowsOfThisRun,
              WindowsHoldTheirRun, SilverIsBronze, NoForeignRows
<1> QED BY <1>1, <1>2, <1>4 DEF LineageInv

LEMMA LineageRecordStep ==
  ASSUME TypeOK, RecordInv, [Next]_vars
  PROVE  RecordInv'
<1>1. clock \in Nat BY DEF TypeOK
<1>2. CASE UNCHANGED vars BY <1>1, <1>2, RecordsStay DEF vars, recordVars
<1>3. CASE Pass BY <1>1, <1>3, RecordsStay DEF Pass, recordVars
<1>4. CASE BrokerShifts BY <1>1, <1>4, RecordsStay DEF BrokerShifts, recordVars
<1>5. CASE StartRun BY <1>5, StartRecords
<1>6. CASE StartLogger BY <1>1, <1>6, RecordsStay DEF StartLogger, recordVars
<1>7. ASSUME NEW sym \in Symbols, NEW d \in Delays, Poll(sym, d) PROVE RecordInv'
  BY <1>7, PollRecords
<1>8. CASE Reconnect BY <1>1, <1>8, RecordsStay DEF Reconnect, recordVars
<1>9. CASE CheckStaleness BY <1>1, <1>9, RecordsStay DEF CheckStaleness, recordVars
<1>10. CASE EmitBoth BY <1>1, <1>10, RecordsStay DEF EmitBoth
<1>11. CASE EndLogger BY <1>1, <1>11, RecordsStay DEF EndLogger
<1>12. CASE Finalize BY <1>12, FinalizeRecords
<1>13. CASE Normalization BY <1>13, NormalizationRecords
<1> QED
  BY <1>2, <1>3, <1>4, <1>5, <1>6, <1>7, <1>8, <1>9, <1>10, <1>11, <1>12, <1>13 DEF Next

(* The inductive invariant holds in every state: candidates are the fresh    *)
(* ticks of this connection, archives are made once and agree with their     *)
(* summaries, windows hold the rows of their own run only.                 *)
THEOREM LineageInvHolds ==
  Spec => []LineageInv
<1>1. LineageInv /\ [Next]_vars => LineageInv'
  <2> SUFFICES ASSUME LineageInv, [Next]_vars PROVE LineageInv' OBVIOUS
  <2>1. TypeOK /\ SemInv /\ RecordInv /\ ArchivedWhenOver BY DEF LineageInv, RecordInv
  <2> QED BY <2>1, LineageTypeStep, LineageSemStep, LineageRecordStep DEF LineageInv
<1> QED BY <1>1, LineageInit, PTL DEF Spec

(* Archived runs are finitely many, and so are those of a date.             *)
LEMMA ArchivedAreFew ==
  ASSUME LineageInv, NEW R, R \subseteq Runs, \A r \in R : arch[r].dir
  PROVE  IsFiniteSet(R) /\ Cardinality(R) \in Nat /\ R \subseteq Nat
<1>1. run \in Nat /\ Runs \subseteq Nat BY RunsAssumption DEF LineageInv, TypeOK
<1>2. \A r \in R : arch[r] # Empty BY DEF Empty
<1>3. R \subseteq 1..run
  <2> SUFFICES ASSUME NEW r \in R PROVE r \in 1..run OBVIOUS
  <2>1. r \in Nat /\ r > 0 BY RunsAssumption
  <2>2. r <= run BY <1>1, <1>2, <2>1 DEF LineageInv, RecordInv, ArchivedWhenOver
  <2> QED BY <1>1, <2>1, <2>2
<1>4. IsFiniteSet(1..run) BY <1>1, FS_Interval
<1> QED BY <1>1, <1>3, <1>4, FS_Subset, FS_CardinalityType

(* The orders by length and by start of the run: strict, and total.         *)
LEMMA RunTimes ==
  ASSUME TypeOK, NEW r \in Runs PROVE Duration(r) \in Int /\ StartedOf(r) \in Int /\ r \in Int
<1>1. arch[r].summary # NoDoc => arch[r].summary \in Summaries
  BY DEF TypeOK, RecordTypeOK, Archives
<1> QED BY <1>1, RunsAssumption DEF Summaries, Duration, StartedOf

LEMMA OrdersAreTotal ==
  ASSUME TypeOK, NEW r \in Runs, NEW q \in Runs
  PROVE  /\ r # q => Later(r, q) \/ Later(q, r)
         /\ r # q => Longer(r, q) \/ Longer(q, r)
         /\ ~(Later(r, q) /\ Later(q, r)) /\ ~(Longer(r, q) /\ Longer(q, r))
BY RunTimes DEF Later, Longer

LEMMA OrdersAreTransitive ==
  ASSUME TypeOK, NEW p \in Runs, NEW q \in Runs, NEW r \in Runs
  PROVE  /\ Later(p, q) /\ Later(q, r) => Later(p, r)
         /\ Longer(p, q) /\ Longer(q, r) => Longer(p, r)
BY RunTimes DEF Later, Longer

(* A strict total order, as a set of pairs, has a first element on every    *)
(* finite set: the one that fewest come before.                             *)
LEMMA FirstOfFinite ==
  ASSUME NEW V, IsFiniteSet(V), V # {}, NEW Order,
         \A p, q \in V : p # q => <<p, q>> \in Order \/ <<q, p>> \in Order,
         \A p, q \in V : ~(<<p, q>> \in Order /\ <<q, p>> \in Order),
         \A p, q, r \in V : <<p, q>> \in Order /\ <<q, r>> \in Order => <<p, r>> \in Order
  PROVE  \E r \in V : \A q \in V \ {r} : <<r, q>> \in Order
<1> DEFINE Before(r) == {q \in V : <<q, r>> \in Order}
           N == {Cardinality(Before(r)) : r \in V}
<1>1. \A r \in V : IsFiniteSet(Before(r)) /\ Cardinality(Before(r)) \in Nat
  BY SomeOfThem
<1>2. PICK n \in N : \A m \in N : n <= m
  <2>1. N \subseteq Nat
    <3> HIDE DEF Before
    <3> QED BY <1>1
  <2>2. N # {}
    <3>1. PICK v \in V : TRUE OBVIOUS
    <3>2. Cardinality(Before(v)) \in N BY <3>1
    <3> QED BY <3>2
  <2> HIDE DEF N
  <2> QED BY <2>1, <2>2, LeastNat
<1>3. PICK r \in V : n = Cardinality(Before(r)) BY <1>2
<1>4. ASSUME NEW q \in Before(r) PROVE FALSE
  <2>1. /\ q \in V /\ q \in Before(r)
        /\ Before(q) \subseteq Before(r) /\ q \notin Before(q)
    BY <1>4
  <2> HIDE DEF Before
  <2>2. Cardinality(Before(q)) < Cardinality(Before(r))
    <3>1. IsFiniteSet(Before(r)) BY <1>1
    <3>2. Before(r) # Before(q) BY <2>1
    <3> QED BY <2>1, <3>1, <3>2, SomeOfThem
  <2>3. Cardinality(Before(r)) <= Cardinality(Before(q)) BY <1>2, <1>3, <2>1
  <2> QED BY <1>1, <2>1, <2>2, <2>3
<1>5. \A q \in V \ {r} : <<r, q>> \in Order BY <1>4
<1> QED BY <1>5

LEMMA SomeRunIsFirst ==
  ASSUME LineageInv, NEW date, VerifiedRuns(date) # {}
  PROVE  /\ \E r \in VerifiedRuns(date) : \A q \in VerifiedRuns(date) \ {r} : Later(r, q)
         /\ \E r \in VerifiedRuns(date) : \A q \in VerifiedRuns(date) \ {r} : Longer(r, q)
<1> DEFINE V == VerifiedRuns(date)
           L == {p \in V \X V : Later(p[1], p[2])}
           D == {p \in V \X V : Longer(p[1], p[2])}
<1>1. V \subseteq Runs /\ IsFiniteSet(V) BY ArchivedAreFew DEF VerifiedRuns
<1>2. \A p, q \in V : /\ <<p, q>> \in L <=> Later(p, q)
                      /\ <<p, q>> \in D <=> Longer(p, q)
  OBVIOUS
<1>3. TypeOK BY DEF LineageInv
<1> HIDE DEF V, L, D
<1>4. \E r \in V : \A q \in V \ {r} : <<r, q>> \in L
  <2>1. \A p, q \in V : p # q => <<p, q>> \in L \/ <<q, p>> \in L
    BY <1>1, <1>2, <1>3, OrdersAreTotal
  <2>2. \A p, q \in V : ~(<<p, q>> \in L /\ <<q, p>> \in L)
    BY <1>1, <1>2, <1>3, OrdersAreTotal
  <2>3. \A p, q, r \in V : <<p, q>> \in L /\ <<q, r>> \in L => <<p, r>> \in L
    BY <1>1, <1>2, <1>3, OrdersAreTransitive
  <2>4. V # {} BY DEF V
  <2> QED BY <1>1, <2>1, <2>2, <2>3, <2>4, FirstOfFinite
<1>5. \E r \in V : \A q \in V \ {r} : <<r, q>> \in D
  <2>1. \A p, q \in V : p # q => <<p, q>> \in D \/ <<q, p>> \in D
    BY <1>1, <1>2, <1>3, OrdersAreTotal
  <2>2. \A p, q \in V : ~(<<p, q>> \in D /\ <<q, p>> \in D)
    BY <1>1, <1>2, <1>3, OrdersAreTotal
  <2>3. \A p, q, r \in V : <<p, q>> \in D /\ <<q, r>> \in D => <<p, r>> \in D
    BY <1>1, <1>2, <1>3, OrdersAreTransitive
  <2>4. V # {} BY DEF V
  <2> QED BY <1>1, <2>1, <2>2, <2>3, <2>4, FirstOfFinite
<1> QED BY <1>2, <1>4, <1>5 DEF V

(* A run the selection takes can be normalized with the offset it reported:  *)
(* the summary is written last and says what the archived manifest says.    *)
(* There is no other it could have taken.                                   *)
LEMMA InvGivesResolves ==
  ASSUME LineageInv PROVE SelectionResolves
<1> SUFFICES ASSUME NEW date \in Dates, NEW policy \in Policies, NEW named \in Runs
             PROVE  /\ \A r \in Selected(date, policy, named) :
                         /\ Resolves(r) /\ SourceOf(r).offset = BelievedOffset(r)
                         /\ Selected(date, policy, named) = {r}
                    /\ policy \in {"latest", "longest"} /\ Selected(date, policy, named) = {}
                         => VerifiedRuns(date) = {}
  BY DEF SelectionResolves
<1> DEFINE V == VerifiedRuns(date)
<1>1. V \subseteq Runs /\ IsFiniteSet(V) /\ TypeOK
  BY ArchivedAreFew DEF VerifiedRuns, LineageInv
<1>2. /\ policy = "explicit" => Selected(date, policy, named) = V \cap {named}
      /\ policy = "fail_on_multiple" =>
           Selected(date, policy, named) = IF Cardinality(V) = 1 THEN V ELSE {}
      /\ policy = "latest" =>
           Selected(date, policy, named) = {r \in V : \A q \in V \ {r} : Later(r, q)}
      /\ policy = "longest" =>
           Selected(date, policy, named) = {r \in V : \A q \in V \ {r} : Longer(r, q)}
  BY DEF Selected
<1>3. policy \in {"explicit", "fail_on_multiple", "latest", "longest"} BY DEF Policies
<1>4. ASSUME NEW r \in Selected(date, policy, named)
      PROVE  Resolves(r) /\ SourceOf(r).offset = BelievedOffset(r)
  <2>1. r \in V
    <3> HIDE DEF V
    <3> QED BY <1>2, <1>3, <1>4
  <2>2. r \in Runs /\ CountsAsVerified(r) BY <2>1 DEF VerifiedRuns
  <2>3. CASE arch[r].summary = NoDoc
    <3>1. IsVerified(arch[r].manifest) BY <2>2, <2>3 DEF CountsAsVerified
    <3> QED BY <2>3, <3>1 DEF Resolves, SourceOf, BelievedOffset, IsVerified
  <2>4. CASE arch[r].summary # NoDoc
    <3>1. arch[r].summary.verified BY <2>2, <2>4 DEF CountsAsVerified
    <3>2. /\ IsVerified(arch[r].manifest)
          /\ arch[r].summary.offset = arch[r].manifest.offset
      BY <2>2, <2>4, <3>1 DEF LineageInv, RecordInv, SummaryAgrees
    <3> QED BY <2>4, <3>2 DEF Resolves, SourceOf, BelievedOffset, IsVerified
  <2> QED BY <2>3, <2>4
<1>5. ASSUME NEW r \in Selected(date, policy, named)
      PROVE  Selected(date, policy, named) = {r}
  <2> HIDE DEF V
  <2>1. CASE policy = "explicit" BY <1>2, <1>5, <2>1
  <2>2. CASE policy = "fail_on_multiple" BY <1>1, <1>2, <1>5, <2>2, FS_Singleton
  <2>3. CASE policy = "latest"
    <3>1. r \in V /\ \A q \in V \ {r} : Later(r, q) BY <1>2, <1>5, <2>3
    <3>2. \A q \in V \ {r} : ~Later(q, r) BY <1>1, <3>1, OrdersAreTotal
    <3> QED BY <1>2, <2>3, <3>1, <3>2
  <2>4. CASE policy = "longest"
    <3>1. r \in V /\ \A q \in V \ {r} : Longer(r, q) BY <1>2, <1>5, <2>4
    <3>2. \A q \in V \ {r} : ~Longer(q, r) BY <1>1, <3>1, OrdersAreTotal
    <3> QED BY <1>2, <2>4, <3>1, <3>2
  <2> QED BY <1>3, <2>1, <2>2, <2>3, <2>4
<1>6. policy \in {"latest", "longest"} /\ Selected(date, policy, named) = {} => V = {}
  <2>1. V # {} => /\ \E r \in V : \A q \in V \ {r} : Later(r, q)
                 /\ \E r \in V : \A q \in V \ {r} : Longer(r, q)
    BY SomeRunIsFirst
  <2> HIDE DEF V
  <2> QED BY <1>2, <2>1
<1> QED BY <1>4, <1>5, <1>6

(* Of several verified runs of a date the latest is taken: there is one.  A   *)
(* job that is given neither a run nor a document uses what one on record    *)
(* names.                                                                  *)
LEMMA OffsetsAreNamed ==
  ASSUME LineageInv, NEW date \in Dates, NEW allowLatest \in BOOLEAN
  PROVE  OffsetForDate(date, allowLatest) \in NamedOffsets \cup {None}
<1> DEFINE ok == VerifiedFor(date)
           latest == CHOOSE r \in ok : \A q \in ok : q <= r
<1>1. IsFiniteSet(ok) /\ ok \subseteq Nat BY ArchivedAreFew DEF VerifiedFor
<1>2. ASSUME ok # {} PROVE latest \in ok
  <2> DEFINE Order == {p \in ok \X ok : p[1] > p[2]}
  <2>1. \A p, q \in ok : <<p, q>> \in Order <=> p > q OBVIOUS
  <2> HIDE DEF ok, Order
  <2>2. \E r \in ok : \A q \in ok \ {r} : <<r, q>> \in Order
    <3>1. /\ \A p, q \in ok : p # q => <<p, q>> \in Order \/ <<q, p>> \in Order
          /\ \A p, q \in ok : ~(<<p, q>> \in Order /\ <<q, p>> \in Order)
          /\ \A p, q, r \in ok : <<p, q>> \in Order /\ <<q, r>> \in Order => <<p, r>> \in Order
      BY <1>1, <2>1
    <3> QED BY <1>1, <1>2, <3>1, FirstOfFinite
  <2>3. PICK r \in ok : \A q \in ok \ {r} : <<r, q>> \in Order BY <2>2
  <2>4. \A q \in ok : q <= r
    <3>1. \A q \in ok \ {r} : r > q BY <2>1, <2>3
    <3> QED BY <1>1, <3>1
  <2> QED BY <2>4
<1>3. \A r \in ok : SourceOf(r).offset \in NamedOffsets
  <2> SUFFICES ASSUME NEW r \in ok PROVE SourceOf(r).offset \in NamedOffsets OBVIOUS
  <2>1. r \in Runs /\ Resolves(r) BY DEF VerifiedFor
  <2>2. IsVerified(SourceOf(r)) /\ SourceOf(r) \in {arch[r].manifest, arch[r].health}
    BY <2>1 DEF Resolves, SourceOf
  <2> QED BY <2>1, <2>2 DEF NamedOffsets
<1>4. LegacyOffset \in NamedOffsets \cup {None} BY DEF LegacyOffset, NamedOffsets
<1>5. Cardinality(ok) = 1 => ok # {} BY FS_EmptySet
<1>6. OffsetForDate(date, allowLatest) =
        IF Cardinality(ok) = 1 \/ (ok # {} /\ allowLatest) THEN SourceOf(latest).offset
        ELSE IF ok = {} /\ allowLatest THEN LegacyOffset ELSE None
  BY DEF OffsetForDate
<1> HIDE DEF ok, latest
<1> QED BY <1>2, <1>3, <1>4, <1>5, <1>6

-----------------------------------------------------------------------------
(* What the offsets of Silver rows rest on.  B stands for Bronze: what a run  *)
(* earned with some rows it has earned with more.                           *)
TicksIn(B, r) == {[at |-> x.at, raw |-> x.raw] : x \in {y \in B : y.run = r}}
EarnedIn(B, r, off) ==
  \E S \in SUBSET {t \in TicksIn(B, r) : Fresh(t, off)} : Earned(S, off)

(* A document that is verified at r or in the archive of r: some run up to r  *)
(* earned its offset, and r itself if it was made after s.                   *)
Good(doc, r, B, s) ==
  IsVerified(doc) =>
    /\ \E q \in Runs : q <= r /\ EarnedIn(B, q, doc.offset)
    /\ doc.made > s => EarnedIn(B, r, doc.offset)

SinceIsOfRun ==
  since \subseteq TicksIn(bronze, run) /\ (phase # "logging" => since = {})

SharedDocs ==
  \A doc \in {manifest, health} :
    /\ doc # NoDoc => run # 0 /\ doc.made <= clock
    /\ run # 0 => Good(doc, run, bronze, startAt[run])

ArchivedDocs ==
  \A r \in Runs : /\ Good(arch[r].manifest, r, bronze, startAt[r])
                  /\ Good(arch[r].health, r, bronze, startAt[r])

OffsetsOfSilver ==
  \A x \in silver :
    IF x.scope = 0 THEN \E r \in Runs : EarnedIn(bronze, r, x.offset)
    ELSE Resolves(x.scope) /\ x.offset = SourceOf(x.scope).offset

EarnedInv == SinceIsOfRun /\ SharedDocs /\ ArchivedDocs /\ OffsetsOfSilver

LEMMA MoreIsEarned ==
  ASSUME NEW B, NEW B2, B \subseteq B2
  PROVE  /\ \A r, off : EarnedIn(B, r, off) => EarnedIn(B2, r, off)
         /\ \A doc, r, s : Good(doc, r, B, s) => Good(doc, r, B2, s)
<1>1. ASSUME NEW r, NEW off, EarnedIn(B, r, off) PROVE EarnedIn(B2, r, off)
  <2>1. TicksIn(B, r) \subseteq TicksIn(B2, r) BY DEF TicksIn
  <2> QED BY <1>1, <2>1 DEF EarnedIn
<1>2. ASSUME NEW doc, NEW r, NEW s, Good(doc, r, B, s) PROVE Good(doc, r, B2, s)
  BY <1>1, <1>2 DEF Good
<1> QED BY <1>1, <1>2

LEMMA NoDocIsGood ==
  ASSUME NEW r, NEW B, NEW s PROVE Good(NoDoc, r, B, s)
BY DEF Good, IsVerified

(* A document written now: the offset is what this run's ticks earned.        *)
LEMMA SnapshotIsGood ==
  ASSUME LineageInv, SinceIsOfRun, run \in Runs
  PROVE  \A s : Good(Snapshot(clock), run, bronze, s)
<1> SUFFICES ASSUME IsVerified(Snapshot(clock)) PROVE EarnedIn(bronze, run, offset)
  BY RunsAssumption DEF Good, Snapshot
<1>1. status \in Verified BY DEF IsVerified, Snapshot
<1>2. \E S \in SUBSET {t \in since : Fresh(t, offset)} : Earned(S, offset)
  BY <1>1, SemGivesEarned DEF LineageInv, VerifiedIsEarned
<1> QED BY <1>2 DEF SinceIsOfRun, EarnedIn

(* No step takes rows away.                                                *)
LEMMA BronzeGrows ==
  ASSUME TypeOK, ArchivedWhenOver, [Next]_vars
  PROVE  bronze \subseteq bronze'
<1>1. ASSUME NEW sym \in Symbols, NEW d \in Delays, Poll(sym, d) PROVE bronze \subseteq bronze'
  BY <1>1 DEF Poll
<1> QED
  BY <1>1 DEF Next, vars, Pass, BrokerShifts, StartRun, StartLogger, Reconnect,
              CheckStaleness, EmitBoth, EndLogger, Finalize, Normalization

LEMMA SinceStep ==
  ASSUME LineageInv, SinceIsOfRun, [Next]_vars
  PROVE  SinceIsOfRun'
<1>1. ASSUME NEW sym \in Symbols, NEW d \in Delays, Poll(sym, d) PROVE SinceIsOfRun'
  <2> DEFINE t == [at |-> clock + 1, raw |-> clock + 1 - d + broker]
             x == [at |-> clock + 1, raw |-> clock + 1 - d + broker, sym |-> sym, run |-> run]
  <2>1. /\ Observe(t) /\ bronze' = bronze \cup {x}
        /\ run' = run /\ phase = "logging" /\ phase' = phase
    BY <1>1, PolledRow DEF Poll, LineageInv, RecordInv
  <2>2. since' = since \cup {t} BY <2>1 DEF Observe
  <2>3. t \in TicksIn(bronze', run)
    <3>1. x.run = run /\ t = [at |-> x.at, raw |-> x.raw] OBVIOUS
    <3> QED BY <2>1, <3>1 DEF TicksIn
  <2>4. TicksIn(bronze, run) \subseteq TicksIn(bronze', run) BY <2>1 DEF TicksIn
  <2> HIDE DEF t, x
  <2> QED BY <2>1, <2>2, <2>3, <2>4 DEF SinceIsOfRun, TicksIn
<1>2. CASE Reconnect \/ EndLogger \/ CheckStaleness
  <2>1. since' = {} \/ (since' = since /\ phase' = phase)
    BY <1>2 DEF Reconnect, ResetForReconnect, EndLogger, NewStart, CheckStaleness,
                EvaluateStaleness, Downgrade, MarkUnsafe
  <2>2. bronze' = bronze /\ run' = run
    BY <1>2 DEF Reconnect, EndLogger, CheckStaleness
  <2> QED BY <2>1, <2>2 DEF SinceIsOfRun, TicksIn
<1>3. CASE StartRun \/ StartLogger \/ Finalize
  <2>1. phase # "logging" /\ since' = since
    BY <1>3 DEF StartRun, StartLogger, Finalize, semVars
  <2> QED BY <2>1 DEF SinceIsOfRun
<1>4. CASE Pass \/ BrokerShifts \/ EmitBoth \/ Normalization \/ UNCHANGED vars
  <2>1. UNCHANGED <<since, bronze, run, phase>>
    BY <1>4 DEF Pass, BrokerShifts, EmitBoth, Normalization, vars, semVars
  <2> QED BY <2>1 DEF SinceIsOfRun, TicksIn
<1> QED BY <1>1, <1>2, <1>3, <1>4 DEF Next

LEMMA SharedStep ==
  ASSUME LineageInv, SinceIsOfRun, SharedDocs, [Next]_vars
  PROVE  SharedDocs'
<1> DEFINE Fine(doc) == /\ doc # NoDoc => run' # 0 /\ doc.made <= clock'
                        /\ run' # 0 => Good(doc, run', bronze', startAt'[run'])
<1>0. /\ bronze \subseteq bronze' /\ clock \in Nat /\ 0 \notin Runs
      /\ run \in Runs \cup {0} /\ Runs \subseteq Nat
      /\ \A doc \in {manifest, health} : doc # NoDoc => doc.made \in Nat
  BY BronzeGrows, RunsAssumption DEF LineageInv, RecordInv, TypeOK, RecordTypeOK, Docs
<1>1. SUFFICES Fine(manifest') /\ Fine(health')
  BY DEF SharedDocs
<1>2. ASSUME run' = run, run # 0 => startAt'[run] = startAt[run], clock' \in Nat,
             clock' >= clock, NEW doc \in {manifest, health}
      PROVE  Fine(doc)
  <2>1. run # 0 => Good(doc, run, bronze', startAt[run])
    BY <1>0, MoreIsEarned DEF SharedDocs
  <2> QED BY <1>0, <1>2, <2>1 DEF SharedDocs
<1>3. CASE UNCHANGED <<manifest, health, startAt, run>> /\ clock' \in Nat /\ clock' >= clock
  BY <1>2, <1>3
<1>4. CASE StartRun
  <2>1. /\ run' = run + 1 /\ run' \in Runs /\ startAt'[run'] = clock /\ clock' = clock
        /\ UNCHANGED <<manifest, health, bronze>>
    BY <1>0, <1>4 DEF StartRun, LineageInv, TypeOK, RecordTypeOK
  <2>2. ASSUME NEW doc \in {manifest, health} PROVE Fine(doc)
    <3>1. CASE doc = NoDoc BY <3>1, NoDocIsGood
    <3>2. CASE doc # NoDoc
      <4>1. run \in Runs /\ doc.made <= clock /\ doc.made \in Nat
            /\ Good(doc, run, bronze, startAt[run])
        BY <1>0, <3>2 DEF SharedDocs
      <4>2. Good(doc, run', bronze, clock)
        BY <1>0, <2>1, <4>1 DEF Good
      <4> QED BY <1>0, <2>1, <4>1, <4>2
    <3> QED BY <3>1, <3>2
  <2> HIDE DEF Fine
  <2> QED BY <2>1, <2>2
<1>5. CASE EmitBoth \/ EndLogger
  <2>1. /\ run \in Runs /\ UNCHANGED <<startAt, run, clock, bronze>>
        /\ manifest' \in {manifest, Snapshot(clock)} /\ health' \in {health, Snapshot(clock)}
    BY <1>5 DEF EmitBoth, EndLogger, EmitHealth, EmitManifest, LineageInv, RecordInv,
                ArchivedWhenOver
  <2>2. Fine(Snapshot(clock))
    <3>1. Snapshot(clock).made = clock BY DEF Snapshot
    <3>2. Good(Snapshot(clock), run, bronze, startAt[run]) BY <2>1, SnapshotIsGood
    <3> QED BY <1>0, <2>1, <3>1, <3>2
  <2>3. \A doc \in {manifest, health} : Fine(doc) BY <1>0, <1>2, <2>1
  <2> HIDE DEF Fine
  <2> QED BY <2>1, <2>2, <2>3
<1>6. ASSUME NEW sym \in Symbols, NEW d \in Delays, Poll(sym, d)
      PROVE  UNCHANGED <<manifest, health, startAt, run>> /\ clock' \in Nat /\ clock' >= clock
  BY <1>0, <1>6 DEF Poll, recordVars
<1>7. CASE \/ Pass \/ BrokerShifts \/ StartLogger \/ Reconnect \/ CheckStaleness \/ Finalize
           \/ Normalization \/ UNCHANGED vars
  <2>1. UNCHANGED <<manifest, health, startAt, run>> /\ clock' \in Nat /\ clock' >= clock
    BY <1>0, <1>7 DEF Pass, BrokerShifts, StartLogger, Reconnect, CheckStaleness, Finalize,
                      Normalization, vars, recordVars
  <2> QED BY <1>3, <2>1
<1> HIDE DEF Fine
<1> QED BY <1>3, <1>4, <1>5, <1>6, <1>7 DEF Next

LEMMA ArchivedStep ==
  ASSUME LineageInv, SharedDocs, ArchivedDocs, [Next]_vars
  PROVE  ArchivedDocs'
<1>0. bronze \subseteq bronze' /\ Runs \subseteq Nat /\ 0 \notin Runs
  BY BronzeGrows, RunsAssumption DEF LineageInv, RecordInv
<1>1. CASE UNCHANGED <<arch, startAt>>
  BY <1>0, <1>1, MoreIsEarned DEF ArchivedDocs
<1>2. CASE StartRun
  <2>1. /\ arch' = arch /\ run + 1 \in Runs /\ run \in Nat
        /\ \A r \in Runs \ {run + 1} : startAt'[r] = startAt[r]
    BY <1>0, <1>2 DEF StartRun, LineageInv, TypeOK, RecordTypeOK
  <2>2. arch[run + 1] = Empty
    BY <2>1 DEF LineageInv, RecordInv, ArchivedWhenOver
  <2>3. ASSUME NEW r \in Runs
        PROVE  /\ Good(arch[r].manifest, r, bronze', startAt'[r])
               /\ Good(arch[r].health, r, bronze', startAt'[r])
    <3>1. CASE r = run + 1
      <4>1. arch[r].manifest = NoDoc /\ arch[r].health = NoDoc BY <2>2, <3>1 DEF Empty
      <4> QED BY <4>1, NoDocIsGood
    <3>2. CASE r # run + 1
      BY <1>0, <2>1, <3>2, MoreIsEarned DEF ArchivedDocs
    <3> QED BY <3>1, <3>2
  <2> QED BY <2>1, <2>3 DEF ArchivedDocs
<1>3. CASE Finalize
  <2>1. /\ run \in Runs /\ UNCHANGED <<startAt, bronze>>
        /\ \E latest : Archive(run, clock, latest)
    BY <1>3 DEF Finalize, LineageInv, RecordInv, ArchivedWhenOver
  <2>2. /\ \A r \in Runs \ {run} : arch'[r] = arch[r]
        /\ arch'[run].manifest \in {manifest, NoDoc} /\ arch'[run].health \in {health, NoDoc}
    BY <2>1 DEF Archive, LineageInv, TypeOK, RecordTypeOK
  <2>3. \A doc \in {manifest, health, NoDoc} : Good(doc, run, bronze, startAt[run])
    BY <1>0, <2>1, NoDocIsGood DEF SharedDocs
  <2>4. ASSUME NEW r \in Runs
        PROVE  /\ Good(arch'[r].manifest, r, bronze', startAt'[r])
               /\ Good(arch'[r].health, r, bronze', startAt'[r])
    BY <2>1, <2>2, <2>3 DEF ArchivedDocs
  <2> QED BY <2>4 DEF ArchivedDocs
<1>4. ASSUME NEW sym \in Symbols, NEW d \in Delays, Poll(sym, d) PROVE ArchivedDocs'
  BY <1>1, <1>4 DEF Poll, recordVars
<1>5. CASE \/ Pass \/ BrokerShifts \/ StartLogger \/ Reconnect \/ CheckStaleness \/ EmitBoth
           \/ EndLogger \/ Normalization \/ UNCHANGED vars
  BY <1>1, <1>5 DEF Pass, BrokerShifts, StartLogger, Reconnect, CheckStaleness, EmitBoth,
                    EndLogger, Normalization, vars, recordVars
<1> QED BY <1>2, <1>3, <1>4, <1>5 DEF Next

(* The documents on record are verified on ticks that are in Bronze.          *)
LEMMA NamedIsEarned ==
  ASSUME LineageInv, SharedDocs, ArchivedDocs, NEW off \in NamedOffsets
  PROVE  \E r \in Runs : EarnedIn(bronze, r, off)
<1>1. PICK doc \in {manifest, health} \cup {arch[r].manifest : r \in Runs}
                     \cup {arch[r].health : r \in Runs} : IsVerified(doc) /\ off = doc.offset
  BY DEF NamedOffsets
<1>2. \E r, s : Good(doc, r, bronze, s)
  <2>1. CASE doc \in {manifest, health}
    BY <1>1, <2>1 DEF SharedDocs, IsVerified
  <2>2. CASE \E r \in Runs : doc \in {arch[r].manifest, arch[r].health}
    BY <2>2 DEF ArchivedDocs
  <2> QED BY <1>1, <2>1, <2>2
<1> QED BY <1>1, <1>2 DEF Good

LEMMA SilverStep ==
  ASSUME LineageInv, SharedDocs, ArchivedDocs, OffsetsOfSilver, [Next]_vars
  PROVE  OffsetsOfSilver'
<1>0. bronze \subseteq bronze' /\ 0 \notin Runs /\ TypeOK
  BY BronzeGrows, RunsAssumption DEF LineageInv, RecordInv
<1> DEFINE Fine(x) == IF x.scope = 0 THEN \E r \in Runs : EarnedIn(bronze', r, x.offset)
                      ELSE Resolves(x.scope)' /\ x.offset = SourceOf(x.scope)'.offset
<1>1. ASSUME NEW x \in silver, x.scope # 0 => arch'[x.scope] = arch[x.scope] PROVE Fine(x)
  <2>1. CASE x.scope = 0
    BY <1>0, <2>1, MoreIsEarned DEF OffsetsOfSilver
  <2>2. CASE x.scope # 0
    BY <1>1, <2>2 DEF OffsetsOfSilver, Resolves, SourceOf, IsVerified
  <2> QED BY <2>1, <2>2
<1>2. CASE UNCHANGED <<arch, silver>>
  BY <1>1, <1>2 DEF OffsetsOfSilver, Resolves, SourceOf, IsVerified
<1>3. CASE Finalize
  <2>1. /\ run \in Runs /\ arch[run] = Empty /\ silver' = silver
        /\ \E latest : Archive(run, clock, latest)
    <3>1. phase = "up" /\ silver' = silver BY <1>3 DEF Finalize
    <3>2. PICK latest \in LatestWrites(clock') : Archive(run, clock, latest)
      BY <1>3 DEF Finalize
    <3>3. run \in Runs /\ run \in Nat
      BY <3>1, RunsAssumption DEF LineageInv, RecordInv, ArchivedWhenOver
    <3>4. arch[run] = Empty
      BY <3>1, <3>3 DEF LineageInv, RecordInv, ArchivedWhenOver
    <3> QED BY <3>1, <3>2, <3>3, <3>4
  <2>2. \A r \in Runs \ {run} : arch'[r] = arch[r]
    BY <2>1 DEF Archive, LineageInv, TypeOK, RecordTypeOK
  <2>3. ASSUME NEW x \in silver, x.scope # 0 PROVE arch'[x.scope] = arch[x.scope]
    <3>1. x.scope \in Runs
      BY <1>0, <2>3 DEF TypeOK, NormTypeOK, SilverRows, Scopes
    <3>2. arch[x.scope] # Empty BY <2>3 DEF LineageInv, RecordInv, SilverIsBronze
    <3> QED BY <2>1, <2>2, <3>1, <3>2
  <2> QED BY <1>1, <2>1, <2>3 DEF OffsetsOfSilver, Resolves, SourceOf, IsVerified
<1>4. CASE Normalization
  <2>1. arch' = arch /\ bronze' = bronze BY <1>4 DEF Normalization, recordVars
  <2>2. ASSUME NEW x \in silver', x \notin silver PROVE Fine(x)
    <3>1. PICK date \in Dates :
            \/ \E r \in Runs : NormalizeRun(r, date)
            \/ \E o \in Offsets : NormalizeDate(date, o)
      BY <1>4 DEF Normalization
    <3>2. ASSUME NEW r \in Runs, NormalizeRun(r, date) PROVE Fine(x)
      <4>1. Normalize(date, r, SourceOf(r).offset, WindowOf(r)) /\ Resolves(r)
        BY <3>2 DEF NormalizeRun
      <4>2. x.scope = r /\ x.offset = SourceOf(r).offset BY <2>2, <4>1, NormalizeAdds
      <4> QED BY <1>0, <2>1, <4>1, <4>2 DEF Resolves, SourceOf, IsVerified
    <3>3. ASSUME NEW o \in Offsets, NormalizeDate(date, o) PROVE Fine(x)
      <4>1. x.scope = 0 /\ x.offset = o
        BY <2>2, <3>3, NormalizeAdds DEF NormalizeDate
      <4>2. o # None BY SemanticsAssumption
      <4>3. o \in NamedOffsets
        <5>1. /\ OffsetForDate(date, TRUE) \in NamedOffsets \cup {None}
              /\ OffsetForDate(date, FALSE) \in NamedOffsets \cup {None}
          BY OffsetsAreNamed
        <5> QED BY <3>3, <4>2, <5>1 DEF NormalizeDate
      <4> QED BY <2>1, <4>1, <4>3, NamedIsEarned
    <3> HIDE DEF Fine
    <3> QED BY <3>1, <3>2, <3>3
  <2>3. \A x \in silver : Fine(x) BY <1>1, <2>1
  <2> QED BY <2>2, <2>3 DEF OffsetsOfSilver, Resolves, SourceOf, IsVerified
<1>5. ASSUME NEW sym \in Symbols, NEW d \in Delays, Poll(sym, d) PROVE OffsetsOfSilver'
  BY <1>2, <1>5 DEF Poll, recordVars
<1>6. CASE \/ Pass \/ BrokerShifts \/ StartRun \/ StartLogger \/ Reconnect \/ CheckStaleness
           \/ EmitBoth \/ EndLogger \/ UNCHANGED vars
  BY <1>2, <1>6 DEF Pass, BrokerShifts, StartRun, StartLogger, Reconnect, CheckStaleness,
                    EmitBoth, EndLogger, vars, recordVars
<1> QED BY <1>3, <1>4, <1>5, <1>6 DEF Next

LEMMA EarnedHolds ==
  Spec => []EarnedInv
<1>1. Init => EarnedInv
  <2> SUFFICES ASSUME Init PROVE EarnedInv OBVIOUS
  <2>1. /\ since = {} /\ manifest = NoDoc /\ health = NoDoc /\ silver = {} /\ run = 0
        /\ \A r \in Runs : arch[r].manifest = NoDoc /\ arch[r].health = NoDoc
    BY DEF Init, SemInit, RecordInit, NormInit, Empty
  <2> QED BY <2>1, NoDocIsGood
          DEF EarnedInv, SinceIsOfRun, SharedDocs, ArchivedDocs, OffsetsOfSilver
<1>2. LineageInv /\ EarnedInv /\ [Next]_vars => EarnedInv'
  BY SinceStep, SharedStep, ArchivedStep, SilverStep DEF EarnedInv
<1> QED BY <1>1, <1>2, LineageInvHolds, PTL DEF Spec

(* The rows of a run rest on the document its archive resolves to.           *)
LEMMA InvGivesProvenance ==
  ASSUME LineageInv, EarnedInv PROVE SilverOffsetIsEarned
<1>1. \A r, off : EarnedBy(r, off) <=> EarnedIn(bronze, r, off)
  BY DEF EarnedBy, EarnedIn, TicksOf, TicksIn
<1> SUFFICES ASSUME NEW x \in silver
             PROVE  /\ \E r \in Runs : EarnedIn(bronze, r, x.offset)
                                       /\ (x.scope # 0 => r <= x.scope)
                    /\ x.scope # 0 /\ SourceOf(x.scope).made > startAt[x.scope]
                         => EarnedIn(bronze, x.scope, x.offset)
  BY <1>1 DEF SilverOffsetIsEarned
<1>2. CASE x.scope = 0
  BY <1>2 DEF EarnedInv, OffsetsOfSilver
<1>3. CASE x.scope # 0
  <2>1. x.scope \in Runs
    BY <1>3 DEF LineageInv, TypeOK, NormTypeOK, SilverRows, Scopes
  <2>2. x.offset = SourceOf(x.scope).offset /\ IsVerified(SourceOf(x.scope))
        /\ SourceOf(x.scope) \in {arch[x.scope].manifest, arch[x.scope].health}
    BY <1>3 DEF EarnedInv, OffsetsOfSilver, Resolves, SourceOf
  <2>3. Good(SourceOf(x.scope), x.scope, bronze, startAt[x.scope])
    BY <2>1, <2>2 DEF EarnedInv, ArchivedDocs
  <2> QED BY <1>3, <2>2, <2>3 DEF Good
<1> QED BY <1>2, <1>3

-----------------------------------------------------------------------------
(* Every state of loggers, records and Silver is well typed.                *)
THEOREM LineageTypes ==
  Spec => []TypeOK
BY LineageInvHolds, PTL DEF LineageInv

(* No offset is verified on ticks of a lost connection, or of before a       *)
(* downgrade, or on one time stamp, or on ticks of which more than half, or  *)
(* more than about one in twenty, are older than the code's bounds.         *)
THEOREM OffsetIsEarned ==
  Spec => []VerifiedIsEarned
<1>1. LineageInv => VerifiedIsEarned BY SemGivesEarned DEF LineageInv
<1> QED BY <1>1, LineageInvHolds, PTL

(* The two readers of an archive agree wherever archiving broke off, and no *)
(* policy leaves it open which run is meant.                                *)
THEOREM SelectedRunsResolve ==
  Spec => []SelectionResolves
<1>1. LineageInv => SelectionResolves BY InvGivesResolves
<1> QED BY <1>1, LineageInvHolds, PTL

(* Every Silver row has an offset that ticks in Bronze earned: of no run      *)
(* later than the one it is filed under, and of this very run if its record  *)
(* was made after it had started.                                           *)
THEOREM SilverOffsetsAreEarned ==
  Spec => []SilverOffsetIsEarned
<1>1. LineageInv /\ EarnedInv => SilverOffsetIsEarned BY InvGivesProvenance
<1> QED BY <1>1, LineageInvHolds, EarnedHolds, PTL

(* A run's Silver holds rows of that run only.                              *)
THEOREM SilverIsOfItsRun ==
  Spec => []NoForeignRows
<1>1. LineageInv => NoForeignRows BY DEF LineageInv, RecordInv
<1> QED BY <1>1, LineageInvHolds, PTL
=============================================================================
