-------------------------- MODULE TimestampSemantics --------------------------
(***************************************************************************)
(* How a logger finds the UTC offset of its broker's clock                 *)
(* (normalization/timestamp_semantics.py).  A tick carries the broker's    *)
(* time stamp, raw, and the time it was received, at.  Under the right     *)
(* offset live ticks have a small age; under a wrong one they are off by   *)
(* minutes.  cached_offset_min and last_event only serve messages and are  *)
(* left out, and so is the cap of 1024 residuals.                          *)
(***************************************************************************)
EXTENDS Integers, FiniteSets

CONSTANTS
  Offsets,          \* plausible_offsets_minutes
  Jitter, MaxAge,   \* FreshnessGate
  Required,         \* required_fresh_ticks
  P50Max, P95Max,   \* P50_MAX_MS, P95_MAX_MS
  DowngradeAfter,   \* downgrade_after_stale_ms
  UnsafeAfter,      \* unsafe_after_stale_ms
  None              \* Python's None

ASSUME SemanticsAssumption ==
  /\ Offsets \subseteq Int
  /\ Jitter \in Nat /\ MaxAge \in Nat /\ Required \in Nat \ {0}
  /\ P50Max \in Int /\ P95Max \in Int
  /\ DowngradeAfter \in Nat \ {0} /\ UnsafeAfter \in Nat \ {0}
  /\ None \notin Int

VARIABLES
  status,     \* pending, offset or utc (verified), unsafe
  offset,     \* verified_offset_min
  first,      \* first_observation_recv_ms
  lastFresh,  \* last_fresh_observation_recv_ms
  cand,       \* candidates: the ticks that were fresh under each offset
  since       \* history: the ticks observed since the last new start

semVars == <<status, offset, first, lastFresh, cand, since>>

Verified == {"offset", "utc"}
Tick == [at : Nat, raw : Int]

SemTypeOK ==
  /\ status \in {"pending", "unsafe"} \cup Verified
  /\ offset \in Offsets \cup {None}
  /\ first \in Nat \cup {None} /\ lastFresh \in Nat \cup {None}
  /\ cand \in [Offsets -> SUBSET Tick] /\ since \subseteq Tick

SemInit ==
  /\ status = "pending" /\ offset = None
  /\ first = None /\ lastFresh = None
  /\ cand = [o \in Offsets |-> {}] /\ since = {}

(* A new object, of a new logger; the same is done after a reconnect.      *)
NewStart ==
  /\ status' = "pending" /\ offset' = None
  /\ first' = None /\ lastFresh' = None
  /\ cand' = [o \in Offsets |-> {}] /\ since' = {}

(* Mutant: the candidates of the lost connection are kept.                 *)
MutantKeepsCandidates ==
  /\ status' = "pending" /\ offset' = None
  /\ first' = None /\ lastFresh' = None
  /\ cand' = cand /\ since' = {}

ResetForReconnect == NewStart

-----------------------------------------------------------------------------
Age(t, o) == t.at - (t.raw - o)
Fresh(t, o) == Age(t, o) \in -Jitter..MaxAge

(* The k-th smallest age of some ticks under an offset, and a hundred times *)
(* their percentile, interpolated between two of them.                     *)
AgeAt(S, o, k) ==
  CHOOSE a \in {Age(t, o) : t \in S} :
    /\ Cardinality({t \in S : Age(t, o) < a}) < k
    /\ Cardinality({t \in S : Age(t, o) <= a}) >= k

Percentile(S, o, pct) ==
  LET k == (Cardinality(S) - 1) * pct
      f == k \div 100 + 1
      w == k % 100
  IN  IF w = 0 THEN 100 * AgeAt(S, o, f)
      ELSE (100 - w) * AgeAt(S, o, f) + w * AgeAt(S, o, f + 1)

Eligible(S, o) ==
  /\ Cardinality(S) >= Required
  /\ Cardinality({t.raw : t \in S}) >= 2
  /\ Percentile(S, o, 50) <= 100 * P50Max
  /\ Percentile(S, o, 95) <= 100 * P95Max

Distance(S, o) ==
  LET p == Percentile(S, o, 50) IN IF p < 0 THEN -p ELSE p

(* _maybe_verify, on the status and the candidates after a tick.           *)
MaybeVerify(st, cands) ==
  LET good == {o \in Offsets : Eligible(cands[o], o)} IN
  \/ /\ st # "pending" \/ good = {}
     /\ status' = st /\ UNCHANGED offset
  \/ /\ st = "pending"
     /\ \E o \in good :
          /\ \A p \in good : Distance(cands[o], o) <= Distance(cands[p], p)
          /\ offset' = o
          /\ status' = IF o = 0 THEN "utc" ELSE "offset"

(* A tick that is fresh under any offset takes the session out of unsafe   *)
(* and counts as fresh, whichever offset is verified.                      *)
Observe(t) ==
  LET fits == {o \in Offsets : Fresh(t, o)}
      cands == [o \in Offsets |-> IF o \in fits THEN cand[o] \cup {t} ELSE cand[o]]
      st == IF status = "unsafe" /\ fits # {} THEN "pending" ELSE status
  IN  /\ first' = IF first = None THEN t.at ELSE first
      /\ lastFresh' = IF fits = {} THEN lastFresh ELSE t.at
      /\ cand' = cands
      /\ since' = since \cup {t}
      /\ MaybeVerify(st, cands)

(* evaluate_staleness: a verified offset does not outlive a quiet market,  *)
(* and a pending one becomes unsafe; the candidates stay then.             *)
Downgrade(now) ==
  /\ status \in Verified
  /\ lastFresh = None \/ now - lastFresh >= DowngradeAfter
  /\ status' = "pending" /\ offset' = None
  /\ cand' = [o \in Offsets |-> {}] /\ since' = {}
  /\ UNCHANGED <<first, lastFresh>>

MarkUnsafe(now) ==
  /\ status = "pending"
  /\ LET ref == IF lastFresh # None THEN lastFresh ELSE first
     IN  ref # None /\ now - ref >= UnsafeAfter
  /\ status' = "unsafe"
  /\ UNCHANGED <<offset, first, lastFresh, cand, since>>

EvaluateStaleness(now) == Downgrade(now) \/ MarkUnsafe(now)

-----------------------------------------------------------------------------
(* The ticks of S no older than a bound, under an offset.                  *)
Young(S, o, bound) == {t \in S : Age(t, o) <= bound}

(* What ticks must show for an offset: that they are enough, that not all  *)
(* have one time stamp, and how old at most half and one in twenty may be. *)
Earned(S, o) ==
  /\ Cardinality(S) >= Required
  /\ Cardinality({t.raw : t \in S}) >= 2
  /\ 2 * Cardinality(Young(S, o, P50Max)) >= Cardinality(S)
  /\ 20 * Cardinality(Young(S, o, P95Max)) > 19 * (Cardinality(S) - 1)

(* A verified offset rests on enough ticks with different time stamps that  *)
(* fit it, most of them young: all of this connection and none from before  *)
(* the last downgrade, whatever went through pending and unsafe meanwhile. *)
VerifiedIsEarned ==
  status \in Verified =>
    /\ offset \in Offsets /\ (status = "utc" <=> offset = 0)
    /\ \E S \in SUBSET {t \in since : Fresh(t, offset)} : Earned(S, offset)
=============================================================================
