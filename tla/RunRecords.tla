------------------------------ MODULE RunRecords ------------------------------
(***************************************************************************)
(* What is on record of the live runs: the manifest and the health file    *)
(* that every logger overwrites, the copies archived for each run and its   *)
(* summary (supervisor._finalize, write_run_scoped_metadata), and how a     *)
(* consumer finds the record of a run (run_metadata.py) or a run for a date *)
(* (run_selection.py).  A document is reduced to its timestamp semantics    *)
(* and the time it was made.  Summaries carry no timestamp_semantics, so    *)
(* they never are a source of the offset.                                  *)
(***************************************************************************)
EXTENDS TimestampSemantics

CONSTANTS Runs,      \* run numbers, in the order of their ids
          Midnight,  \* the last instant of the first date
          NoDoc      \* a file that is not there

VARIABLES
  manifest, health,  \* logger_manifest.json, logger_health.json
  startAt,           \* started_at_utc of each run, 0 before
  arch               \* logger_runs/<run>: which files it holds, and what they say

recordVars == <<manifest, health, startAt, arch>>

Docs == [status : {"pending", "unsafe"} \cup Verified,
         offset : Offsets \cup {None}, made : Nat]
Summaries == [started : Nat, ended : Nat, latest : Nat \cup {None},
              verified : BOOLEAN, offset : Offsets \cup {None}]
Archives == [dir : BOOLEAN, manifest : Docs \cup {NoDoc}, health : Docs \cup {NoDoc},
             summary : Summaries \cup {NoDoc}]

ASSUME RunsAssumption ==
  /\ Runs \subseteq Nat \ {0} /\ Midnight \in Nat
  /\ NoDoc \notin Docs \cup Summaries

Empty == [dir |-> FALSE, manifest |-> NoDoc, health |-> NoDoc, summary |-> NoDoc]

Dates == {1, 2}
DateOf(t) == IF t <= Midnight THEN 1 ELSE 2

RecordTypeOK ==
  /\ manifest \in Docs \cup {NoDoc} /\ health \in Docs \cup {NoDoc}
  /\ startAt \in [Runs -> Nat] /\ arch \in [Runs -> Archives]

RecordInit ==
  /\ manifest = NoDoc /\ health = NoDoc
  /\ startAt = [r \in Runs |-> 0] /\ arch = [r \in Runs |-> Empty]

(* ts.manifest() in a document written now.                                *)
Snapshot(now) == [status |-> status, offset |-> offset, made |-> now]

(* _validate_offset_and_status.                                            *)
IsVerified(doc) ==
  doc # NoDoc /\ doc.offset # None /\ doc.status \in Verified

-----------------------------------------------------------------------------
(* _build_summary: the verdict is read off the manifest all loggers share;   *)
(* latest is the time of the newest data file, whichever run wrote it.       *)
Summary(r, now, latest) ==
  [started |-> startAt[r], ended |-> now, latest |-> latest,
   verified |-> IsVerified(manifest),
   offset |-> IF manifest = NoDoc THEN None ELSE manifest.offset]

(* Mutant: the summary is written before the documents it sums up.          *)
MutantArchive(r, now, latest) ==
  LET all == [dir |-> TRUE, manifest |-> manifest, health |-> health,
              summary |-> Summary(r, now, latest)]
  IN  \E upTo \in 0..4 :
        arch' = [arch EXCEPT ![r] =
          [dir |-> upTo >= 1,
           summary |-> IF upTo >= 2 THEN all.summary ELSE NoDoc,
           manifest |-> IF upTo >= 3 THEN all.manifest ELSE NoDoc,
           health |-> IF upTo = 4 THEN all.health ELSE NoDoc]]

(* write_run_scoped_metadata: the directory, the manifest, the health file  *)
(* and last the summary.  An error ends it wherever it is and is noted.     *)
Archive(r, now, latest) ==
  LET all == [dir |-> TRUE, manifest |-> manifest, health |-> health,
              summary |-> Summary(r, now, latest)]
  IN  \E upTo \in 0..4 :
        arch' = [arch EXCEPT ![r] =
          [dir |-> upTo >= 1,
           manifest |-> IF upTo >= 2 THEN all.manifest ELSE NoDoc,
           health |-> IF upTo >= 3 THEN all.health ELSE NoDoc,
           summary |-> IF upTo = 4 THEN all.summary ELSE NoDoc]]

-----------------------------------------------------------------------------
(* Mutant: a run without a verified document of its own has the shared one.   *)
MutantSourceOf(r) ==
  IF IsVerified(arch[r].manifest) THEN arch[r].manifest
  ELSE IF IsVerified(manifest) THEN manifest ELSE NoDoc

(* _resolve_from_run_scoped_dir: the first document that is verified.       *)
SourceOf(r) ==
  IF IsVerified(arch[r].manifest) THEN arch[r].manifest
  ELSE IF IsVerified(arch[r].health) THEN arch[r].health ELSE NoDoc

Resolves(r) == SourceOf(r) # NoDoc

(* The end of the run or the newest data file, whichever is later.           *)
WindowEnd(s) ==
  IF s.latest # None /\ s.latest > s.ended THEN s.latest ELSE s.ended

(* Mutant: the start of the run is not looked at.                          *)
MutantWindowOf(r) ==
  LET s == arch[r].summary IN
  IF s # NoDoc THEN 0..WindowEnd(s) ELSE {SourceOf(r).made}

(* _enrich_with_run_scoped_companions and run_window_utc: from the summary, *)
(* or else the instant the document was made.                              *)
WindowOf(r) ==
  LET s == arch[r].summary IN
  IF s # NoDoc THEN s.started..WindowEnd(s) ELSE {SourceOf(r).made}

(* resolve_run_metadata without a run id: the offset it settles on, or None. *)
VerifiedFor(date) ==
  {r \in Runs : arch[r].dir /\ DateOf(startAt[r]) = date /\ Resolves(r)}

LegacyOffset ==
  LET doc == IF manifest # NoDoc THEN manifest ELSE health
  IN  IF IsVerified(doc) THEN doc.offset ELSE None

OffsetForDate(date, allowLatest) ==
  LET ok == VerifiedFor(date) IN
  IF Cardinality(ok) = 1 \/ (ok # {} /\ allowLatest)
    THEN SourceOf(CHOOSE r \in ok : \A q \in ok : q <= r).offset
  ELSE IF ok = {} /\ allowLatest THEN LegacyOffset ELSE None

(* _resolve_explicit_path: any document an operator may point at.           *)
NamedOffsets ==
  {doc.offset : doc \in {d \in {manifest, health}
                               \cup {arch[r].manifest : r \in Runs}
                               \cup {arch[r].health : r \in Runs} : IsVerified(d)}}

-----------------------------------------------------------------------------
(* discover_run_candidates and _is_verified: what the selection believes.   *)
CountsAsVerified(r) ==
  IF arch[r].summary # NoDoc THEN arch[r].summary.verified
  ELSE IsVerified(arch[r].manifest)

BelievedOffset(r) ==
  IF arch[r].summary # NoDoc /\ arch[r].summary.offset # None
    THEN arch[r].summary.offset
  ELSE IF arch[r].manifest = NoDoc THEN None ELSE arch[r].manifest.offset

Duration(r) ==
  LET s == arch[r].summary IN IF s = NoDoc THEN 0 ELSE s.ended - s.started

(* The date of a run comes from its name when the summary is missing, its   *)
(* start for the order does not.                                           *)
StartedOf(r) == IF arch[r].summary = NoDoc THEN 0 ELSE arch[r].summary.started

Longer(r, q) ==
  \/ Duration(r) > Duration(q)
  \/ Duration(r) = Duration(q) /\ StartedOf(r) < StartedOf(q)
  \/ Duration(r) = Duration(q) /\ StartedOf(r) = StartedOf(q) /\ r < q

Later(r, q) ==
  StartedOf(r) > StartedOf(q) \/ (StartedOf(r) = StartedOf(q) /\ r > q)

Policies == {"longest", "latest", "explicit", "fail_on_multiple"}

(* select_run_for_date: the runs of a date it takes for verified, and what  *)
(* it answers with.  named is the entry of the run id map.                  *)
VerifiedRuns(date) ==
  {r \in Runs : arch[r].dir /\ DateOf(startAt[r]) = date /\ CountsAsVerified(r)}

Selected(date, policy, named) ==
  LET verified == VerifiedRuns(date)
  IN  CASE policy = "explicit" -> verified \cap {named}
        [] policy = "fail_on_multiple" ->
             IF Cardinality(verified) = 1 THEN verified ELSE {}
        [] policy = "latest" ->
             {r \in verified : \A q \in verified \ {r} : Later(r, q)}
        [] policy = "longest" ->
             {r \in verified : \A q \in verified \ {r} : Longer(r, q)}

(* A run the selection takes for a date can be normalized, and with the     *)
(* offset the selection reported: two readers that look at different files  *)
(* of the archive agree, however far archiving got.  It takes one run at    *)
(* most, and by length or start it takes one if there is one.               *)
SelectionResolves ==
  \A date \in Dates, policy \in Policies, named \in Runs :
    LET chosen == Selected(date, policy, named) IN
    /\ \A r \in chosen :
         Resolves(r) /\ SourceOf(r).offset = BelievedOffset(r) /\ chosen = {r}
    /\ policy \in {"latest", "longest"} /\ chosen = {} => VerifiedRuns(date) = {}
===============================================================================
