---------------------------- MODULE Normalization ----------------------------
(***************************************************************************)
(* Bronze rows into Silver rows with a verified offset                     *)
(* (normalization/normalization.py, scripts/normalize_telemetry.py), in     *)
(* the directories of silver_paths.py.  A job that names a run reads the    *)
(* rows of its window and writes below run_id=<run>; one that does not      *)
(* reads and writes the whole date.  A job lists its files first and then   *)
(* touches its own directories only, so that its steps are taken as one,    *)
(* which may end after any file.  Every row is taken for a part file of its *)
(* own; what a Silver row adds to its Bronze row, is_join_safe too, follows   *)
(* from it and the offset.  Nothing reads the normalization manifest.       *)
(***************************************************************************)
EXTENDS RunRecords

CONSTANT Symbols

VARIABLES
  bronze,  \* rows of the logger's part files
  silver   \* rows of Silver part files, with the directory and the offset used

Scopes == Runs \cup {0}    \* 0 is the date-level directory

Rows == [at : Nat, raw : Int, sym : Symbols, run : Runs]
SilverRows == [date : Dates, scope : Scopes, row : Rows, offset : Offsets]

NormTypeOK == bronze \subseteq Rows /\ silver \subseteq SilverRows
NormInit == bronze = {} /\ silver = {}

-----------------------------------------------------------------------------
(* plan_normalization: the files of the date; _filter_bronze_to_window.     *)
BronzeOf(date) == {x \in bronze : DateOf(x.at) = date}

Silver(date, scope, syms) ==
  {x \in silver : x.date = date /\ x.scope = scope /\ x.row.sym \in syms}

Built(date, scope, off, window, syms) ==
  {[date |-> date, scope |-> scope, row |-> x, offset |-> off] :
     x \in {y \in BronzeOf(date) : y.sym \in syms /\ (scope = 0 \/ y.at \in window)}}

(* normalize: symbol after symbol.  Existing output without --force raises,  *)
(* and so may anything else, with the symbols before it written: a job with  *)
(* --force can end in all the ways of one without.  Within a symbol old parts *)
(* are unlinked one by one, then new ones written.                          *)
Normalize(date, scope, off, window) ==
  LET symbols == {x.sym : x \in BronzeOf(date)} IN
  \E done \in SUBSET symbols :
    LET written == (silver \ Silver(date, scope, done))
                     \cup Built(date, scope, off, window, done)
    IN  \/ silver' = written
        \/ \E s \in symbols \ done :
             LET old == Silver(date, scope, {s})
                 new == Built(date, scope, off, window, {s})
             IN  \/ \E gone \in SUBSET old : silver' = written \ gone
                 \/ \E kept \in SUBSET new : silver' = (written \ old) \cup kept

(* --run-id: the record and the window of that run.                        *)
NormalizeRun(r, date) ==
  /\ Resolves(r)
  /\ Normalize(date, r, SourceOf(r).offset, WindowOf(r))

(* No run id: the record chosen for the date, or one pointed at.            *)
NormalizeDate(date, off) ==
  /\ off \in NamedOffsets \cup {OffsetForDate(date, TRUE),
                                OffsetForDate(date, FALSE)}
  /\ Normalize(date, 0, off, {})
=============================================================================
