----------------------------- MODULE Compaction -----------------------------
(***************************************************************************)
(* ingestion/compaction.py on one partition, a symbol and a date, over any *)
(* number of runs.  compact_all_closed compacts the partitions one after   *)
(* the other; their directories have nothing in common.                    *)
(*                                                                         *)
(* A part is known by its place in the order of file names and stands for  *)
(* its rows; every part has as many.  A compacted file is the set of the   *)
(* parts whose rows it holds.                                              *)
(***************************************************************************)
EXTENDS Integers, Sequences, FiniteSets

CONSTANTS
  Parts,       \* the raw part files of the partition, in the order of their names
  ChunkFiles   \* chunk_files

ASSUME CompactionAssumption ==
  /\ Parts \subseteq Int /\ IsFiniteSet(Parts)
  /\ ChunkFiles \in Nat \ {0}

Slots == 0..Cardinality(Parts)   \* the numbers of part-compacted-NNN.parquet

VARIABLES
  closed,      \* the partition's date is over
  published,   \* history: parts the logger has published
  raw,         \* raw parts there are
  out,         \* compacted files, {} for one there is not
  pc,          \* where compact_partition is
  src,         \* source_files of the run, or of the last one
  at,          \* how many of them are in a chunk already
  chunk,       \* idx
  rows,        \* output_rows, counted in parts
  del,         \* how many of source_files the last loop has tried
  left,        \* sources_left_due_to_lock
  result,      \* how the last run ended
  fresh        \* history: it found no compacted file

dataVars == <<closed, published, raw, out>>
runVars == <<src, at, chunk, rows, del, left, result, fresh>>
vars == <<dataVars, pc, runVars>>

Held(f) == f \in raw \/ \E k \in Slots : f \in out[k]

TypeOK ==
  /\ closed \in BOOLEAN
  /\ raw \subseteq published /\ published \subseteq Parts
  /\ out \in [Slots -> SUBSET Parts]
  /\ pc \in {"idle", "write", "delete"}
  /\ src \in Seq(Parts) /\ Len(src) <= Cardinality(Parts)
  /\ at \in 0..Len(src) /\ chunk \in 0..at
  /\ rows \in 0..at
  /\ del \in 0..Len(src) /\ left \in 0..del
  /\ result \in {"none", "passed", "failed", "raised"}
  /\ fresh \in BOOLEAN

Init ==
  /\ closed = FALSE /\ published = {} /\ raw = {} /\ out = [k \in Slots |-> {}]
  /\ pc = "idle" /\ src = <<>> /\ at = 0 /\ chunk = 0 /\ rows = 0 /\ del = 0 /\ left = 0
  /\ result = "none" /\ fresh = TRUE

-----------------------------------------------------------------------------
(* The logger publishes a part: rows it still buffers when the day is over *)
(* come after midnight, under any name.                                    *)
Publish(f) ==
  /\ f \notin published
  /\ published' = published \cup {f} /\ raw' = raw \cup {f}
  /\ UNCHANGED <<closed, out, pc, runVars>>

Midnight == ~closed /\ closed' = TRUE /\ UNCHANGED <<published, raw, out, pc, runVars>>

(* _list_raw_part_files: the sorted parts.                                 *)
Listing ==
  {s \in [1..Cardinality(raw) -> raw] :
     /\ \A f \in raw : \E i \in DOMAIN s : s[i] = f
     /\ \A i, j \in DOMAIN s : i < j => s[i] < s[j]}

End(r) == pc' = "idle" /\ result' = r

(* A run lists the partition; an unreadable part ends it, as no part does. *)
StartRun ==
  /\ pc = "idle" /\ closed
  /\ src' \in Listing
  /\ at' = 0 /\ chunk' = 0 /\ rows' = 0 /\ del' = 0 /\ left' = 0
  /\ fresh' = (\A k \in Slots : out[k] = {})
  /\ \/ raw = {} /\ End("passed")
     \/ raw # {} /\ End("failed")
     \/ raw # {} /\ pc' = "write" /\ result' = "none"
  /\ UNCHANGED dataVars

(* _chunked: where the next chunk ends, and its parts.                     *)
Upto == IF at + ChunkFiles < Len(src) THEN at + ChunkFiles ELSE Len(src)

Chunk == {src[i] : i \in (at + 1)..Upto}

(* A chunk replaces whatever has its number.  pyarrow may return less than *)
(* it was given, which is what the row count is compared for.              *)
WriteChunk ==
  /\ pc = "write" /\ at < Len(src)
  /\ \/ out' = [out EXCEPT ![chunk] = Chunk] /\ rows' = rows + (Upto - at)
     \/ \E f \in Chunk :
          out' = [out EXCEPT ![chunk] = Chunk \ {f}] /\ rows' = rows + (Upto - at) - 1
  /\ at' = Upto /\ chunk' = chunk + 1
  /\ UNCHANGED <<closed, published, raw, pc, src, del, left, result, fresh>>

(* Mutant: the sources are deleted whatever the counts say.                *)
MutantDeletesAnyway ==
  /\ pc = "write" /\ at = Len(src) /\ pc' = "delete" /\ result' = result
  /\ UNCHANGED <<dataVars, src, at, chunk, rows, del, left, fresh>>

(* validation_passed: as many rows out as in.                              *)
Validate ==
  /\ pc = "write" /\ at = Len(src)
  /\ \/ rows = Len(src) /\ pc' = "delete" /\ result' = result
     \/ rows # Len(src) /\ End("failed")
  /\ UNCHANGED <<dataVars, src, at, chunk, rows, del, left, fresh>>

(* Mutant: a source that is locked counts as deleted.                      *)
MutantLockedIsDeleted ==
  /\ pc = "delete" /\ del < Len(src) /\ del' = del + 1
  /\ raw' \in {raw \ {src[del + 1]}, raw}
  /\ UNCHANGED <<closed, published, out, pc, src, at, chunk, rows, left, result, fresh>>

(* Mutant: at a source that is locked the deletion starts over.            *)
MutantStartsOver ==
  /\ pc = "delete" /\ del < Len(src)
  /\ \/ raw' = raw \ {src[del + 1]} /\ del' = del + 1
     \/ raw' = raw /\ del' = 0
  /\ UNCHANGED <<closed, published, out, pc, src, at, chunk, rows, left, result, fresh>>

(* _try_delete: a source may be locked.                                    *)
TryDelete ==
  /\ pc = "delete" /\ del < Len(src) /\ del' = del + 1
  /\ \/ raw' = raw \ {src[del + 1]} /\ left' = left
     \/ raw' = raw /\ left' = left + 1
  /\ UNCHANGED <<closed, published, out, pc, src, at, chunk, rows, result, fresh>>

Return ==
  /\ pc = "delete" /\ del = Len(src) /\ End("passed")
  /\ UNCHANGED <<dataVars, src, at, chunk, rows, del, left, fresh>>

CompactionStep == WriteChunk \/ Validate \/ TryDelete \/ Return

(* An exception leaves compact_all_closed, or the process dies.            *)
Break ==
  /\ pc # "idle" /\ End("raised")
  /\ UNCHANGED <<dataVars, src, at, chunk, rows, del, left, fresh>>

Next ==
  \/ \E f \in Parts : Publish(f)
  \/ Midnight \/ StartRun \/ CompactionStep \/ Break

Spec == Init /\ [][Next]_vars

(* A run never waits: safe_replace gives up after six attempts.            *)
FairSpec == Spec /\ WF_vars(CompactionStep)

-----------------------------------------------------------------------------
(* Whatever a run does and wherever it breaks off, the rows it has listed  *)
(* are still in a raw part or in a compacted file, until the next run.     *)
RunKeepsSources == \A i \in DOMAIN src : Held(src[i])

(* A run that passes, leaves nothing because of a lock and found no        *)
(* compacted file has moved each part it listed into exactly one.          *)
CleanRunMovesOnce ==
  pc = "idle" /\ result = "passed" /\ left = 0 /\ fresh =>
    \A i \in DOMAIN src :
      /\ src[i] \notin raw
      /\ \E k \in Slots : \A j \in Slots : src[i] \in out[j] <=> j = k

(* What a run has still to do at most: parts to write, the comparison, the *)
(* sources to delete, the return.                                          *)
Rank ==
  CASE pc = "idle"   -> 0
    [] pc = "write"  -> (Len(src) - at) + Len(src) + 2
    [] pc = "delete" -> (Len(src) - del) + 1

(* A run repeats nothing: with every step of its own it has less to do.    *)
CompactionAdvances ==
  [][pc # "idle" => Rank' < Rank \/ UNCHANGED <<pc, runVars>>]_vars

(* A run ends.                                                             *)
CompactionEnds == pc # "idle" ~> pc = "idle"

(* Rows that were published can be read, raw or compacted.                 *)
RowsSurvive == \A f \in published : Held(f)

-----------------------------------------------------------------------------
(* What the properties rest on: the strengthening every step preserves.    *)

(* The names in a listing differ and are those of published parts.         *)
NamesDiffer ==
  /\ \A i, j \in DOMAIN src : src[i] = src[j] => i = j
  /\ \A i \in DOMAIN src : src[i] \in published

(* Nothing is deleted before everything has been written.                  *)
WrittenFirst ==
  /\ pc = "write" => del = 0 /\ \A i \in DOMAIN src : src[i] \in raw
  /\ pc = "delete" => at = Len(src) /\ rows = at

(* As many rows as parts means that no part is missing.                    *)
CountIsComplete ==
  pc # "idle" /\ rows = at =>
    \A i \in 1..at : \E k \in Slots : k < chunk /\ src[i] \in out[k]

(* In an empty directory there is only what this run has written.          *)
OnlyOwnChunks ==
  pc # "idle" /\ fresh =>
    /\ \A k \in Slots : k >= chunk => out[k] = {}
    /\ \A k \in Slots : \A f \in out[k] : \E i \in 1..at : f = src[i]
    /\ \A j, k \in Slots : \A f \in out[j] : f \in out[k] => j = k

(* What has been tried is gone or was locked.                              *)
TriedIsGone == pc = "delete" /\ left = 0 => \A i \in 1..del : src[i] \notin raw

CompactionInv ==
  /\ TypeOK /\ NamesDiffer /\ WrittenFirst /\ CountIsComplete /\ OnlyOwnChunks /\ TriedIsGone
  /\ RunKeepsSources /\ CleanRunMovesOnce
=============================================================================
