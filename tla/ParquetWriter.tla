--------------------------- MODULE ParquetWriter ---------------------------
(***************************************************************************)
(* ParquetWriter.flush of ingestion/parquet_writer.py, in the steps an     *)
(* asynchronous exception can come between.  A row is its number and the   *)
(* partition (symbol and hour) it belongs to; the buffer is a set, for the *)
(* order of its rows only decides the order of the partitions, and any     *)
(* order is possible.                                                      *)
(***************************************************************************)
EXTENDS Integers

CONSTANTS Rows,     \* row numbers
          Parts     \* partitions

VARIABLES
  buffer,    \* _buffer
  pending,   \* the rows this flush has taken from the buffer
  done,      \* published_event_ids
  cur,       \* rows replaced into place and not yet noted in done
  copies,    \* copies[n]: part files that hold row n
  wpc        \* where the flush is

writerVars == <<buffer, pending, done, cur, copies, wpc>>

Row == [id : Rows, part : Parts]

WriterTypeOK ==
  /\ buffer \subseteq Row /\ pending \subseteq Row
  /\ done \subseteq pending /\ cur \subseteq pending
  /\ copies \in [Rows -> Nat]
  /\ wpc \in {"idle", "hook", "group", "write", "book", "undo", "returned", "raised"}

WriterInit ==
  /\ buffer = {} /\ pending = {} /\ done = {} /\ cur = {}
  /\ copies = [n \in Rows |-> 0]
  /\ wpc = "idle"

Ids(R) == {r.id : r \in R}
Unpublished == pending \ done
Published == {n \in Rows : copies[n] > 0}

(* An empty buffer returns at once, before the hook.                       *)
NothingToFlush ==
  /\ wpc = "hook" /\ buffer = {}
  /\ wpc' = "returned"
  /\ UNCHANGED <<buffer, pending, done, cur, copies>>

(* before_flush_hook returns; the buffer is copied and cleared.            *)
TakeBuffer ==
  /\ wpc = "hook" /\ buffer # {}
  /\ pending' = buffer /\ buffer' = {}
  /\ wpc' = "group"
  /\ UNCHANGED <<done, cur, copies>>

HookRaises ==
  /\ wpc = "hook" /\ buffer # {}
  /\ wpc' = "raised"
  /\ UNCHANGED <<buffer, pending, done, cur, copies>>

(* The rows are grouped by partition, outside the try block.               *)
Group ==
  /\ wpc = "group"
  /\ wpc' = "write"
  /\ UNCHANGED <<buffer, pending, done, cur, copies>>

(* One partition: a temporary file is written and replaced into place.     *)
PublishPart(p) ==
  /\ wpc = "write"
  /\ cur' = {r \in Unpublished : r.part = p}
  /\ cur' # {}
  /\ copies' = [n \in Rows |-> copies[n] + IF n \in Ids(cur') THEN 1 ELSE 0]
  /\ wpc' = "book"
  /\ UNCHANGED <<buffer, pending, done>>

(* Mutant: the partition that was published is not noted.                  *)
MutantForgetsPart ==
  /\ wpc = "book"
  /\ done' = done /\ cur' = {}
  /\ wpc' = IF Unpublished = cur THEN "returned" ELSE "undo"
  /\ UNCHANGED <<buffer, pending, copies>>

Book ==
  /\ wpc = "book"
  /\ done' = done \cup cur /\ cur' = {}
  /\ wpc' = "write"
  /\ UNCHANGED <<buffer, pending, copies>>

(* mkdir, the write or all six attempts of safe_replace failed.            *)
PartFails ==
  /\ wpc = "write" /\ Unpublished # {}
  /\ wpc' = "undo"
  /\ UNCHANGED <<buffer, pending, done, cur, copies>>

(* The except block: what is not noted as published goes back in front.    *)
PutBack ==
  /\ wpc = "undo"
  /\ buffer' = Unpublished \cup buffer
  /\ pending' = {} /\ done' = {} /\ cur' = {}
  /\ wpc' = "raised"
  /\ UNCHANGED copies

FlushReturns ==
  /\ wpc = "write" /\ Unpublished = {}
  /\ pending' = {} /\ done' = {}
  /\ wpc' = "returned"
  /\ UNCHANGED <<buffer, cur, copies>>

(* An exception raised by a signal handler.  Before the buffer is taken it *)
(* leaves the buffer alone, inside the try block it runs the except block, *)
(* and in between, or in the except block itself, the rows taken are gone. *)
FlushInterrupted ==
  /\ \/ /\ wpc = "hook"
        /\ wpc' = "raised" /\ UNCHANGED <<pending, done, cur>>
     \/ /\ wpc \in {"write", "book"}
        /\ wpc' = "undo" /\ UNCHANGED <<pending, done, cur>>
     \/ /\ wpc \in {"group", "undo"}
        /\ wpc' = "raised"
        /\ pending' = {} /\ done' = {} /\ cur' = {}
  /\ UNCHANGED <<buffer, copies>>

FlushStep ==
  \/ NothingToFlush
  \/ Group
  \/ \E p \in Parts : PublishPart(p)
  \/ Book
  \/ PutBack
  \/ FlushReturns
=============================================================================
