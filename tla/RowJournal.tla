---------------------------- MODULE RowJournal ----------------------------
(***************************************************************************)
(* What a logger promises of the rows it makes (ingestion/main.py with     *)
(* ingestion/parquet_writer.py), whatever the terminal, the disk, the stop *)
(* file and signals do.                                                    *)
(*                                                                         *)
(* A row is made once, is held by the process and is then saved.  Nothing  *)
(* saved is taken back.  Only a fault, a signal or a kill, may drop a row  *)
(* that is held, and only after one may a saved row be held, and be saved, *)
(* again: at most once for each fault.  The process never holds more than  *)
(* Capacity rows, which is what a fault can cost, and it closes in order   *)
(* only when it holds none.                                                *)
(***************************************************************************)
EXTENDS Integers, FiniteSets

CONSTANTS AllRows,   \* the numbers of rows
          Capacity   \* the most rows that are held

VARIABLES
  made,     \* how many rows were made: 1..made
  rows,     \* those the process holds
  saved,    \* saved[n]: how often row n was saved
  faults,   \* signals and kills so far
  state     \* "open"; "closed" in order; "dropped" with what it held

journalVars == <<made, rows, saved, faults, state>>

Safe == {n \in AllRows : saved[n] > 0}

JournalTypeOK ==
  /\ made \in Nat /\ faults \in Nat
  /\ rows \subseteq AllRows /\ saved \in [AllRows -> Nat]
  /\ state \in {"open", "closed", "dropped"}

JournalInit ==
  /\ made = 0 /\ rows = {} /\ saved = [n \in AllRows |-> 0] /\ faults = 0
  /\ state = "open"

Make ==
  /\ state = "open"
  /\ made' = made + 1 /\ made' \in AllRows
  /\ rows' = rows \cup {made'} /\ Cardinality(rows') <= Capacity
  /\ UNCHANGED <<saved, faults, state>>

Save(S) ==
  /\ state = "open" /\ S \subseteq rows
  /\ rows' = rows \ S
  /\ saved' = [n \in AllRows |-> saved[n] + IF n \in S THEN 1 ELSE 0]
  /\ UNCHANGED <<made, faults, state>>

(* Rows that were saved when a fault came, and not known to be.            *)
Recall(S) ==
  /\ state = "open" /\ S \subseteq Safe /\ \A n \in S : saved[n] <= faults
  /\ rows' = rows \cup S /\ Cardinality(rows') <= Capacity
  /\ UNCHANGED <<made, saved, faults, state>>

Fault ==
  /\ state = "open"
  /\ faults' = faults + 1
  /\ rows' \subseteq rows
  /\ state' \in {"open", "dropped"}
  /\ UNCHANGED <<made, saved>>

Close ==
  /\ state = "open"
  /\ \/ state' = "closed" /\ rows = {}
     \/ state' = "dropped"
  /\ UNCHANGED <<made, rows, saved, faults>>

JournalNext ==
  \/ Make
  \/ \E S \in SUBSET AllRows : Save(S) \/ Recall(S)
  \/ Fault
  \/ Close

JournalSpec == JournalInit /\ [][JournalNext]_journalVars

(* Without a fault every row made is held or saved, and not both; with     *)
(* faults it is saved once more for each of them at most; what is held     *)
(* fits, and a process that closed in order holds nothing.                 *)
JournalIsExact ==
  /\ \A n \in AllRows : saved[n] <= 1 + faults
  /\ faults = 0 => rows \cup Safe = 1..made /\ rows \cap Safe = {}
  /\ Cardinality(rows) <= Capacity
  /\ state = "closed" => rows = {}

(* What is saved stays saved, and nothing happens after the end.           *)
JournalIsFinal ==
  [][/\ Safe \subseteq Safe'
     /\ state # "open" => UNCHANGED journalVars]_journalVars

(* What the steps preserve: only rows that were made are held or saved,    *)
(* and one that is held was saved no more often than faults allow.         *)
JournalInv ==
  /\ JournalTypeOK /\ JournalIsExact
  /\ \A n \in rows : n \in 1..made /\ saved[n] <= faults
  /\ \A n \in AllRows : saved[n] > 0 => n \in 1..made
=============================================================================
