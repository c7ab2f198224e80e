-------------------------- MODULE CompactionProofs --------------------------
(***************************************************************************)
(* For every partition and chunk size: a run of the compaction keeps the   *)
(* rows it has listed, and a clean one moves them exactly once.            *)
(***************************************************************************)
EXTENDS Compaction, SequenceTheorems, FiniteSetTheorems, TLAPS

(* The numbers of the files fit, and a listing is a sequence.              *)
LEMMA SizeIsNat == Cardinality(Parts) \in Nat
BY FS_CardinalityType, CompactionAssumption

LEMMA SrcIsSeq ==
  ASSUME TypeOK
  PROVE  Len(src) \in Nat /\ src \in [1..Len(src) -> Parts] /\ DOMAIN src = 1..Len(src)
BY LenProperties DEF TypeOK

LEMMA ListingIsSeq ==
  ASSUME TypeOK, NEW s \in Listing
  PROVE  /\ s \in Seq(Parts) /\ Len(s) \in Nat /\ Len(s) <= Cardinality(Parts)
         /\ DOMAIN s = 1..Len(s)
         /\ \A i \in 1..Len(s) : s[i] \in raw
         /\ \A i, j \in 1..Len(s) : s[i] = s[j] => i = j
<1> DEFINE n == Cardinality(raw)
<1>1. raw \in SUBSET Parts
  BY DEF TypeOK
<1>2. n \in Nat /\ n <= Cardinality(Parts)
  BY <1>1, FS_Subset, FS_CardinalityType, CompactionAssumption
<1>3. s \in [1..n -> raw] /\ \A i, j \in 1..n : i < j => s[i] < s[j]
  BY DEF Listing
<1>4. s \in Seq(Parts)
  <2>1. s \in [1..n -> Parts]
    BY <1>1, <1>3
  <2> HIDE DEF n
  <2>2. QED BY <1>2, <2>1
<1>5. DOMAIN s = 1..n
  BY <1>3
<1>6. Len(s) = n
  BY <1>2, <1>4, <1>5, LenProperties
<1>7. \A i \in 1..n : s[i] \in raw /\ s[i] \in Int
  BY <1>1, <1>3, CompactionAssumption
<1> HIDE DEF n
<1>8. \A i, j \in 1..n : s[i] = s[j] => i = j
  <2> SUFFICES ASSUME NEW i \in 1..n, NEW j \in 1..n, s[i] = s[j], i # j PROVE FALSE
    OBVIOUS
  <2>1. s[i] < s[j] \/ s[j] < s[i]
    BY <1>2, <1>3
  <2>2. QED BY <2>1, <1>7
<1>9. QED BY <1>2, <1>4, <1>5, <1>6, <1>7, <1>8

LEMMA InitInv == Init => CompactionInv
<1> SUFFICES ASSUME Init PROVE CompactionInv
  OBVIOUS
<1>1. src \in Seq(Parts) /\ Len(src) = 0 /\ DOMAIN src = {}
  <2>1. src = <<>>
    BY DEF Init
  <2>2. QED BY <2>1, EmptySeq
<1>2. TypeOK
  BY <1>1, SizeIsNat DEF Init, TypeOK, Slots
<1>3. NamesDiffer /\ RunKeepsSources /\ CleanRunMovesOnce
  BY <1>1 DEF NamesDiffer, RunKeepsSources, CleanRunMovesOnce
<1>4. WrittenFirst /\ CountIsComplete /\ OnlyOwnChunks /\ TriedIsGone
  BY DEF Init, WrittenFirst, CountIsComplete, OnlyOwnChunks, TriedIsGone
<1>5. QED BY <1>2, <1>3, <1>4 DEF CompactionInv

(* A chunk: its bounds, its parts, and the number it is written under.     *)
LEMMA ChunkFacts ==
  ASSUME TypeOK, at < Len(src)
  PROVE  /\ at + 1 <= Upto /\ Upto <= Len(src) /\ Upto \in Nat
         /\ chunk \in Slots
         /\ Chunk \subseteq Parts
         /\ \A f : f \in Chunk <=> \E i \in (at + 1)..Upto : f = src[i]
<1>1. at + 1 <= Upto /\ Upto <= Len(src) /\ Upto \in Nat
  BY SrcIsSeq, CompactionAssumption DEF Upto, TypeOK
<1>2. chunk \in Slots
  BY SrcIsSeq, SizeIsNat DEF TypeOK, Slots
<1>3. \A f : f \in Chunk <=> \E i \in (at + 1)..Upto : f = src[i]
  BY DEF Chunk
<1>4. \A i \in (at + 1)..Upto : src[i] \in Parts
  BY <1>1, SrcIsSeq DEF TypeOK
<1>5. QED BY <1>1, <1>2, <1>3, <1>4

(* What WriteChunk does, whole or short.                                   *)
LEMMA WriteFacts ==
  ASSUME TypeOK, WriteChunk
  PROVE  \E lost \in SUBSET Chunk :
           /\ out' = [out EXCEPT ![chunk] = Chunk \ lost]
           /\ \/ lost = {} /\ rows' = rows + (Upto - at)
              \/ rows' = rows + (Upto - at) - 1
<1>1. CASE out' = [out EXCEPT ![chunk] = Chunk] /\ rows' = rows + (Upto - at)
  <2>1. Chunk = Chunk \ {}
    OBVIOUS
  <2>2. QED BY <1>1, <2>1
<1>2. ASSUME NEW f \in Chunk, out' = [out EXCEPT ![chunk] = Chunk \ {f}],
             rows' = rows + (Upto - at) - 1
      PROVE  \E lost \in SUBSET Chunk :
               /\ out' = [out EXCEPT ![chunk] = Chunk \ lost]
               /\ \/ lost = {} /\ rows' = rows + (Upto - at)
                  \/ rows' = rows + (Upto - at) - 1
  <2>1. {f} \in SUBSET Chunk
    OBVIOUS
  <2>2. QED BY <1>2, <2>1
<1>3. QED BY <1>1, <1>2 DEF WriteChunk

LEMMA TypeStep == TypeOK /\ [Next]_vars => TypeOK'
<1> SUFFICES ASSUME TypeOK, [Next]_vars PROVE TypeOK'
  OBVIOUS
<1> USE DEF dataVars, runVars
<1>1. CASE UNCHANGED vars
  BY <1>1 DEF vars, TypeOK
<1>2. ASSUME NEW f \in Parts, Publish(f) PROVE TypeOK'
  BY <1>2 DEF Publish, TypeOK
<1>3. CASE Midnight
  BY <1>3 DEF Midnight, TypeOK
<1>4. CASE StartRun
  <2>1. src' \in Seq(Parts) /\ Len(src') <= Cardinality(Parts) /\ Len(src') \in Nat
    BY <1>4, ListingIsSeq DEF StartRun
  <2>2. at' = 0 /\ chunk' = 0 /\ rows' = 0 /\ del' = 0 /\ left' = 0 /\ fresh' \in BOOLEAN
    BY <1>4 DEF StartRun
  <2>3. /\ pc' \in {"idle", "write", "delete"}
        /\ result' \in {"none", "passed", "failed", "raised"} /\ UNCHANGED dataVars
    BY <1>4 DEF StartRun, End
  <2>4. QED BY <2>1, <2>2, <2>3 DEF TypeOK
<1>5. CASE WriteChunk
  <2>1. at < Len(src)
    BY <1>5 DEF WriteChunk
  <2>2. PICK lost \in SUBSET Chunk :
          /\ out' = [out EXCEPT ![chunk] = Chunk \ lost]
          /\ \/ lost = {} /\ rows' = rows + (Upto - at)
             \/ rows' = rows + (Upto - at) - 1
    BY <1>5, WriteFacts
  <2>3. out' \in [Slots -> SUBSET Parts]
    BY <2>1, <2>2, ChunkFacts DEF TypeOK
  <2>4. at' = Upto /\ at' \in 0..Len(src) /\ chunk' \in 0..at' /\ rows' \in 0..at'
    BY <1>5, <2>1, <2>2, ChunkFacts, SrcIsSeq DEF WriteChunk, TypeOK
  <2>5. QED BY <1>5, <2>3, <2>4 DEF WriteChunk, TypeOK
<1>6. CASE Validate
  BY <1>6 DEF Validate, End, TypeOK
<1>7. CASE TryDelete
  <2>1. raw' \subseteq raw
    BY <1>7 DEF TryDelete
  <2>2. del' \in 0..Len(src) /\ left' \in 0..del'
    BY <1>7, SrcIsSeq DEF TryDelete, TypeOK
  <2>3. QED BY <1>7, <2>1, <2>2 DEF TryDelete, TypeOK
<1>8. CASE Return \/ Break
  BY <1>8 DEF Return, Break, End, TypeOK
<1>9. QED
  BY <1>1, <1>2, <1>3, <1>4, <1>5, <1>6, <1>7, <1>8 DEF Next, CompactionStep

LEMMA NamesStep == TypeOK /\ NamesDiffer /\ [Next]_vars => NamesDiffer'
<1> SUFFICES ASSUME TypeOK, NamesDiffer, [Next]_vars PROVE NamesDiffer'
  OBVIOUS
<1>1. CASE StartRun
  <2>1. src' \in Listing /\ published' = published /\ raw \subseteq published
    BY <1>1 DEF StartRun, dataVars, TypeOK
  <2>2. /\ DOMAIN src' = 1..Len(src')
        /\ \A i \in 1..Len(src') : src'[i] \in raw
        /\ \A i, j \in 1..Len(src') : src'[i] = src'[j] => i = j
    BY <2>1, ListingIsSeq
  <2>3. QED BY <2>1, <2>2 DEF NamesDiffer
<1>2. CASE UNCHANGED src /\ published \subseteq published'
  BY <1>2 DEF NamesDiffer
<1>3. QED
  BY <1>1, <1>2 DEF Next, CompactionStep, vars, dataVars, runVars, Publish, Midnight, WriteChunk,
     Validate, TryDelete, Return, Break

(* A source stays where it is until the run deletes; a passed validation   *)
(* means that every row has been counted.                                  *)
LEMMA WrittenStep == TypeOK /\ WrittenFirst /\ [Next]_vars => WrittenFirst'
<1> SUFFICES ASSUME TypeOK, WrittenFirst, [Next]_vars PROVE WrittenFirst'
  OBVIOUS
<1> USE DEF WrittenFirst, dataVars, runVars
<1>1. CASE UNCHANGED vars
  BY <1>1 DEF vars
<1>2. ASSUME NEW f \in Parts, Publish(f) PROVE WrittenFirst'
  BY <1>2 DEF Publish
<1>3. CASE Midnight
  BY <1>3 DEF Midnight
<1>4. CASE StartRun
  BY <1>4, ListingIsSeq DEF StartRun, End
<1>5. CASE WriteChunk
  BY <1>5 DEF WriteChunk
<1>6. CASE Validate
  BY <1>6 DEF Validate, End
<1>7. CASE TryDelete
  BY <1>7 DEF TryDelete
<1>8. CASE Return \/ Break
  BY <1>8 DEF Return, Break, End
<1>9. QED
  BY <1>1, <1>2, <1>3, <1>4, <1>5, <1>6, <1>7, <1>8 DEF Next, CompactionStep

(* Parts in a chunk that was written short are missed in the count.        *)
LEMMA CountStep == TypeOK /\ CountIsComplete /\ [Next]_vars => CountIsComplete'
<1> SUFFICES ASSUME TypeOK, CountIsComplete, [Next]_vars PROVE CountIsComplete'
  OBVIOUS
<1> USE DEF CountIsComplete, dataVars, runVars
<1>1. CASE UNCHANGED vars
  BY <1>1 DEF vars
<1>2. ASSUME NEW f \in Parts, Publish(f) PROVE CountIsComplete'
  BY <1>2 DEF Publish
<1>3. CASE Midnight
  BY <1>3 DEF Midnight
<1>4. CASE StartRun
  <2>1. at' = 0
    BY <1>4 DEF StartRun
  <2>2. QED BY <2>1
<1>5. CASE WriteChunk
  <2> SUFFICES ASSUME rows' = at', NEW i \in 1..at'
               PROVE  \E k \in Slots : k < chunk' /\ src'[i] \in out'[k]
    OBVIOUS
  <2>1. at < Len(src) /\ at' = Upto /\ chunk' = chunk + 1 /\ src' = src /\ pc = "write"
    BY <1>5 DEF WriteChunk
  <2>2. PICK lost \in SUBSET Chunk :
          /\ out' = [out EXCEPT ![chunk] = Chunk \ lost]
          /\ \/ lost = {} /\ rows' = rows + (Upto - at)
             \/ rows' = rows + (Upto - at) - 1
    BY <1>5, WriteFacts
  <2>3. rows <= at /\ rows \in Int /\ at \in Nat /\ Upto \in Nat
    BY <2>1, ChunkFacts, SrcIsSeq DEF TypeOK
  <2>4. lost = {} /\ rows = at
    BY <2>1, <2>2, <2>3
  <2>5. out' = [out EXCEPT ![chunk] = Chunk]
    BY <2>2, <2>4
  <2>6. CASE i <= at
    <3>1. PICK k \in Slots : k < chunk /\ src[i] \in out[k]
      BY <2>1, <2>3, <2>4, <2>6
    <3>2. out'[k] = out[k] /\ k < chunk + 1
      BY <2>5, <3>1 DEF TypeOK, Slots
    <3>3. QED BY <2>1, <3>1, <3>2
  <2>7. CASE i > at
    <3>1. src[i] \in Chunk
      BY <2>1, <2>3, <2>7, ChunkFacts
    <3>2. chunk \in Slots /\ out'[chunk] = Chunk /\ chunk < chunk + 1
      BY <2>1, <2>5, ChunkFacts DEF TypeOK, Slots
    <3>3. QED BY <2>1, <3>1, <3>2
  <2>8. QED BY <2>1, <2>3, <2>6, <2>7
<1>6. CASE Validate
  BY <1>6 DEF Validate, End
<1>7. CASE TryDelete
  BY <1>7 DEF TryDelete
<1>8. CASE Return \/ Break
  BY <1>8 DEF Return, Break, End
<1>9. QED
  BY <1>1, <1>2, <1>3, <1>4, <1>5, <1>6, <1>7, <1>8 DEF Next, CompactionStep

(* A fresh run writes each part once: its chunks are disjoint.             *)
LEMMA OwnStep == TypeOK /\ NamesDiffer /\ OnlyOwnChunks /\ [Next]_vars => OnlyOwnChunks'
<1> SUFFICES ASSUME TypeOK, NamesDiffer, OnlyOwnChunks, [Next]_vars PROVE OnlyOwnChunks'
  OBVIOUS
<1> USE DEF OnlyOwnChunks, dataVars, runVars
<1>1. CASE UNCHANGED vars
  BY <1>1 DEF vars
<1>2. ASSUME NEW f \in Parts, Publish(f) PROVE OnlyOwnChunks'
  BY <1>2 DEF Publish
<1>3. CASE Midnight
  BY <1>3 DEF Midnight
<1>4. CASE StartRun
  BY <1>4 DEF StartRun
<1>5. CASE WriteChunk
  <2> SUFFICES ASSUME fresh
               PROVE  /\ \A k \in Slots : k >= chunk' => out'[k] = {}
                      /\ \A k \in Slots : \A f \in out'[k] : \E i \in 1..at' : f = src'[i]
                      /\ \A j, k \in Slots : \A f \in out'[j] : f \in out'[k] => j = k
    BY <1>5 DEF WriteChunk
  <2>1. at < Len(src) /\ at' = Upto /\ chunk' = chunk + 1 /\ src' = src /\ pc # "idle"
    BY <1>5 DEF WriteChunk
  <2>2. PICK lost \in SUBSET Chunk : out' = [out EXCEPT ![chunk] = Chunk \ lost]
    BY <1>5, WriteFacts
  <2>3. /\ at + 1 <= Upto /\ Upto <= Len(src) /\ Upto \in Nat /\ at \in Nat
        /\ chunk \in Slots
    BY <2>1, ChunkFacts, SrcIsSeq DEF TypeOK
  <2>4. out'[chunk] \subseteq Chunk /\ \A k \in Slots \ {chunk} : out'[k] = out[k]
    BY <2>2, <2>3 DEF TypeOK
  <2>5. \A k \in Slots : k >= chunk + 1 => out'[k] = {}
    BY <2>1, <2>3, <2>4 DEF Slots
  <2>6. ASSUME NEW k \in Slots, NEW f \in out'[k] PROVE \E i \in 1..Upto : f = src[i]
    <3>1. CASE k = chunk
      <4>1. PICK i \in (at + 1)..Upto : f = src[i]
        BY <2>1, <2>4, <2>6, <3>1, ChunkFacts
      <4>2. QED BY <2>3, <4>1
    <3>2. CASE k # chunk
      <4>1. PICK i \in 1..at : f = src[i]
        BY <2>1, <2>4, <2>6, <3>2
      <4>2. QED BY <2>3, <4>1
    <3>3. QED BY <3>1, <3>2
  <2>7. ASSUME NEW k \in Slots, k # chunk, NEW f \in out'[k], f \in Chunk PROVE FALSE
    <3>1. PICK i \in 1..at : f = src[i]
      BY <2>1, <2>4, <2>7
    <3>2. PICK j \in (at + 1)..Upto : f = src[j]
      BY <2>1, <2>7, ChunkFacts
    <3>3. i \in DOMAIN src /\ j \in DOMAIN src /\ i # j
      BY <2>3, SrcIsSeq
    <3>4. QED BY <3>1, <3>2, <3>3 DEF NamesDiffer
  <2>8. ASSUME NEW j \in Slots, NEW k \in Slots, NEW f \in out'[j], f \in out'[k] PROVE j = k
    <3>1. CASE j # chunk /\ k # chunk
      BY <2>1, <2>4, <2>8, <3>1
    <3>2. CASE j = chunk /\ k # chunk
      BY <2>4, <2>7, <2>8, <3>2
    <3>3. CASE j # chunk /\ k = chunk
      BY <2>4, <2>7, <2>8, <3>3
    <3>4. QED BY <3>1, <3>2, <3>3
  <2>9. QED BY <2>1, <2>5, <2>6, <2>8
<1>6. CASE Validate
  BY <1>6 DEF Validate, End
<1>7. CASE TryDelete
  BY <1>7 DEF TryDelete
<1>8. CASE Return \/ Break
  BY <1>8 DEF Return, Break, End
<1>9. QED
  BY <1>1, <1>2, <1>3, <1>4, <1>5, <1>6, <1>7, <1>8 DEF Next, CompactionStep

(* A part that was deleted does not come back: names are never used again. *)
LEMMA TriedStep ==
  TypeOK /\ NamesDiffer /\ WrittenFirst /\ TriedIsGone /\ [Next]_vars => TriedIsGone'
<1> SUFFICES ASSUME TypeOK, NamesDiffer, WrittenFirst, TriedIsGone, [Next]_vars PROVE TriedIsGone'
  OBVIOUS
<1> USE DEF TriedIsGone, dataVars, runVars
<1>1. CASE UNCHANGED vars
  BY <1>1 DEF vars
<1>2. ASSUME NEW f \in Parts, Publish(f) PROVE TriedIsGone'
  <2>1. \A i \in 1..del : src[i] # f
    BY <1>2, SrcIsSeq DEF Publish, NamesDiffer, TypeOK
  <2>2. QED BY <1>2, <2>1 DEF Publish
<1>3. CASE Midnight
  BY <1>3 DEF Midnight
<1>4. CASE StartRun
  BY <1>4 DEF StartRun, End
<1>5. CASE WriteChunk
  BY <1>5 DEF WriteChunk
<1>6. CASE Validate
  BY <1>6, SrcIsSeq DEF Validate, End, TypeOK, WrittenFirst
<1>7. CASE TryDelete
  <2> SUFFICES ASSUME left' = 0, NEW i \in 1..del' PROVE src'[i] \notin raw'
    OBVIOUS
  <2>1. del \in Nat /\ left \in Nat /\ del' = del + 1 /\ src' = src /\ pc = "delete"
    BY <1>7, SrcIsSeq DEF TryDelete, TypeOK
  <2>2. left = 0 /\ raw' = raw \ {src[del + 1]}
    BY <1>7, <2>1 DEF TryDelete
  <2>3. QED BY <2>1, <2>2
<1>8. CASE Return \/ Break
  BY <1>8 DEF Return, Break, End
<1>9. QED
  BY <1>1, <1>2, <1>3, <1>4, <1>5, <1>6, <1>7, <1>8 DEF Next, CompactionStep

(* What a run has listed can be read: in place while it writes, in the     *)
(* chunks while it deletes, and wherever it was when the run ended.        *)
LEMMA KeepStep ==
  TypeOK /\ NamesDiffer /\ WrittenFirst /\ CountIsComplete /\ RunKeepsSources /\ [Next]_vars
    => RunKeepsSources'
<1> SUFFICES ASSUME TypeOK, NamesDiffer, WrittenFirst, CountIsComplete, RunKeepsSources, [Next]_vars
             PROVE  RunKeepsSources'
  OBVIOUS
<1> USE DEF RunKeepsSources, Held, dataVars, runVars
<1>1. CASE UNCHANGED vars
  BY <1>1 DEF vars
<1>2. ASSUME NEW f \in Parts, Publish(f) PROVE RunKeepsSources'
  BY <1>2 DEF Publish
<1>3. CASE Midnight
  BY <1>3 DEF Midnight
<1>4. CASE StartRun
  <2>1. src' \in Listing /\ raw' = raw
    BY <1>4 DEF StartRun
  <2>2. \A i \in DOMAIN src' : src'[i] \in raw
    BY <2>1, ListingIsSeq
  <2>3. QED BY <2>1, <2>2
<1>5. CASE WriteChunk
  BY <1>5 DEF WriteChunk, WrittenFirst
<1>6. CASE Validate
  BY <1>6 DEF Validate
<1>7. CASE TryDelete
  <2>1. rows = at /\ at = Len(src) /\ out' = out /\ src' = src
    BY <1>7 DEF TryDelete, WrittenFirst
  <2>2. \A i \in DOMAIN src : \E k \in Slots : src[i] \in out[k]
    BY <1>7, <2>1, SrcIsSeq DEF TryDelete, CountIsComplete
  <2>3. QED BY <2>1, <2>2
<1>8. CASE Return \/ Break
  BY <1>8 DEF Return, Break
<1>9. QED
  BY <1>1, <1>2, <1>3, <1>4, <1>5, <1>6, <1>7, <1>8 DEF Next, CompactionStep

(* A clean run in an empty directory has moved each part once, and nothing *)
(* undoes that before the next run.                                        *)
LEMMA CleanStep ==
  CompactionInv /\ [Next]_vars => CleanRunMovesOnce'
<1> SUFFICES ASSUME CompactionInv, [Next]_vars PROVE CleanRunMovesOnce'
  OBVIOUS
<1> USE DEF CleanRunMovesOnce, dataVars, runVars, CompactionInv
<1>1. CASE UNCHANGED vars
  BY <1>1 DEF vars
<1>2. ASSUME NEW f \in Parts, Publish(f) PROVE CleanRunMovesOnce'
  <2>1. \A i \in DOMAIN src : src[i] # f
    BY <1>2 DEF Publish, NamesDiffer
  <2>2. QED BY <1>2, <2>1 DEF Publish
<1>3. CASE Midnight
  BY <1>3 DEF Midnight
<1>4. CASE StartRun
  <2>1. CASE raw = {}
    <3>1. src' \in Listing
      BY <1>4 DEF StartRun
    <3>2. DOMAIN src' = {}
      BY <2>1, <3>1, ListingIsSeq
    <3>3. QED BY <3>2
  <2>2. CASE raw # {}
    BY <1>4, <2>2 DEF StartRun, End
  <2>3. QED BY <2>1, <2>2
<1>5. CASE WriteChunk
  BY <1>5 DEF WriteChunk
<1>6. CASE Validate
  BY <1>6 DEF Validate, End
<1>7. CASE TryDelete
  BY <1>7 DEF TryDelete
<1>8. CASE Return
  <2> SUFFICES ASSUME left = 0, fresh, NEW i \in DOMAIN src
               PROVE  /\ src[i] \notin raw
                      /\ \E k \in Slots : \A j \in Slots : src[i] \in out[j] <=> j = k
    BY <1>8 DEF Return
  <2>1. pc = "delete" /\ del = Len(src) /\ rows = at /\ at = Len(src) /\ i \in 1..Len(src)
    BY <1>8, SrcIsSeq DEF Return, WrittenFirst
  <2>2. src[i] \notin raw
    BY <2>1 DEF TriedIsGone
  <2>3. PICK k \in Slots : src[i] \in out[k]
    BY <2>1 DEF CountIsComplete
  <2>4. \A j \in Slots : src[i] \in out[j] <=> j = k
    BY <2>1, <2>3 DEF OnlyOwnChunks
  <2>5. QED BY <2>2, <2>4
<1>9. CASE Break
  BY <1>9 DEF Break, End
<1>10. QED
  BY <1>1, <1>2, <1>3, <1>4, <1>5, <1>6, <1>7, <1>8, <1>9 DEF Next, CompactionStep

(* The inductive invariant holds over any number of runs.                  *)
THEOREM CompactionInvHolds == Spec => []CompactionInv
<1>1. CompactionInv /\ [Next]_vars => CompactionInv'
  BY TypeStep, NamesStep, WrittenStep, CountStep, OwnStep, TriedStep, KeepStep, CleanStep
     DEF CompactionInv
<1>2. QED BY InitInv, <1>1, PTL DEF Spec

(* Every state of the compaction is well typed.                            *)
THEOREM CompactionTypes == Spec => []TypeOK
<1>1. CompactionInv => TypeOK
  BY DEF CompactionInv
<1>2. QED BY CompactionInvHolds, <1>1, PTL

(* compact_partition, wherever it breaks off, keeps the rows it listed.    *)
THEOREM ListedRowsAreKept == Spec => []RunKeepsSources
<1>1. CompactionInv => RunKeepsSources
  BY DEF CompactionInv
<1>2. QED BY CompactionInvHolds, <1>1, PTL

(* A clean first run moves each part into exactly one compacted file.      *)
THEOREM CleanRunIsExact == Spec => []CleanRunMovesOnce
<1>1. CompactionInv => CleanRunMovesOnce
  BY DEF CompactionInv
<1>2. QED BY CompactionInvHolds, <1>1, PTL

(* The steps left are counted by a number.                                 *)
LEMMA RankIsBounded == CompactionInv => Rank \in 0..(2 * Len(src) + 2)
<1> SUFFICES ASSUME CompactionInv PROVE Rank \in 0..(2 * Len(src) + 2)
  OBVIOUS
<1>1. /\ Len(src) \in Nat /\ at \in 0..Len(src) /\ del \in 0..Len(src)
      /\ pc \in {"idle", "write", "delete"}
  BY SrcIsSeq DEF CompactionInv, TypeOK
<1>2. QED BY <1>1 DEF Rank

(* A run writes, compares and deletes once each: over a listing of n parts *)
(* it takes 2 * n + 2 steps at most, whatever is locked, and whatever is   *)
(* published beside it (compact_partition).                                *)
THEOREM CompactionGoesOneWay ==
  Spec => CompactionAdvances /\ [](Rank \in 0..(2 * Len(src) + 2))
<1>1. CompactionInv /\ Next => (pc # "idle" => Rank' < Rank \/ UNCHANGED <<pc, runVars>>)
  <2> SUFFICES ASSUME CompactionInv, Next, pc # "idle"
               PROVE  Rank' < Rank \/ UNCHANGED <<pc, runVars>>
    OBVIOUS
  <2>1. /\ Len(src) \in Nat /\ at \in 0..Len(src) /\ del \in 0..Len(src)
        /\ pc \in {"write", "delete"} /\ (pc = "write" => del = 0)
    BY SrcIsSeq DEF CompactionInv, TypeOK, WrittenFirst
  <2>2. CASE WriteChunk
    <3>1. pc = "write" /\ pc' = "write" /\ src' = src /\ at' = Upto /\ at < Len(src)
      BY <2>2 DEF WriteChunk
    <3>2. Upto \in Nat /\ at < Upto /\ Upto <= Len(src)
      BY <2>1, <3>1, CompactionAssumption DEF Upto
    <3>3. QED BY <2>1, <3>1, <3>2 DEF Rank
  <2>3. CASE Validate
    <3>1. pc = "write" /\ pc' \in {"delete", "idle"} /\ src' = src /\ del' = del /\ at = Len(src)
      BY <2>3 DEF Validate, End
    <3>2. QED BY <2>1, <3>1 DEF Rank
  <2>4. CASE TryDelete
    <3>1. pc = "delete" /\ pc' = "delete" /\ src' = src /\ del' = del + 1 /\ del < Len(src)
      BY <2>4 DEF TryDelete
    <3>2. QED BY <2>1, <3>1 DEF Rank
  <2>5. CASE Return \/ Break
    <3>1. pc' = "idle"
      BY <2>5 DEF Return, Break, End
    <3>2. QED BY <2>1, <3>1 DEF Rank
  <2>6. CASE Midnight \/ \E f \in Parts : Publish(f)
    BY <2>6 DEF Midnight, Publish
  <2>7. QED BY <2>2, <2>3, <2>4, <2>5, <2>6 DEF Next, CompactionStep, StartRun
<1>2. QED BY <1>1, RankIsBounded, CompactionInvHolds, PTL DEF Spec, CompactionAdvances
=============================================================================
