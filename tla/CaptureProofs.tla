--------------------------- MODULE CaptureProofs ---------------------------
(***************************************************************************)
(* For every set of symbols, quotes and partitions, any heartbeat, buffer  *)
(* size and number of signals: no row the tick filter emitted is lost or   *)
(* written twice unless a signal interrupts the logger, which implements   *)
(* the journal of RowJournal.                                              *)
(***************************************************************************)
EXTENDS Capture, FiniteSetTheorems, WellFoundedInduction, TLAPS

LEMMA RowsAreNumbers == Rows \subseteq Nat /\ \A n \in Rows : n > 0 /\ n <= MaxTicks
BY CaptureAssumption

LEMMA InitInv == Init => CaptureInv
<1> SUFFICES ASSUME Init PROVE CaptureInv
  OBVIOUS
<1> USE DEF Init, FilterInit, WriterInit
<1>1. TypeOK
  <2>1. FilterTypeOK
    BY DEF FilterTypeOK
  <2>2. WriterTypeOK
    BY DEF WriterTypeOK
  <2>3. seen <= MaxTicks /\ signals \in 0..MaxSignals
    BY CaptureAssumption
  <2>4. QED BY <2>1, <2>2, <2>3 DEF TypeOK
<1>2. LocalsEnd /\ TickInHand /\ NumbersAreUnique
  BY DEF LocalsEnd, TickInHand, NumbersAreUnique
<1>3. CopiesAreNoted /\ NoRowDropped
  BY DEF CopiesAreNoted, NoRowDropped, Waiting
<1>4. QED BY <1>1, <1>2, <1>3 DEF CaptureInv

(* Type correctness is preserved by every step.                            *)
LEMMA TypeStep == TypeOK /\ TickInHand /\ LocalsEnd /\ [Next]_vars => TypeOK'
<1> SUFFICES ASSUME TypeOK, TickInHand, LocalsEnd, [Next]_vars PROVE TypeOK'
  OBVIOUS
<1> USE DEF TypeOK, FilterTypeOK, WriterTypeOK
<1>1. CASE UNCHANGED vars
  BY <1>1 DEF vars, filterVars, writerVars, loopVars, envVars
<1> USE DEF filterVars, writerVars, loopVars, envVars
<1>2. CASE Start
  BY <1>2 DEF Start, Leave
<1>3. CASE TopOfLoop
  BY <1>3 DEF TopOfLoop, Leave
<1>4. ASSUME NEW s \in Symbols, PollNothing(s) PROVE TypeOK'
  BY <1>4 DEF PollNothing
<1>5. ASSUME NEW s \in Symbols, NEW tick \in Ticks, PollTick(s, tick) PROVE TypeOK'
  <2>1. <<s, tick.time>> \in Symbols \X Times
    BY DEF Ticks
  <2>2. lastSeen' \subseteq Symbols \X Times
    BY <1>5, <2>1 DEF PollTick
  <2>3. QED BY <1>5, <2>2 DEF PollTick
<1>6. CASE SessionLost
  BY <1>6 DEF SessionLost, Leave
<1>7. CASE ConsiderRepeat
  <2>1. hand.sym \in Symbols /\ hand.tick \in [quote : Quotes, time : Int] /\ seen < MaxTicks
    BY <1>7, FilterAssumption DEF ConsiderRepeat, TickInHand, Ticks
  <2>2. FilterTypeOK'
    BY <1>7, <2>1 DEF ConsiderRepeat, Suppress
  <2>3. seen' <= MaxTicks
    BY <1>7, <2>1, CaptureAssumption DEF ConsiderRepeat, Suppress
  <2>4. QED BY <1>7, <2>2, <2>3 DEF ConsiderRepeat
<1>8. CASE ConsiderNews
  <2>1. hand.sym \in Symbols /\ hand.tick \in [quote : Quotes, time : Int] /\ seen < MaxTicks
    BY <1>8, FilterAssumption DEF ConsiderNews, TickInHand, Ticks
  <2>2. FilterTypeOK'
    BY <1>8, <2>1 DEF ConsiderNews, Emit
  <2>3. seen' <= MaxTicks
    BY <1>8, <2>1, CaptureAssumption DEF ConsiderNews, Emit
  <2>4. QED BY <1>8, <2>2, <2>3 DEF ConsiderNews
<1>9. CASE Add
  <2>1. hand.sym \in Symbols /\ emitted \in Rows
    BY <1>9, CaptureAssumption DEF Add, TickInHand
  <2>2. buffer' \subseteq Row
    BY <1>9, <2>1, CaptureAssumption DEF Add, Row
  <2>3. QED BY <1>9, <2>2 DEF Add
<1>10. CASE EndRound
  BY <1>10 DEF EndRound, Leave
<1>11. CASE FlushRuns
  <2>1. WriterTypeOK'
    <3>1. CASE NothingToFlush \/ Group \/ TakeBuffer
      BY <3>1 DEF NothingToFlush, Group, TakeBuffer, LocalsEnd
    <3>2. ASSUME NEW p \in Parts, PublishPart(p) PROVE WriterTypeOK'
      <4>1. \A n \in Rows : copies'[n] \in Nat
        BY <3>2 DEF PublishPart
      <4>2. copies' \in [Rows -> Nat]
        BY <3>2, <4>1 DEF PublishPart
      <4>3. QED BY <3>2, <4>2 DEF PublishPart, Unpublished
    <3>3. CASE Book \/ PutBack \/ FlushReturns
      BY <3>3 DEF Book, PutBack, FlushReturns, Unpublished, LocalsEnd
    <3>4. QED BY <1>11, <3>1, <3>2, <3>3 DEF FlushRuns, FlushStep
  <2>2. QED BY <1>11, <2>1 DEF FlushRuns
<1>12. CASE FlushFails
  BY <1>12 DEF FlushFails, HookRaises, PartFails, Raising
<1>13. CASE FlushEnds
  BY <1>13 DEF FlushEnds, Leave
<1>14. CASE Exit
  BY <1>14 DEF Exit
<1>15. CASE Signal
  BY <1>15, CaptureAssumption DEF Signal, Leave, FlushInterrupted, Raising
<1>16. CASE Die
  BY <1>16, CaptureAssumption DEF Die
<1>17. CASE RequestStop
  BY <1>17 DEF RequestStop
<1>18. QED
  BY <1>1, <1>2, <1>3, <1>4, <1>5, <1>6, <1>7, <1>8, <1>9, <1>10, <1>11, <1>12, <1>13,
     <1>14, <1>15, <1>16, <1>17 DEF Next, LoggerStep

(* The variables of a flush are its own.                                   *)
LEMMA LocalsStep == TypeOK /\ LocalsEnd /\ [Next]_vars => LocalsEnd'
<1> SUFFICES ASSUME TypeOK, LocalsEnd, [Next]_vars PROVE LocalsEnd'
  OBVIOUS
<1> USE DEF TypeOK, WriterTypeOK, LocalsEnd
<1>1. CASE UNCHANGED vars
  BY <1>1 DEF vars, writerVars, envVars
<1> USE DEF writerVars, envVars
<1>2. CASE Start \/ TopOfLoop \/ SessionLost \/ EndRound
  BY <1>2 DEF Start, TopOfLoop, SessionLost, EndRound, Leave
<1>3. ASSUME NEW s \in Symbols, PollNothing(s) PROVE LocalsEnd'
  BY <1>3 DEF PollNothing
<1>4. ASSUME NEW s \in Symbols, NEW tick \in Ticks, PollTick(s, tick) PROVE LocalsEnd'
  BY <1>4 DEF PollTick
<1>5. CASE ConsiderRepeat \/ ConsiderNews
  BY <1>5 DEF ConsiderRepeat, ConsiderNews
<1>6. CASE Add
  BY <1>6 DEF Add
<1>7. CASE FlushRuns
  <2>1. CASE NothingToFlush \/ Group \/ TakeBuffer
    BY <1>7, <2>1 DEF FlushRuns, NothingToFlush, Group, TakeBuffer
  <2>2. ASSUME NEW p \in Parts, PublishPart(p) PROVE LocalsEnd'
    BY <1>7, <2>2 DEF FlushRuns, PublishPart
  <2>3. CASE Book \/ PutBack \/ FlushReturns
    BY <1>7, <2>3 DEF FlushRuns, Book, PutBack, FlushReturns
  <2>4. QED BY <1>7, <2>1, <2>2, <2>3 DEF FlushRuns, FlushStep
<1>8. CASE FlushFails
  BY <1>8 DEF FlushFails, HookRaises, PartFails, Flushing
<1>9. CASE FlushEnds \/ Exit
  BY <1>9 DEF FlushEnds, Exit, Leave
<1>10. CASE Signal
  BY <1>10, CaptureAssumption DEF Signal, Leave, FlushInterrupted, Flushing
<1>11. CASE Die \/ RequestStop
  BY <1>11, CaptureAssumption DEF Die, RequestStop
<1>12. QED
  BY <1>1, <1>2, <1>3, <1>4, <1>5, <1>6, <1>7, <1>8, <1>9, <1>10, <1>11 DEF Next, LoggerStep

(* A tick or an event in hand.                                             *)
LEMMA HandStep == TypeOK /\ TickInHand /\ [Next]_vars => TickInHand'
<1> SUFFICES ASSUME TypeOK, TickInHand, [Next]_vars PROVE TickInHand'
  OBVIOUS
<1> USE DEF TypeOK, FilterTypeOK, TickInHand
<1>1. CASE UNCHANGED vars
  BY <1>1 DEF vars, filterVars, loopVars
<1> USE DEF filterVars, loopVars
<1>2. CASE Start \/ TopOfLoop \/ SessionLost \/ EndRound \/ Add
  BY <1>2 DEF Start, TopOfLoop, SessionLost, EndRound, Add, Leave
<1>3. ASSUME NEW s \in Symbols, PollNothing(s) PROVE TickInHand'
  BY <1>3 DEF PollNothing
<1>4. ASSUME NEW s \in Symbols, NEW tick \in Ticks, PollTick(s, tick) PROVE TickInHand'
  BY <1>4 DEF PollTick
<1>5. CASE ConsiderRepeat
  BY <1>5 DEF ConsiderRepeat, Suppress
<1>6. CASE ConsiderNews
  BY <1>6 DEF ConsiderNews, Emit
<1>7. CASE FlushRuns \/ FlushFails
  BY <1>7 DEF FlushRuns, FlushFails, Flushing
<1>8. CASE FlushEnds \/ Exit
  BY <1>8 DEF FlushEnds, Exit, Leave
<1>9. CASE Signal
  BY <1>9 DEF Signal, Leave, Flushing
<1>10. CASE Die \/ RequestStop
  BY <1>10 DEF Die, RequestStop
<1>11. QED
  BY <1>1, <1>2, <1>3, <1>4, <1>5, <1>6, <1>7, <1>8, <1>9, <1>10 DEF Next, LoggerStep

(* A step that gives no number and takes in no row keeps the numbers.      *)
LEMMA NumbersKept ==
  ASSUME NumbersAreUnique, emitted' = emitted, pc' = "event" => pc = "event",
         buffer' \cup pending' \subseteq buffer \cup pending
  PROVE  NumbersAreUnique'
BY DEF NumbersAreUnique

(* Only a new row gets a new number, when it enters the buffer.            *)
LEMMA NumbersStep ==
  TypeOK /\ LocalsEnd /\ TickInHand /\ NumbersAreUnique /\ [Next]_vars => NumbersAreUnique'
<1> SUFFICES ASSUME TypeOK, LocalsEnd, TickInHand, NumbersAreUnique, [Next]_vars
             PROVE  NumbersAreUnique'
  OBVIOUS
<1>1. CASE UNCHANGED vars
  BY <1>1, NumbersKept DEF vars, filterVars, writerVars
<1> USE DEF filterVars, writerVars
<1>2. CASE Start \/ TopOfLoop \/ SessionLost \/ EndRound \/ Exit \/ FlushEnds
  BY <1>2, NumbersKept DEF Start, TopOfLoop, SessionLost, EndRound, Exit, FlushEnds, Leave
<1>3. ASSUME NEW s \in Symbols, PollNothing(s) PROVE NumbersAreUnique'
  BY <1>3, NumbersKept DEF PollNothing
<1>4. ASSUME NEW s \in Symbols, NEW tick \in Ticks, PollTick(s, tick)
      PROVE  NumbersAreUnique'
  BY <1>4, NumbersKept DEF PollTick
<1>5. CASE ConsiderRepeat \/ Die \/ RequestStop
  BY <1>5, NumbersKept DEF ConsiderRepeat, Suppress, Die, RequestStop
<1>6. CASE ConsiderNews
  <2>1. emitted' = emitted + 1 /\ buffer' = buffer /\ pending' = pending /\ emitted \in Nat
    BY <1>6 DEF ConsiderNews, Emit, TypeOK, FilterTypeOK
  <2>2. \A r \in buffer \cup pending : r.id \in Nat
    BY RowsAreNumbers DEF TypeOK, WriterTypeOK, Row
  <2>3. QED BY <2>1, <2>2 DEF NumbersAreUnique
<1>7. CASE Add
  <2>1. emitted' = emitted /\ emitted \in Nat /\ pc' # "event" /\ pending' = pending
    BY <1>7 DEF Add, TypeOK, FilterTypeOK
  <2>2. PICK row : row.id = emitted /\ buffer' = buffer \cup {row}
    BY <1>7 DEF Add
  <2>3. \A r \in buffer \cup pending : r.id \in Nat /\ r.id < emitted
    BY <1>7, RowsAreNumbers DEF Add, NumbersAreUnique, TypeOK, WriterTypeOK, Row
  <2>4. QED BY <2>1, <2>2, <2>3 DEF NumbersAreUnique
<1>8. CASE FlushRuns
  <2>1. emitted' = emitted /\ pc' = pc
    BY <1>8 DEF FlushRuns
  <2>2. buffer' \cup pending' \subseteq buffer \cup pending
    <3>1. CASE NothingToFlush \/ Group \/ TakeBuffer
      BY <3>1 DEF NothingToFlush, Group, TakeBuffer
    <3>2. ASSUME NEW p \in Parts, PublishPart(p)
          PROVE  buffer' \cup pending' \subseteq buffer \cup pending
      BY <3>2 DEF PublishPart
    <3>3. CASE Book \/ PutBack \/ FlushReturns
      BY <3>3 DEF Book, PutBack, FlushReturns, Unpublished
    <3>4. QED BY <1>8, <3>1, <3>2, <3>3 DEF FlushRuns, FlushStep
  <2>3. QED BY <2>1, <2>2, NumbersKept
<1>9. CASE FlushFails
  BY <1>9, NumbersKept DEF FlushFails, HookRaises, PartFails
<1>10. CASE Signal
  BY <1>10, NumbersKept DEF Signal, Leave, FlushInterrupted
<1>11. QED
  BY <1>1, <1>2, <1>3, <1>4, <1>5, <1>6, <1>7, <1>8, <1>9, <1>10 DEF Next, LoggerStep

-----------------------------------------------------------------------------
(* A step that writes no file, notes nothing and gives no number: what     *)
(* waits after it waited before it, or the steps of a signal came between. *)
LEMMA CopiesKept ==
  ASSUME TypeOK, TickInHand, CopiesAreNoted, emitted' = emitted, copies' = copies,
         signals' \in Nat, signals' >= signals,
         pc' = "event" => pc = "event", done' \subseteq done,
         wpc' = "book" => wpc = "book" /\ cur' = cur,
         Waiting' \subseteq Waiting
  PROVE  CopiesAreNoted'
<1>1. copies \in [Rows -> Nat] /\ signals \in Nat /\ Waiting \subseteq Row
  BY CaptureAssumption DEF TypeOK, WriterTypeOK, Waiting
<1>2. pc = "event" => copies[emitted] <= signals'
  <2>1. pc = "event" => emitted \in Rows
    BY CaptureAssumption DEF TypeOK, FilterTypeOK, TickInHand
  <2>2. QED BY <1>1, <2>1 DEF CopiesAreNoted
<1>3. \A r \in Waiting' : copies[r.id] <= signals'
  BY <1>1 DEF CopiesAreNoted, Row
<1>4. \A n \in Rows : copies[n] <= 1 + signals'
  BY <1>1 DEF CopiesAreNoted
<1>5. \A r \in done' : copies[r.id] > 0
  BY DEF CopiesAreNoted
<1>6. wpc' = "book" => \A r \in cur' : copies[r.id] > 0
  BY DEF CopiesAreNoted
<1>7. \A n \in Rows : n > emitted => copies[n] = 0
  BY DEF CopiesAreNoted
<1>8. QED BY <1>2, <1>3, <1>4, <1>5, <1>6, <1>7 DEF CopiesAreNoted

(* Publishing is the only step that makes copies, of rows that wait.       *)
LEMMA PublishCopies ==
  ASSUME TypeOK, LocalsEnd, NumbersAreUnique, CopiesAreNoted, emitted' = emitted,
         signals' = signals, pc \in {"flush", "closing"}, pc' = pc,
         NEW p \in Parts, PublishPart(p)
  PROVE  CopiesAreNoted'
<1> DEFINE New == {r \in Unpublished : r.part = p}
<1>1. /\ cur' = New /\ wpc = "write" /\ wpc' = "book"
      /\ buffer' = buffer /\ pending' = pending /\ done' = done
      /\ copies' = [n \in Rows |-> copies[n] + IF n \in Ids(New) THEN 1 ELSE 0]
  BY DEF PublishPart
<1>2. copies \in [Rows -> Nat] /\ signals \in Nat /\ pending \subseteq Row /\ done \subseteq pending
  BY CaptureAssumption DEF TypeOK, WriterTypeOK
<1>3. New \subseteq Waiting /\ New \subseteq pending /\ Waiting' \subseteq Waiting \ New
  BY <1>1, <1>2 DEF Waiting, Unpublished, LocalsEnd
<1>4. Waiting \subseteq buffer \cup pending /\ Waiting \subseteq Row
  BY <1>1, <1>2 DEF Waiting, LocalsEnd
<1>5. \A n \in Ids(New) : n \in Rows /\ copies[n] <= signals /\ ~(n > emitted)
  <2>1. \A r \in New : r.id \in Rows /\ copies[r.id] <= signals
    BY <1>3, <1>4 DEF CopiesAreNoted, Row
  <2>2. \A r \in New : r.id <= emitted /\ r.id \in Nat /\ emitted \in Nat
    BY <1>3, <2>1, RowsAreNumbers DEF NumbersAreUnique, TypeOK, FilterTypeOK
  <2>3. QED BY <2>1, <2>2 DEF Ids
<1>6. \A r \in Waiting' : r.id \in Rows /\ r.id \notin Ids(New)
  <2>1. \A r \in Waiting' : \A q \in New : q.id # r.id
    BY <1>3, <1>4 DEF NumbersAreUnique
  <2>2. QED BY <1>3, <1>4, <2>1 DEF Ids, Row
<1>7. \A n \in Rows : copies'[n] <= 1 + signals
  BY <1>1, <1>2, <1>5 DEF CopiesAreNoted
<1>8. \A n \in Rows : n > emitted => copies'[n] = 0
  BY <1>1, <1>2, <1>5 DEF CopiesAreNoted
<1>9. \A r \in Waiting' : copies'[r.id] <= signals
  BY <1>1, <1>2, <1>3, <1>6 DEF CopiesAreNoted
<1>10. \A r \in done : copies'[r.id] > 0
  BY <1>1, <1>2 DEF CopiesAreNoted, Row
<1>11. \A r \in New : copies'[r.id] > 0
  <2>1. \A r \in New : r.id \in Ids(New) /\ r.id \in Rows
    BY <1>3, <1>2 DEF Ids, Row
  <2>2. QED BY <1>1, <1>2, <2>1
<1>12. pc' # "event"
  OBVIOUS
<1>13. QED BY <1>1, <1>7, <1>8, <1>9, <1>10, <1>11, <1>12 DEF CopiesAreNoted

LEMMA CopiesStep == CaptureInv /\ [Next]_vars => CopiesAreNoted'
<1> SUFFICES ASSUME CaptureInv, [Next]_vars PROVE CopiesAreNoted'
  OBVIOUS
<1> USE DEF CaptureInv
<1>0. signals \in Nat /\ signals <= signals /\ done \subseteq pending
  BY CaptureAssumption DEF TypeOK, WriterTypeOK
<1>1. CASE UNCHANGED vars
  BY <1>0, <1>1, CopiesKept DEF vars, filterVars, writerVars, envVars, Waiting
<1> USE DEF filterVars, writerVars, envVars
<1>2. CASE Start \/ TopOfLoop \/ SessionLost \/ EndRound
  <2>1. Waiting' = Waiting /\ wpc' # "book"
    BY <1>2 DEF Start, TopOfLoop, SessionLost, EndRound, Leave, Waiting, LocalsEnd
  <2>2. QED BY <1>0, <1>2, <2>1, CopiesKept
        DEF Start, TopOfLoop, SessionLost, EndRound, Leave
<1>3. ASSUME NEW s \in Symbols, PollNothing(s) PROVE CopiesAreNoted'
  BY <1>0, <1>3, CopiesKept DEF PollNothing, Waiting
<1>4. ASSUME NEW s \in Symbols, NEW tick \in Ticks, PollTick(s, tick) PROVE CopiesAreNoted'
  BY <1>0, <1>4, CopiesKept DEF PollTick, Waiting
<1>5. CASE ConsiderRepeat \/ RequestStop
  BY <1>0, <1>5, CopiesKept DEF ConsiderRepeat, Suppress, RequestStop, Waiting
<1>6. CASE ConsiderNews
  <2>1. emitted' = emitted + 1 /\ emitted \in Nat /\ emitted + 1 \in Rows
    BY <1>6, CaptureAssumption DEF ConsiderNews, Emit, TypeOK, FilterTypeOK, TickInHand
  <2>2. copies' = copies /\ signals' = signals /\ done' = done /\ cur' = cur /\ wpc' = wpc
        /\ Waiting' = Waiting
    BY <1>6 DEF ConsiderNews, Waiting
  <2>3. copies[emitted + 1] <= signals
    BY <1>0, <2>1 DEF CopiesAreNoted
  <2>4. \A n \in Rows : n > emitted + 1 => copies[n] = 0
    BY <2>1, RowsAreNumbers DEF CopiesAreNoted
  <2>5. QED BY <2>1, <2>2, <2>3, <2>4 DEF CopiesAreNoted
<1>7. CASE Add
  <2>1. PICK row : row.id = emitted /\ buffer' = buffer \cup {row}
    BY <1>7 DEF Add
  <2>2. Waiting' = Waiting \cup {row} /\ wpc' # "book" /\ pc' # "event"
    BY <1>7, <2>1 DEF Add, Waiting, LocalsEnd
  <2>3. copies[row.id] <= signals
    BY <1>7, <2>1 DEF Add, CopiesAreNoted
  <2>4. QED BY <1>7, <2>2, <2>3 DEF Add, CopiesAreNoted
<1>8. CASE FlushRuns
  <2>1. emitted' = emitted /\ pc' = pc /\ signals' = signals
    BY <1>8 DEF FlushRuns
  <2>2. CASE NothingToFlush \/ Group \/ TakeBuffer
    <3>1. Waiting' = Waiting /\ wpc' # "book" /\ copies' = copies /\ done' = done
      BY <2>2, <1>0 DEF NothingToFlush, Group, TakeBuffer, Waiting, LocalsEnd
    <3>2. QED BY <1>0, <2>1, <3>1, CopiesKept
  <2>3. ASSUME NEW p \in Parts, PublishPart(p) PROVE CopiesAreNoted'
    BY <1>8, <2>1, <2>3, PublishCopies DEF FlushRuns, Flushing
  <2>4. CASE Book
    <3>1. Waiting' = Waiting /\ wpc' # "book" /\ copies' = copies /\ done' = done \cup cur
      BY <2>4 DEF Book, Waiting
    <3>2. \A r \in done' : copies[r.id] > 0
      BY <2>4, <3>1 DEF Book, CopiesAreNoted
    <3>3. QED BY <2>1, <3>1, <3>2 DEF CopiesAreNoted
  <2>5. CASE PutBack \/ FlushReturns
    <3>1. Waiting' \subseteq Waiting /\ wpc' # "book" /\ copies' = copies /\ done' = {}
      BY <2>5 DEF PutBack, FlushReturns, Waiting, Unpublished
    <3>2. QED BY <1>0, <2>1, <3>1, CopiesKept
  <2>6. QED BY <1>8, <2>2, <2>3, <2>4, <2>5 DEF FlushRuns, FlushStep
<1>9. CASE FlushFails
  <2>1. Waiting' = Waiting /\ wpc' # "book"
    BY <1>9 DEF FlushFails, HookRaises, PartFails, Waiting
  <2>2. QED BY <1>0, <1>9, <2>1, CopiesKept DEF FlushFails, HookRaises, PartFails
<1>10. CASE FlushEnds \/ Exit
  <2>1. Waiting' = Waiting /\ wpc' # "book"
    BY <1>10 DEF FlushEnds, Exit, Leave, Waiting
  <2>2. QED BY <1>0, <1>10, <2>1, CopiesKept DEF FlushEnds, Exit, Leave
<1>11. CASE Signal
  <2>1. emitted' = emitted /\ copies' = copies /\ signals' = signals + 1
        /\ wpc' # "book" /\ pc' # "event" /\ done' \subseteq done
    BY <1>11 DEF Signal, Leave, FlushInterrupted, Flushing
  <2>2. Waiting' \subseteq Row
    BY <1>11 DEF Signal, Leave, FlushInterrupted, Waiting, TypeOK, WriterTypeOK
  <2>3. copies \in [Rows -> Nat]
    BY DEF TypeOK, WriterTypeOK
  <2>4. \A n \in Rows : copies[n] <= signals' /\ copies[n] <= 1 + signals'
    BY <1>0, <2>1, <2>3 DEF CopiesAreNoted
  <2>5. \A r \in Waiting' : copies[r.id] <= signals'
    BY <2>2, <2>4 DEF Row
  <2>6. QED BY <2>1, <2>4, <2>5 DEF CopiesAreNoted
<1>12. CASE Die
  BY <1>0, <1>12, CopiesKept DEF Die, Waiting
<1>13. QED
  BY <1>1, <1>2, <1>3, <1>4, <1>5, <1>6, <1>7, <1>8, <1>9, <1>10, <1>11, <1>12
     DEF Next, LoggerStep

-----------------------------------------------------------------------------
(* A step that gives no number and keeps what is held drops no row.        *)
LEMMA NothingDropped ==
  ASSUME TypeOK, NoRowDropped, emitted' = emitted, signals' = signals,
         pc = "event" => pc' = "event",
         \A n \in 1..emitted : copies[n] > 0 => copies'[n] > 0,
         \A r \in buffer \cup (pending \ done) :
           r \in buffer' \cup (pending' \ done') \/ copies'[r.id] > 0
  PROVE  NoRowDropped'
BY DEF NoRowDropped

LEMMA DropStep == CaptureInv /\ [Next]_vars => NoRowDropped'
<1> SUFFICES ASSUME CaptureInv, [Next]_vars PROVE NoRowDropped'
  OBVIOUS
<1> USE DEF CaptureInv
<1>1. CASE UNCHANGED vars
  BY <1>1, NothingDropped DEF vars, filterVars, writerVars, envVars
<1> USE DEF filterVars, writerVars, envVars
<1>2. CASE Start \/ TopOfLoop \/ SessionLost \/ EndRound \/ FlushEnds \/ Exit
  BY <1>2, NothingDropped
     DEF Start, TopOfLoop, SessionLost, EndRound, FlushEnds, Exit, Leave
<1>3. ASSUME NEW s \in Symbols, PollNothing(s) PROVE NoRowDropped'
  BY <1>3, NothingDropped DEF PollNothing
<1>4. ASSUME NEW s \in Symbols, NEW tick \in Ticks, PollTick(s, tick) PROVE NoRowDropped'
  BY <1>4, NothingDropped DEF PollTick
<1>5. CASE ConsiderRepeat \/ RequestStop
  BY <1>5, NothingDropped DEF ConsiderRepeat, Suppress, RequestStop
<1>6. CASE ConsiderNews
  <2>1. emitted' = emitted + 1 /\ emitted \in Nat /\ pc # "event" /\ pc' = "event"
        /\ UNCHANGED <<buffer, pending, done, copies, signals>>
    BY <1>6 DEF ConsiderNews, Emit, TypeOK, FilterTypeOK
  <2>2. \A n \in 1..emitted' : n = emitted' \/ n \in 1..emitted
    BY <2>1
  <2>3. QED BY <2>1, <2>2 DEF NoRowDropped
<1>7. CASE Add
  <2>1. PICK row : row.id = emitted /\ buffer' = buffer \cup {row}
    BY <1>7 DEF Add
  <2>2. QED BY <1>7, <2>1 DEF Add, NoRowDropped
<1>8. CASE FlushRuns
  <2>1. emitted' = emitted /\ pc' = pc /\ signals' = signals
    BY <1>8 DEF FlushRuns
  <2>2. CASE NothingToFlush \/ Group \/ TakeBuffer \/ PutBack \/ FlushReturns
    <3>1. done \subseteq pending
      BY DEF TypeOK, WriterTypeOK
    <3>2. copies' = copies
      BY <2>2 DEF NothingToFlush, Group, TakeBuffer, PutBack, FlushReturns
    <3>3. buffer \cup (pending \ done) \subseteq buffer' \cup (pending' \ done')
      BY <2>2, <3>1 DEF NothingToFlush, Group, TakeBuffer, PutBack, FlushReturns,
                        Unpublished, LocalsEnd
    <3>4. QED BY <2>1, <3>2, <3>3, NothingDropped
  <2>3. ASSUME NEW p \in Parts, PublishPart(p) PROVE NoRowDropped'
    <3>1. \A n \in 1..emitted : n \in Rows /\ copies[n] \in Nat
      BY CaptureAssumption DEF TypeOK, FilterTypeOK, WriterTypeOK, TickInHand
    <3>2. \A n \in 1..emitted : copies[n] > 0 => copies'[n] > 0
      BY <2>3, <3>1 DEF PublishPart
    <3>3. buffer' = buffer /\ pending' = pending /\ done' = done
      BY <2>3 DEF PublishPart
    <3>4. QED BY <2>1, <3>2, <3>3, NothingDropped
  <2>4. CASE Book
    <3>1. buffer' = buffer /\ pending' = pending /\ done' = done \cup cur /\ copies' = copies
      BY <2>4 DEF Book
    <3>2. \A r \in cur : copies'[r.id] > 0
      BY <2>4, <3>1 DEF Book, CopiesAreNoted
    <3>3. QED BY <2>1, <3>1, <3>2, NothingDropped
  <2>5. QED BY <1>8, <2>2, <2>3, <2>4 DEF FlushRuns, FlushStep
<1>9. CASE FlushFails
  BY <1>9, NothingDropped DEF FlushFails, HookRaises, PartFails
<1>10. CASE Signal \/ Die
  <2>1. signals' # 0
    BY <1>10, CaptureAssumption DEF Signal, Die, TypeOK
  <2>2. QED BY <2>1 DEF NoRowDropped
<1>11. QED
  BY <1>1, <1>2, <1>3, <1>4, <1>5, <1>6, <1>7, <1>8, <1>9, <1>10 DEF Next, LoggerStep

-----------------------------------------------------------------------------
LEMMA InvStep == CaptureInv /\ [Next]_vars => CaptureInv'
<1> SUFFICES ASSUME CaptureInv, [Next]_vars PROVE CaptureInv'
  OBVIOUS
<1>1. TypeOK'
  BY TypeStep DEF CaptureInv
<1>2. LocalsEnd' /\ TickInHand'
  BY LocalsStep, HandStep DEF CaptureInv
<1>3. NumbersAreUnique'
  BY NumbersStep DEF CaptureInv
<1>4. CopiesAreNoted' /\ NoRowDropped'
  BY CopiesStep, DropStep
<1>5. QED BY <1>1, <1>2, <1>3, <1>4 DEF CaptureInv

(* The strengthening says what EveryRowOnce says.                          *)
LEMMA InvGivesRows == CaptureInv /\ FlushedIsEmpty => EveryRowOnce
<1> SUFFICES ASSUME CaptureInv, FlushedIsEmpty PROVE EveryRowOnce
  OBVIOUS
<1> USE DEF CaptureInv
<1>1. \A n \in Rows : copies[n] <= 1 + signals
  BY DEF CopiesAreNoted
<1>2. SUFFICES ASSUME signals = 0
               PROVE  /\ Held \cup Published = 1..emitted
                      /\ Held \cap Published = {}
                      /\ Ids(buffer) \cap Ids(pending) = {}
                      /\ pc = "exit" =>
                           Published = (1..emitted) \ IF refused THEN Ids(buffer) ELSE {}
  BY <1>1 DEF EveryRowOnce
<1>3. /\ buffer \subseteq Row /\ pending \subseteq Row /\ copies \in [Rows -> Nat]
      /\ emitted \in Nat /\ 1..emitted \subseteq Rows
  BY CaptureAssumption DEF TypeOK, FilterTypeOK, WriterTypeOK, TickInHand
<1>4. ASSUME NEW n \in Held PROVE n \in 1..emitted /\ copies[n] = 0
  <2>1. CASE pc = "event" /\ n = emitted
    BY <1>2, <1>3, <2>1 DEF TickInHand, CopiesAreNoted
  <2>2. ASSUME NEW r \in buffer \cup (pending \ (done \cup cur)), n = r.id
        PROVE  n \in 1..emitted /\ copies[n] = 0
    <3>1. r \in Waiting /\ r \in buffer \cup pending /\ r.id \in Rows
      BY <1>3 DEF Waiting, Row
    <3>2. copies[n] <= 0
      BY <1>2, <2>2, <3>1 DEF CopiesAreNoted
    <3>3. n <= emitted
      BY <2>2, <3>1 DEF NumbersAreUnique
    <3>4. n \in Rows /\ n \in Nat /\ n > 0
      BY <2>2, <3>1, RowsAreNumbers
    <3>5. copies[n] = 0
      BY <1>3, <3>2, <3>4
    <3>6. n \in 1..emitted
      BY <1>3, <3>3, <3>4
    <3>7. QED BY <3>5, <3>6
  <2>3. CASE n \in InHand
    BY <2>1, <2>3 DEF InHand
  <2>4. CASE n \notin InHand
    <3>1. PICK r \in buffer \cup (pending \ (done \cup cur)) : n = r.id
      BY <2>4 DEF Held, Ids
    <3>2. QED BY <2>2, <3>1
  <2>5. QED BY <2>3, <2>4
<1>5. ASSUME NEW n \in Published PROVE n \in 1..emitted
  <2>1. n \in Rows /\ copies[n] > 0
    BY DEF Published
  <2>2. ~(n > emitted)
    BY <2>1 DEF CopiesAreNoted
  <2>3. QED BY <1>3, <2>1, <2>2, RowsAreNumbers
<1>6. ASSUME NEW n \in 1..emitted PROVE n \in Held \cup Published
  <2>1. CASE copies[n] > 0
    BY <1>3, <2>1 DEF Published
  <2>2. CASE pc = "event" /\ n = emitted
    BY <2>2 DEF Held, InHand
  <2>3. ASSUME NEW r \in buffer \cup (pending \ done), r.id = n, ~(copies[n] > 0)
        PROVE  n \in Held
    <3>1. r \notin cur \/ r \in buffer
      BY <1>2, <2>3 DEF LocalsEnd, CopiesAreNoted
    <3>2. QED BY <2>3, <3>1 DEF Held, Ids
  <2>4. QED BY <1>2, <2>1, <2>2, <2>3 DEF NoRowDropped
<1>7. Held \cap Published = {}
  BY <1>4 DEF Published
<1>8. Ids(buffer) \cap Ids(pending) = {}
  BY DEF Ids, LocalsEnd
<1>9. ASSUME pc = "exit"
      PROVE  Published = (1..emitted) \ IF refused THEN Ids(buffer) ELSE {}
  <2>1. wpc = "idle" /\ pending = {} /\ (refused \/ buffer = {})
    BY <1>2, <1>9 DEF FlushedIsEmpty, LocalsEnd
  <2>2. Held = Ids(buffer)
    BY <1>9, <2>1 DEF Held, InHand, Ids
  <2>3. Held = IF refused THEN Ids(buffer) ELSE {}
    BY <2>1, <2>2 DEF Ids
  <2>4. Published = (1..emitted) \ Held
    BY <1>4, <1>5, <1>6, <1>7
  <2>5. QED BY <2>3, <2>4
<1>10. QED BY <1>4, <1>5, <1>6, <1>7, <1>8, <1>9

THEOREM InvHolds == Spec => []CaptureInv
<1>1. QED BY InitInv, InvStep, PTL DEF Spec

(* The state of the logger, its filter and its writer keeps its types.     *)
THEOREM CaptureTypes == Spec => []TypeOK
<1>1. CaptureInv => TypeOK
  BY DEF CaptureInv
<1>2. QED BY <1>1, InvHolds, PTL

(* Only the end of a closing flush that returned leaves without refusal.   *)
LEMMA FlushedStep ==
  TypeOK /\ LocalsEnd /\ FlushedIsEmpty /\ [Next]_vars => FlushedIsEmpty'
<1> SUFFICES ASSUME TypeOK, LocalsEnd, FlushedIsEmpty, [Next]_vars PROVE FlushedIsEmpty'
  OBVIOUS
<1> USE DEF TypeOK, WriterTypeOK, LocalsEnd, FlushedIsEmpty
<1>1. CASE UNCHANGED vars
  BY <1>1 DEF vars, writerVars, envVars
<1> USE DEF writerVars, envVars
<1>2. CASE Start \/ TopOfLoop \/ SessionLost \/ EndRound
  BY <1>2 DEF Start, TopOfLoop, SessionLost, EndRound, Leave
<1>3. ASSUME NEW s \in Symbols, PollNothing(s) PROVE FlushedIsEmpty'
  BY <1>3 DEF PollNothing
<1>4. ASSUME NEW s \in Symbols, NEW tick \in Ticks, PollTick(s, tick) PROVE FlushedIsEmpty'
  BY <1>4 DEF PollTick
<1>5. CASE ConsiderRepeat \/ ConsiderNews \/ Add
  BY <1>5 DEF ConsiderRepeat, ConsiderNews, Add
<1>6. CASE FlushRuns
  <2>1. CASE NothingToFlush \/ Group \/ TakeBuffer
    BY <1>6, <2>1 DEF FlushRuns, NothingToFlush, Group, TakeBuffer, Flushing
  <2>2. ASSUME NEW p \in Parts, PublishPart(p) PROVE FlushedIsEmpty'
    BY <1>6, <2>2 DEF FlushRuns, PublishPart, Flushing
  <2>3. CASE Book \/ PutBack \/ FlushReturns
    BY <1>6, <2>3 DEF FlushRuns, Book, PutBack, FlushReturns, Flushing
  <2>4. QED BY <1>6, <2>1, <2>2, <2>3 DEF FlushRuns, FlushStep
<1>7. CASE FlushFails
  BY <1>7 DEF FlushFails, HookRaises, PartFails, Flushing
<1>8. CASE FlushEnds \/ Exit
  BY <1>8 DEF FlushEnds, Exit, Leave
<1>9. CASE Signal \/ Die
  <2>1. signals' # 0
    BY <1>9, CaptureAssumption DEF Signal, Die
  <2>2. QED BY <1>9, <2>1 DEF Signal, Die, Leave, FlushInterrupted, Flushing
<1>10. CASE RequestStop
  BY <1>10 DEF RequestStop
<1>11. QED
  BY <1>1, <1>2, <1>3, <1>4, <1>5, <1>6, <1>7, <1>8, <1>9, <1>10 DEF Next, LoggerStep

THEOREM FlushedHolds == Spec => []FlushedIsEmpty
<1>1. Init => FlushedIsEmpty
  BY DEF Init, WriterInit, FlushedIsEmpty
<1>2. CaptureInv /\ FlushedIsEmpty /\ [Next]_vars => FlushedIsEmpty'
  BY FlushedStep DEF CaptureInv
<1>3. QED BY <1>1, <1>2, InvHolds, PTL DEF Spec

(* Every row the filter emitted is in one place, once: no failure of a     *)
(* flush, at whichever partition, and no sequence of them loses or doubles *)
(* a row.  When the logger has ended they are in part files, but for those *)
(* its closing flush was refused (flush of ingestion/parquet_writer.py,    *)
(* run_logger of ingestion/main.py).                                       *)
THEOREM RowsAreKept == Spec => []EveryRowOnce
<1>1. QED BY InvGivesRows, InvHolds, FlushedHolds, PTL

(* A logger that no signal ended has saved its rows, unless its closing    *)
(* flush was refused (run_logger of ingestion/main.py).                    *)
THEOREM ExitSavesRows == Spec => []NothingLeftBehind
<1>1. CaptureInv /\ FlushedIsEmpty => NothingLeftBehind
  BY DEF CaptureInv, LocalsEnd, FlushedIsEmpty, NothingLeftBehind, Held, InHand, Ids
<1>2. QED BY <1>1, InvHolds, FlushedHolds, PTL

(* The last row of a symbol shows its last quote, whatever is suppressed   *)
(* (consider of ingestion/tick_filter.py).                                 *)
THEOREM RowsAreCurrent == Spec => []RowsShowLatest
<1>1. Init => RowsShowLatest
  BY FilterAssumption DEF Init, FilterInit, RowsShowLatest
<1>2. CaptureInv /\ RowsShowLatest /\ [Next]_vars => RowsShowLatest'
  <2> SUFFICES ASSUME CaptureInv, RowsShowLatest, [Next]_vars PROVE RowsShowLatest'
    OBVIOUS
  <2>1. CASE UNCHANGED filterVars
    BY <2>1 DEF filterVars, RowsShowLatest
  <2>2. CASE ConsiderRepeat
    BY <2>2 DEF ConsiderRepeat, Suppress, IsRepeat, RowsShowLatest, CaptureInv, TypeOK,
                FilterTypeOK
  <2>3. CASE ConsiderNews
    <3>1. hand.sym \in Symbols /\ hand.tick.time \in Int
      BY <2>3, FilterAssumption DEF ConsiderNews, CaptureInv, TickInHand, Ticks
    <3>2. hand.tick.time - hand.tick.time < Gap
      BY <3>1, FilterAssumption
    <3>3. QED BY <2>3, <3>1, <3>2
          DEF ConsiderNews, Emit, RowsShowLatest, CaptureInv, TypeOK, FilterTypeOK
  <2>4. QED BY <2>1, <2>2, <2>3
        DEF Next, LoggerStep, vars, Start, TopOfLoop, PollNothing, PollTick, SessionLost,
            Add, EndRound, FlushRuns, FlushFails, FlushEnds, Exit, Signal, Die, RequestStop
<1>3. QED BY <1>1, <1>2, InvHolds, PTL DEF Spec

-----------------------------------------------------------------------------
(* The numbers below a number, as a relation: induction over numbers comes *)
(* from NatLessThanWellFounded, whose relation it is.                      *)
Smaller == {p \in Nat \X Nat : p[1] < p[2]}

(* A set of numbers that is not empty has a least one.                     *)
LEMMA LeastNat ==
  ASSUME NEW T, T \subseteq Nat, T # {}
  PROVE  \E n \in T : \A m \in T : n <= m
<1>1. Smaller = OpToRel(<, Nat)
  BY DEF OpToRel, Smaller
<1>2. \E n \in T : \A m \in T : <<m, n>> \notin Smaller
  BY <1>1, NatLessThanWellFounded, WFMin
<1>3. PICK n \in T : \A m \in T : <<m, n>> \notin Smaller
  BY <1>2
<1>4. ASSUME NEW m \in T PROVE n <= m
  <2>1. m \in Nat /\ n \in Nat /\ <<m, n>> \notin Smaller
    BY <1>3
  <2>2. <<m, n>> \in Nat \X Nat /\ <<m, n>>[1] = m /\ <<m, n>>[2] = n
    BY <2>1
  <2>3. ~(m < n)
    BY <2>1, <2>2 DEF Smaller
  <2>4. QED BY <2>1, <2>3
<1>5. QED BY <1>4

(* A family of subsets of a finite set has one that cannot be made smaller *)
(* by leaving out an element: induction over finite sets.                  *)
LEMMA SmallestSet ==
  ASSUME NEW S, IsFiniteSet(S), NEW C, C \subseteq SUBSET S, C # {}
  PROVE  \E A \in C : \A x \in A : A \ {x} \notin C
<1> DEFINE N == {Cardinality(A) : A \in C}
<1>1. \A A \in C : IsFiniteSet(A) /\ Cardinality(A) \in Nat
  BY FS_Subset, FS_CardinalityType
<1>2. PICK A \in C : \A B \in C : Cardinality(A) <= Cardinality(B)
  <2>1. N \subseteq Nat /\ N # {}
    BY <1>1
  <2>2. PICK n \in N : \A m \in N : n <= m
    <3> HIDE DEF N
    <3>1. QED BY <2>1, LeastNat
  <2>3. QED BY <2>2
<1>3. ASSUME NEW x \in A, A \ {x} \in C PROVE FALSE
  <2>1. Cardinality(A \ {x}) = Cardinality(A) - 1
    BY <1>1, FS_RemoveElement
  <2>2. Cardinality(A) <= Cardinality(A \ {x})
    BY <1>2, <1>3
  <2>3. QED BY <1>1, <2>1, <2>2
<1>4. QED BY <1>3

(* The sum of f over a set, the way MapThenSumSet computes it: one element *)
(* chosen at a time.                                                       *)
OneOf(T) == CHOOSE x \in T : TRUE

Sums(g, f, D) ==
  g = [T \in D |-> IF T = {} THEN 0 ELSE f[OneOf(T)] + g[T \ {OneOf(T)}]]

(* The recursion has a solution over the subsets of a finite set.          *)
LEMMA SumsExist ==
  ASSUME NEW S, IsFiniteSet(S), NEW f
  PROVE  \E g : Sums(g, f, SUBSET S)
<1> DEFINE Upto(n) == {T \in SUBSET S : Cardinality(T) <= n}
           Bad == {n \in Nat : ~\E g : Sums(g, f, Upto(n))}
<1>1. \A T \in SUBSET S : IsFiniteSet(T) /\ Cardinality(T) \in Nat /\ Cardinality(T) <= Cardinality(S)
  BY FS_Subset, FS_CardinalityType
<1>2. ASSUME NEW n \in Nat, NEW g, Sums(g, f, Upto(n)) PROVE \E h : Sums(h, f, Upto(n + 1))
  <2> DEFINE h == [T \in Upto(n + 1) |-> IF T = {} THEN 0 ELSE f[OneOf(T)] + g[T \ {OneOf(T)}]]
  <2>1. \A T \in Upto(n) : g[T] = h[T]
    <3>1. ASSUME NEW T \in Upto(n) PROVE T \in Upto(n + 1)
      BY <1>1
    <3>2. QED BY <1>2, <3>1 DEF Sums
  <2>2. ASSUME NEW T \in Upto(n + 1), T # {} PROVE T \ {OneOf(T)} \in Upto(n)
    <3>1. OneOf(T) \in T
      BY <2>2 DEF OneOf
    <3>2. Cardinality(T \ {OneOf(T)}) = Cardinality(T) - 1
      BY <1>1, <3>1, FS_RemoveElement
    <3>3. QED BY <1>1, <3>2
  <2>3. \A T \in Upto(n + 1) : T # {} => g[T \ {OneOf(T)}] = h[T \ {OneOf(T)}]
    BY <2>1, <2>2
  <2>4. h = [T \in Upto(n + 1) |-> IF T = {} THEN 0 ELSE f[OneOf(T)] + h[T \ {OneOf(T)}]]
    BY <2>3
  <2>5. Sums(h, f, Upto(n + 1))
    <3> HIDE DEF h
    <3>1. QED BY <2>4 DEF Sums
  <2>6. QED BY <2>5
<1>3. \E g : Sums(g, f, Upto(0))
  <2> DEFINE g == [T \in Upto(0) |-> 0]
  <2>1. \A T \in Upto(0) : T = {}
    BY <1>1, FS_EmptySet
  <2>2. g = [T \in Upto(0) |-> IF T = {} THEN 0 ELSE f[OneOf(T)] + g[T \ {OneOf(T)}]]
    BY <2>1
  <2>3. Sums(g, f, Upto(0))
    <3> HIDE DEF g
    <3>1. QED BY <2>2 DEF Sums
  <2>4. QED BY <2>3
<1>4. Bad = {}
  <2>1. SUFFICES ASSUME Bad # {} PROVE FALSE
    OBVIOUS
  <2>2. PICK n \in Bad : \A m \in Bad : n <= m
    <3>1. Bad \subseteq Nat
      OBVIOUS
    <3> HIDE DEF Bad
    <3>2. QED BY <2>1, <3>1, LeastNat
  <2>3. n # 0
    BY <1>3
  <2>4. n - 1 \in Nat /\ n - 1 \notin Bad
    <3>1. n \in Nat
      OBVIOUS
    <3>2. n - 1 \in Nat /\ ~(n <= n - 1)
      BY <2>3, <3>1
    <3> HIDE DEF Bad
    <3>3. QED BY <2>2, <3>2
  <2>5. PICK g : Sums(g, f, Upto(n - 1))
    BY <2>4
  <2>6. \E h : Sums(h, f, Upto((n - 1) + 1))
    <3> HIDE DEF Upto
    <3>1. QED BY <1>2, <2>4, <2>5
  <2>7. (n - 1) + 1 = n
    OBVIOUS
  <2>8. QED BY <2>6, <2>7
<1>5. Cardinality(S) \in Nat /\ SUBSET S = Upto(Cardinality(S))
  BY <1>1, FS_CardinalityType
<1>6. PICK g : Sums(g, f, Upto(Cardinality(S)))
  BY <1>4, <1>5
<1>7. QED
  <2> HIDE DEF Upto
  <2>1. QED BY <1>5, <1>6

SumOf(f, S) == (CHOOSE g : Sums(g, f, SUBSET S))[S]

LEMMA SumIsFold ==
  ASSUME NEW f, NEW S
  PROVE  MapThenSumSet(LAMBDA s : f[s], S) = SumOf(f, S)
BY DEF MapThenSumSet, MapThenFoldSet, SumOf, Sums, OneOf

(* Changing f at one place changes its sum by the difference.              *)
LEMMA SumOfUpdate ==
  ASSUME NEW S, IsFiniteSet(S), NEW f \in [S -> Nat], NEW h \in [S -> Nat], NEW a \in S,
         \A s \in S \ {a} : h[s] = f[s]
  PROVE  /\ SumOf(f, S) \in Nat
         /\ SumOf(h, S) = SumOf(f, S) - f[a] + h[a]
<1> DEFINE F == CHOOSE g : Sums(g, f, SUBSET S)
           H == CHOOSE g : Sums(g, h, SUBSET S)
           Extra(T) == IF a \in T THEN h[a] - f[a] ELSE 0
           Right(T) == F[T] \in Nat /\ H[T] = F[T] + Extra(T)
           Wrong == {T \in SUBSET S : ~Right(T)}
<1>1. Sums(F, f, SUBSET S) /\ Sums(H, h, SUBSET S)
  BY SumsExist
<1>2. ASSUME NEW T \in SUBSET S, T # {}
      PROVE  /\ OneOf(T) \in T
             /\ T \ {OneOf(T)} \in SUBSET S
             /\ F[T] = f[OneOf(T)] + F[T \ {OneOf(T)}]
             /\ H[T] = h[OneOf(T)] + H[T \ {OneOf(T)}]
  <2>1. OneOf(T) \in T /\ T \ {OneOf(T)} \in SUBSET S
    BY <1>2 DEF OneOf
  <2> HIDE DEF F, H
  <2>2. QED BY <1>1, <1>2, <2>1 DEF Sums
<1>3. F[{}] = 0 /\ H[{}] = 0
  <2> HIDE DEF F, H
  <2>1. QED BY <1>1 DEF Sums
<1>4. Wrong = {}
  <2>1. SUFFICES ASSUME Wrong # {} PROVE FALSE
    OBVIOUS
  <2>2. PICK T \in Wrong : \A x \in T : T \ {x} \notin Wrong
    <3>1. Wrong \subseteq SUBSET S
      OBVIOUS
    <3> HIDE DEF Wrong
    <3>2. QED BY <2>1, <3>1, SmallestSet
  <2> HIDE DEF F, H
  <2>3. T # {}
    <3>1. Right({})
      BY <1>3
    <3>2. {} \notin Wrong
      BY <3>1
    <3> HIDE DEF Wrong
    <3>3. QED BY <3>2
  <2> DEFINE x == OneOf(T)
             U == T \ {x}
  <2>4. x \in T /\ U \in SUBSET S /\ F[T] = f[x] + F[U] /\ H[T] = h[x] + H[U]
    BY <1>2, <2>3
  <2>5. Right(U)
    BY <2>2, <2>4
  <2> HIDE DEF x
  <2>6. CASE x = a
    BY <2>4, <2>5, <2>6
  <2>7. CASE x # a
    <3>1. h[x] = f[x] /\ f[x] \in Nat
      BY <2>4, <2>7
    <3>2. a \in T <=> a \in U
      BY <2>7
    <3>3. QED BY <2>4, <2>5, <3>1, <3>2
  <2>8. QED BY <2>6, <2>7
<1>5. Right(S)
  BY <1>4
<1>6. QED BY <1>5 DEF SumOf

(* The sum of no ticks suppressed is none.                                 *)
LEMMA SumOfZeros ==
  ASSUME NEW S, IsFiniteSet(S), NEW f, \A s \in S : f[s] = 0
  PROVE  SumOf(f, S) = 0
<1> DEFINE F == CHOOSE g : Sums(g, f, SUBSET S)
           Wrong == {T \in SUBSET S : F[T] # 0}
<1>1. Sums(F, f, SUBSET S)
  BY SumsExist
<1> HIDE DEF F
<1>2. Wrong = {}
  <2>1. SUFFICES ASSUME Wrong # {} PROVE FALSE
    OBVIOUS
  <2>2. PICK T \in Wrong : \A x \in T : T \ {x} \notin Wrong
    <3>1. Wrong \subseteq SUBSET S
      OBVIOUS
    <3> HIDE DEF Wrong
    <3>2. QED BY <2>1, <3>1, SmallestSet
  <2>3. T # {}
    BY <1>1, <2>2 DEF Sums
  <2>4. OneOf(T) \in T /\ T \ {OneOf(T)} \in SUBSET S
    BY <2>3 DEF OneOf
  <2>5. F[T] = f[OneOf(T)] + F[T \ {OneOf(T)}]
    BY <1>1, <2>3, <2>4 DEF Sums
  <2>6. F[T \ {OneOf(T)}] = 0
    BY <2>2, <2>4
  <2>7. QED BY <2>4, <2>5, <2>6
<1>3. QED BY <1>2 DEF SumOf, F

(* The second conjunct of TicksAddUp, over SumOf.                          *)
LEMMA HeldAdds ==
  ASSUME TicksAddUp PROVE suppressed = carried + SumOf(held, Symbols)
BY SumIsFold DEF TicksAddUp

LEMMA HeldUpdate ==
  \A f, h \in [Symbols -> Nat] : \A a \in Symbols :
    (\A s \in Symbols \ {a} : h[s] = f[s]) =>
      /\ SumOf(f, Symbols) \in Nat
      /\ SumOf(h, Symbols) = SumOf(f, Symbols) - f[a] + h[a]
<1> SUFFICES ASSUME NEW f \in [Symbols -> Nat], NEW h \in [Symbols -> Nat], NEW a \in Symbols,
                    \A s \in Symbols \ {a} : h[s] = f[s]
             PROVE  /\ SumOf(f, Symbols) \in Nat
                    /\ SumOf(h, Symbols) = SumOf(f, Symbols) - f[a] + h[a]
  OBVIOUS
<1>1. IsFiniteSet(Symbols)
  BY FilterAssumption
<1>2. QED BY <1>1, SumOfUpdate

LEMMA TicksStep == CaptureInv /\ TicksAddUp /\ [Next]_vars => TicksAddUp'
<1> SUFFICES ASSUME CaptureInv, TicksAddUp, [Next]_vars PROVE TicksAddUp'
  OBVIOUS
<1>0. /\ IsFiniteSet(Symbols) /\ held \in [Symbols -> Nat]
      /\ seen \in Nat /\ emitted \in Nat /\ suppressed \in Nat /\ carried \in Nat
  BY FilterAssumption DEF CaptureInv, TypeOK, FilterTypeOK
<1>1. suppressed = carried + SumOf(held, Symbols)
  BY HeldAdds
<1>2. ASSUME seen' = emitted' + suppressed',
             suppressed' = carried' + SumOf(held', Symbols)
      PROVE  TicksAddUp'
  BY <1>2 DEF TicksAddUp, MapThenSumSet, MapThenFoldSet, SumOf, Sums, OneOf
<1>3. CASE UNCHANGED filterVars
  BY <1>1, <1>2, <1>3 DEF TicksAddUp, filterVars
<1>4. CASE ConsiderRepeat
  <2>1. /\ hand.sym \in Symbols
        /\ held' = [held EXCEPT ![hand.sym] = @ + 1]
        /\ seen' = seen + 1 /\ suppressed' = suppressed + 1
        /\ emitted' = emitted /\ carried' = carried
    BY <1>4 DEF ConsiderRepeat, Suppress, CaptureInv, TickInHand
  <2>2. /\ held' \in [Symbols -> Nat] /\ held'[hand.sym] = held[hand.sym] + 1
        /\ \A s \in Symbols \ {hand.sym} : held'[s] = held[s]
    BY <1>0, <2>1
  <2>3. /\ SumOf(held, Symbols) \in Nat
        /\ SumOf(held', Symbols) = SumOf(held, Symbols) - held[hand.sym] + held'[hand.sym]
    BY <1>0, <2>1, <2>2, HeldUpdate
  <2>4. SumOf(held', Symbols) = SumOf(held, Symbols) + 1
    BY <1>0, <2>1, <2>2, <2>3
  <2>5. QED BY <1>0, <1>1, <1>2, <2>1, <2>3, <2>4 DEF TicksAddUp
<1>5. CASE ConsiderNews
  <2>1. /\ hand.sym \in Symbols
        /\ held' = [held EXCEPT ![hand.sym] = 0]
        /\ seen' = seen + 1 /\ emitted' = emitted + 1
        /\ suppressed' = suppressed /\ carried' = carried + held[hand.sym]
    BY <1>5 DEF ConsiderNews, Emit, CaptureInv, TickInHand
  <2>2. /\ held' \in [Symbols -> Nat] /\ held'[hand.sym] = 0
        /\ \A s \in Symbols \ {hand.sym} : held'[s] = held[s]
    BY <1>0, <2>1
  <2>3. /\ SumOf(held, Symbols) \in Nat
        /\ SumOf(held', Symbols) = SumOf(held, Symbols) - held[hand.sym] + held'[hand.sym]
    BY <1>0, <2>1, <2>2, HeldUpdate
  <2>4. SumOf(held', Symbols) = SumOf(held, Symbols) - held[hand.sym]
        /\ held[hand.sym] \in Nat
    BY <1>0, <2>1, <2>2, <2>3
  <2>5. QED BY <1>0, <1>1, <1>2, <2>1, <2>3, <2>4 DEF TicksAddUp
<1>6. QED BY <1>3, <1>4, <1>5
      DEF Next, LoggerStep, vars, Start, TopOfLoop, PollNothing, PollTick, SessionLost,
          Add, EndRound, FlushRuns, FlushFails, FlushEnds, Exit, Signal, Die, RequestStop

(* No tick goes missing from the counts: every tick the filter was given   *)
(* is a row, or is counted by a later row of its symbol, or will be by the *)
(* next one (consider of ingestion/tick_filter.py).                        *)
THEOREM TicksAreAccounted == Spec => []TicksAddUp
<1>1. Init => TicksAddUp
  <2> SUFFICES ASSUME Init PROVE TicksAddUp
    OBVIOUS
  <2>1. SumOf(held, Symbols) = 0
    BY SumOfZeros, FilterAssumption DEF Init, FilterInit
  <2>2. MapThenSumSet(LAMBDA s : held[s], Symbols) = 0
    BY <2>1, SumIsFold
  <2>3. QED BY <2>2 DEF Init, FilterInit, TicksAddUp
<1>2. QED BY <1>1, TicksStep, InvHolds, PTL DEF Spec

-----------------------------------------------------------------------------
(* The end of a logger that is told to stop.                               *)

(* Rows of a flush are told apart by their numbers, so they are no more    *)
(* than MaxTicks.                                                          *)
LEMMA FewRows ==
  ASSUME CaptureInv, NEW R, R \subseteq pending
  PROVE  /\ IsFiniteSet(R) /\ Cardinality(R) \in Nat
         /\ Cardinality(R) <= MaxTicks
<1>1. \A r \in R : r \in Row /\ r.id \in 1..MaxTicks
  BY CaptureAssumption DEF CaptureInv, TypeOK, WriterTypeOK, Row
<1>2. \A r, q \in R : r.id = q.id => r = q
  BY DEF CaptureInv, NumbersAreUnique
<1>3. [r \in R |-> r.id] \in Injection(R, 1..MaxTicks)
  BY <1>1, <1>2 DEF Injection, IsInjective
<1>4. IsFiniteSet(1..MaxTicks) /\ Cardinality(1..MaxTicks) = MaxTicks
  BY FS_Interval, CaptureAssumption
<1>5. QED BY <1>3, <1>4, FS_Injection, FS_CardinalityType

LEMMA FewSymbols ==
  ASSUME CaptureInv
  PROVE  /\ IsFiniteSet(todo) /\ Cardinality(todo) \in Nat
         /\ Cardinality(todo) <= Cardinality(Symbols) /\ Cardinality(Symbols) \in Nat
         /\ \A s \in todo : Cardinality(todo \ {s}) = Cardinality(todo) - 1
<1>1. todo \subseteq Symbols
  BY DEF CaptureInv, TypeOK
<1>2. QED BY <1>1, FilterAssumption, FS_Subset, FS_CardinalityType, FS_RemoveElement

LEMMA FlushRankIsBounded ==
  ASSUME CaptureInv
  PROVE  FlushRank \in 0..(2 * MaxTicks + 4)
<1>1. Unpublished \subseteq pending /\ Unpublished \ cur \subseteq pending
  BY DEF Unpublished
<1>2. /\ Cardinality(Unpublished) \in Nat /\ Cardinality(Unpublished) <= MaxTicks
      /\ Cardinality(Unpublished \ cur) \in Nat
      /\ Cardinality(Unpublished \ cur) <= MaxTicks
  BY <1>1, FewRows
<1>3. wpc \in {"idle", "hook", "group", "write", "book", "undo", "returned", "raised"}
  BY DEF CaptureInv, TypeOK, WriterTypeOK
<1>4. MaxTicks \in Nat
  BY CaptureAssumption
<1>5. CASE wpc \in {"write", "book", "group"}
  <2>1. \/ FlushRank = 2 * Cardinality(Unpublished) + 3
        \/ FlushRank = 2 * Cardinality(Unpublished \ cur) + 4
        \/ FlushRank = 2 * Cardinality(Unpublished) + 4
    BY <1>5 DEF FlushRank
  <2>2. QED BY <1>2, <1>4, <2>1
<1>6. CASE wpc \in {"idle", "hook", "undo", "returned", "raised"}
  BY <1>4, <1>6 DEF FlushRank
<1>7. QED BY <1>3, <1>5, <1>6

LEMMA RankIsBounded == CaptureInv => Rank \in 0..LastSteps
<1> SUFFICES ASSUME CaptureInv PROVE Rank \in 0..LastSteps
  OBVIOUS
<1>1. pc \in {"off", "top", "poll", "tick", "event", "flush", "closing", "exit"}
  BY DEF CaptureInv, TypeOK
<1>2. PICK n, m, f \in Nat : /\ n = Cardinality(todo) /\ m = Cardinality(Symbols) /\ n <= m
                             /\ f = FlushRank /\ f <= 2 * MaxTicks + 4
  BY FewSymbols, FlushRankIsBounded, CaptureAssumption
<1>3. Rank \in {0, 1 + f, 4, 5, 5 * n + 5, 5 * n + 5 + f, 5 * n + 8, 5 * n + 9}
  BY <1>1, <1>2 DEF Rank
<1>4. LastSteps = 5 * m + 2 * MaxTicks + 9
  BY <1>2 DEF LastSteps
<1>5. MaxTicks \in Nat
  BY CaptureAssumption
<1>6. \A k \in Nat : n <= m /\ f <= 2 * k + 4 =>
        {0, 1 + f, 4, 5, 5 * n + 5, 5 * n + 5 + f, 5 * n + 8, 5 * n + 9}
          \subseteq 0..(5 * m + 2 * k + 9)
  OBVIOUS
<1>7. QED BY <1>2, <1>3, <1>4, <1>5, <1>6

(* A flush under way, and what ends it.                                    *)
LEMMA FlushGoesOn ==
  ASSUME CaptureInv, FlushStep
  PROVE  FlushRank \in Nat /\ FlushRank' \in Nat /\ FlushRank' < FlushRank
<1>1. \A R : R \subseteq pending =>
        IsFiniteSet(R) /\ Cardinality(R) \in Nat
  BY FewRows
<1>2. IsFiniteSet(Unpublished) /\ Cardinality(Unpublished) \in Nat
      /\ Cardinality(Unpublished \ cur) \in Nat
  BY <1>1 DEF Unpublished
<1>3. CASE NothingToFlush \/ PutBack \/ FlushReturns
  BY <1>2, <1>3 DEF NothingToFlush, PutBack, FlushReturns, FlushRank
<1>4. CASE Group
  <2>1. Unpublished' = Unpublished
    BY <1>4 DEF Group, Unpublished
  <2>2. QED BY <1>2, <1>4, <2>1 DEF Group, FlushRank
<1>5. ASSUME NEW p \in Parts, PublishPart(p)
      PROVE  FlushRank \in Nat /\ FlushRank' \in Nat /\ FlushRank' < FlushRank
  <2>1. Unpublished' = Unpublished /\ cur' \subseteq Unpublished /\ cur' # {}
    BY <1>5 DEF PublishPart, Unpublished
  <2>2. /\ Cardinality(Unpublished \ cur') \in Nat
        /\ Cardinality(Unpublished \ cur') <= Cardinality(Unpublished)
        /\ Cardinality(Unpublished \ cur') # Cardinality(Unpublished)
    <3>1. Unpublished \ cur' \subseteq Unpublished /\ Unpublished \ cur' # Unpublished
      BY <2>1
    <3>2. QED BY <1>2, <3>1, FS_Subset, FS_CardinalityType
  <2>3. FlushRank = 2 * Cardinality(Unpublished) + 3
    BY <1>5 DEF PublishPart, FlushRank
  <2>4. FlushRank' = 2 * Cardinality(Unpublished \ cur') + 4
    <3>1. FlushRank' = 2 * Cardinality(Unpublished' \ cur') + 4
      BY <1>5 DEF PublishPart, FlushRank
    <3>2. QED BY <2>1, <3>1
  <2>5. \A m, n \in Nat : m <= n /\ m # n => 2 * m + 4 < 2 * n + 3
    OBVIOUS
  <2>6. QED BY <1>2, <2>2, <2>3, <2>4, <2>5
<1>6. CASE Book
  <2>1. Unpublished' = Unpublished \ cur
    BY <1>6 DEF Book, Unpublished
  <2>2. FlushRank = 2 * Cardinality(Unpublished \ cur) + 4
    BY <1>6 DEF Book, FlushRank
  <2>3. FlushRank' = 2 * Cardinality(Unpublished \ cur) + 3
    <3>1. FlushRank' = 2 * Cardinality(Unpublished') + 3
      BY <1>6 DEF Book, FlushRank
    <3>2. QED BY <2>1, <3>1
  <2>4. QED BY <1>2, <2>2, <2>3
<1>7. QED BY <1>3, <1>4, <1>5, <1>6 DEF FlushStep

(* However a flush is ended, what remains of it is one step or two.        *)
LEMMA FlushStops ==
  ASSUME CaptureInv, HookRaises \/ PartFails \/ FlushInterrupted
  PROVE  FlushRank \in Nat /\ FlushRank' \in Nat /\ FlushRank' < FlushRank
<1>1. Cardinality(Unpublished) \in Nat /\ Cardinality(Unpublished \ cur) \in Nat
  BY FewRows DEF Unpublished
<1>2. \/ wpc \in {"hook", "group", "undo"} /\ wpc' = "raised"
      \/ wpc \in {"write", "book"} /\ wpc' = "undo"
  BY DEF HookRaises, PartFails, FlushInterrupted
<1>3. QED BY <1>1, <1>2 DEF FlushRank

(* Once the stop file is there, a logger that is to end, ends: at most     *)
(* LastSteps steps later.  With the fairness of FairSpec this is           *)
(* StopIsObeyed.                                                           *)
THEOREM StoppedLoggerAdvances == Spec => StopAdvances /\ [](Rank \in 0..LastSteps)
<1>1. ASSUME CaptureInv, stop, Next PROVE Rank' < Rank
  <2> DEFINE n == Cardinality(todo)
  <2>1. /\ n \in Nat /\ \A s \in todo : Cardinality(todo \ {s}) = n - 1
        /\ todo # {} => n > 0
    BY <1>1, FewSymbols, FS_EmptySet
  <2>2. Cardinality({}) = 0
    BY FS_EmptySet
  <2>3. FlushRank \in Nat
    BY <1>1, FlushRankIsBounded, CaptureAssumption
  <2>4. ASSUME pc \in {"off", "top", "poll", "tick", "event"}, pc' = "closing", wpc' = "hook"
        PROVE  Rank' < Rank
    <3>1. Rank' = 3
      BY <2>4 DEF Rank, FlushRank
    <3>2. Rank \in Nat /\ Rank > 3
      BY <2>1, <2>4 DEF Rank
    <3>3. QED BY <3>1, <3>2
  <2>5. ASSUME pc # "exit", pc' = "exit" PROVE Rank' < Rank
    <3>1. Rank' = 0
      BY <2>5 DEF Rank
    <3>2. Rank \in Nat /\ Rank > 0
      BY <1>1, <2>1, <2>3, <2>5 DEF Rank, CaptureInv, TypeOK
    <3>3. QED BY <3>1, <3>2
  <2>6. CASE Start
    BY <2>4, <2>5, <2>6 DEF Start, Leave, Rank
  <2>7. CASE TopOfLoop
    BY <1>1, <2>4, <2>7 DEF TopOfLoop, Leave
  <2>8. ASSUME NEW s \in Symbols, PollNothing(s) PROVE Rank' < Rank
    <3>1. pc = "poll" /\ pc' = "poll" /\ s \in todo /\ todo' = todo \ {s}
      BY <2>8 DEF PollNothing
    <3>2. Rank = 5 * n + 5 /\ Rank' = 5 * Cardinality(todo \ {s}) + 5
      BY <3>1 DEF Rank
    <3>3. QED BY <2>1, <3>1, <3>2
  <2>9. ASSUME NEW s \in Symbols, NEW tick \in Ticks, PollTick(s, tick) PROVE Rank' < Rank
    <3>1. pc = "poll" /\ pc' = "tick" /\ s \in todo /\ todo' = todo \ {s}
      BY <2>9 DEF PollTick
    <3>2. Rank = 5 * n + 5 /\ Rank' = 5 * Cardinality(todo \ {s}) + 9
      BY <3>1 DEF Rank
    <3>3. QED BY <2>1, <3>1, <3>2
  <2>10. CASE SessionLost
    <3>1. CASE pc' = "closing"
      BY <2>4, <2>10, <3>1 DEF SessionLost, Leave
    <3>2. CASE pc' # "closing"
      <4>1. pc' = "poll" /\ todo' = {} /\ (pc = "tick" \/ (pc = "poll" /\ todo # {}))
        BY <2>10, <3>2 DEF SessionLost, Leave
      <4>2. Rank' = 5
        BY <2>2, <4>1 DEF Rank
      <4>3. Rank = 5 * n + 9 \/ (Rank = 5 * n + 5 /\ n > 0)
        BY <2>1, <4>1 DEF Rank
      <4>4. QED BY <2>1, <4>2, <4>3
    <3>3. QED BY <3>1, <3>2
  <2>11. CASE ConsiderRepeat \/ ConsiderNews
    <3>1. pc = "tick" /\ pc' \in {"poll", "event"} /\ todo' = todo
      BY <2>11 DEF ConsiderRepeat, ConsiderNews, loopVars
    <3>2. Rank = 5 * n + 9 /\ (Rank' = 5 * n + 5 \/ Rank' = 5 * n + 8)
      BY <3>1 DEF Rank
    <3>3. QED BY <2>1, <3>2
  <2>12. CASE Add
    <3>1. /\ pc = "event" /\ todo' = todo
          /\ pc' = "poll" \/ (pc' = "flush" /\ wpc' = "hook")
      BY <2>12 DEF Add
    <3>2. Rank = 5 * n + 8 /\ (Rank' = 5 * n + 5 \/ Rank' = 5 * n + 7)
      BY <2>1, <3>1 DEF Rank, FlushRank
    <3>3. QED BY <2>1, <3>2
  <2>13. CASE EndRound
    <3>1. CASE pc' = "top"
      BY <2>1, <2>13, <3>1 DEF EndRound, Rank
    <3>2. QED BY <2>4, <2>13, <3>1 DEF EndRound, Leave
  <2>14. ASSUME Flushing, pc' = pc, todo' = todo, FlushRank' \in Nat, FlushRank' < FlushRank
         PROVE  Rank' < Rank
    <3>1. \/ Rank = 1 + FlushRank /\ Rank' = 1 + FlushRank'
          \/ Rank = 5 * n + 5 + FlushRank /\ Rank' = 5 * n + 5 + FlushRank'
      <4>1. CASE pc = "closing"
        BY <2>14, <4>1 DEF Rank
      <4>2. CASE pc = "flush"
        <5>1. Rank' = 5 * Cardinality(todo') + 5 + FlushRank'
          BY <2>14, <4>2 DEF Rank
        <5>2. QED BY <2>14, <4>2, <5>1 DEF Rank
      <4>3. QED BY <2>14, <4>1, <4>2 DEF Flushing
    <3>2. \A a, b, c \in Nat : b < a => c + b < c + a
      OBVIOUS
    <3>3. 5 * n + 5 \in Nat
      BY <2>1
    <3>4. QED BY <2>3, <2>14, <3>1, <3>2, <3>3
  <2>15. CASE FlushRuns
    <3>1. FlushStep /\ Flushing /\ pc' = pc /\ todo' = todo
      BY <1>1, <2>15 DEF FlushRuns, loopVars
    <3>2. QED BY <1>1, <2>14, <3>1, FlushGoesOn
  <2>16. CASE FlushFails
    <3>1. (HookRaises \/ PartFails) /\ Flushing /\ pc' = pc /\ todo' = todo
      BY <2>16 DEF FlushFails, loopVars
    <3>2. QED BY <1>1, <2>14, <3>1, FlushStops
  <2>17. CASE FlushEnds
    <3>1. pc = "flush" /\ wpc \in {"returned", "raised"} /\ todo' = todo
      BY <2>17 DEF FlushEnds, loopVars
    <3>2. Rank = 5 * n + 6
      BY <2>1, <3>1 DEF Rank, FlushRank
    <3>3. Rank' = 5 * n + 5 \/ Rank' = 3
      BY <2>17, <3>1 DEF FlushEnds, Leave, Rank, FlushRank
    <3>4. QED BY <2>1, <3>2, <3>3
  <2>18. CASE Exit \/ Die
    BY <2>5, <2>18 DEF Exit, Die
  <2>19. CASE Signal
    <3>1. CASE pc \in {"top", "poll", "tick", "event"}
      BY <2>4, <2>19, <3>1 DEF Signal, Leave, Flushing
    <3>2. CASE pc \notin {"top", "poll", "tick", "event"}
      <4>1. Flushing /\ FlushInterrupted /\ pc' = pc /\ todo' = todo
        BY <2>19, <3>2 DEF Signal, loopVars
      <4>2. QED BY <1>1, <2>14, <4>1, FlushStops
    <3>3. QED BY <3>1, <3>2
  <2>20. CASE RequestStop
    BY <1>1, <2>20 DEF RequestStop
  <2>21. QED
    BY <1>1, <2>6, <2>7, <2>8, <2>9, <2>10, <2>11, <2>12, <2>13, <2>15, <2>16, <2>17,
       <2>18, <2>19, <2>20 DEF Next, LoggerStep
<1>2. CaptureInv /\ [Next]_vars => [stop => Rank' < Rank]_vars
  BY <1>1
<1>3. QED BY <1>2, RankIsBounded, InvHolds, PTL DEF Spec, StopAdvances
-----------------------------------------------------------------------------
(* The logger as a journal of rows.                                        *)

(* Rows are told apart by their numbers, so they are finitely many.        *)
LEMMA RowsAreFinite ==
  ASSUME TypeOK, NumbersAreUnique, NEW R, R \subseteq buffer \cup pending
  PROVE  /\ IsFiniteSet(R) /\ Cardinality(R) \in Nat
         /\ IsFiniteSet(Ids(R)) /\ Cardinality(Ids(R)) \in Nat
         /\ Cardinality(Ids(R)) <= Cardinality(R)
<1>1. \A r \in R : r \in Row /\ r.id \in 1..MaxTicks
  BY CaptureAssumption DEF TypeOK, WriterTypeOK, Row
<1>2. \A r, q \in R : r.id = q.id => r = q
  BY DEF NumbersAreUnique
<1>3. [r \in R |-> r.id] \in Injection(R, 1..MaxTicks)
  BY <1>1, <1>2 DEF Injection, IsInjective
<1>4. IsFiniteSet(1..MaxTicks)
  BY FS_Interval, CaptureAssumption
<1>5. IsFiniteSet(R)
  BY <1>3, <1>4, FS_Injection
<1>6. [r \in R |-> r.id] \in Surjection(R, Ids(R))
  BY DEF Surjection, Ids
<1>7. QED BY <1>5, <1>6, FS_Surjection, FS_CardinalityType

LEMMA FewerRows ==
  ASSUME TypeOK, NumbersAreUnique, NEW R, R \subseteq buffer \cup pending, NEW S, S \subseteq R
  PROVE  Cardinality(S) <= Cardinality(R) /\ Cardinality(S) \in Nat
BY RowsAreFinite, FS_Subset

(* A step that takes in no row, and comes to no place where there must be  *)
(* room for one more.                                                      *)
LEMMA FitsKept ==
  ASSUME TypeOK, NumbersAreUnique, RowsFit,
         buffer' \cup pending' \subseteq buffer \cup pending,
         pc' \in {"top", "poll", "tick", "event"} =>
           buffer' = {} \/ (buffer' = buffer /\ pc \in {"top", "poll", "tick", "event"})
  PROVE  RowsFit'
<1>1. FlushRows \in Nat \ {0}
  BY CaptureAssumption
<1>2. Cardinality(buffer' \cup pending') <= FlushRows
  BY <1>1, RowsAreFinite, FewerRows DEF RowsFit
<1>3. QED BY <1>1, <1>2, FS_EmptySet DEF RowsFit

LEMMA FitsStep ==
  CaptureInv /\ FlushedIsEmpty /\ RowsFit /\ [Next]_vars => RowsFit'
<1> SUFFICES ASSUME CaptureInv, FlushedIsEmpty, RowsFit, [Next]_vars PROVE RowsFit'
  OBVIOUS
<1>0. TypeOK /\ NumbersAreUnique /\ LocalsEnd
  BY DEF CaptureInv
<1>1. CASE UNCHANGED vars
  BY <1>1 DEF vars, writerVars, RowsFit
<1> USE DEF writerVars
<1>2. CASE Start \/ TopOfLoop \/ SessionLost \/ EndRound
  BY <1>0, <1>2, FitsKept
     DEF Start, TopOfLoop, SessionLost, EndRound, Leave, FlushedIsEmpty
<1>3. ASSUME NEW s \in Symbols, PollNothing(s) PROVE RowsFit'
  BY <1>0, <1>3, FitsKept DEF PollNothing
<1>4. ASSUME NEW s \in Symbols, NEW tick \in Ticks, PollTick(s, tick) PROVE RowsFit'
  BY <1>0, <1>4, FitsKept DEF PollTick
<1>5. CASE ConsiderRepeat \/ ConsiderNews \/ RequestStop
  BY <1>0, <1>5, FitsKept DEF ConsiderRepeat, ConsiderNews, RequestStop
<1>6. CASE Add
  <2>1. PICK row : buffer' = buffer \cup {row}
    BY <1>6 DEF Add
  <2>2. /\ pc = "event" /\ pending = {} /\ pending' = {}
        /\ pc' = "flush" \/ (pc' = "poll" /\ Cardinality(buffer') < FlushRows)
    BY <1>0, <1>6 DEF Add, LocalsEnd
  <2>3. IsFiniteSet(buffer) /\ Cardinality(buffer) \in Nat /\ Cardinality(buffer) < FlushRows
    BY <1>0, <2>2, RowsAreFinite DEF RowsFit
  <2>4. Cardinality(buffer \cup {row}) <= Cardinality(buffer) + 1
        /\ Cardinality(buffer \cup {row}) \in Nat
    BY <2>3, FS_AddElement
  <2>5. buffer' \cup pending' = buffer \cup {row}
    BY <2>1, <2>2
  <2>6. FlushRows \in Nat /\ Cardinality(buffer \cup {row}) <= FlushRows
    BY <2>3, <2>4, CaptureAssumption
  <2>7. /\ Cardinality(buffer' \cup pending') <= FlushRows
        /\ pc' = "poll" => Cardinality(buffer') < FlushRows
    BY <2>2, <2>5, <2>6
  <2>8. QED BY <2>2, <2>7 DEF RowsFit
<1>7. CASE FlushRuns
  <2>1. pc' = pc /\ pc \notin {"top", "poll", "tick", "event"}
    BY <1>7 DEF FlushRuns, Flushing
  <2>2. buffer' \cup pending' \subseteq buffer \cup pending
    <3>1. CASE NothingToFlush \/ Group \/ TakeBuffer
      BY <3>1 DEF NothingToFlush, Group, TakeBuffer
    <3>2. ASSUME NEW p \in Parts, PublishPart(p)
          PROVE  buffer' \cup pending' \subseteq buffer \cup pending
      BY <3>2 DEF PublishPart
    <3>3. CASE Book \/ PutBack \/ FlushReturns
      BY <3>3 DEF Book, PutBack, FlushReturns, Unpublished
    <3>4. QED BY <1>7, <3>1, <3>2, <3>3 DEF FlushRuns, FlushStep
  <2>3. QED BY <1>0, <2>1, <2>2, FitsKept
<1>8. CASE FlushFails
  BY <1>0, <1>8, FitsKept DEF FlushFails, HookRaises, PartFails, Flushing
<1>9. CASE FlushEnds \/ Exit
  BY <1>0, <1>9, FitsKept DEF FlushEnds, Exit, Leave, FlushedIsEmpty
<1>10. CASE Signal
  BY <1>0, <1>10, FitsKept DEF Signal, Leave, FlushInterrupted, Flushing
<1>11. CASE Die
  BY <1>0, <1>11, FitsKept DEF Die
<1>12. QED
  BY <1>1, <1>2, <1>3, <1>4, <1>5, <1>6, <1>7, <1>8, <1>9, <1>10, <1>11
     DEF Next, LoggerStep

(* What was replaced into place is in a part file, noted or not.           *)
CurIsPublished == \A r \in cur : copies[r.id] > 0

LEMMA InPlaceStep ==
  CaptureInv /\ CurIsPublished /\ [Next]_vars => CurIsPublished'
<1> SUFFICES ASSUME CaptureInv, CurIsPublished, [Next]_vars PROVE CurIsPublished'
  OBVIOUS
<1>1. CASE cur' \subseteq cur /\ copies' = copies
  BY <1>1 DEF CurIsPublished
<1>2. CASE wpc' = "book"
  BY <1>2, InvStep DEF CaptureInv, CopiesAreNoted, CurIsPublished
<1>3. (cur' \subseteq cur /\ copies' = copies) \/ wpc' = "book"
  <2>1. CASE FlushRuns
    BY <2>1 DEF FlushRuns, FlushStep, NothingToFlush, Group, TakeBuffer, PublishPart, Book,
                PutBack, FlushReturns
  <2>2. CASE ~FlushRuns
    BY <2>2 DEF Next, LoggerStep, vars, writerVars, Start, TopOfLoop, PollNothing, PollTick,
                SessionLost, ConsiderRepeat, ConsiderNews, Add, EndRound, FlushFails,
                HookRaises, PartFails, FlushEnds, Exit, Signal, FlushInterrupted, Die,
                RequestStop
  <2>3. QED BY <2>1, <2>2
<1>4. QED BY <1>1, <1>2, <1>3

HoldingInv == CaptureInv /\ FlushedIsEmpty /\ RowsFit /\ CurIsPublished

LEMMA SameCount == \A S : Journal!Cardinality(S) = Cardinality(S)
BY DEF Journal!Cardinality, Cardinality

LEMMA HoldingInvHolds == Spec => []HoldingInv
<1>1. Init => FlushedIsEmpty /\ RowsFit
  <2>1. Init => FlushedIsEmpty
    BY DEF Init, WriterInit, FlushedIsEmpty
  <2>2. ASSUME Init PROVE RowsFit
    <3>1. buffer \cup pending = {} /\ buffer = {}
      BY <2>2 DEF Init, WriterInit
    <3>2. QED BY <3>1, FS_EmptySet, CaptureAssumption DEF RowsFit
  <2>3. QED BY <2>1, <2>2
<1>2. Init => HoldingInv
  BY <1>1, InitInv DEF HoldingInv, CurIsPublished, Init, WriterInit
<1>3. HoldingInv /\ [Next]_vars => HoldingInv'
  BY FlushedStep, FitsStep, InvStep, InPlaceStep DEF HoldingInv, CaptureInv
<1>4. QED BY <1>2, <1>3, PTL DEF Spec

(* flush_max_rows bounds what is held, in memory or by a flush.            *)
LEMMA HeldFits ==
  ASSUME HoldingInv
  PROVE  Cardinality(Ids(buffer \cup pending)) <= FlushRows
<1>1. TypeOK /\ NumbersAreUnique /\ FlushRows \in Nat
  BY CaptureAssumption DEF HoldingInv, CaptureInv
<1>2. QED BY <1>1, RowsAreFinite DEF HoldingInv, RowsFit

(* The steps of a flush.                                                   *)
LEMMA FlushIsJournal ==
  ASSUME HoldingInv, FlushRuns
  PROVE  \/ UNCHANGED Journal!journalVars
         \/ \E S \in SUBSET Rows : Journal!Save(S) \/ Journal!Recall(S)
<1> USE DEF HoldingInv, CaptureInv
<1>1. /\ pc' = pc /\ Flushing /\ emitted' = emitted /\ signals' = signals
      /\ Ending = "open" /\ Ending' = "open" /\ InHand = {} /\ InHand' = {}
  BY DEF FlushRuns, Flushing, Ending, InHand, filterVars, envVars
<1>2. buffer \subseteq Row /\ pending \subseteq Row /\ done \subseteq pending /\ cur \subseteq pending
  BY DEF TypeOK, WriterTypeOK
<1>3. CASE NothingToFlush \/ Group \/ TakeBuffer \/ Book \/ FlushReturns
  <2>1. copies' = copies
    BY <1>3 DEF NothingToFlush, Group, TakeBuffer, Book, FlushReturns
  <2>2. /\ buffer' \cup (pending' \ (done' \cup cur')) = buffer \cup (pending \ (done \cup cur))
    BY <1>3, <1>2
       DEF NothingToFlush, Group, TakeBuffer, Book, FlushReturns, LocalsEnd, Unpublished
  <2>3. Held' = Held
    BY <1>1, <2>2 DEF Held, Ids
  <2>4. QED BY <1>1, <2>1, <2>3 DEF Journal!journalVars
<1>4. ASSUME NEW p \in Parts, PublishPart(p)
      PROVE  \E S \in SUBSET Rows : Journal!Save(S)
  <2>1. /\ cur' = {r \in Unpublished : r.part = p} /\ cur' \subseteq pending \ done
        /\ buffer' = buffer /\ pending' = pending /\ done' = done /\ cur = {} /\ buffer = {}
        /\ copies' = [n \in Rows |-> copies[n] + IF n \in Ids(cur') THEN 1 ELSE 0]
    BY <1>4 DEF PublishPart, Unpublished, LocalsEnd
  <2>2. Held = Ids(pending \ done) /\ Held' = Ids((pending \ done) \ cur')
    BY <1>1, <2>1 DEF Held, Ids
  <2>3. Ids((pending \ done) \ cur') = Ids(pending \ done) \ Ids(cur')
    BY <2>1 DEF Ids, NumbersAreUnique
  <2>4. Ids(cur') \in SUBSET Rows /\ Ids(cur') \subseteq Held
    BY <1>2, <2>1, <2>2 DEF Ids, Row
  <2>5. QED BY <1>1, <2>1, <2>2, <2>3, <2>4 DEF Journal!Save
<1>5. CASE PutBack
  <2> DEFINE S == Ids(cur \ done)
  <2>1. /\ wpc = "undo" /\ buffer = {} /\ buffer' = pending \ done
        /\ pending' = {} /\ copies' = copies
    BY <1>5 DEF PutBack, Unpublished, LocalsEnd
  <2>2. Held = Ids(pending \ (done \cup cur)) /\ Held' = Ids(pending \ done)
    BY <1>1, <2>1 DEF Held, Ids
  <2>3. Held' = Held \cup S
    BY <1>2, <2>2 DEF Ids
  <2>4. S \in SUBSET Rows /\ \A n \in S : copies[n] <= signals
    <3>1. \A r \in cur \ done : r.id \in Rows /\ r \in Waiting
      BY <1>2, <2>1 DEF Waiting, Row
    <3>2. QED BY <3>1 DEF Ids, CopiesAreNoted
  <2>5. Cardinality(Held') <= FlushRows
    <3>1. /\ IsFiniteSet(Ids(pending \ done)) /\ Cardinality(Ids(pending \ done)) \in Nat
          /\ Cardinality(Ids(pending \ done)) <= Cardinality(pending \ done)
          /\ Cardinality(pending \ done) \in Nat
      BY RowsAreFinite
    <3>2. Cardinality(pending \ done) <= Cardinality(buffer \cup pending)
          /\ Cardinality(buffer \cup pending) \in Nat
      BY FewerRows
    <3>3. QED BY <2>2, <3>1, <3>2, CaptureAssumption DEF RowsFit
  <2>6. S \subseteq Journal!Safe
    BY <2>4 DEF Ids, Journal!Safe, CurIsPublished
  <2>7. Journal!Recall(S)
    BY <1>1, <2>1, <2>3, <2>4, <2>5, <2>6, SameCount DEF Journal!Recall
  <2>8. QED BY <2>4, <2>7
<1>6. QED BY <1>3, <1>4, <1>5 DEF FlushRuns, FlushStep

(* Every other step, but for a row made, a fault and the end, leaves the   *)
(* journal alone.                                                          *)
LEMMA QuietSteps ==
  ASSUME HoldingInv,
         \/ TopOfLoop \/ SessionLost \/ ConsiderRepeat \/ Add \/ EndRound
         \/ \E s \in Symbols : PollNothing(s) \/ \E tick \in Ticks : PollTick(s, tick)
         \/ FlushFails \/ FlushEnds \/ RequestStop
  PROVE  UNCHANGED Journal!journalVars
<1> USE DEF HoldingInv, CaptureInv
<1>1. CASE Add
  <2>1. /\ pc = "event" /\ pc' \notin {"event", "exit"} /\ pending' = pending /\ done' = done
        /\ cur' = cur /\ copies' = copies /\ emitted' = emitted /\ signals' = signals
        /\ \E h \in Hours : buffer' = buffer \cup {[id |-> emitted, part |-> <<hand.sym, h>>]}
    BY <1>1 DEF Add, filterVars, envVars
  <2>2. Ids(buffer') = Ids(buffer) \cup {emitted}
    <3>1. PICK h \in Hours : buffer' = buffer \cup {[id |-> emitted, part |-> <<hand.sym, h>>]}
      BY <2>1
    <3>2. PICK row : row.id = emitted /\ buffer' = buffer \cup {row}
      BY <3>1
    <3>3. QED BY ONLY <3>2 DEF Ids
  <2>3. Held' = Held
    BY <2>1, <2>2 DEF Held, InHand, Ids
  <2>4. QED BY <2>1, <2>3 DEF Journal!journalVars, Ending
<1>2. CASE ~Add
  <2>1. /\ buffer' = buffer /\ pending' = pending /\ done' = done /\ copies' = copies
        /\ pending \ (done' \cup cur') = pending \ (done \cup cur)
        /\ emitted' = emitted /\ signals' = signals
    BY <1>2 DEF TopOfLoop, SessionLost, ConsiderRepeat, Suppress, EndRound, PollNothing, PollTick,
         FlushFails, HookRaises, PartFails, FlushEnds, RequestStop, Leave, LocalsEnd,
         filterVars, writerVars, envVars
  <2>2. \/ pc # "event" /\ pc' # "event"
        \/ pc = pc' /\ pc = "event"
    BY <1>2 DEF TopOfLoop, SessionLost, ConsiderRepeat, EndRound, PollNothing, PollTick,
         FlushFails, HookRaises, PartFails, FlushEnds, RequestStop, Leave, Flushing
  <2>3. \/ pc # "exit" /\ pc' # "exit"
        \/ UNCHANGED <<pc, rc, refused>>
    BY <1>2 DEF TopOfLoop, SessionLost, ConsiderRepeat, EndRound, PollNothing, PollTick,
         FlushFails, HookRaises, PartFails, FlushEnds, RequestStop, Leave, Flushing
  <2>4. Held' = Held
    BY <2>1, <2>2 DEF Held, InHand, Ids
  <2>5. Ending' = Ending
    BY <2>3 DEF Ending
  <2>6. QED BY <2>1, <2>4, <2>5 DEF Journal!journalVars
<1>3. QED BY <1>1, <1>2

(* A row is made where there is room for it.                               *)
LEMMA NewsIsJournal ==
  ASSUME HoldingInv, ConsiderNews
  PROVE  Journal!Make
<1> USE DEF HoldingInv, CaptureInv
<1>1. /\ pc = "tick" /\ pc' = "event" /\ emitted' = emitted + 1
      /\ buffer' = buffer /\ pending' = pending /\ done' = done /\ cur' = cur
      /\ copies' = copies /\ signals' = signals
  BY DEF ConsiderNews, Emit, writerVars, envVars
<1>2. pending = {} /\ seen < MaxTicks /\ emitted <= seen
  BY <1>1 DEF LocalsEnd, TickInHand
<1>3. emitted \in Nat /\ seen \in Nat
  BY DEF TypeOK, FilterTypeOK
<1>4. emitted + 1 \in Rows
  BY <1>2, <1>3, CaptureAssumption
<1>5. Held = Ids(buffer) /\ Held' = Held \cup {emitted'}
  BY <1>1, <1>2 DEF Held, InHand, Ids
<1>6. /\ IsFiniteSet(Ids(buffer)) /\ Cardinality(Ids(buffer)) \in Nat
      /\ Cardinality(Ids(buffer)) <= Cardinality(buffer) /\ Cardinality(buffer) \in Nat
  BY RowsAreFinite
<1>7. Cardinality(buffer) < FlushRows
  BY <1>1 DEF RowsFit
<1>8. Cardinality(Held') <= FlushRows
  <2>1. /\ Cardinality(Held') <= Cardinality(Ids(buffer)) + 1
        /\ Cardinality(Held') \in Nat
    BY <1>5, <1>6, FS_AddElement
  <2>2. QED BY <1>6, <1>7, <2>1, CaptureAssumption
<1>9. QED BY <1>1, <1>4, <1>5, <1>8, SameCount DEF Journal!Make, Ending

(* Signals and kills lose what is in hand, never what is in a part file.   *)
LEMMA FaultIsJournal ==
  ASSUME HoldingInv, Signal \/ Die
  PROVE  Journal!Fault
<1> USE DEF HoldingInv, CaptureInv
<1>1. emitted' = emitted /\ copies' = copies /\ signals' = signals + 1 /\ pc # "exit"
  BY DEF Signal, Die, FlushInterrupted, Flushing, filterVars, writerVars
<1>2. buffer' \subseteq buffer
      /\ pending' \ (done' \cup cur') \subseteq pending \ (done \cup cur)
      /\ InHand' \subseteq InHand
  BY DEF Signal, Die, FlushInterrupted, Flushing, Leave, filterVars, writerVars, InHand
<1>3. Held' \subseteq Held
  BY <1>2 DEF Held, Ids
<1>4. Ending = "open" /\ Ending' \in {"open", "dropped"}
  BY <1>1 DEF Signal, Die, Leave, Flushing, Ending
<1>5. QED BY <1>1, <1>3, <1>4 DEF Journal!Fault

(* The process ends in order only with nothing left.                       *)
LEMMA EndIsJournal ==
  ASSUME HoldingInv, Start \/ Exit
  PROVE  Journal!Close \/ UNCHANGED Journal!journalVars
<1> USE DEF HoldingInv, CaptureInv
<1>1. /\ emitted' = emitted /\ copies' = copies /\ signals' = signals
      /\ buffer' = buffer /\ pending' = pending /\ done' = done /\ cur' = cur
      /\ pc \notin {"event", "exit"} /\ pc' # "event"
  BY DEF Start, Exit, Leave, filterVars, envVars
<1>2. Held' = Held /\ Ending = "open"
  BY <1>1 DEF Held, InHand, Ids, Ending
<1>3. Ending' = "closed" => buffer = {} /\ pending = {}
  BY DEF Start, Exit, Leave, Ending, FlushedIsEmpty, LocalsEnd
<1>4. Ending' = "closed" => Held = {}
  BY <1>1, <1>3 DEF Held, InHand, Ids
<1>5. Ending' \in {"open", "closed", "dropped"}
  BY DEF Ending
<1>6. QED BY <1>1, <1>2, <1>4, <1>5 DEF Journal!Close, Journal!journalVars

LEMMA JournalStep ==
  HoldingInv /\ [Next]_vars => [Journal!JournalNext]_Journal!journalVars
<1>1. ASSUME HoldingInv, UNCHANGED vars PROVE UNCHANGED Journal!journalVars
  BY <1>1 DEF vars, filterVars, writerVars, loopVars, envVars, Journal!journalVars, Held, InHand,
              Ids, Ending
<1>2. ASSUME HoldingInv, Next PROVE [Journal!JournalNext]_Journal!journalVars
  BY <1>2, QuietSteps, NewsIsJournal, FaultIsJournal, EndIsJournal, FlushIsJournal
     DEF Next, LoggerStep, Journal!JournalNext
<1>3. QED BY <1>1, <1>2

LEMMA JournalStarts == Init => Journal!JournalInit
<1>1. ASSUME Init PROVE Held = {}
  BY <1>1 DEF Init, WriterInit, Held, InHand, Ids
<1>2. QED
  BY <1>1 DEF Init, FilterInit, WriterInit, Journal!JournalInit, Ending

(* run_logger with its writer keeps the promise of the journal, whatever   *)
(* the terminal, the disk, the stop file and signals do, and flush_max_rows*)
(* is the most that a kill can cost.                                       *)
THEOREM LoggerImplementsJournal == Spec => JournalRefined
<1>1. QED
  BY HoldingInvHolds, JournalStarts, JournalStep, PTL DEF Spec, JournalRefined, Journal!JournalSpec

-----------------------------------------------------------------------------
(* What the journal promises.                                              *)

LEMMA JournalInvStep ==
  Journal!JournalInv /\ [Journal!JournalNext]_Journal!journalVars => Journal!JournalInv'
<1> SUFFICES ASSUME Journal!JournalInv, [Journal!JournalNext]_Journal!journalVars
             PROVE  Journal!JournalInv'
  OBVIOUS
<1> USE DEF Journal!JournalInv, Journal!JournalTypeOK, Journal!JournalIsExact, Journal!Safe
<1>1. CASE UNCHANGED Journal!journalVars
  BY <1>1 DEF Journal!journalVars
<1>2. CASE Journal!Make
  BY <1>2, SameCount DEF Journal!Make
<1>0. ASSUME Held' \subseteq Held PROVE Cardinality(Held') <= FlushRows
  <2>1. Rows = 1..MaxTicks /\ IsFiniteSet(1..MaxTicks)
    BY FS_Interval, CaptureAssumption
  <2>2. IsFiniteSet(Held) /\ Cardinality(Held) <= FlushRows
    BY <2>1, FS_Subset, SameCount
  <2>3. Cardinality(Held') <= Cardinality(Held) /\ Cardinality(Held) \in Nat
        /\ Cardinality(Held') \in Nat
    BY <1>0, <2>2, FS_Subset, FS_CardinalityType
  <2>4. QED BY <2>2, <2>3, CaptureAssumption
<1>3. ASSUME NEW S \in SUBSET Rows, Journal!Save(S) PROVE Journal!JournalInv'
  <2>1. /\ Held' = Held \ S /\ S \subseteq Held /\ emitted' = emitted /\ signals' = signals
        /\ copies' = [n \in Rows |-> copies[n] + IF n \in S THEN 1 ELSE 0]
        /\ Ending = "open" /\ Ending' = "open"
    BY <1>3 DEF Journal!Save
  <2>2. Cardinality(Held') <= FlushRows
    BY <1>0, <2>1
  <2>3. Journal!JournalTypeOK'
    BY <2>1
  <2>4. /\ \A n \in Rows : copies'[n] <= 1 + signals /\ (copies'[n] > 0 => n \in 1..emitted)
        /\ \A n \in Held' : n \in 1..emitted /\ copies'[n] <= signals
        /\ \A n \in Rows : copies'[n] > 0 <=> n \in S \/ copies[n] > 0
    BY <2>1
  <2>5. signals = 0 => /\ Held' \cup Journal!Safe' = 1..emitted
                       /\ Held' \cap Journal!Safe' = {}
    BY <2>1, <2>4
  <2>6. QED BY <2>1, <2>2, <2>3, <2>4, <2>5, SameCount
<1>4. ASSUME NEW S \in SUBSET Rows, Journal!Recall(S) PROVE Journal!JournalInv'
  BY <1>4, SameCount DEF Journal!Recall
<1>5. CASE Journal!Fault
  BY <1>0, <1>5, SameCount DEF Journal!Fault
<1>6. CASE Journal!Close
  BY <1>6 DEF Journal!Close
<1>7. QED BY <1>1, <1>2, <1>3, <1>4, <1>5, <1>6 DEF Journal!JournalNext

(* Any logger that works as the journal says keeps every row exactly once  *)
(* but for faults, takes nothing back, and stays ended.                    *)
THEOREM JournalKeepsItsPromise ==
  Journal!JournalSpec => []Journal!JournalIsExact /\ Journal!JournalIsFinal
<1>1. Journal!JournalInit => Journal!JournalInv
  <2>1. Cardinality({}) = 0
    BY FS_EmptySet
  <2>2. QED
    BY <2>1, SameCount, CaptureAssumption
       DEF Journal!JournalInit, Journal!JournalInv, Journal!JournalTypeOK, Journal!JournalIsExact,
           Journal!Safe
<1>2. Journal!JournalInv => Journal!JournalIsExact
  BY DEF Journal!JournalInv
<1>3. Journal!JournalInv /\ [Journal!JournalNext]_Journal!journalVars =>
        [/\ Journal!Safe \subseteq Journal!Safe'
         /\ Ending # "open" => UNCHANGED Journal!journalVars]_Journal!journalVars
  <2> SUFFICES ASSUME Journal!JournalInv, Journal!JournalNext
               PROVE  /\ Journal!Safe \subseteq Journal!Safe'
                      /\ Ending # "open" => UNCHANGED Journal!journalVars
    OBVIOUS
  <2> USE DEF Journal!JournalInv, Journal!JournalTypeOK, Journal!Safe
  <2>1. CASE Journal!Make \/ Journal!Fault \/ Journal!Close
    BY <2>1 DEF Journal!Make, Journal!Fault, Journal!Close
  <2>2. ASSUME NEW S \in SUBSET Rows, Journal!Save(S) \/ Journal!Recall(S)
        PROVE  Ending = "open" /\ Journal!Safe \subseteq Journal!Safe'
    BY <2>2 DEF Journal!Save, Journal!Recall
  <2>3. QED BY <2>1, <2>2 DEF Journal!JournalNext
<1>4. QED
  BY <1>1, <1>2, <1>3, JournalInvStep, PTL DEF Journal!JournalSpec, Journal!JournalIsFinal

(* So does run_logger: whatever the terminal, the disk, the stop file and  *)
(* signals do, it holds flush_max_rows rows at most, holds none once it has*)
(* ended in order, and takes nothing it saved back.                        *)
THEOREM LoggerIsExact ==
  Spec => []Journal!JournalIsExact /\ Journal!JournalIsFinal
<1>1. QED
  BY LoggerImplementsJournal, JournalKeepsItsPromise DEF JournalRefined
=============================================================================
