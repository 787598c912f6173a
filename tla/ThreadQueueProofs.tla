-------------------------- MODULE ThreadQueueProofs --------------------------
(***************************************************************************)
(* Proofs about the thread queue, for any number of writers, any batch     *)
(* size, capacity and timeouts: type correctness, in-order delivery, that  *)
(* the unlocked test of hlt_thread_queue_terminated is exact, the capacity *)
(* bound, and that the queue implements WriterFifo.                        *)
(***************************************************************************)
EXTENDS ThreadQueue, TLAPS, FiniteSetTheorems, SequenceTheorems

(* What a writer's thread knows at each point of write() and flush(). *)
WriterInv ==
  \A w \in Writers :
    /\ wpc[w] \in {"append", "full"}
         => ~ lock_writers_terminated[w] /\ writer_num_written[w] < MaxElems
    /\ wpc[w] = "append" => Len(writer_batches[w]) < BatchSize
    /\ wpc[w] \in {"full", "flush"} => writer_batches[w] # <<>>

(* The reader's counters are those of what it has returned and seen. *)
ReceivedCount == [w \in Writers |-> Len(delivered[w])]

CountInv ==
  /\ reader_num_read = Total(ReceivedCount)
  /\ reader_num_terminated = Cardinality(Writers)
       => \A w \in Writers : lock_writers_terminated[w]
  /\ rpc = "empty" => reader_head = <<>>

Inv ==
  /\ TypeOK
  /\ WriterInv
  /\ CountInv
  /\ PipelineExact
  /\ InOrder
  /\ CapacityRespected
  /\ DoneMeansDrained
  /\ NullMeansDrained

Assumptions == /\ IsFiniteSet(Writers) /\ Writers # {}
               /\ BatchSize \in Nat \ {0} /\ MaxBatches \in Nat /\ MaxElems \in Nat
               /\ Timeouts \subseteq Int

LEMMA Assumed == Assumptions
BY WritersAssumption, BatchSizeAssumption, MaxBatchesAssumption,
   MaxElemsAssumption, TimeoutsAssumption DEF Assumptions

-----------------------------------------------------------------------------
(* Counting *)

(* The pairs counted by Total form a finite set. *)
LEMMA TotalFinite ==
  ASSUME NEW c \in [Writers -> Nat]
  PROVE  /\ IsFiniteSet({p \in Writers \X (1..MaxElems) : p[2] <= c[p[1]]})
         /\ Total(c) \in Nat
<1>1. IsFiniteSet(1..MaxElems)
  BY FS_Interval, Assumed DEF Assumptions
<1>2. IsFiniteSet(Writers \X (1..MaxElems))
  BY <1>1, FS_Product, Assumed DEF Assumptions
<1>3. IsFiniteSet({p \in Writers \X (1..MaxElems) : p[2] <= c[p[1]]})
  BY <1>2, FS_Subset
<1> QED
  BY <1>3, FS_CardinalityType DEF Total

(* A counter that is nowhere larger and has the same total is the same. *)
LEMMA TotalEqual ==
  ASSUME NEW c \in [Writers -> 0..MaxElems], NEW d \in [Writers -> 0..MaxElems],
         \A w \in Writers : c[w] <= d[w],
         Total(c) = Total(d)
  PROVE  \A w \in Writers : c[w] = d[w]
<1> DEFINE C == {p \in Writers \X (1..MaxElems) : p[2] <= c[p[1]]}
           D == {p \in Writers \X (1..MaxElems) : p[2] <= d[p[1]]}
<1>1. C \subseteq D
  <2> SUFFICES ASSUME NEW w \in Writers, NEW n \in 1..MaxElems, n <= c[w]
               PROVE  n <= d[w]
    OBVIOUS
  <2> QED BY Assumed DEF Assumptions
<1>2. IsFiniteSet(D)
  BY TotalFinite, Assumed DEF Assumptions
<1>3. Cardinality(C) = Cardinality(D)
  BY DEF Total
<1> HIDE DEF C, D
<1>4. C = D
  BY <1>1, <1>2, <1>3, FS_Subset
<1> SUFFICES ASSUME NEW w \in Writers, c[w] < d[w] PROVE FALSE
  BY Assumed DEF Assumptions
<1>5. <<w, d[w]>> \in D
  BY Assumed DEF D, Assumptions
<1>6. <<w, d[w]>> \notin C
  BY Assumed DEF C, Assumptions
<1> QED BY <1>4, <1>5, <1>6

(* Incrementing one counter increments the total. *)
LEMMA TotalIncrement ==
  ASSUME NEW c \in [Writers -> 0..MaxElems], NEW w \in Writers, c[w] < MaxElems
  PROVE  Total([c EXCEPT ![w] = c[w] + 1]) = Total(c) + 1
<1> DEFINE d == [c EXCEPT ![w] = c[w] + 1]
           C == {p \in Writers \X (1..MaxElems) : p[2] <= c[p[1]]}
           D == {p \in Writers \X (1..MaxElems) : p[2] <= d[p[1]]}
           x == <<w, c[w] + 1>>
<1>1. x \in Writers \X (1..MaxElems)
  BY Assumed DEF Assumptions
<1>2. x \notin C
  BY Assumed DEF Assumptions
<1>3. D = C \cup {x}
  <2>1. ASSUME NEW v \in Writers, NEW n \in 1..MaxElems
        PROVE  n <= d[v] <=> (n <= c[v] \/ (v = w /\ n = c[w] + 1))
    BY Assumed DEF Assumptions
  <2>2. ASSUME NEW p \in Writers \X (1..MaxElems)
        PROVE  p \in D <=> p \in C \cup {x}
    <3>1. PICK v \in Writers, n \in 1..MaxElems : p = <<v, n>>
      OBVIOUS
    <3>2. p = x <=> (v = w /\ n = c[w] + 1)
      BY <3>1
    <3> QED BY <2>1, <3>1, <3>2
  <2> QED BY <1>1, <2>2
<1>4. IsFiniteSet(C)
  BY TotalFinite, Assumed DEF Assumptions
<1> HIDE DEF C, x
<1>5. Cardinality(D) = Cardinality(C) + 1
  BY <1>2, <1>3, <1>4, FS_AddElement
<1> QED BY <1>5 DEF Total, C

(* The unlocked test is exact: when the reader has counted every writer as *)
(* terminated, the counters no longer move, and a size of zero means that  *)
(* each writer's elements have all been read.                              *)
LEMMA TerminatedIsExact ==
  ASSUME TypeOK, CountInv, PipelineExact, hlt_thread_queue_terminated
  PROVE  Drained
<1>1. \A w \in Writers : lock_writers_terminated[w]
  BY DEF hlt_thread_queue_terminated, CountInv
<1>2. Total(writer_num_written) = Total(ReceivedCount)
  <2>1. Total(writer_num_written) \in Nat /\ Total(ReceivedCount) \in Nat
    <3>1. writer_num_written \in [Writers -> Nat] /\ ReceivedCount \in [Writers -> Nat]
      BY Assumed DEF TypeOK, ReceivedCount, Assumptions
    <3> QED BY <3>1, TotalFinite
  <2> QED BY <2>1 DEF hlt_thread_queue_terminated, hlt_thread_queue_size, CountInv
<1>3. \A w \in Writers : /\ Len(delivered[w]) \in Nat
                         /\ Len(delivered[w]) <= writer_num_written[w]
  BY Assumed DEF TypeOK, PipelineExact, BatchesLeaveNoGap, Flushed, Assumptions
<1>4. ReceivedCount \in [Writers -> 0..MaxElems]
  BY <1>3, Assumed DEF TypeOK, ReceivedCount, Assumptions
<1>5. \A w \in Writers : ReceivedCount[w] = writer_num_written[w]
  <2>1. \A w \in Writers : ReceivedCount[w] <= writer_num_written[w]
    BY <1>3 DEF ReceivedCount
  <2>2. writer_num_written \in [Writers -> 0..MaxElems]
    BY DEF TypeOK
  <2> QED BY <1>2, <1>4, <2>1, <2>2, TotalEqual
<1> QED BY <1>1, <1>5 DEF Drained, ReceivedCount

-----------------------------------------------------------------------------
(* The initial state *)

LEMMA InitInv == Init => Inv
<1> SUFFICES ASSUME Init PROVE Inv
  OBVIOUS
<1> USE Assumed DEF Assumptions, Init
<1>1. TypeOK
  <2>1. Cardinality(Writers) \in Nat
    BY FS_CardinalityType
  <2>2. \A S : <<>> \in Seq(S) /\ Len(<<>>) = 0
    BY EmptySeq
  <2>3. /\ writer_batches \in [Writers -> Seq(Elem)]
        /\ delivered \in [Writers -> Seq(1..MaxElems)]
        /\ reader_head \in Seq(Seq(Elem)) /\ lock_pending \in Seq(Seq(Elem))
    BY <2>2
  <2>4. /\ lock_block \in BOOLEAN /\ need_flush \in BOOLEAN /\ block \in BOOLEAN
        /\ lock_writers_terminated \in [Writers -> BOOLEAN]
    OBVIOUS
  <2>5. /\ \A w \in Writers : Len(writer_batches[w]) <= BatchSize
        /\ writer_num_written \in [Writers -> 0..MaxElems]
        /\ reader_pos \in 0..BatchSize /\ reader_num_read \in Nat
        /\ reader_num_terminated \in 0..Cardinality(Writers)
        /\ timeout \in Int
    BY <2>1, <2>2
  <2>6. /\ wpc \in [Writers -> {"idle", "append", "update", "flush", "full"}]
        /\ rpc \in {"client", "scan", "empty", "done"}
        /\ returned \in {"none", "elem", "null"}
    OBVIOUS
  <2> QED BY ONLY <2>3, <2>4, <2>5, <2>6 DEF TypeOK
<1>2. WriterInv
  BY DEF WriterInv
<1>3. CountInv
  <2>1. {p \in Writers \X (1..MaxElems) : p[2] <= ReceivedCount[p[1]]} = {}
    BY DEF ReceivedCount
  <2>2. Total(ReceivedCount) = 0
    BY <2>1, FS_EmptySet DEF Total
  <2>3. Cardinality(Writers) # 0
    BY FS_EmptySet
  <2> QED BY <2>2, <2>3 DEF CountInv
<1>4. PipelineExact
  BY DEF PipelineExact, BatchesAreRuns, BatchesAreOrdered, BatchesLeaveNoGap,
         StartsWell, PipeLen, Flushed
<1>5. InOrder /\ CapacityRespected /\ DoneMeansDrained /\ NullMeansDrained
  BY DEF InOrder, CapacityRespected, DoneMeansDrained, NullMeansDrained
<1> QED BY <1>1, <1>2, <1>3, <1>4, <1>5 DEF Inv

-----------------------------------------------------------------------------
(* Types *)

LEMMA TypeStep == Inv /\ [Next]_vars => TypeOK'
<1> SUFFICES ASSUME Inv, [Next]_vars PROVE TypeOK'
  OBVIOUS
<1> USE Assumed DEF Assumptions, TypeOK, Inv, vars, writerVars, lockVars, readerVars
<1>0. Cardinality(Writers) \in Nat
  BY FS_CardinalityType
<1>1. ASSUME NEW w \in Writers, Write(w) PROVE TypeOK'
  BY <1>1 DEF Write
<1>2. ASSUME NEW w \in Writers, WriteIgnored(w) PROVE TypeOK'
  BY <1>2 DEF WriteIgnored
<1>3. ASSUME NEW w \in Writers, WriteElem(w) PROVE TypeOK'
  <2>1. [from |-> w, serial |-> writer_num_written[w] + 1] \in Elem
    BY <1>3 DEF WriteElem, WriterInv, Elem
  <2>2. writer_batches' \in [Writers -> Seq(Elem)]
    BY <1>3, <2>1 DEF WriteElem
  <2>3. writer_num_written' \in [Writers -> 0..MaxElems]
    BY <1>3 DEF WriteElem, WriterInv
  <2>4. \A v \in Writers : Len(writer_batches'[v]) <= BatchSize
    BY <1>3, <2>1 DEF WriteElem, WriterInv
  <2> QED BY <1>3, <2>2, <2>3, <2>4 DEF WriteElem
<1>4. ASSUME NEW w \in Writers, WriterUpdate(w) PROVE TypeOK'
  BY <1>4 DEF WriterUpdate, StartFlush
<1>5. ASSUME NEW w \in Writers, Flush(w) PROVE TypeOK'
  BY <1>5 DEF Flush, StartFlush
<1>6. ASSUME NEW w \in Writers, TerminateWriter(w) PROVE TypeOK'
  BY <1>6 DEF TerminateWriter, StartFlush
<1>7. ASSUME NEW w \in Writers, FlushBatch(w) PROVE TypeOK'
  BY <1>7 DEF FlushBatch
<1>8. ASSUME NEW w \in Writers, FlushBlocked(w) PROVE TypeOK'
  BY <1>8 DEF FlushBlocked
<1>9. ASSUME NEW t \in Timeouts, Read(t) PROVE TypeOK'
  BY <1>9 DEF Read
<1>10. CASE ReaderDone
  BY <1>10 DEF ReaderDone
<1>11. CASE ReadElem
  <2> DEFINE e == Head(reader_head)[reader_pos + 1]
  <2>1. e \in Elem
    BY <1>11 DEF ReadElem
  <2>2. delivered' \in [Writers -> Seq(1..MaxElems)]
    <3>1. e.from \in Writers /\ e.serial \in 1..MaxElems
      BY <2>1 DEF Elem
    <3>2. Append(delivered[e.from], e.serial) \in Seq(1..MaxElems)
      BY <3>1, AppendProperties
    <3> QED BY <1>11, <3>1, <3>2 DEF ReadElem
  <2>3. reader_pos' \in 0..BatchSize
    <3>1. Len(reader_head) \in Nat \ {0} /\ Len(lock_pending) \in Nat
      BY <1>11, EmptySeq, LenProperties DEF ReadElem
    <3>2. 1 \in 1..PipeLen /\ Pipe(1) = Head(reader_head)
      BY <3>1 DEF Pipe, PipeLen
    <3>3. Len(Head(reader_head)) \in 1..BatchSize
      BY <3>2 DEF PipelineExact, BatchesAreRuns
    <3> QED BY <1>11, <3>3 DEF ReadElem
  <2>4. need_flush' \in BOOLEAN
    BY <1>11 DEF ReadElem
  <2>5. reader_num_read' \in Nat
    BY <1>11 DEF ReadElem
  <2>6. returned' \in {"none", "elem", "null"} /\ rpc' \in {"client", "scan", "empty", "done"}
    BY <1>11 DEF ReadElem
  <2>7. UNCHANGED <<writerVars, lockVars, reader_head, reader_num_terminated, timeout, block>>
    BY <1>11 DEF ReadElem
  <2> QED BY <2>2, <2>3, <2>4, <2>5, <2>6, <2>7
<1>12. CASE NextBatch
  <2>1. reader_head' \in Seq(Seq(Elem))
    BY <1>12, HeadTailProperties DEF NextBatch
  <2>2. reader_pos' \in 0..BatchSize
    BY <1>12 DEF NextBatch
  <2>3. need_flush' \in BOOLEAN
    BY <1>12 DEF NextBatch
  <2>4. UNCHANGED <<writerVars, lockVars, reader_num_read, reader_num_terminated,
                 rpc, timeout, block, returned, delivered>>
    BY <1>12 DEF NextBatch
  <2> QED BY <2>1, <2>2, <2>3, <2>4
<1>13. CASE TakePending
  <2>1. Cardinality({w \in Writers : lock_writers_terminated[w]}) \in 0..Cardinality(Writers)
    BY <1>0, FS_Subset, FS_CardinalityType
  <2>2. lock_pending' \in Seq(Seq(Elem)) /\ reader_head' \in Seq(Seq(Elem))
    BY <1>13, EmptySeq DEF TakePending
  <2>3. reader_num_terminated' \in 0..Cardinality(Writers)
    BY <1>13, <2>1 DEF TakePending
  <2>4. lock_block' \in BOOLEAN
    BY <1>13 DEF TakePending
  <2>5. reader_pos' \in 0..BatchSize /\ rpc' \in {"client", "scan", "empty", "done"}
    BY <1>13 DEF TakePending
  <2>6. UNCHANGED <<writerVars, lock_writers_terminated, need_flush,
                    reader_num_read, timeout, block, returned, delivered>>
    BY <1>13 DEF TakePending
  <2> QED BY <2>2, <2>3, <2>4, <2>5, <2>6
<1>14. CASE ReadEmpty
  BY <1>14 DEF ReadEmpty
<1>15. CASE UNCHANGED vars
  BY <1>15
<1> QED
  BY <1>1, <1>2, <1>3, <1>4, <1>5, <1>6, <1>7, <1>8, <1>9, <1>10, <1>11,
     <1>12, <1>13, <1>14, <1>15 DEF Next, ReaderStep, WriterStep, WriterCall

-----------------------------------------------------------------------------
(* What the writers know *)

LEMMA WriterInvStep == Inv /\ [Next]_vars => WriterInv'
<1> SUFFICES ASSUME Inv, [Next]_vars PROVE WriterInv'
  OBVIOUS
<1> USE Assumed DEF Assumptions, TypeOK, Inv, WriterInv, vars, writerVars, lockVars, readerVars
<1>1. CASE ReaderStep \/ UNCHANGED vars
  BY <1>1 DEF ReaderStep, Read, ReaderDone, ReadElem, NextBatch, TakePending, ReadEmpty
<1>2. ASSUME NEW w \in Writers, Write(w) PROVE WriterInv'
  BY <1>2, EmptySeq DEF Write, BatchFull, MayWrite
<1>3. ASSUME NEW w \in Writers, WriteIgnored(w) PROVE WriterInv'
  BY <1>3 DEF WriteIgnored
<1>4. ASSUME NEW w \in Writers, WriteElem(w) PROVE WriterInv'
  BY <1>4 DEF WriteElem
<1>5. ASSUME NEW w \in Writers, WriterUpdate(w) PROVE WriterInv'
  BY <1>5 DEF WriterUpdate, StartFlush
<1>6. ASSUME NEW w \in Writers, Flush(w) PROVE WriterInv'
  BY <1>6 DEF Flush, StartFlush
<1>7. ASSUME NEW w \in Writers, TerminateWriter(w) PROVE WriterInv'
  BY <1>7 DEF TerminateWriter, StartFlush
<1>8. ASSUME NEW w \in Writers, FlushBatch(w) PROVE WriterInv'
  BY <1>8, EmptySeq DEF FlushBatch
<1>9. ASSUME NEW w \in Writers, FlushBlocked(w) PROVE WriterInv'
  BY <1>9 DEF FlushBlocked
<1> QED
  BY <1>1, <1>2, <1>3, <1>4, <1>5, <1>6, <1>7, <1>8, <1>9
     DEF Next, WriterStep, WriterCall

-----------------------------------------------------------------------------
(* The capacity limit *)

LEMMA CapacityStep == Inv /\ [Next]_vars => CapacityRespected'
<1> SUFFICES ASSUME Inv, [Next]_vars PROVE CapacityRespected'
  OBVIOUS
<1> USE Assumed DEF Assumptions, TypeOK, Inv, CapacityRespected, vars, writerVars,
                    lockVars, readerVars
<1>1. CASE TakePending
  BY <1>1, EmptySeq DEF TakePending
<1>2. ASSUME NEW w \in Writers, FlushBatch(w) PROVE CapacityRespected'
  BY <1>2, AppendProperties DEF FlushBatch, HasRoom
<1>3. ASSUME NEW w \in Writers, FlushBlocked(w) PROVE CapacityRespected'
  BY <1>3 DEF FlushBlocked, HasRoom
<1>4. CASE UNCHANGED <<lock_pending, lock_block>>
  BY <1>4
<1> QED
  BY <1>1, <1>2, <1>3, <1>4
     DEF Next, WriterStep, WriterCall, ReaderStep, Read, ReaderDone, ReadElem,
         NextBatch, ReadEmpty, Write, WriteIgnored, WriteElem, WriterUpdate,
         Flush, TerminateWriter

-----------------------------------------------------------------------------
(* The pipeline: how each action changes what lies between writers and     *)
(* reader.                                                                 *)

(* The element read() returns next is the one its writer's next serial     *)
(* belongs to.                                                             *)
LEMMA NextElement ==
  ASSUME Inv, ReadElem
  PROVE  /\ 1 \in 1..PipeLen
         /\ Head(reader_head)[reader_pos + 1] =
              [from |-> From(1), serial |-> Len(delivered[From(1)]) + 1]
         /\ From(1) \in Writers
         /\ reader_pos < Len(Pipe(1))
         /\ Len(delivered[From(1)]) < Flushed(From(1))
         /\ delivered' = [delivered EXCEPT ![From(1)] =
                            Append(@, Len(delivered[From(1)]) + 1)]
<1> USE Assumed DEF Assumptions, TypeOK, Inv, ReadElem
<1>1. Len(reader_head) \in Nat \ {0} /\ Len(lock_pending) \in Nat
  BY EmptySeq, LenProperties
<1>2. 1 \in 1..PipeLen /\ Pipe(1) = Head(reader_head)
  BY <1>1 DEF Pipe, PipeLen
<1>3. Pipe(1) \in Seq(Elem) /\ Len(Pipe(1)) \in Nat
  BY <1>2, HeadTailProperties, LenProperties
<1>4. reader_pos + 1 \in 1..Len(Pipe(1)) /\ 1 \in 1..Len(Pipe(1))
  BY <1>2, <1>3
<1>5. From(1) \in Writers /\ First(1) \in Nat
  <2>1. Pipe(1)[1] \in Elem
    BY <1>3, <1>4, ElementOfSeq
  <2>2. Pipe(1)[1].from \in Writers /\ Pipe(1)[1].serial \in 1..MaxElems
    BY ONLY <2>1 DEF Elem
  <2> QED BY ONLY <2>2, Assumed DEF From, First, Assumptions
<1>6. Pipe(1)[reader_pos + 1] = [from |-> From(1), serial |-> First(1) + (reader_pos + 1) - 1]
  BY <1>2, <1>4 DEF PipelineExact, BatchesAreRuns
<1>7. First(1) + reader_pos = Len(delivered[From(1)]) + 1
  BY <1>2, <1>1 DEF PipelineExact, BatchesLeaveNoGap, PipeLen
<1>8. Pipe(1)[reader_pos + 1] = [from |-> From(1), serial |-> Len(delivered[From(1)]) + 1]
  BY <1>5, <1>6, <1>7
<1>9. Len(delivered[From(1)]) < Flushed(From(1))
  <2>1. Past(1) <= Flushed(From(1)) + 1
    BY <1>2 DEF PipelineExact, BatchesLeaveNoGap
  <2>2. Flushed(From(1)) \in Int
    BY <1>5, LenProperties DEF Flushed
  <2>3. Len(delivered[From(1)]) \in Nat
    BY <1>5, LenProperties
  <2> QED BY <1>3, <1>4, <1>5, <1>7, <2>1, <2>2, <2>3 DEF Past
<1>10. delivered' = [delivered EXCEPT ![From(1)] =
                            Append(@, Len(delivered[From(1)]) + 1)]
  <2> DEFINE e == Head(reader_head)[reader_pos + 1]
  <2>1. e.from = From(1) /\ e.serial = Len(delivered[From(1)]) + 1
    BY ONLY <1>2, <1>8
  <2>2. delivered' = [delivered EXCEPT ![e.from] = Append(delivered[e.from], e.serial)]
    OBVIOUS
  <2> HIDE DEF e
  <2> QED BY ONLY <2>1, <2>2
<1> QED BY <1>2, <1>4, <1>5, <1>8, <1>9, <1>10

(* The batches in the pipeline and their bounds. *)
LEMMA PipeTypes ==
  ASSUME TypeOK, PipelineExact
  PROVE  /\ PipeLen \in Nat
         /\ Len(reader_head) \in Nat /\ Len(lock_pending) \in Nat
         /\ \A i \in 1..PipeLen :
              /\ Pipe(i) \in Seq(Elem) /\ Len(Pipe(i)) \in Nat \ {0}
              /\ From(i) \in Writers
              /\ First(i) \in Nat /\ Past(i) \in Nat
         /\ \A w \in Writers : /\ Flushed(w) \in Int
                               /\ Len(delivered[w]) \in Nat
                               /\ Len(writer_batches[w]) \in Nat
<1>1. Len(reader_head) \in Nat /\ Len(lock_pending) \in Nat
  BY LenProperties DEF TypeOK
<1>2. PipeLen \in Nat
  BY <1>1 DEF PipeLen
<1>3. ASSUME NEW i \in 1..PipeLen PROVE Pipe(i) \in Seq(Elem)
  <2>1. CASE i <= Len(reader_head)
    <3>1. i \in 1..Len(reader_head)
      BY <1>1, <1>2, <2>1
    <3>2. reader_head[i] \in Seq(Elem)
      BY <3>1, ElementOfSeq DEF TypeOK
    <3> QED BY <3>2, <2>1 DEF Pipe
  <2>2. CASE ~ (i <= Len(reader_head))
    <3>1. i - Len(reader_head) \in 1..Len(lock_pending)
      BY <1>1, <2>2 DEF PipeLen
    <3>2. lock_pending[i - Len(reader_head)] \in Seq(Elem)
      BY <3>1, ElementOfSeq DEF TypeOK
    <3> QED BY <3>2, <2>2 DEF Pipe
  <2> QED BY <2>1, <2>2
<1>4. ASSUME NEW i \in 1..PipeLen
      PROVE  /\ Len(Pipe(i)) \in Nat \ {0} /\ From(i) \in Writers
             /\ First(i) \in Nat /\ Past(i) \in Nat
  <2>1. Len(Pipe(i)) \in 1..BatchSize
    BY DEF PipelineExact, BatchesAreRuns
  <2>2. Len(Pipe(i)) \in Nat \ {0} /\ 1 \in 1..Len(Pipe(i))
    BY <2>1, Assumed DEF Assumptions
  <2>3. Pipe(i)[1] \in Elem
    BY <1>3, <2>2, ElementOfSeq
  <2>4. Pipe(i)[1].from \in Writers /\ Pipe(i)[1].serial \in 1..MaxElems
    BY ONLY <2>3 DEF Elem
  <2>5. From(i) \in Writers /\ First(i) \in Nat
    BY ONLY <2>4, Assumed DEF From, First, Assumptions
  <2> QED BY <2>2, <2>5 DEF Past
<1>5. ASSUME NEW w \in Writers
      PROVE  /\ Flushed(w) \in Int
             /\ Len(delivered[w]) \in Nat /\ Len(writer_batches[w]) \in Nat
  BY LenProperties, Assumed DEF TypeOK, Flushed, Assumptions
<1> QED BY <1>1, <1>2, <1>3, <1>4, <1>5

(* A step that leaves the pipeline, its ends and the reader's place alone. *)
LEMMA PipeFrame ==
  ASSUME TypeOK, PipelineExact,
         PipeLen' = PipeLen,
         \A i \in 1..PipeLen : Pipe(i)' = Pipe(i),
         delivered' = delivered, reader_pos' = reader_pos,
         \A w \in Writers : Flushed(w)' = Flushed(w),
         \A w \in Writers : \A j \in 1..Len(writer_batches'[w]) :
           writer_batches'[w][j] = [from |-> w, serial |-> Flushed(w) + j]
  PROVE  BatchesAreRuns' /\ BatchesAreOrdered' /\ BatchesLeaveNoGap'
<1>1. \A i \in 1..PipeLen :
        From(i)' = From(i) /\ First(i)' = First(i) /\ Past(i)' = Past(i)
  BY DEF From, First, Past
<1>2. /\ PipeLen \in Nat
      /\ \A i \in 1..PipeLen : From(i) \in Writers
  BY PipeTypes
<1>3. BatchesAreRuns'
  <2>1. ASSUME NEW i \in 1..PipeLen
        PROVE  /\ Len(Pipe(i)') \in 1..BatchSize
               /\ \A j \in 1..Len(Pipe(i)') :
                    Pipe(i)'[j] = [from |-> From(i)', serial |-> First(i)' + j - 1]
    BY <1>1 DEF PipelineExact, BatchesAreRuns
  <2> QED BY <2>1 DEF BatchesAreRuns
<1>4. BatchesAreOrdered'
  BY <1>1 DEF PipelineExact, BatchesAreOrdered
<1>5. BatchesLeaveNoGap'
  <2>1. ASSUME NEW w \in Writers, NEW n, NEW i \in 0..PipeLen, StartsWell(w, n, i)
        PROVE  \/ n = Len(delivered'[w]) + 1
               \/ \E k \in 1..i : From(k)' = w /\ Past(k)' = n
    BY <1>1, <1>2, <2>1 DEF StartsWell
  <2>2. PipeLen' > 0 => First(1)' + reader_pos' = Len(delivered'[From(1)']) + 1
    BY <1>1, <1>2 DEF PipelineExact, BatchesLeaveNoGap
  <2>3. ASSUME NEW i \in 2..PipeLen
        PROVE  \/ First(i)' = Len(delivered'[From(i)']) + 1
               \/ \E k \in 1..(i-1) : From(k)' = From(i)' /\ Past(k)' = First(i)'
    <3>1. StartsWell(From(i), First(i), i - 1) /\ i \in 1..PipeLen /\ i - 1 \in 0..PipeLen
      BY <1>2 DEF PipelineExact, BatchesLeaveNoGap
    <3> QED BY <1>1, <1>2, <2>1, <3>1
  <2>4. \A i \in 1..PipeLen : (Past(i) <= Flushed(From(i)) + 1)'
    BY <1>1, <1>2 DEF PipelineExact, BatchesLeaveNoGap, Flushed
  <2>5. ASSUME NEW w \in Writers
        PROVE  /\ \/ Flushed(w)' + 1 = Len(delivered'[w]) + 1
                  \/ \E k \in 1..PipeLen : From(k)' = w /\ Past(k)' = Flushed(w)' + 1
               /\ Len(delivered'[w]) <= Flushed(w)'
    <3>1. StartsWell(w, Flushed(w) + 1, PipeLen) /\ Len(delivered[w]) <= Flushed(w)
      BY DEF PipelineExact, BatchesLeaveNoGap
    <3> QED BY <1>2, <2>1, <3>1
  <2> QED BY <2>2, <2>3, <2>4, <2>5 DEF BatchesLeaveNoGap, StartsWell
<1> QED BY <1>3, <1>4, <1>5

(* write() extends the writer's private run. *)
LEMMA PipeWriteElem ==
  ASSUME Inv, NEW w \in Writers, WriteElem(w)
  PROVE  PipelineExact'
<1> USE Assumed DEF Assumptions, Inv, WriteElem, lockVars, readerVars
<1> DEFINE e == [from |-> w, serial |-> writer_num_written[w] + 1]
<1>1. PipeLen' = PipeLen /\ (\A i \in 1..PipeLen : Pipe(i)' = Pipe(i))
  BY DEF PipeLen, Pipe
<1>2. /\ writer_batches[w] \in Seq(Elem) /\ e \in Elem
      /\ \A v \in Writers : writer_num_written[v] \in Nat /\ Len(writer_batches[v]) \in Nat
  <2>1. writer_num_written[w] + 1 \in 1..MaxElems
    BY DEF TypeOK, WriterInv
  <2>2. e \in Elem
    BY <2>1 DEF Elem
  <2>3. \A v \in Writers : writer_batches[v] \in Seq(Elem) /\ writer_num_written[v] \in Nat
    BY DEF TypeOK
  <2> QED BY <2>2, <2>3, LenProperties
<1>3. /\ Len(Append(writer_batches[w], e)) = Len(writer_batches[w]) + 1
      /\ \A j \in 1..Len(writer_batches[w]) : Append(writer_batches[w], e)[j] = writer_batches[w][j]
      /\ Append(writer_batches[w], e)[Len(writer_batches[w]) + 1] = e
  BY ONLY <1>2, AppendProperties
<1>4. writer_batches' = [writer_batches EXCEPT ![w] = Append(writer_batches[w], e)]
  OBVIOUS
<1>5. \A v \in Writers : Flushed(v)' = Flushed(v)
  <2>1. ASSUME NEW v \in Writers, v # w PROVE Flushed(v)' = Flushed(v)
    BY <1>4, <2>1 DEF Flushed, TypeOK
  <2>2. writer_num_written'[w] = writer_num_written[w] + 1
    BY DEF TypeOK
  <2>3. Len(writer_batches'[w]) = Len(writer_batches[w]) + 1
    BY <1>3, <1>4 DEF TypeOK
  <2>4. Flushed(w)' = Flushed(w)
    BY ONLY <1>2, <2>2, <2>3 DEF Flushed
  <2> QED BY <2>1, <2>4
<1>6. ASSUME NEW v \in Writers, NEW j \in 1..Len(writer_batches'[v])
      PROVE  writer_batches'[v][j] = [from |-> v, serial |-> Flushed(v) + j]
  <2>1. \A k \in 1..Len(writer_batches[v]) :
          writer_batches[v][k] = [from |-> v, serial |-> Flushed(v) + k]
    BY DEF PipelineExact, BatchesAreRuns
  <2>2. CASE v = w /\ j = Len(writer_batches[w]) + 1
    <3>1. writer_batches'[v][j] = e
      BY <1>3, <1>4, <2>2 DEF TypeOK
    <3>2. Flushed(v) + j = writer_num_written[w] + 1
      BY <1>2, <2>2 DEF Flushed
    <3> QED BY <2>2, <3>1, <3>2
  <2>3. CASE v = w /\ j # Len(writer_batches[w]) + 1
    BY <1>2, <1>3, <1>4, <2>1, <2>3 DEF TypeOK
  <2>4. CASE v # w
    BY <1>4, <1>6, <2>1, <2>4 DEF TypeOK
  <2> QED BY <2>2, <2>3, <2>4
<1>7. BatchesAreRuns' /\ BatchesAreOrdered' /\ BatchesLeaveNoGap'
  BY <1>1, <1>5, <1>6, PipeFrame
<1> QED BY <1>7 DEF PipelineExact

(* The reader takes over the pending list: the pipeline is the same, only  *)
(* the border between its two parts moves.                                 *)
LEMMA PipeTakePending ==
  ASSUME Inv, TakePending
  PROVE  PipelineExact'
<1> USE Assumed DEF Assumptions, Inv, TakePending, writerVars
<1>1. /\ Len(reader_head) = 0 /\ Len(lock_pending') = 0
      /\ Len(lock_pending) \in Nat
  BY EmptySeq, LenProperties DEF TypeOK
<1>2. PipeLen' = PipeLen /\ PipeLen = Len(lock_pending)
  BY <1>1 DEF PipeLen
<1>3. \A i \in 1..PipeLen : Pipe(i)' = Pipe(i)
  BY <1>1, <1>2 DEF Pipe
<1>4. \A w \in Writers : Flushed(w)' = Flushed(w)
  BY DEF Flushed
<1>5. reader_pos' = reader_pos
  BY DEF PipelineExact
<1>6. \A w \in Writers : \A j \in 1..Len(writer_batches'[w]) :
        writer_batches'[w][j] = [from |-> w, serial |-> Flushed(w) + j]
  BY DEF PipelineExact, BatchesAreRuns
<1>7. BatchesAreRuns' /\ BatchesAreOrdered' /\ BatchesLeaveNoGap'
  BY <1>2, <1>3, <1>4, <1>5, <1>6, PipeFrame
<1>8. reader_head' # <<>> => reader_pos' <= Len(Head(reader_head'))
  BY HeadTailProperties, LenProperties DEF TypeOK
<1> QED BY <1>7, <1>8 DEF PipelineExact

(* flush() appends the private run to the pipeline. *)
LEMMA PipeFlushBatch ==
  ASSUME Inv, NEW w \in Writers, FlushBatch(w)
  PROVE  PipelineExact'
<1> USE Assumed DEF Assumptions
<1> DEFINE b == writer_batches[w]
<1>a. PICK N \in Nat : N = PipeLen
  BY PipeTypes DEF Inv
<1>0. /\ TypeOK /\ PipelineExact
      /\ lock_pending' = Append(lock_pending, b)
      /\ writer_batches' = [writer_batches EXCEPT ![w] = <<>>]
      /\ UNCHANGED <<writer_num_written, reader_head, reader_pos, delivered>>
  BY DEF Inv, FlushBatch, readerVars
<1>1. b \in Seq(Elem) /\ Len(b) \in 1..BatchSize
  BY <1>0, EmptySeq, LenProperties DEF Inv, FlushBatch, TypeOK, WriterInv
<1>2. /\ Len(lock_pending') = Len(lock_pending) + 1
      /\ \A j \in 1..Len(lock_pending) : lock_pending'[j] = lock_pending[j]
      /\ lock_pending'[Len(lock_pending) + 1] = b
  BY <1>0, <1>1, AppendProperties DEF TypeOK
<1>3. /\ N \in Nat /\ Len(reader_head) \in Nat /\ Len(lock_pending) \in Nat
      /\ \A i \in 1..N : /\ Len(Pipe(i)) \in Nat \ {0} /\ From(i) \in Writers
                         /\ First(i) \in Nat /\ Past(i) \in Nat
      /\ \A v \in Writers : Flushed(v) \in Int /\ Len(delivered[v]) \in Nat
  BY <1>0, <1>a, PipeTypes
<1>4. /\ PipeLen' = N + 1
      /\ \A i \in 1..N : Pipe(i)' = Pipe(i)
      /\ Pipe(N + 1)' = b
  <2>1. PipeLen' = N + 1
    BY <1>0, <1>2, <1>3, <1>a DEF PipeLen
  <2>2. ASSUME NEW i \in 1..N PROVE Pipe(i)' = Pipe(i)
    BY <1>0, <1>2, <1>3, <1>a DEF Pipe, PipeLen
  <2>3. Pipe(N + 1)' = b
    BY <1>0, <1>2, <1>3, <1>a DEF Pipe, PipeLen
  <2> QED BY <2>1, <2>2, <2>3
<1>5. \A i \in 1..N : From(i)' = From(i) /\ First(i)' = First(i) /\ Past(i)' = Past(i)
  BY <1>4 DEF From, First, Past
<1>6. \A j \in 1..Len(b) : b[j] = [from |-> w, serial |-> Flushed(w) + j]
  BY <1>0 DEF PipelineExact, BatchesAreRuns
<1>7. /\ From(N + 1)' = w
      /\ First(N + 1)' = Flushed(w) + 1
      /\ Past(N + 1)' = Flushed(w) + Len(b) + 1
  <2>0. 1 \in 1..Len(b)
    BY <1>1
  <2>1. b[1] = [from |-> w, serial |-> Flushed(w) + 1]
    BY ONLY <1>6, <2>0
  <2>2. b[1].from = w /\ b[1].serial = Flushed(w) + 1
    BY <2>1
  <2>3. Len(b) \in Nat
    BY <1>1
  <2> HIDE DEF b
  <2>4. /\ From(N + 1)' = w
        /\ First(N + 1)' = Flushed(w) + 1
    BY <1>4, <2>2 DEF From, First
  <2>5. Past(N + 1)' = Flushed(w) + 1 + Len(b)
    BY <1>4, <2>4 DEF Past
  <2> QED BY <1>3, <2>3, <2>4, <2>5
<1>8. /\ Flushed(w)' = Flushed(w) + Len(b)
      /\ \A v \in Writers : v # w => Flushed(v)' = Flushed(v)
  BY <1>0, <1>1, EmptySeq DEF Flushed, TypeOK
<1> HIDE DEF b
<1>9. BatchesAreRuns'
  <2>1. ASSUME NEW i \in 1..(N + 1)
        PROVE  /\ Len(Pipe(i)') \in 1..BatchSize
               /\ \A j \in 1..Len(Pipe(i)') :
                    Pipe(i)'[j] = [from |-> From(i)', serial |-> First(i)' + j - 1]
    <3>1. CASE i = N + 1
      BY <1>1, <1>3, <1>4, <1>6, <1>7, <3>1
    <3>2. CASE i # N + 1
      <4>1. i \in 1..PipeLen
        BY <1>3, <1>a, <3>2
      <4>2. /\ Len(Pipe(i)) \in 1..BatchSize
            /\ \A j \in 1..Len(Pipe(i)) :
                 Pipe(i)[j] = [from |-> From(i), serial |-> First(i) + j - 1]
        BY <1>0, <4>1 DEF PipelineExact, BatchesAreRuns
      <4>3. Pipe(i)' = Pipe(i) /\ From(i)' = From(i) /\ First(i)' = First(i)
        BY <1>a, <1>4, <1>5, <4>1
      <4> QED BY <4>2, <4>3
    <3> QED BY <3>1, <3>2
  <2>2. ASSUME NEW v \in Writers, NEW j \in 1..Len(writer_batches'[v])
        PROVE  writer_batches'[v][j] = [from |-> v, serial |-> Flushed(v)' + j]
    <3>1. v # w
      BY <1>0, EmptySeq DEF TypeOK
    <3> QED BY <1>0, <1>8, <3>1 DEF TypeOK, PipelineExact, BatchesAreRuns
  <2> QED BY <1>4, <2>1, <2>2 DEF BatchesAreRuns
<1>10. \A i \in 1..N : Past(i) <= Flushed(From(i)) + 1
  BY <1>0, <1>a DEF PipelineExact, BatchesLeaveNoGap
<1>11. BatchesAreOrdered'
  <2>1. ASSUME NEW i \in 1..(N + 1), NEW k \in 1..(N + 1), i < k, From(i)' = From(k)'
        PROVE  Past(i)' <= First(k)'
    <3>1. i \in 1..N
      BY <1>3, <2>1
    <3>2. CASE k = N + 1
      BY <1>5, <1>7, <1>10, <2>1, <3>1, <3>2
    <3>3. CASE k # N + 1
      <4>1. k \in 1..N
        BY <1>3, <3>3
      <4> QED BY <1>0, <1>a, <1>5, <2>1, <3>1, <4>1 DEF PipelineExact, BatchesAreOrdered
    <3> QED BY <3>2, <3>3
  <2> QED BY <1>4, <2>1 DEF BatchesAreOrdered
<1>12. BatchesLeaveNoGap'
  <2>0. /\ N > 0 => First(1) + reader_pos = Len(delivered[From(1)]) + 1
        /\ \A i \in 2..N : StartsWell(From(i), First(i), i - 1)
        /\ \A v \in Writers : /\ StartsWell(v, Flushed(v) + 1, N)
                              /\ Len(delivered[v]) <= Flushed(v)
    BY <1>0, <1>a DEF PipelineExact, BatchesLeaveNoGap
  <2>1. First(1)' + reader_pos' = Len(delivered'[From(1)']) + 1
    <3>1. CASE N > 0
      BY <1>0, <1>3, <1>5, <2>0, <3>1
    <3>2. CASE N = 0
      <4>1. reader_head = <<>>
        BY <1>3, <1>a, <3>2, EmptySeq, <1>0 DEF PipeLen, TypeOK
      <4>2. reader_pos = 0
        BY <1>0, <4>1 DEF PipelineExact
      <4>3. Flushed(w) = Len(delivered[w])
        BY <1>3, <2>0, <3>2 DEF StartsWell
      <4> QED BY <1>0, <1>3, <1>7, <3>2, <4>2, <4>3
    <3> QED BY <1>3, <3>1, <3>2
  <2>2. ASSUME NEW i \in 2..(N + 1)
        PROVE  \/ First(i)' = Len(delivered'[From(i)']) + 1
               \/ \E k \in 1..(i-1) : From(k)' = From(i)' /\ Past(k)' = First(i)'
    <3>1. CASE i = N + 1
      <4>1. StartsWell(w, Flushed(w) + 1, N)
        BY <2>0
      <4>2. \/ Flushed(w) + 1 = Len(delivered[w]) + 1
            \/ \E k \in 1..N : From(k) = w /\ Past(k) = Flushed(w) + 1
        BY <4>1 DEF StartsWell
      <4>3. i - 1 = N
        BY <1>3, <3>1
      <4> QED BY <1>0, <1>5, <1>7, <3>1, <4>2, <4>3
    <3>2. CASE i # N + 1
      <4>1. i \in 2..N /\ i \in 1..N /\ 1..(i-1) \subseteq 1..N
        BY <1>3, <3>2
      <4>2. StartsWell(From(i), First(i), i - 1)
        BY <2>0, <4>1
      <4>3. \/ First(i) = Len(delivered[From(i)]) + 1
            \/ \E k \in 1..(i-1) : From(k) = From(i) /\ Past(k) = First(i)
        BY <4>2 DEF StartsWell
      <4> QED BY <1>0, <1>5, <4>1, <4>3
    <3> QED BY <3>1, <3>2
  <2>3. ASSUME NEW i \in 1..(N + 1)
        PROVE  (Past(i) <= Flushed(From(i)) + 1)'
    <3>1. ASSUME NEW v \in Writers, From(i)' = v, Past(i)' <= Flushed(v)' + 1
          PROVE  (Past(i) <= Flushed(From(i)) + 1)'
      BY <3>1 DEF Flushed
    <3>2. CASE i = N + 1
      BY <1>1, <1>3, <1>7, <1>8, <3>1, <3>2
    <3>3. CASE i # N + 1
      <4>1. i \in 1..N
        BY <1>3, <3>3
      <4>2. From(i) \in Writers /\ Past(i) <= Flushed(From(i)) + 1 /\ Past(i) \in Nat
        BY <1>3, <1>10, <4>1
      <4>3. \A v \in Writers : Flushed(v)' >= Flushed(v)
        BY <1>1, <1>3, <1>8
      <4>4. \A v \in Writers : Flushed(v)' \in Int
        BY <1>1, <1>3, <1>8
      <4> QED BY <1>3, <1>5, <3>1, <4>1, <4>2, <4>3, <4>4
    <3> QED BY <3>2, <3>3
  <2>4. ASSUME NEW v \in Writers
        PROVE  /\ \/ Flushed(v)' + 1 = Len(delivered'[v]) + 1
                  \/ \E k \in 1..(N + 1) : From(k)' = v /\ Past(k)' = Flushed(v)' + 1
               /\ Len(delivered'[v]) <= Flushed(v)'
    <3>1. CASE v = w
      <4>1. N + 1 \in 1..(N + 1)
        BY <1>3
      <4>2. Past(N + 1)' = Flushed(w)' + 1
        BY <1>1, <1>3, <1>7, <1>8
      <4> QED BY <1>0, <1>1, <1>3, <1>7, <1>8, <2>0, <3>1, <4>1, <4>2
    <3>2. CASE v # w
      <4>1. \/ Flushed(v) + 1 = Len(delivered[v]) + 1
            \/ \E k \in 1..N : From(k) = v /\ Past(k) = Flushed(v) + 1
        BY <2>0 DEF StartsWell
      <4>2. 1..N \subseteq 1..(N + 1)
        BY <1>3
      <4> QED BY <1>0, <1>5, <1>8, <2>0, <3>2, <4>1, <4>2
    <3> QED BY <3>1, <3>2
  <2> QED BY <1>4, <2>1, <2>2, <2>3, <2>4 DEF BatchesLeaveNoGap, StartsWell
<1> QED BY <1>0, <1>9, <1>11, <1>12 DEF PipelineExact

(* read() consumes one element of the first batch. *)
LEMMA PipeReadElem ==
  ASSUME Inv, ReadElem
  PROVE  PipelineExact'
<1> USE Assumed DEF Assumptions
<1>a. PICK u \in Writers : u = From(1)
  BY NextElement
<1>0. /\ TypeOK /\ PipelineExact
      /\ 1 \in 1..PipeLen /\ reader_pos < Len(Pipe(1)) /\ reader_pos \in Nat
      /\ reader_pos' = reader_pos + 1
      /\ delivered' = [delivered EXCEPT ![u] = Append(delivered[u], Len(delivered[u]) + 1)]
      /\ Len(delivered[u]) < Flushed(u)
      /\ UNCHANGED <<writer_num_written, writer_batches, reader_head, lock_pending>>
  <2>1. /\ 1 \in 1..PipeLen /\ reader_pos < Len(Pipe(1))
        /\ delivered' = [delivered EXCEPT ![u] = Append(delivered[u], Len(delivered[u]) + 1)]
        /\ Len(delivered[u]) < Flushed(u)
    BY NextElement, <1>a
  <2>2. /\ reader_pos' = reader_pos + 1
        /\ UNCHANGED <<writer_num_written, writer_batches, reader_head, lock_pending>>
    BY DEF ReadElem, writerVars, lockVars
  <2>3. TypeOK /\ PipelineExact
    BY DEF Inv
  <2>4. reader_pos \in Nat
    BY <2>3 DEF TypeOK
  <2> QED BY <2>1, <2>2, <2>3, <2>4
<1>1. /\ PipeLen \in Nat
      /\ \A i \in 1..PipeLen : /\ Len(Pipe(i)) \in Nat \ {0} /\ From(i) \in Writers
                               /\ First(i) \in Nat /\ Past(i) \in Nat
      /\ \A v \in Writers : Flushed(v) \in Int /\ Len(delivered[v]) \in Nat
  BY <1>0, PipeTypes
<1>2. /\ PipeLen' = PipeLen
      /\ \A i \in 1..PipeLen : /\ Pipe(i)' = Pipe(i) /\ From(i)' = From(i)
                               /\ First(i)' = First(i) /\ Past(i)' = Past(i)
      /\ \A v \in Writers : Flushed(v)' = Flushed(v)
  BY <1>0 DEF PipeLen, Pipe, From, First, Past, Flushed
<1>3. /\ Len(delivered'[u]) = Len(delivered[u]) + 1
      /\ \A v \in Writers : v # u => delivered'[v] = delivered[v]
  <2>1. Len(Append(delivered[u], Len(delivered[u]) + 1)) = Len(delivered[u]) + 1
    <3>1. delivered[u] \in Seq(Nat)
      BY <1>0, SeqMonotonic DEF TypeOK
    <3> QED BY <3>1, <1>1, AppendProperties
  <2> QED BY <1>0, <2>1 DEF TypeOK
<1>4. BatchesAreRuns'
  <2>1. ASSUME NEW i \in 1..PipeLen
        PROVE  /\ Len(Pipe(i)') \in 1..BatchSize
               /\ \A j \in 1..Len(Pipe(i)') :
                    Pipe(i)'[j] = [from |-> From(i)', serial |-> First(i)' + j - 1]
    <3>1. /\ Len(Pipe(i)) \in 1..BatchSize
          /\ \A j \in 1..Len(Pipe(i)) :
               Pipe(i)[j] = [from |-> From(i), serial |-> First(i) + j - 1]
      BY <1>0 DEF PipelineExact, BatchesAreRuns
    <3>2. Pipe(i)' = Pipe(i) /\ From(i)' = From(i) /\ First(i)' = First(i)
      BY <1>2
    <3> QED BY ONLY <3>1, <3>2
  <2>2. \A v \in Writers : \A j \in 1..Len(writer_batches'[v]) :
          writer_batches'[v][j] = [from |-> v, serial |-> Flushed(v)' + j]
    BY <1>0, <1>2 DEF PipelineExact, BatchesAreRuns
  <2> QED BY <1>2, <2>1, <2>2 DEF BatchesAreRuns
<1>5. BatchesAreOrdered'
  BY <1>0, <1>2 DEF PipelineExact, BatchesAreOrdered
<1>6. BatchesLeaveNoGap'
  <2>0. /\ First(1) + reader_pos = Len(delivered[u]) + 1
        /\ \A i \in 2..PipeLen : StartsWell(From(i), First(i), i - 1)
        /\ \A i \in 1..PipeLen : Past(i) <= Flushed(From(i)) + 1
        /\ \A v \in Writers : /\ StartsWell(v, Flushed(v) + 1, PipeLen)
                              /\ Len(delivered[v]) <= Flushed(v)
    BY <1>0, <1>1, <1>a DEF PipelineExact, BatchesLeaveNoGap
  <2>a. Past(1) > Len(delivered[u]) + 1
    BY <1>0, <1>1, <2>0 DEF Past
  <2>1. First(1)' + reader_pos' = Len(delivered'[From(1)']) + 1
    <3>1. From(1)' = u /\ First(1)' = First(1) /\ First(1) \in Nat
      BY <1>0, <1>1, <1>2, <1>a
    <3>2. Len(delivered[u]) \in Nat /\ reader_pos \in Nat
      BY <1>0, <1>1
    <3>3. First(1) + (reader_pos + 1) = (Len(delivered[u]) + 1) + 1
      BY ONLY <2>0, <3>1, <3>2
    <3>4. reader_pos' = reader_pos + 1 /\ Len(delivered'[u]) = Len(delivered[u]) + 1
      BY <1>0, <1>3
    <3> QED BY ONLY <3>1, <3>3, <3>4
  <2>2. ASSUME NEW i \in 2..PipeLen
        PROVE  \/ First(i)' = Len(delivered'[From(i)']) + 1
               \/ \E k \in 1..(i-1) : From(k)' = From(i)' /\ Past(k)' = First(i)'
    <3>1. i \in 1..PipeLen /\ 1 < i /\ 1..(i-1) \subseteq 1..PipeLen /\ From(i) \in Writers
      BY <1>1
    <3>2. \/ First(i) = Len(delivered[From(i)]) + 1
          \/ \E k \in 1..(i-1) : From(k) = From(i) /\ Past(k) = First(i)
      BY <2>0 DEF StartsWell
    <3>3. From(i) = u => First(i) # Len(delivered[u]) + 1
      <4>1. From(i) = u => Past(1) <= First(i)
        BY <1>0, <1>a, <3>1 DEF PipelineExact, BatchesAreOrdered
      <4> QED BY <1>0, <1>1, <2>a, <3>1, <4>1
    <3>4. CASE From(i) = u
      BY <1>2, <3>1, <3>2, <3>3, <3>4
    <3>5. CASE From(i) # u
      BY <1>2, <1>3, <3>1, <3>2, <3>5
    <3> QED BY <3>4, <3>5
  <2>3. \A i \in 1..PipeLen : (Past(i) <= Flushed(From(i)) + 1)'
    BY <1>0, <1>2, <2>0 DEF Flushed
  <2>4. ASSUME NEW v \in Writers
        PROVE  /\ \/ Flushed(v)' + 1 = Len(delivered'[v]) + 1
                  \/ \E k \in 1..PipeLen : From(k)' = v /\ Past(k)' = Flushed(v)' + 1
               /\ Len(delivered'[v]) <= Flushed(v)'
    <3>1. \/ Flushed(v) + 1 = Len(delivered[v]) + 1
          \/ \E k \in 1..PipeLen : From(k) = v /\ Past(k) = Flushed(v) + 1
      BY <2>0 DEF StartsWell
    <3>2. CASE v = u
      BY <1>0, <1>1, <1>2, <1>3, <3>1, <3>2
    <3>3. CASE v # u
      BY <1>2, <1>3, <2>0, <3>1, <3>3
    <3> QED BY <3>2, <3>3
  <2> QED BY <1>2, <2>1, <2>2, <2>3, <2>4 DEF BatchesLeaveNoGap, StartsWell
<1>7. /\ reader_head' = <<>> => reader_pos' = 0
      /\ reader_head' # <<>> => reader_pos' <= Len(Head(reader_head'))
  <2>1. reader_head # <<>> /\ reader_pos < Len(Head(reader_head))
    BY DEF ReadElem
  <2>2. Len(Head(reader_head)) \in Nat
    BY <1>0, <2>1, HeadTailProperties, LenProperties DEF TypeOK
  <2> QED BY <1>0, <2>1, <2>2
<1> QED BY <1>4, <1>5, <1>6, <1>7 DEF PipelineExact

(* A used-up batch leaves the front of the pipeline. *)
LEMMA PipeNextBatch ==
  ASSUME Inv, NextBatch
  PROVE  PipelineExact'
<1> USE Assumed DEF Assumptions
<1>0. /\ TypeOK /\ PipelineExact
      /\ reader_head # <<>> /\ reader_pos >= Len(Head(reader_head)) /\ reader_pos \in Nat
      /\ reader_pos <= Len(Head(reader_head))
      /\ reader_head' = Tail(reader_head) /\ reader_pos' = 0
      /\ UNCHANGED <<writer_num_written, writer_batches, delivered, lock_pending>>
  BY DEF Inv, NextBatch, writerVars, lockVars, TypeOK, PipelineExact
<1>1. /\ PipeLen \in Nat /\ Len(reader_head) \in Nat /\ Len(lock_pending) \in Nat
      /\ \A i \in 1..PipeLen : /\ Len(Pipe(i)) \in Nat \ {0} /\ From(i) \in Writers
                               /\ First(i) \in Nat /\ Past(i) \in Nat
      /\ \A v \in Writers : Flushed(v) \in Int /\ Len(delivered[v]) \in Nat
  BY <1>0, PipeTypes
<1>2. /\ Len(reader_head) \in Nat \ {0}
      /\ Len(reader_head') = Len(reader_head) - 1
      /\ \A i \in 1..(Len(reader_head) - 1) : reader_head'[i] = reader_head[i + 1]
      /\ Head(reader_head) = reader_head[1]
  BY <1>0, EmptySeq, HeadTailProperties DEF TypeOK
<1>a. PICK N \in Nat : N = PipeLen - 1 /\ PipeLen = N + 1
  BY <1>1, <1>2 DEF PipeLen
<1>3. PipeLen' = N /\ (\A i \in 1..N : Pipe(i)' = Pipe(i + 1)) /\ Len(Pipe(1)) = reader_pos
  <2>1. PipeLen' = N
    BY <1>0, <1>1, <1>2, <1>a DEF PipeLen
  <2>2. ASSUME NEW i \in 1..N PROVE Pipe(i)' = Pipe(i + 1)
    BY <1>0, <1>1, <1>2, <1>a DEF Pipe, PipeLen
  <2>3. Len(Pipe(1)) = reader_pos
    <3>1. Pipe(1) = Head(reader_head)
      BY <1>2 DEF Pipe
    <3>2. 1 \in 1..PipeLen
      BY <1>a
    <3> QED BY <1>0, <1>1, <3>1, <3>2
  <2> QED BY <2>1, <2>2, <2>3
<1>4. /\ \A i \in 1..N : /\ From(i)' = From(i + 1) /\ First(i)' = First(i + 1)
                         /\ Past(i)' = Past(i + 1)
      /\ \A v \in Writers : Flushed(v)' = Flushed(v)
      /\ \A i \in 1..N : i + 1 \in 1..PipeLen
  BY <1>0, <1>3, <1>a DEF From, First, Past, Flushed
<1>5. BatchesAreRuns'
  <2>1. ASSUME NEW i \in 1..N
        PROVE  /\ Len(Pipe(i)') \in 1..BatchSize
               /\ \A j \in 1..Len(Pipe(i)') :
                    Pipe(i)'[j] = [from |-> From(i)', serial |-> First(i)' + j - 1]
    <3>1. /\ Len(Pipe(i + 1)) \in 1..BatchSize
          /\ \A j \in 1..Len(Pipe(i + 1)) :
               Pipe(i + 1)[j] = [from |-> From(i + 1), serial |-> First(i + 1) + j - 1]
      BY <1>0, <1>4 DEF PipelineExact, BatchesAreRuns
    <3> QED BY <1>3, <1>4, <3>1
  <2>2. \A v \in Writers : \A j \in 1..Len(writer_batches'[v]) :
          writer_batches'[v][j] = [from |-> v, serial |-> Flushed(v)' + j]
    BY <1>0, <1>4 DEF PipelineExact, BatchesAreRuns
  <2> QED BY <1>3, <2>1, <2>2 DEF BatchesAreRuns
<1>6. BatchesAreOrdered'
  <2>1. ASSUME NEW i \in 1..N, NEW k \in 1..N, i < k, From(i)' = From(k)'
        PROVE  Past(i)' <= First(k)'
    <3>1. i + 1 \in 1..PipeLen /\ k + 1 \in 1..PipeLen /\ i + 1 < k + 1
      BY <1>4, <2>1
    <3>2. Past(i + 1) <= First(k + 1)
      BY <1>0, <1>4, <2>1, <3>1 DEF PipelineExact, BatchesAreOrdered
    <3> QED BY <1>4, <3>2
  <2> QED BY <1>3, <2>1 DEF BatchesAreOrdered
<1>7. BatchesLeaveNoGap'
  <2>0. /\ First(1) + reader_pos = Len(delivered[From(1)]) + 1
        /\ \A i \in 2..PipeLen : StartsWell(From(i), First(i), i - 1)
        /\ \A i \in 1..PipeLen : Past(i) <= Flushed(From(i)) + 1
        /\ \A v \in Writers : /\ StartsWell(v, Flushed(v) + 1, PipeLen)
                              /\ Len(delivered[v]) <= Flushed(v)
    BY <1>0, <1>a DEF PipelineExact, BatchesLeaveNoGap
  <2>a. Past(1) = Len(delivered[From(1)]) + 1
    BY <1>3, <2>0 DEF Past
  (* An obligation met by batch k is met by batch k-1 of the new pipeline  *)
  (* or, for k = 1, by the reader's new place.                             *)
  <2>b. ASSUME NEW v \in Writers, NEW n, NEW i \in 1..PipeLen, StartsWell(v, n, i)
        PROVE  \/ n = Len(delivered'[v]) + 1
               \/ \E k \in 1..(i-1) : From(k)' = v /\ Past(k)' = n
    <3>1. CASE n = Len(delivered[v]) + 1
      BY <1>0, <3>1
    <3>2. ASSUME NEW k \in 1..i, From(k) = v, Past(k) = n
          PROVE  \/ n = Len(delivered'[v]) + 1
                 \/ \E m \in 1..(i-1) : From(m)' = v /\ Past(m)' = n
      <4>1. CASE k = 1
        BY <1>0, <2>a, <3>2, <4>1
      <4>2. CASE k # 1
        <5>1. k - 1 \in 1..(i-1) /\ k - 1 \in 1..N /\ (k - 1) + 1 = k
          BY <1>a, <1>1, <4>2
        <5>2. From(k - 1)' = v /\ Past(k - 1)' = n
          BY <1>4, <3>2, <5>1
        <5> QED BY <5>1, <5>2
      <4> QED BY <4>1, <4>2
    <3> QED BY <2>b, <3>1, <3>2 DEF StartsWell
  <2>1. PipeLen' > 0 => First(1)' + reader_pos' = Len(delivered'[From(1)']) + 1
    <3> SUFFICES ASSUME N > 0 PROVE First(1)' + reader_pos' = Len(delivered'[From(1)']) + 1
      BY <1>3
    <3>1. 2 \in 2..PipeLen /\ 1 \in 1..PipeLen /\ 1 \in 1..N /\ 2 - 1 = 1 /\ 1 + 1 = 2
      BY <1>a
    <3>2. StartsWell(From(2), First(2), 1)
      BY <2>0, <3>1
    <3>3. From(2) \in Writers /\ First(2) \in Nat
      BY <1>1, <1>a, <3>1
    <3>4. First(2) = Len(delivered'[From(2)]) + 1
      BY <2>b, <3>1, <3>2, <3>3
    <3> QED BY <1>0, <1>1, <1>4, <3>1, <3>3, <3>4
  <2>2. ASSUME NEW i \in 2..N
        PROVE  \/ First(i)' = Len(delivered'[From(i)']) + 1
               \/ \E k \in 1..(i-1) : From(k)' = From(i)' /\ Past(k)' = First(i)'
    <3>1. /\ i + 1 \in 2..PipeLen /\ i \in 1..PipeLen /\ i \in 1..N
          /\ i + 1 \in 1..PipeLen /\ (i + 1) - 1 = i
      BY <1>a
    <3>2. StartsWell(From(i + 1), First(i + 1), i) /\ From(i + 1) \in Writers
      BY <1>1, <2>0, <3>1
    <3> QED BY <1>4, <2>b, <3>1, <3>2
  <2>3. ASSUME NEW i \in 1..N PROVE (Past(i) <= Flushed(From(i)) + 1)'
    <3>1. Past(i + 1) <= Flushed(From(i + 1)) + 1
      BY <1>4, <2>0
    <3> QED BY <1>0, <1>4, <3>1 DEF Flushed
  <2>4. ASSUME NEW v \in Writers
        PROVE  /\ \/ Flushed(v)' + 1 = Len(delivered'[v]) + 1
                  \/ \E k \in 1..N : From(k)' = v /\ Past(k)' = Flushed(v)' + 1
               /\ Len(delivered'[v]) <= Flushed(v)'
    <3>1. PipeLen \in 1..PipeLen /\ PipeLen - 1 = N
      BY <1>a
    <3>2. StartsWell(v, Flushed(v) + 1, PipeLen)
      BY <2>0
    <3> QED BY <1>0, <1>4, <2>0, <2>b, <3>1, <3>2
  <2> QED BY <1>3, <2>1, <2>2, <2>3, <2>4 DEF BatchesLeaveNoGap, StartsWell
<1>8. reader_head' # <<>> => reader_pos' <= Len(Head(reader_head'))
  <2>1. reader_head' \in Seq(Seq(Elem))
    BY <1>0, HeadTailProperties DEF TypeOK
  <2> QED BY <1>0, <2>1, HeadTailProperties, LenProperties
<1> QED BY <1>0, <1>5, <1>6, <1>7, <1>8 DEF PipelineExact

LEMMA PipelineStep == Inv /\ [Next]_vars => PipelineExact'
<1> SUFFICES ASSUME Inv, [Next]_vars PROVE PipelineExact'
  OBVIOUS
<1>1. CASE UNCHANGED <<writer_batches, writer_num_written, lock_pending, reader_head,
                       reader_pos, delivered>>
  <2>1. /\ PipeLen' = PipeLen /\ \A i \in 1..PipeLen : Pipe(i)' = Pipe(i)
        /\ \A w \in Writers : Flushed(w)' = Flushed(w)
    BY <1>1 DEF PipeLen, Pipe, Flushed
  <2>2. TypeOK /\ PipelineExact
    BY DEF Inv
  <2>3. \A w \in Writers : \A j \in 1..Len(writer_batches'[w]) :
          writer_batches'[w][j] = [from |-> w, serial |-> Flushed(w) + j]
    BY <1>1, <2>2 DEF PipelineExact, BatchesAreRuns
  <2>4. BatchesAreRuns' /\ BatchesAreOrdered' /\ BatchesLeaveNoGap'
    BY <1>1, <2>1, <2>2, <2>3, PipeFrame
  <2> QED BY <1>1, <2>2, <2>4 DEF PipelineExact
<1> QED
  BY <1>1, PipeWriteElem, PipeTakePending, PipeFlushBatch, PipeReadElem, PipeNextBatch
     DEF Next, WriterStep, WriterCall, ReaderStep, Read, ReaderDone, ReadEmpty,
         Write, WriteIgnored, WriterUpdate, Flush, TerminateWriter, FlushBlocked,
         vars, writerVars, lockVars, readerVars

-----------------------------------------------------------------------------
(* Delivery order and the reader's counters *)

LEMMA InOrderStep == Inv /\ [Next]_vars => InOrder'
<1> SUFFICES ASSUME Inv, [Next]_vars PROVE InOrder'
  OBVIOUS
<1>1. CASE ReadElem
  <2>a. PICK u \in Writers : u = From(1)
    BY <1>1, NextElement
  <2>1. delivered' = [delivered EXCEPT ![u] = Append(delivered[u], Len(delivered[u]) + 1)]
    BY <1>1, <2>a, NextElement
  <2>2. delivered[u] \in Seq(Nat) /\ Len(delivered[u]) + 1 \in Nat /\ delivered \in [Writers -> Seq(1..MaxElems)]
    BY SeqMonotonic, LenProperties, Assumed DEF Inv, TypeOK, Assumptions
  <2> DEFINE s == Append(delivered[u], Len(delivered[u]) + 1)
  <2>3. /\ Len(s) = Len(delivered[u]) + 1
        /\ \A i \in 1..Len(delivered[u]) : s[i] = delivered[u][i]
        /\ s[Len(delivered[u]) + 1] = Len(delivered[u]) + 1
    BY <2>2, AppendProperties
  <2>4. \A i \in 1..Len(s) : s[i] = i
    BY <2>2, <2>3 DEF Inv, InOrder
  <2> HIDE DEF s
  <2> QED BY <2>1, <2>2, <2>4 DEF Inv, InOrder, s
<1>2. CASE delivered' = delivered
  BY <1>2 DEF Inv, InOrder
<1> QED
  BY <1>1, <1>2
     DEF Next, WriterStep, WriterCall, ReaderStep, Read, ReaderDone, NextBatch, TakePending,
         ReadEmpty, Write, WriteIgnored, WriteElem, WriterUpdate, Flush, TerminateWriter,
         FlushBatch, FlushBlocked, vars, writerVars, lockVars, readerVars

LEMMA CountStep == Inv /\ [Next]_vars => CountInv'
<1> SUFFICES ASSUME Inv, [Next]_vars PROVE CountInv'
  OBVIOUS
<1> USE Assumed DEF Assumptions
<1>1. reader_num_read' = Total(ReceivedCount)'
  <2>1. CASE ReadElem
    <3>a. PICK u \in Writers : u = From(1)
      BY <2>1, NextElement
    <3>1. /\ delivered' = [delivered EXCEPT ![u] = Append(delivered[u], Len(delivered[u]) + 1)]
          /\ Len(delivered[u]) < Flushed(u)
      BY <2>1, <3>a, NextElement
    <3>2. /\ delivered \in [Writers -> Seq(1..MaxElems)]
          /\ \A v \in Writers : /\ delivered[v] \in Seq(Nat)
                                /\ Len(delivered[v]) \in Nat /\ Len(delivered[v]) + 1 \in Nat
      BY SeqMonotonic, LenProperties DEF Inv, TypeOK
    <3>3. ASSUME NEW v \in Writers PROVE Flushed(v) <= MaxElems /\ Flushed(v) \in Int
      BY LenProperties DEF Inv, TypeOK, Flushed
    <3>4. ReceivedCount \in [Writers -> 0..MaxElems] /\ ReceivedCount[u] < MaxElems
      <4>1. \A v \in Writers : Len(delivered[v]) <= Flushed(v)
        BY DEF Inv, PipelineExact, BatchesLeaveNoGap
      <4> QED BY <3>1, <3>2, <3>3, <4>1 DEF ReceivedCount
    <3>5. Len(Append(delivered[u], Len(delivered[u]) + 1)) = Len(delivered[u]) + 1
      BY <3>2, AppendProperties
    <3>6. ReceivedCount' = [ReceivedCount EXCEPT ![u] = ReceivedCount[u] + 1]
      BY <3>1, <3>2, <3>5 DEF ReceivedCount
    <3>7. Total([ReceivedCount EXCEPT ![u] = ReceivedCount[u] + 1]) = Total(ReceivedCount) + 1
      BY <3>4, TotalIncrement
    <3>8. reader_num_read' = reader_num_read + 1
      BY <2>1 DEF ReadElem
    <3> QED BY <3>6, <3>7, <3>8 DEF Inv, CountInv, Total
  <2>2. CASE UNCHANGED <<delivered, reader_num_read>>
    BY <2>2 DEF Inv, CountInv, ReceivedCount, Total
  <2> QED
    BY <2>1, <2>2
       DEF Next, WriterStep, WriterCall, ReaderStep, Read, ReaderDone, NextBatch, TakePending,
           ReadEmpty, Write, WriteIgnored, WriteElem, WriterUpdate, Flush, TerminateWriter,
           FlushBatch, FlushBlocked, vars, writerVars, lockVars, readerVars
<1>2. reader_num_terminated' = Cardinality(Writers)
        => \A w \in Writers : lock_writers_terminated'[w]
  <2>1. CASE TakePending
    <3> DEFINE T == {w \in Writers : lock_writers_terminated[w]}
    <3>1. Cardinality(T) = Cardinality(Writers) => T = Writers
      BY FS_Subset
    <3> QED BY <2>1, <3>1 DEF TakePending
  <2>2. CASE reader_num_terminated' = reader_num_terminated
    <3>1. \A w \in Writers : lock_writers_terminated[w] => lock_writers_terminated'[w]
      BY DEF Inv, TypeOK, Next, WriterStep, WriterCall, ReaderStep, Read, ReaderDone, ReadElem,
             NextBatch, TakePending, ReadEmpty, Write, WriteIgnored, WriteElem, WriterUpdate,
             Flush, TerminateWriter, FlushBatch, FlushBlocked, vars, writerVars, lockVars,
             readerVars
    <3> QED BY <2>2, <3>1 DEF Inv, CountInv
  <2> QED
    BY <2>1, <2>2
       DEF Next, WriterStep, WriterCall, ReaderStep, Read, ReaderDone, ReadElem, NextBatch,
           ReadEmpty, Write, WriteIgnored, WriteElem, WriterUpdate, Flush, TerminateWriter,
           FlushBatch, FlushBlocked, vars, writerVars, lockVars, readerVars
<1>3. rpc' = "empty" => reader_head' = <<>>
  BY DEF Inv, CountInv, Next, WriterStep, WriterCall, ReaderStep, Read, ReaderDone, ReadElem,
         NextBatch, TakePending, ReadEmpty, Write, WriteIgnored, WriteElem, WriterUpdate,
         Flush, TerminateWriter, FlushBatch, FlushBlocked, vars, writerVars, lockVars, readerVars
<1> QED BY <1>1, <1>2, <1>3 DEF CountInv

-----------------------------------------------------------------------------
(* Termination *)

(* A drained queue stays drained: terminated writers write nothing, and    *)
(* there is nothing left to read.                                          *)
LEMMA DrainedStable == Inv /\ Drained /\ [Next]_vars => Drained'
<1> SUFFICES ASSUME Inv, Drained, [Next]_vars PROVE Drained'
  OBVIOUS
<1>1. ~ ReadElem
  <2> SUFFICES ASSUME ReadElem PROVE FALSE
    OBVIOUS
  <2>a. PICK u \in Writers : u = From(1)
    BY NextElement
  <2>1. Len(delivered[u]) < Flushed(u)
    BY NextElement, <2>a
  <2>2. Flushed(u) <= writer_num_written[u] /\ Flushed(u) \in Int
        /\ writer_num_written[u] \in Nat /\ Len(delivered[u]) \in Nat
    BY LenProperties, Assumed DEF Inv, TypeOK, Flushed, Assumptions
  <2>3. Len(delivered[u]) = writer_num_written[u]
    BY DEF Drained
  <2> QED BY ONLY <2>1, <2>2, <2>3
<1>2. ~ (\E w \in Writers : WriteElem(w))
  BY DEF WriteElem, Inv, WriterInv, Drained
<1>3. UNCHANGED <<delivered, writer_num_written>>
  BY <1>1, <1>2
     DEF Next, WriterStep, WriterCall, ReaderStep, Read, ReaderDone, NextBatch, TakePending,
         ReadEmpty, Write, WriteIgnored, WriterUpdate, Flush, TerminateWriter,
         FlushBatch, FlushBlocked, vars, writerVars, lockVars, readerVars
<1>4. \A w \in Writers : lock_writers_terminated'[w]
  BY DEF Drained, Inv, TypeOK, Next, WriterStep, WriterCall, ReaderStep, Read, ReaderDone,
         ReadElem, NextBatch, TakePending, ReadEmpty, Write, WriteIgnored, WriteElem,
         WriterUpdate, Flush, TerminateWriter, FlushBatch, FlushBlocked, vars, writerVars,
         lockVars, readerVars
<1> QED BY <1>3, <1>4 DEF Drained

LEMMA DrainedStep == Inv /\ [Next]_vars => DoneMeansDrained' /\ NullMeansDrained'
<1> SUFFICES ASSUME Inv, [Next]_vars PROVE DoneMeansDrained' /\ NullMeansDrained'
  OBVIOUS
<1>1. ASSUME hlt_thread_queue_terminated PROVE Drained'
  <2>1. Drained
    BY <1>1, TerminatedIsExact DEF Inv
  <2> QED BY <2>1, DrainedStable
<1>2. DoneMeansDrained'
  <2>1. rpc' = "done" => rpc = "done" \/ hlt_thread_queue_terminated
    BY DEF Next, WriterStep, WriterCall, ReaderStep, Read, ReaderDone, ReadElem, NextBatch,
           TakePending, ReadEmpty, Write, WriteIgnored, WriteElem, WriterUpdate, Flush,
           TerminateWriter, FlushBatch, FlushBlocked, vars, writerVars, lockVars, readerVars
  <2> QED BY <1>1, <2>1, DrainedStable DEF Inv, DoneMeansDrained
<1>3. NullMeansDrained'
  <2>1. returned' = "null" /\ block'
          => (returned = "null" /\ block) \/ hlt_thread_queue_terminated
    BY DEF Next, WriterStep, WriterCall, ReaderStep, Read, ReaderDone, ReadElem, NextBatch,
           TakePending, ReadEmpty, GiveUp, Write, WriteIgnored, WriteElem, WriterUpdate,
           Flush, TerminateWriter, FlushBatch, FlushBlocked, vars, writerVars, lockVars,
           readerVars
  <2> QED BY <1>1, <2>1, DrainedStable DEF Inv, NullMeansDrained
<1> QED BY <1>2, <1>3

-----------------------------------------------------------------------------
(* The theorems *)

(* The inductive invariant holds in every reachable state. *)
THEOREM Invariance == Spec => []Inv
<1>1. Inv /\ [Next]_vars => Inv'
  BY TypeStep, WriterInvStep, CountStep, PipelineStep, InOrderStep, CapacityStep,
     DrainedStep DEF Inv
<1> QED BY <1>1, InitInv, PTL DEF Spec

(* Every field of the queue keeps its type; no batch overflows its array   *)
(* (tqueue.c:226) and the reader never runs past a batch.                  *)
THEOREM TypeCorrect == Spec => []TypeOK
<1>1. Inv => TypeOK
  BY DEF Inv
<1> QED BY <1>1, Invariance, PTL

(* In-order delivery per writer, for any number of writers. *)
THEOREM InOrderDelivery == Spec => []InOrder
<1>1. Inv => InOrder
  BY DEF Inv
<1> QED BY <1>1, Invariance, PTL

(* Nothing is lost, repeated or reordered between writers and reader. *)
THEOREM PipelineIsExact == Spec => []PipelineExact
<1>1. Inv => PipelineExact
  BY DEF Inv
<1> QED BY <1>1, Invariance, PTL

(* The reader's loop ends only on a drained queue, although the test it    *)
(* uses reads the writers' counters without the lock.                      *)
THEOREM DoneIsDrained == Spec => []DoneMeansDrained
<1>1. Inv => DoneMeansDrained
  BY DEF Inv
<1> QED BY <1>1, Invariance, PTL

(* A blocking read returns NULL only on a drained queue. *)
THEOREM BlockingNullIsDrained == Spec => []NullMeansDrained
<1>1. Inv => NullMeansDrained
  BY DEF Inv
<1> QED BY <1>1, Invariance, PTL

(* The pending list respects max_batches and the block flag is not stale. *)
THEOREM Capacity == Spec => []CapacityRespected
<1>1. Inv => CapacityRespected
  BY DEF Inv
<1> QED BY <1>1, Invariance, PTL

(* A step of the queue is a step of the abstract FIFO or changes nothing   *)
(* the FIFO shows.                                                         *)
LEMMA FifoStep == Inv /\ [Next]_vars => [Fifo!Next]_Fifo!vars
<1> SUFFICES ASSUME Inv, [Next]_vars PROVE [Fifo!Next]_Fifo!vars
  OBVIOUS
<1> USE DEF Fifo!vars
<1>1. CASE ReadElem
  <2>a. PICK u \in Writers : u = From(1)
    BY <1>1, NextElement
  <2>1. /\ delivered' = [delivered EXCEPT ![u] = Append(delivered[u], Len(delivered[u]) + 1)]
        /\ Len(delivered[u]) < Flushed(u)
    BY <1>1, <2>a, NextElement
  <2>2. Len(delivered[u]) < writer_num_written[u]
    <3>1. /\ Len(writer_batches[u]) \in Nat /\ writer_num_written[u] \in Nat
          /\ Len(delivered[u]) \in Nat
      BY LenProperties, Assumed DEF Inv, TypeOK, Assumptions
    <3> QED BY <2>1, <3>1 DEF Flushed
  <2>3. /\ rpc = "scan" /\ rpc' = "client"
        /\ UNCHANGED <<writer_num_written, lock_writers_terminated>>
    BY <1>1 DEF ReadElem, writerVars, lockVars
  <2>4. Fifo!Receive(u)
    BY <2>1, <2>2, <2>3 DEF Fifo!Receive
  <2> QED BY <2>4 DEF Fifo!Next
<1>2. ASSUME NEW w \in Writers, WriteElem(w) PROVE [Fifo!Next]_Fifo!vars
  <2>1. ~ lock_writers_terminated[w] /\ writer_num_written[w] < MaxElems
    BY <1>2 DEF WriteElem, Inv, WriterInv
  <2>2. Fifo!Send(w)
    BY <1>2, <2>1 DEF WriteElem, lockVars, readerVars, Fifo!Send
  <2> QED BY <2>2 DEF Fifo!Next
<1>3. ASSUME NEW w \in Writers, TerminateWriter(w) PROVE [Fifo!Next]_Fifo!vars
  <2>1. Fifo!Close(w)
    BY <1>3 DEF TerminateWriter, readerVars, Fifo!Close
  <2> QED BY <2>1 DEF Fifo!Next
<1>4. CASE ReaderDone
  <2>1. Drained
    BY <1>4, TerminatedIsExact DEF ReaderDone, Inv
  <2>2. Fifo!Finish
    BY <1>4, <2>1 DEF ReaderDone, Drained, writerVars, lockVars, Fifo!Finish
  <2> QED BY <2>2 DEF Fifo!Next
<1>5. CASE UNCHANGED <<writer_num_written, lock_writers_terminated, delivered, (rpc = "done")>>
  BY <1>5
<1>6. CASE ReadEmpty
  <2>1. UNCHANGED <<writer_num_written, lock_writers_terminated, delivered>>
    BY <1>6 DEF ReadEmpty, writerVars, lockVars
  <2>2. rpc # "done" /\ rpc' # "done"
    BY <1>6 DEF ReadEmpty
  <2> QED BY <2>1, <2>2, <1>5
<1>7. CASE TakePending
  <2>1. UNCHANGED <<writer_num_written, lock_writers_terminated, delivered>>
    BY <1>7 DEF TakePending, writerVars, lockVars
  <2>2. rpc # "done" /\ rpc' # "done"
    BY <1>7 DEF TakePending
  <2> QED BY <2>1, <2>2, <1>5
<1>8. ASSUME NEW t \in Timeouts, Read(t) PROVE [Fifo!Next]_Fifo!vars
  <2>1. UNCHANGED <<writer_num_written, lock_writers_terminated, delivered>>
    BY <1>8 DEF Read, writerVars, lockVars
  <2>2. rpc # "done" /\ rpc' # "done"
    BY <1>8 DEF Read
  <2> QED BY <2>1, <2>2, <1>5
<1> QED
  BY <1>1, <1>2, <1>3, <1>4, <1>5, <1>6, <1>7, <1>8
     DEF Next, WriterStep, WriterCall, ReaderStep, NextBatch, Write, WriteIgnored,
         WriterUpdate, Flush, FlushBatch, FlushBlocked, vars, writerVars, lockVars, readerVars

(* The batched, locked queue implements the per-writer FIFO that tqueue.h  *)
(* promises.                                                               *)
THEOREM QueueImplementsFifo == Spec => ImplementsFifo
<1>1. Init => Fifo!Init
  BY DEF Init, Fifo!Init
<1> QED BY <1>1, FifoStep, Invariance, PTL DEF Spec, ImplementsFifo, Fifo!Spec
=============================================================================
