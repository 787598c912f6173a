----------------------------- MODULE ThreadQueue -----------------------------
(***************************************************************************)
(* The multiple-writer/single-reader queue of libhilti/tqueue.c, which     *)
(* carries jobs to the worker threads (threading.c) and commands to the    *)
(* command-queue manager (cmdqueue.c).                                     *)
(*                                                                         *)
(* A writer fills a private batch without locking.  A flush moves the      *)
(* batch to the shared pending list under the queue's spin lock; the       *)
(* reader takes the whole pending list at once under the same lock and     *)
(* then consumes it without locking.  need_flush is the only word the two  *)
(* sides exchange without the lock.                                        *)
(*                                                                         *)
(* Grain: one action per lock region or per run of statements that only    *)
(* touches one thread's own fields.  A batch is the sequence of its        *)
(* elements (<<>> is both a null batch pointer and an empty batch, which   *)
(* tqueue.c:240 treats alike); an element is the writer and the serial     *)
(* number of the write.                                                    *)
(***************************************************************************)
EXTENDS Integers, Sequences, FiniteSets

CONSTANTS
  Writers,      \* the writer numbers 0 .. writers-1
  BatchSize,    \* queue->batch_size
  MaxBatches,   \* queue->max_batches; 0 means no limit
  MaxElems,     \* bound on the writes of each writer
  Timeouts,     \* the timeouts the reader passes to read(), in microseconds
  Updaters      \* the writers whose thread calls writer_update() regularly

ASSUME WritersAssumption == IsFiniteSet(Writers) /\ Writers # {}
ASSUME BatchSizeAssumption == BatchSize \in Nat \ {0}
ASSUME MaxBatchesAssumption == MaxBatches \in Nat
ASSUME MaxElemsAssumption == MaxElems \in Nat
ASSUME TimeoutsAssumption == Timeouts \subseteq Int
ASSUME UpdatersAssumption == Updaters \subseteq Writers

VARIABLES
  writer_batches,         \* writer -> the batch it is filling
  writer_num_written,     \* writer -> elements written so far
  lock_writers_terminated,\* writer -> terminate_writer() has been called
  lock_pending,           \* batches waiting for the reader
  lock_block,             \* capacity reached: flushes must wait
  need_flush,             \* reader starves: writers should flush
  reader_head,            \* batches the reader has taken
  reader_pos,             \* elements consumed of the first of them
  reader_num_read,        \* elements read so far
  reader_num_terminated,  \* terminated writers the reader has seen
  wpc,                    \* writer -> where its thread is inside the queue
  rpc,                    \* where the reader thread is
  timeout, block,         \* the locals of the read() in progress
  returned,               \* what the last read() returned
  delivered               \* writer -> serials read() has returned (history)

writerVars == <<writer_batches, writer_num_written, wpc>>
lockVars == <<lock_writers_terminated, lock_pending, lock_block>>
readerVars == <<reader_head, reader_pos, reader_num_read,
                reader_num_terminated, rpc, timeout, block, returned, delivered>>
vars == <<writerVars, lockVars, need_flush, readerVars>>

Elem == [from : Writers, serial : 1..MaxElems]

(* The sum of the per-writer counters c: the number of pairs <<w, i>> with *)
(* i an element counted by c[w].                                           *)
Total(c) == Cardinality({p \in Writers \X (1..MaxElems) : p[2] <= c[p[1]]})

-----------------------------------------------------------------------------
(* hlt_thread_queue_new *)
Init ==
  /\ writer_batches = [w \in Writers |-> <<>>]
  /\ writer_num_written = [w \in Writers |-> 0]
  /\ lock_writers_terminated = [w \in Writers |-> FALSE]
  /\ lock_pending = <<>>
  /\ lock_block = FALSE
  /\ need_flush = FALSE
  /\ reader_head = <<>>
  /\ reader_pos = 0
  /\ reader_num_read = 0
  /\ reader_num_terminated = 0
  /\ wpc = [w \in Writers |-> "idle"]
  /\ rpc = "client"
  /\ timeout = 0
  /\ block = FALSE
  /\ returned = "none"
  /\ delivered = [w \in Writers |-> <<>>]

-----------------------------------------------------------------------------
(* The writer side.  wpc[w] is "idle" outside the queue, "append" in       *)
(* write() with room in the batch, "update" in the writer_update() at the  *)
(* end of write(), "flush" in a flush after which the call returns, and    *)
(* "full" in the flush that write() makes when its batch is full.          *)

(* Fault: off by one in the space test (tqueue.c:219). *)
BatchFull_OffByOne(w) == Len(writer_batches[w]) > BatchSize

BatchFull(w) == Len(writer_batches[w]) >= BatchSize

(* Fault: the test of the terminated flag is missing (tqueue.c:198). *)
MayWrite_Always(w) == TRUE

(* hlt_thread_queue_write ignores a terminated writer. *)
MayWrite(w) == ~ lock_writers_terminated[w]

(* hlt_thread_queue_write up to the exit of its loop. *)
Write(w) ==
  /\ wpc[w] = "idle"
  /\ MayWrite(w)
  /\ writer_num_written[w] < MaxElems
  /\ wpc' = [wpc EXCEPT ![w] = IF BatchFull(w) THEN "full" ELSE "append"]
  /\ UNCHANGED <<writer_batches, writer_num_written, lockVars, need_flush, readerVars>>

(* A write by a terminated writer returns at once. *)
WriteIgnored(w) ==
  /\ wpc[w] = "idle"
  /\ ~ MayWrite(w)
  /\ UNCHANGED vars

(* The element goes into the batch. *)
WriteElem(w) ==
  /\ wpc[w] = "append"
  /\ writer_batches' = [writer_batches EXCEPT ![w] =
       Append(@, [from |-> w, serial |-> writer_num_written[w] + 1])]
  /\ writer_num_written' = [writer_num_written EXCEPT ![w] = @ + 1]
  /\ wpc' = [wpc EXCEPT ![w] = "update"]
  /\ UNCHANGED <<lockVars, need_flush, readerVars>>

(* What flush() does before it takes the lock. *)
StartFlush(w) ==
  wpc' = [wpc EXCEPT ![w] = IF writer_batches[w] # <<>> THEN "flush" ELSE "idle"]

(* hlt_thread_queue_writer_update, at the end of write() or on its own. *)
WriterUpdate(w) ==
  /\ wpc[w] \in {"idle", "update"}
  /\ IF need_flush THEN StartFlush(w) ELSE wpc' = [wpc EXCEPT ![w] = "idle"]
  /\ UNCHANGED <<writer_batches, writer_num_written, lockVars, need_flush, readerVars>>

(* hlt_thread_queue_flush, called by the queue's client. *)
Flush(w) ==
  /\ wpc[w] = "idle"
  /\ StartFlush(w)
  /\ UNCHANGED <<writer_batches, writer_num_written, lockVars, need_flush, readerVars>>

(* Fault: terminate_writer() forgets the flush (tqueue.c:399). *)
TerminateWriter_NoFlush(w) ==
  /\ wpc[w] = "idle"
  /\ lock_writers_terminated' = [lock_writers_terminated EXCEPT ![w] = TRUE]
  /\ UNCHANGED <<writerVars, lock_pending, lock_block, need_flush, readerVars>>

(* hlt_thread_queue_terminate_writer; the flush that follows is separate   *)
(* because the lock is released in between.                                *)
TerminateWriter(w) ==
  /\ wpc[w] = "idle"
  /\ lock_writers_terminated' = [lock_writers_terminated EXCEPT ![w] = TRUE]
  /\ StartFlush(w)
  /\ UNCHANGED <<writer_batches, writer_num_written, lock_pending, lock_block,
                 need_flush, readerVars>>

(* Fault: off by one in the capacity test (tqueue.c:255). *)
HasRoom_OffByOne == MaxBatches = 0 \/ Len(lock_pending) <= MaxBatches

HasRoom == MaxBatches = 0 \/ Len(lock_pending) < MaxBatches

(* Fault: the new batch becomes the head of the list (tqueue.c:257). *)
FlushBatch_AtHead(w) ==
  /\ wpc[w] \in {"flush", "full"}
  /\ ~ lock_block
  /\ HasRoom
  /\ lock_pending' = <<writer_batches[w]>> \o lock_pending
  /\ writer_batches' = [writer_batches EXCEPT ![w] = <<>>]
  /\ wpc' = [wpc EXCEPT ![w] = IF @ = "full" THEN "append" ELSE "idle"]
  /\ UNCHANGED <<writer_num_written, lock_writers_terminated, lock_block,
                 need_flush, readerVars>>

(* One turn of the loop in hlt_thread_queue_flush: the batch is handed     *)
(* over ...                                                                *)
FlushBatch(w) ==
  /\ wpc[w] \in {"flush", "full"}
  /\ ~ lock_block
  /\ HasRoom
  /\ lock_pending' = Append(lock_pending, writer_batches[w])
  /\ writer_batches' = [writer_batches EXCEPT ![w] = <<>>]
  /\ wpc' = [wpc EXCEPT ![w] = IF @ = "full" THEN "append" ELSE "idle"]
  /\ UNCHANGED <<writer_num_written, lock_writers_terminated, lock_block,
                 need_flush, readerVars>>

(* ... or the writer must sleep and try again. *)
FlushBlocked(w) ==
  /\ wpc[w] \in {"flush", "full"}
  /\ lock_block \/ ~ HasRoom
  /\ lock_block' = TRUE
  /\ UNCHANGED <<writerVars, lock_writers_terminated, lock_pending, need_flush, readerVars>>

-----------------------------------------------------------------------------
(* The reader side.  Its client is the loop                                *)
(*     while ( ! terminated(queue) ) { read(queue, t); ... }               *)
(* of cmdqueue.c:57 and threading.c:490.  rpc is "client" between calls,   *)
(* "scan" at the head of read()'s outer loop, "empty" after the lock       *)
(* region found nothing pending, "done" once the client's loop has ended.  *)

hlt_thread_queue_size == Total(writer_num_written) - reader_num_read

(* Fault: unread elements are not considered (tqueue.c:406). *)
Terminated_IgnoresSize == reader_num_terminated = Cardinality(Writers)

hlt_thread_queue_terminated ==
  /\ reader_num_terminated = Cardinality(Writers)
  /\ hlt_thread_queue_size = 0

(* hlt_thread_queue_read: entry. *)
Read(t) ==
  /\ rpc = "client"
  /\ ~ hlt_thread_queue_terminated
  /\ timeout' = t
  /\ block' = (t = 0)
  /\ returned' = "none"
  /\ rpc' = "scan"
  /\ UNCHANGED <<writerVars, lockVars, need_flush, reader_head, reader_pos,
                 reader_num_read, reader_num_terminated, delivered>>

(* The client's loop condition fails. *)
ReaderDone ==
  /\ rpc = "client"
  /\ hlt_thread_queue_terminated
  /\ rpc' = "done"
  /\ UNCHANGED <<writerVars, lockVars, need_flush, reader_head, reader_pos,
                 reader_num_read, reader_num_terminated, timeout, block,
                 returned, delivered>>

(* The current batch has an element left: return it. *)
ReadElem ==
  /\ rpc = "scan"
  /\ reader_head # <<>>
  /\ reader_pos < Len(Head(reader_head))
  /\ need_flush' = FALSE
  /\ LET e == Head(reader_head)[reader_pos + 1]
     IN delivered' = [delivered EXCEPT ![e.from] = Append(@, e.serial)]
  /\ reader_pos' = reader_pos + 1
  /\ reader_num_read' = reader_num_read + 1
  /\ returned' = "elem"
  /\ rpc' = "client"
  /\ UNCHANGED <<writerVars, lockVars, reader_head, reader_num_terminated, timeout, block>>

(* Fault: the position is not reset for the next batch (tqueue.c:321). *)
NextBatch_KeepsPos ==
  /\ rpc = "scan"
  /\ reader_head # <<>>
  /\ reader_pos >= Len(Head(reader_head))
  /\ need_flush' = FALSE
  /\ reader_head' = Tail(reader_head)
  /\ UNCHANGED <<writerVars, lockVars, reader_pos, reader_num_read,
                 reader_num_terminated, rpc, timeout, block, returned, delivered>>

(* The current batch is used up: switch to the next. *)
NextBatch ==
  /\ rpc = "scan"
  /\ reader_head # <<>>
  /\ reader_pos >= Len(Head(reader_head))
  /\ need_flush' = FALSE
  /\ reader_head' = Tail(reader_head)
  /\ reader_pos' = 0
  /\ UNCHANGED <<writerVars, lockVars, reader_num_read, reader_num_terminated,
                 rpc, timeout, block, returned, delivered>>

(* The reader's lock region: take everything pending, unblock the writers, *)
(* count the terminated ones.                                              *)
TakePending ==
  /\ rpc = "scan"
  /\ reader_head = <<>>
  /\ reader_head' = lock_pending
  /\ reader_pos' = 0
  /\ lock_pending' = <<>>
  /\ lock_block' = FALSE
  /\ reader_num_terminated' = Cardinality({w \in Writers : lock_writers_terminated[w]})
  /\ rpc' = IF lock_pending = <<>> THEN "empty" ELSE "scan"
  /\ UNCHANGED <<writerVars, lock_writers_terminated, need_flush,
                 reader_num_read, timeout, block, returned, delivered>>

(* Fault: a blocking read is taken for one whose time is up (tqueue.c:354). *)
GiveUp_Always == timeout <= 0

(* A read that was asked not to block, or whose time is up, gives up. *)
GiveUp == timeout <= 0 /\ ~ block

(* Fault: the starving reader does not ask for a flush (tqueue.c:352). *)
ReadEmpty_NoRequest ==
  /\ rpc = "empty"
  /\ IF GiveUp \/ hlt_thread_queue_terminated
       THEN returned' = "null" /\ rpc' = "client" /\ UNCHANGED timeout
       ELSE rpc' = "scan" /\ timeout' = timeout /\ UNCHANGED returned
  /\ UNCHANGED <<writerVars, lockVars, need_flush, reader_head, reader_pos,
                 reader_num_read, reader_num_terminated, block, delivered>>

(* Nothing was pending: ask for a flush, then give up or sleep and retry.  *)
(* The timeout of a blocking read also counts down, without effect.        *)
ReadEmpty ==
  /\ rpc = "empty"
  /\ need_flush' = TRUE
  /\ IF GiveUp \/ hlt_thread_queue_terminated
       THEN /\ returned' = "null"
            /\ rpc' = "client"
            /\ UNCHANGED timeout
       ELSE /\ rpc' = "scan"
            /\ timeout' = IF block THEN timeout ELSE timeout - 1
            /\ UNCHANGED returned
  /\ UNCHANGED <<writerVars, lockVars, reader_head, reader_pos,
                 reader_num_read, reader_num_terminated, block, delivered>>

-----------------------------------------------------------------------------
ReaderStep ==
  \/ \E t \in Timeouts : Read(t)
  \/ ReaderDone
  \/ ReadElem
  \/ NextBatch
  \/ TakePending
  \/ ReadEmpty

(* The steps by which a call of writer w makes progress. *)
WriterStep(w) ==
  \/ WriteElem(w)
  \/ wpc[w] = "update" /\ WriterUpdate(w)
  \/ FlushBatch(w)
  \/ FlushBlocked(w)

(* The calls writer w's thread may make. *)
WriterCall(w) ==
  \/ Write(w)
  \/ WriteIgnored(w)
  \/ wpc[w] = "idle" /\ WriterUpdate(w)
  \/ Flush(w)
  \/ TerminateWriter(w)

Next == ReaderStep \/ \E w \in Writers : WriterStep(w) \/ WriterCall(w)

Spec == Init /\ [][Next]_vars

(* Threads inside the queue keep running, the reader keeps reading, and    *)
(* an updater keeps calling writer_update() between its writes, as the     *)
(* worker loop does (threading.c:535).  Nobody is obliged to write,        *)
(* flush or terminate.                                                     *)
Fairness ==
  /\ WF_vars(ReaderStep)
  /\ \A w \in Writers : WF_vars(WriterStep(w))
  /\ \A w \in Updaters : WF_vars(wpc[w] = "idle" /\ WriterUpdate(w))

FairSpec == Spec /\ Fairness
-----------------------------------------------------------------------------
(* Properties *)

TypeOK ==
  /\ writer_batches \in [Writers -> Seq(Elem)]
  /\ \A w \in Writers : Len(writer_batches[w]) <= BatchSize
  /\ writer_num_written \in [Writers -> 0..MaxElems]
  /\ lock_writers_terminated \in [Writers -> BOOLEAN]
  /\ lock_pending \in Seq(Seq(Elem))
  /\ lock_block \in BOOLEAN
  /\ need_flush \in BOOLEAN
  /\ reader_head \in Seq(Seq(Elem))
  /\ reader_pos \in 0..BatchSize
  /\ reader_num_read \in Nat
  /\ reader_num_terminated \in 0..Cardinality(Writers)
  /\ wpc \in [Writers -> {"idle", "append", "update", "flush", "full"}]
  /\ rpc \in {"client", "scan", "empty", "done"}
  /\ timeout \in Int
  /\ block \in BOOLEAN
  /\ returned \in {"none", "elem", "null"}
  /\ delivered \in [Writers -> Seq(1..MaxElems)]

(* Every writer has terminated and everything it wrote has been read. *)
Drained ==
  \A w \in Writers : /\ lock_writers_terminated[w]
                     /\ Len(delivered[w]) = writer_num_written[w]

(* In-order delivery (tqueue.h:3): what read() has returned of a writer's  *)
(* elements is a prefix of what it wrote, without gap, repetition or       *)
(* exchange, whatever batches the elements travelled in.                   *)
InOrder ==
  \A w \in Writers : \A i \in 1..Len(delivered[w]) : delivered[w][i] = i

(* hlt_thread_queue_terminated (tqueue.h:107) may read the counters        *)
(* without the lock: when it lets the reader's loop end, every writer has  *)
(* terminated and nothing was left in a batch, pending or unread.          *)
DoneMeansDrained == rpc = "done" => Drained

(* A read with timeout 0 returns NULL only when there will never be        *)
(* another element (tqueue.h:55).                                          *)
NullMeansDrained == returned = "null" /\ block => Drained

(* max_batches bounds the pending list (tqueue.h:19) and the block flag    *)
(* is never stale: while it stands, the list really is full, so a sleeping *)
(* writer waits for nothing but the reader's next visit.                   *)
CapacityRespected ==
  /\ MaxBatches > 0 => Len(lock_pending) <= MaxBatches
  /\ lock_block => MaxBatches > 0 /\ Len(lock_pending) = MaxBatches

(* The batches between the writers and read(), in the order the reader     *)
(* will consume them.                                                      *)
PipeLen == Len(reader_head) + Len(lock_pending)
Pipe(i) == IF i <= Len(reader_head) THEN reader_head[i]
                                    ELSE lock_pending[i - Len(reader_head)]
From(i) == Pipe(i)[1].from
First(i) == Pipe(i)[1].serial
Past(i) == First(i) + Len(Pipe(i))    \* the serial that must come next

(* The elements of w that have left its private batch. *)
Flushed(w) == writer_num_written[w] - Len(writer_batches[w])

(* Each batch is a run of consecutive serials of one writer ... *)
BatchesAreRuns ==
  /\ \A i \in 1..PipeLen :
       /\ Len(Pipe(i)) \in 1..BatchSize
       /\ \A j \in 1..Len(Pipe(i)) :
            Pipe(i)[j] = [from |-> From(i), serial |-> First(i) + j - 1]
  /\ \A w \in Writers : \A j \in 1..Len(writer_batches[w]) :
       writer_batches[w][j] = [from |-> w, serial |-> Flushed(w) + j]

(* ... the batches of one writer are in order ... *)
BatchesAreOrdered ==
  \A i, k \in 1..PipeLen : i < k /\ From(i) = From(k) => Past(i) <= First(k)

(* ... and leave no gap: a batch starts where read() will be (1) or where  *)
(* an earlier batch ends, and so does the writer's private batch.          *)
StartsWell(w, n, i) ==
  \/ n = Len(delivered[w]) + 1
  \/ \E k \in 1..i : From(k) = w /\ Past(k) = n

BatchesLeaveNoGap ==
  /\ PipeLen > 0 => First(1) + reader_pos = Len(delivered[From(1)]) + 1
  /\ \A i \in 2..PipeLen : StartsWell(From(i), First(i), i - 1)
  /\ \A i \in 1..PipeLen : Past(i) <= Flushed(From(i)) + 1
  /\ \A w \in Writers : /\ StartsWell(w, Flushed(w) + 1, PipeLen)
                         /\ Len(delivered[w]) <= Flushed(w)

(* Everything written and not yet read is in the pipeline exactly once and *)
(* in order, through every flush, batch change and take-over (tqueue.c:    *)
(* 255-268, 318-337).  The inductive core of the proofs.                   *)
PipelineExact ==
  /\ reader_head = <<>> => reader_pos = 0
  /\ reader_head # <<>> => reader_pos <= Len(Head(reader_head))
  /\ BatchesAreRuns
  /\ BatchesAreOrdered
  /\ BatchesLeaveNoGap

(* The queue implements the abstract per-writer FIFO. *)
Fifo == INSTANCE WriterFifo WITH
  sent <- writer_num_written,
  closed <- lock_writers_terminated,
  finished <- (rpc = "done")

ImplementsFifo == Fifo!Spec

(* No element of a writer that keeps calling writer_update() is stuck in   *)
(* its private batch: the need_flush handshake gets it to the reader       *)
(* (tqueue.h:119).                                                         *)
UpdatedElemsArrive ==
  \A w \in Updaters : \A n \in 1..MaxElems :
    writer_num_written[w] >= n ~> Len(delivered[w]) >= n

(* Once all writers have called terminate_writer(), everything they ever   *)
(* wrote is read and the reader's loop ends.                               *)
TerminationReachesReader ==
  (\A w \in Writers : lock_writers_terminated[w]) ~> rpc = "done"
=============================================================================
