# A TLA+ model of the HILTI runtime

HILTI is an abstract machine for network traffic analysis: a compiler
(`hilti/`, `ast/`) translates HILTI code to LLVM, Spicy (`spicy/`, `libspicy/`)
generates parsers on top of it, a plugin (`bro/`) connects both to Bro, and the
runtime library `libhilti/` executes the result. The runtime holds the
repository's concurrent and stateful core: virtual threads scheduled to worker
threads, the queues and channels that connect them, timers and containers that
expire, the command queue for output, fibers and reference-counted memory; the
runtime of Spicy adds sinks, which reassemble data for parsers. This directory
models that core in TLA+, checks it with TLC and proves properties of it with
TLAPS.

## Inventory

| Component | State | Operations | Interacts with |
|---|---|---|---|
| Thread queue (`tqueue.c`) | per-writer batch and counter, pending list, terminated flags, `need_flush`, reader's batches and position | write, flush, writer_update, terminate_writer, read, can_read, size, terminated | jobs of the workers, commands |
| Thread manager (`threading.c`) | manager state, terminate flag, per worker: job queue, blocked jobs, contexts, time, idle flag | schedule, run/yield/block/unblock, set_state (FINISH, STOP, KILL), delete | thread queue, timers, fibers, command queue |
| Timers (`timer.c`, `libpqueue`) | manager's time and heap; timer's manager, time, position | schedule, update, cancel, advance, expire | callbacks re-enter; every worker advances all workers' timers; containers expire entries |
| Command queue (`cmdqueue.c`) | one thread queue with a manager thread | push, manager loop, worker_terminating, done, kill | thread queue, files |
| Files (`file.c`) | shared list of open files with writer counts | open, write, close as commands | command queue |
| Fibers (`fiber.c`) | fiber state, local and global pool | create, start, yield, return, delete | scheduler, exceptions |
| Memory (`memory_.c`) | reference counts, null buffer, free lists, pools | ref, unref, cctor/dtor, safepoint, flush | everything |
| Channels (`channel.c`) | chunked ring, capacity, condition variables | write, write_try, read, read_try | threads |
| Hooks, contexts, globals, init (`hook.c`, `context.c`, `globals.c`, `init.c`) | hook bit set, per-thread context, global state | enable/disable, new/delete, init/done | all |
| Containers (`list.c`, `map_set.c`, `vector.c`) | entries with optional timers, iterators | insert, remove, access, expire | timers, memory |
| Spicy sinks (`libspicy/sink.c`) | positions of the stream, buffered chunks, connected parsers | write, append, gap, skip, trim, connect, disconnect, close, delivery | parsers (fibers that suspend), filters |
| Values, regular expressions, profiler, compilers, Bro plugin | – | – | – |

What is hard in this code: the queue hands batches over under a spin lock but
exchanges `need_flush` and the counters without it; workers pass jobs among
themselves while the main thread polls for all of them to be idle; in STOP each
worker closes its queue ends at its own time while others still run; every
worker thread advances the timers of all workers; timer callbacks call back
into the manager that is firing them, and into maps whose entries it is about to
expire; objects are destroyed while the buffer that lists them is flushed; files
are opened and closed by one thread's commands and written by another's; data
reaches a sink in any order, with overlaps and gaps; and shutdown by exception may
happen anywhere. What makes the parts correct:

* queue: every element once and in order per writer; "terminated" only when
  drained; capacity; nothing stuck in a private batch;
* scheduler: every job in exactly one place; jobs start in the order scheduled;
  jobs are dropped only while stopping; a clean shutdown drains the queues; every
  shutdown ends; what is left over can be deleted;
* timers: the heap is a heap; references are exact; after an advance nothing is
  due; no timer is forgotten;
* maps and sets: entries and timers never lose each other; an entry expires when
  it is due and not before;
* channels: a bounded FIFO; no reader sleeps next to an item; the last holder,
  and nobody else, tears it down;
* files: a file info outlives its users; who opens a file loses no write; opening
  again does not truncate; the manager terminates;
* memory: counts are exact; what is reachable is not freed; what is not is not
  forgotten;
* sinks: every parser sees one stream, in order and without unreported holes;
  data that came first wins; what can be delivered is.

`PROJECT.json` lists the hazards with their lines.

## Modules

* `ThreadQueue` – `tqueue.c`. One action per lock region or run of statements on
  a thread's own fields: `Write`/`WriteElem`/`WriterUpdate` are `write()`,
  `FlushBatch`/`FlushBlocked` a turn of the loop in `flush()`, `TerminateWriter`
  with the flush that follows it, `Read`, `ReadElem`, `NextBatch`,
  `TakePending`, `ReadEmpty` the phases of `read()`. `wpc` and `rpc` say where
  the threads are. `delivered` is a history variable. The client of the reader is
  the loop of `cmdqueue.c:57` and `threading.c:492`.
* `WriterFifo` – what the queue promises, without batches, locks and threads.
  `ThreadQueue!ImplementsFifo` is the refinement: `sent` is
  `writer_num_written`, `closed` is `lock_writers_terminated`, `finished` is
  `rpc = "done"`.
* `ThreadMgr` – `threading.c`. A worker goes through `LoopHead`, `ReadJob`,
  `CheckState`, a job's actions, `CheckStop`, `Update` for each worker with the
  timers' callbacks (`TimerSchedules`, `TimerUnblocks`, `TimerFires`,
  `TimerThrows`, `Advanced`), and `Exit`. Scheduling is two steps,
  `ScheduleBegin` and `ScheduleEnd`, because the target's context is looked up
  and created by the calling thread. The main thread schedules, sleeps, advances
  the time, and shuts down: `MainRequests`, `MainTerminates`, the polling loop
  (`MainReadsIdle`, `MainReadsSize`), `MainJoins`, `MainDeletes`. A job is a
  number; its code is a free choice among what jobs can do. A read, write or
  flush of a job queue is one step here: that the queue behaves so is what
  `ThreadQueue` shows, for writers that are one thread each. The callbacks of
  timers break that rule in the code: whichever worker advances the time runs
  them (`threading.c:552`), with the writer number and the blocked lists of the
  owner and without a lock (`tqueue.c:196-232`, `threading.h:94-97`). In the model
  a callback fires in any thread, and it may throw there, but it schedules and
  unblocks only in its owner's thread. What a foreign one leaves of the owner's
  batch or list is undefined and not modelled, and nothing is claimed about it.
  A loop that flushes or terminates one writer's end of every
  queue (`FlushAll`, `CheckStop`, `MainTerminates`) is one step as well: the order
  of the queues is lost, and each queue is only read by its own worker.
  `hlt_thread_queue_size` is read in one step as well; the
  code adds counters without lock, so main's loop has a little more freedom than
  the model gives it. The branch at `threading.c:515` for a queued job with a
  blockable cannot be taken, as such jobs are never written to a queue. Each
  virtual thread has one resource to block on.
* `Timer`, `PriorityQueue` – `timer.c` with the heap of `libpqueue`. The calls in
  progress are a stack, and program code runs when it is empty or a callback is
  on top. `BubbleUp` and `PercolateDown` are the loops of the heap, each of whose
  assignments is a `Place`: the entry is stored and told its position (`setpos`).
  `Remove` and `ChangePriority` find an entry by the position it was told.
  `Update` sets the time before the heap sees it, as the code does. Timers may be
  updated to later times and to times that have come, on which they fire;
  `UpdatesEarlier` says whether programs also update them to earlier times that
  are still ahead. Left out are
  `timer.cancel` of a timer without manager, which follows a null pointer, and
  `timer.cancel` and `timer.update` of a timer that has its manager but is not
  in the queue (in its own callback, or after `timer_mgr.expire False`), which
  operate on whatever is at the timer's old position.
* `ExpiringMap` – `map_set.c` on top of `Timer`, which it extends: the entries
  with the pointers to their timers (`entries`), the timers' way back to the
  entries (`cookie`), and the operations of a map, which are those of a set as
  well. A map's operation contains the step of the timer manager that it calls
  (`MapInsert` schedules, `MapRemove` cancels, `Access` updates), and the firing
  of an entry's timer is `EntryExpires`. `MapClear` takes the timers out of the
  heap in every order the hash table may have. The program has function timers
  too, whose callbacks use the map while an advance is in progress.
* `Channel` – `channel.c`. Every operation is one action, as it runs under the
  channel's mutex; a blocking read that waits is a thread in the state `waiting`,
  a signal moves one such thread to `woken`, and `ReadOn` lets both go on, since
  a wait may end without signal. `NextChunkCap` is the sizing of chunks, with the
  unsigned comparison of the code. `Dtor`, `Drain` and `Free` are the destructor,
  the last two without the mutex. Chunks that were read are not freed; they are
  left out of `chunks`.
* `BoundedFifo` – what `channel.h` promises; `Channel!ImplementsFifo` is the
  refinement.
* `CmdFile` – `file.c` and `cmdqueue.c`. The command queue is an instance of
  `WriterFifo`, the specification that `ThreadQueue` is proved to implement, so
  the manager takes the commands of each thread in order and those of different
  threads in any order. `Open` and `PushOpen` are the two halves of
  `hlt_file_open`, under the lock and after it. `OpenDone`, `OpenFails`,
  `WriteDone`, `WriteFails` and `CloseDone` are the cases of
  `__hlt_file_cmd_internal`. What a file holds is the number of writes in it.
* `NullBuffer` – the reference counting of `memory_.c`. A safepoint is
  `Safepoint` (the compiler counts the locals), the flush (`FlushSkip`,
  `FlushDestroy`, `FlushDone`), the destructors it runs (`dying` is their stack;
  `DtorField` releases a field, `FreeAtOnce` and `FreeFlushed` are the two places
  that free), and `PostDtor` for each local. Addresses are used again.
* `Sink` – `sink.c` of `libspicy`. `NewBlock` with `Buffer` and `AddAndCheck` put
  data where it belongs; `TryNext`, `TryGap`, `TryData` are the loop of
  `__try_deliver`; the parser's actions and `ParsersDone` that of
  `__deliver_chunk`. A byte carries its position and the version of its content,
  so that what a parser gets can be compared with what was written. `Disciplined`
  restricts programs to input the sink can handle: no data that is old in part
  while the buffer is empty, and no skip or trim backwards. A skip or trim may
  end inside of a buffered chunk. A gap that a buffered chunk overlaps in part
  follows a null pointer (`sink.c:659`) and is left out; a gap within a chunk
  is not. `stopped` is a history variable: the position at which the stream
  waits for a skip.
* `ThreadQueueProofs`, `ThreadMgrProofs`, `ChannelProofs`, `NullBufferProofs`,
  `CmdFileProofs`, `SinkProofs`, `TimerProofs`, `ExpiringMapProofs` – the theorems
  about these modules, with their lemmas and proofs.
* `MC...` – instances for TLC, with the symmetry sets.

The type invariants of `ThreadMgr`, `Timer`, `CmdFile` and `NullBuffer` are
conjuncts of `JobsAccountedFor`, `RefsMatch`, `InfoAlive` and `CountsExact`.

Operators whose comment begins with "Fault:" are wrong variants of the
definition after them; replacing that definition by its variant must violate
the property that guards it.

## Runs

Passing:

| Run | Shows | Bounds and why they suffice |
|---|---|---|
| `tq_safety` | order, exactness, termination, capacity, refinement, `UpdatedElemsArrive`, `TerminationReachesReader` | 2 writers (a writer and an interfering one, of which one calls writer_update and the other never does), batches of 2 and 3 writes (full, partial and empty batches), capacity 2 (a writer blocked by the other), timeouts negative, zero and positive |
| `tm_shutdown` | accounting, order, drained queues, deletion, every shutdown completes, workers' jobs run | 2 workers, 2 jobs, a yield or block, exceptions, all three kinds of shutdown: a job and its successor on the same or the other worker |
| `tm_timers` | accounting and drained queues with timers advanced by every thread, whose callbacks throw anywhere and schedule or unblock in their worker's own thread | 1 timer, 1 time step, 2 yields or blocks, shutdown by STOP |
| `timer_safety` | heap, references, nothing due left | 4 timers (two levels of the heap below the root), times 0 to 3, three nested calls |
| `map_safety` | entries and timers match, expire when due and not before | 2 keys with entry timers and a function timer (a callback between two expirations of one advance), timeouts 0, 1, 2 and both strategies, times 0 to 3, three nested calls |
| `sink_safety` | order, holes, first data wins; buffered data that comes next waits only after a gap, a skip into a chunk or a trim ahead | 2 parsers (one that fails and one after it), 4 bytes in 2 versions (a write that spans, covers, or lies between two chunks), initial sequence numbers 0 and 1 |
| `channel_safety` | chunks, wakeups, teardown, FIFO | 3 threads (two readers waiting for one writer), capacities 0 to 3 with chunks of 2 to 4 items (halved to one, doubled once), 9 writes |
| `files_safety` | lifetime of file infos, writes kept, no truncation, manager ends | 2 threads, one path, 3 commands per thread (open, write, close), failing opens and writes; clones share infos, and infos are created anew after the last close |
| `memory_safety` | exact counts, nothing freed in use, nothing forgotten | 3 objects with 2 fields (cycles, shared children, destructors three deep), a global |

Deadlock is checked except in `channel_safety` and `files_safety`, which may
stop: a channel is freed once, and the manager terminates.

Violated, each one a disagreement of the code with its own documentation
(`findings` in `PROJECT.json` quotes it):

| Run | Property | What happens |
|---|---|---|
| `tm_finish_race` | `FinishWaitsForIdle` | main reads worker 1's idle flag; worker 1 takes the job that main had scheduled, its flag still set; main reads the size of the queue, now zero, and goes on to STOP while the job has not begun |
| `sink_partly_old` | `NoSilentHole` | partly old data gets a chunk of its full length, and the sink silently skips what follows |
| `map_shorter_timeout` | `DueTimersFire` | after a shorter timeout an access moves a timer to an earlier time, which the heap does not honour: an entry outlives its time |

More disagreements showed while modelling and have no run of their own:

* scheduler: an uncaught exception during FINISH leaves main polling for ever
  (`threading.c:245`, against the comment at 204; `ShutdownCompletes` excepts this
  case); a job that yields after its worker closed its own queue end in STOP is
  dropped (461, against 212-213; `JobsAccountedFor` allows a loss only then); a
  timer's callback in a foreign thread uses the owner's writer number (552),
  which `tqueue.h:40-41` forbids: two threads race on one batch, and a write that
  lands after the owner has exited makes the assertion of the deletion fail (123;
  not modelled, see `ThreadMgr` above); two threads may create two contexts for one virtual
  thread (93); a slow worker may set another worker's time back (561);
* queue and timers: `can_read()` stays true after the last element
  (`tqueue.c:373`; nobody calls it); `advance` accepts a smaller time
  (`timer.c:315`); `expire False` does not detach the timers (357);
* channels: `hlt_channel_write` ignores the capacity (`channel.c:238` against
  `channel.h:30-31`); set `UncheckedWrites` to see `ImplementsFifo` fail;
* files: the write of a thread that got a copy of the file object is dropped when
  it is executed before the other thread's open command (`file.c:371`;
  `OwnWritesKept` is about the threads that open the file themselves), and the
  mode of a later opener counts if its command is executed first (339-351);
* memory: `__hlt_memory_nullbuffer_remove` changes a local copy of the entry
  (`memory_.c:738-751`; nobody calls it). A check for negative counts is switched
  off with the remark "This is now ok" (345-351), which `CountsExact` does not
  contradict: the model has the discipline of compiled code, where an assignment
  counts the new reference before it releases the old one (`memory_.h:215-223`), a
  safepoint counts a local before it releases it, and a destructor releases a field
  once. Every release then has a count of its own, and no count becomes negative. C
  code that releases what it never counted is not modelled;
* sinks: a write after a parser was disconnected never returns, as the loop does
  not get past it (`sink.c:422`, action `Spin`); trimming ahead of the stream does
  not skip ahead (`sink.c:1053-1061` against `spicy/operators/sink.cc:349-350`), so
  that buffered data after it waits; a skip into a buffered chunk keeps the chunk
  but passes over it (562-573 against `sink.cc:322-324`), so that its rest waits.
  In both cases the stream goes on after another skip; `NextDataDelivered` names
  them next to gaps as the only waits.

Fairness. `ThreadQueue!FairSpec`: threads inside the queue keep running (they
spin and sleep, they wait for nobody but the reader), the reader keeps reading as
its clients' loops do, and the writers in `Updaters` keep calling
`writer_update`, as `threading.c:535` does in every turn. Nobody has to write,
flush or terminate. `ThreadMgr!FairSpec`: every worker thread and, once it
shuts down, the main thread keep running; jobs end because the bounds on what
they may do are finite. Whether main ever asks for a shutdown is its choice.
`CmdFile!FairSpec`: the manager thread keeps running, as its loop does; no thread
has to do anything.

## Proofs

The theorems hold for every value of the constants that satisfies the named
assumptions of the modules; `PROJECT.json` lists them. Each safety property is
proved from an inductive invariant: it holds initially, every action keeps it,
and it implies the property. What goes beyond the runs' properties in these
invariants is the interesting part, so here is what each one adds and why.

**`ThreadQueueProofs`**: `TypeCorrect`, `InOrderDelivery`, `PipelineIsExact`,
`DoneIsDrained`, `BlockingNullIsDrained`, `Capacity`, `QueueImplementsFifo`. `Inv`
is `TypeOK`, `WriterInv` (what `wpc` implies about a writer's batch), `CountInv`
(`reader_num_read` is the number of elements delivered and
`reader_num_terminated` counts writers that have terminated), `PipelineExact` and
the safety properties. `InOrder` is not inductive by itself: that the next element
the reader takes is the next serial of its writer depends on every batch between
writer and reader. `PipelineExact` says this batch by batch, locally: each batch
is a run of consecutive serials of one writer, the runs of a writer are ordered
along the pipeline, and each starts where an earlier batch ended or where the
reader is. Local statements survive a flush (`PipeFlushBatch`), a take-over
(`PipeTakePending`), a read (`PipeReadElem`) and a batch change (`PipeNextBatch`)
without induction over sequences. `DoneMeansDrained` rests on
`TerminatedIsExact`: counters that sum up to the number of elements read are each
fully delivered, proved from the cardinality of the set `Total` counts
(`TotalEqual`, `TotalIncrement`). The refinement `FifoStep` maps `WriteElem` to
`Send`, `ReadElem` to `Receive`, `TerminateWriter` to `Close`, `ReaderDone` to
`Finish`, and everything else to a stutter.

**`ChannelProofs`**: `TypeCorrect`, `ReaderFindsItem`, `WakeupsKept`,
`TeardownIsLast`, `ChannelIsFifo`. `ContentInv` says where the items are: each
chunk holds a run of what was sent, the runs follow one another (`Layout`), and a
chunk after the first was begun with an item. `ThreadInv` counts: as long as a
reader sleeps there are no more items than readers on their way. `WakeupsKept` and
`TeardownIsLast` need `ThreadInv` only. The other three assume `~ UncheckedWrites`:
`hlt_channel_write` ignores the capacity, and programs that call it at the limit
are those for which `BoundedFifo` is not implemented (see above).

**`NullBufferProofs`**: `CountsAreExact`, `FreedIsForgotten`, `NoneForgotten`. The
counts are cardinalities of the sets of globals and fields that refer to an object,
plus one while a safepoint has counted a local (`CountsInv`). That they stay exact
through a flush needs `BufferInv` (no object is in the null buffer twice),
`DyingInv` (the destructors on the stack are of different objects without
references, the outermost is that of the entry the flush is at, and the fields a
destructor has passed are empty) and `RefsInv` (what is referred to is allocated).

**`CmdFileProofs`**: `InfoStaysAlive`, `OwnWritesAreKept`,
`NeverTruncatedWhileOpen`. `WritersInv` bounds the writer count of a file info from
below by the file objects and the queued close commands that hold it, so that no
close frees it too early; `HeldInv` says that a thread with a queued open or write
still holds the file, or that its close comes later in the queue.
`CmdsInv` and `OwnInv` describe the commands a thread still has in the queue: a
write of a thread that opened the file itself comes after its own open command,
so the file is open when the write is executed, whatever the other threads'
commands do. A path is not 0, the value of "none" (`CmdFileAssumption`).

**`SinkProofs`**: `BufferIsExact`, `StreamsAreOrdered`, `HolesAreReported`,
`NothingIsLeftBehind`, `FirstDataWins`, for streams and blocks of any length.
`BufferInv` says that the chunks are disjoint and hold the data of their positions
(`WellFormed`), how they lie relative to the position of the stream (`PositionInv`),
and what is known inside of the loops of `__try_deliver` and `__deliver_chunk`
(`TryInv`, `DeliverInv`); `OrderInv` and `HoleInv` relate what the parsers got to
these positions. `WaitInv` is for `NothingIsLeftBehind`: as long as the stream does
not wait, no chunk reaches across its position, and one that begins there is one
that the loop of `__try_deliver` has yet to come to. All assume `Disciplined`;
without it `sink_partly_old` shows how `NoSilentHole` fails.

**`TimerProofs`**: `ReferencesAreExact`, `HeapIsOrdered`, `NoneIsLeftBehind`. The
first part is about the heap, for every size: `BubbleUpIs` and `PercolateDownIs`
show that the two loops return a permutation of their input that is a heap again if
the input was one except at the position where they start (`MayRise`, `MayFall`),
and `InsertIs`, `PopIs`, `RemoveIs`, `ChangePriorityIs` and `FirstIsLeast` follow.
The loops are recursive functions; what they compute is shown by taking a least
counterexample, not by an induction theorem (`Walk`, `LeastNat`). That every entry
has been told its position afterwards, the one that moves and all that it passes, is
a walk of its own (`PosWalk`, `WalkPlaces`), which needs it of the other entries
only at the start (`PlacedBut`). The second part is the manager: `Inv` is `StackInv`
(the calls in progress; a timer is fired by at most one of them), `Typed`,
`QueueInv` (positions) and `RefsInv` (the manager has a timer in its queue or in a
call that fires it, never both). `DueInv` is what `DueTimersFire` needs in the
middle of calls: a timer in the queue is later than the manager's time, or a call
further out on the stack covers it, that is, will not return before it has fired.
The last two theorems assume `~ UpdatesEarlier` (updates to later times, or to times
that have come), since `map_shorter_timeout` shows that they fail otherwise;
`ReferencesAreExact` does not.

**`ExpiringMapProofs`**: `EntriesAndTimersMatch`, `DueEntriesAreGone`,
`NoneExpiresEarly`, `MapReferencesAreExact`, on top of the lemmas of `TimerProofs`,
which say for each step of the manager which timers it has afterwards and which
are firing. `MapInv` adds `MatchInv` (an entry's timer is one the manager has, it
finds the entry, and it is due when the entry is; and every entry timer the
manager has is wanted by its entry) and `OnTop` (the firing of an entry's timer is
the innermost call, for it runs no program code, and the time the entry was due is
covered by a call). `OnTop` is what keeps `map.clear`, `map.remove` and accesses
in callbacks from meeting a timer that has left the queue. `UnqueueAllIs` shows
that `map.clear` takes out exactly the entries' timers in whatever order. Only
`DueEntriesAreGone` assumes `~ UpdatesEarlier`. A timer is not the null pointer
(`MapAssumption`).

**`ThreadMgrProofs`**: `StopDrainsQueues`, `DeleteIsComplete`,
`EveryJobIsInOnePlace`, `JobsStartInOrder`. The lemmas about the
job queue say what each operation does to a queue as the other threads see it
(`Written`: only writer `i`'s batch changes, no end is opened again, and a queue
that everybody has closed stays empty). `Inv` is `Typed`, `CallsInv` (a call of
`_worker_schedule` in progress), `PhaseInv` (main is past the join only when every
worker is dead) and `DrainedInv`, which is the argument: a reader sees the end of
its queue only after every writer closed its end, so a worker that left its loop
without being killed has an empty queue that nobody can fill again, and writes of
slower workers are dropped. `DeleteIsComplete` adds `FlushedInv`: a thread writes
only with its own number, while it runs a job or a callback of its own timers, so
its last flush empties its batch in every queue, and neither KILL nor an exception
skips that flush. None of the four assumes anything beyond `ThreadMgrAssumption`;
all of them are about programs whose timers schedule and unblock in their
worker's own thread, as `ThreadMgr` has it.

`EveryJobIsInOnePlace` proves `JobsAccountedFor`. Sums of copies are not inductive
for a prover without induction over sequences, so `JobsInv` speaks of places
instead: a job is in exactly one of the queue, the blocked list and the hand of
the worker its virtual thread is mapped to, once (`Once`, `Absent`), or it has
ended in one of three ways, and no other worker or virtual thread has a copy. The
queue operations are classified by what they do to the lists: they regroup them
(flush, update, termination: `Regrouped`), put jobs at a writer's end (`Put`), or
take the first one (`Taken`); each kind has one lemma about copies and one about
order. `WriteOwnStores` does the loop that moves a blocked list back, by the least
step that goes wrong. At the end `PositionsAre` turns `Once` and `Absent` into the
cardinalities of the property. Its other conjuncts come from `BoundsInv`:
`CountsInv`, `TimeInv`, `ContextInv` (a job is counted from the beginning of the
call that schedules it, and brings at most one context), and `ClosedInv` (workers
close ends only in STOP, and main schedules nothing after it closed its own), which
is why jobs are dropped in STOP only.

`JobsStartInOrder` proves `ScheduledOrder` with `OrderInv`. `LineInv`: jobs that
have not begun and have the same writer are in increasing order along the way from
the hand of a worker through the taken and the pending jobs to the writer's batch,
and a batch has unbegun jobs of its own writer only. Jobs that yielded or were
unblocked have begun, so they may be anywhere, which is what `MayPrecede` says.
`LostInv` is the part that is easy to miss: a job that a closed end dropped never
begins, so that no later job of the same writer may follow it, and none does, since
the end stays closed. `EarlierHaveBegun` then shows that when a worker takes up a
job none of the earlier ones can be in a queue, dropped or deleted.

Only model-checked: the liveness properties, since fairness is outside of the
prover (`UpdatedElemsArrive`, `TerminationReachesReader`, `ShutdownCompletes`,
`WorkerJobsRun`, `ManagerTerminates`). Every invariant, action property and
refinement that a passing run checks is also a theorem. These theorems rest on an
assumption about the program that goes beyond the constants' types:

| Assumption | Theorems |
|---|---|
| `~ UncheckedWrites` | `TypeCorrect`, `ReaderFindsItem` and `ChannelIsFifo` of `ChannelProofs` |
| `Disciplined` | all five of `SinkProofs` |
| `~ UpdatesEarlier` | `HeapIsOrdered` and `NoneIsLeftBehind` of `TimerProofs`, `DueEntriesAreGone` of `ExpiringMapProofs` |

## Plan

The planned modules, runs and safety proofs are done. What is left is the liveness
part, which needs a prover for fairness, and the hazards of `PROJECT.json` that have
a note instead of a property.

## Not modelled

The compilers, the Bro plugin and the regular expression engine are sequential
translators; their correctness is about languages, not about states a small
instance could explore. Value types (strings, bytes, addresses and so on),
profiling, debugging output and conversions are left out. Fibers switch stacks in
assembly; what the scheduler sees of them is in `ThreadMgr`. Hooks, contexts and
globals keep little state of their own. Of the containers, lists, vectors and
iterators are left out, of memory management the pools and free lists, of sinks
the filters and the hooks that only report. Vendored code (khash, libtask,
libffi) is not modelled, except for the heap, which the project has changed for
its timers. `PROJECT.json` has an entry for every component with the reason.
