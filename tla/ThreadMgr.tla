------------------------------ MODULE ThreadMgr ------------------------------
(***************************************************************************)
(* The scheduler of libhilti/threading.c: worker threads that run jobs     *)
(* from their queues, the main thread that schedules jobs and shuts the    *)
(* workers down, and the states FINISH, STOP and KILL it does that with.   *)
(*                                                                         *)
(* The job queues are those of ThreadQueue, at the grain its refinement    *)
(* theorem justifies: a write, flush or read is one step.  They have no    *)
(* capacity limit (threading.c:745), so no writer ever blocks, and fewer   *)
(* than QUEUE_BATCH_SIZE jobs, so a batch is flushed only on request.      *)
(* A write may be one step because its writer number is used by no other   *)
(* thread (tqueue.h:40-41), a move of the blocked list because only its    *)
(* worker touches it.  The code itself breaks that rule in one place: it   *)
(* lets any worker fire the timers of all workers (threading.c:551-553),   *)
(* in the contexts of their owners.  Here such a callback does not reach   *)
(* the owner's queues or its blocked lists; see TimerSchedules.            *)
(*                                                                         *)
(* A job's code is not modelled; while it runs it may schedule jobs, start *)
(* timers, unblock the jobs waiting for its virtual thread's resource,     *)
(* yield, block on that resource, throw, or end.  Features says which.     *)
(***************************************************************************)
EXTENDS Integers, Sequences, FiniteSets

CONSTANTS
  NumWorkers,  \* mgr->num_workers
  Vids,        \* virtual thread ids (other than 0, the global context)
  WorkerOf,    \* vid -> worker: the hash of _vthread_to_worker
  Features,    \* what jobs do: subset of {"yield", "block", "throw", "timer"}
  Requests,    \* how main may end: subset of {"FINISH", "STOP", "KILL"}
  MaxJobs,     \* bound on the jobs ever created
  MaxYields,   \* bound on all yields
  MaxTimers,   \* bound on the timers ever started
  MaxTime      \* bound on the global time

Workers == 1..NumWorkers
Ids == 0..NumWorkers     \* writer ids: 0 is the main thread
Jobs == 1..MaxJobs

ASSUME ThreadMgrAssumption ==
  /\ NumWorkers \in Nat \ {0}
  /\ WorkerOf \in [Vids -> Workers]
  /\ Features \subseteq {"yield", "block", "throw", "timer"}
  /\ Requests \subseteq {"FINISH", "STOP", "KILL"}
  /\ {MaxJobs, MaxYields, MaxTimers, MaxTime} \subseteq Nat

VARIABLES
  state,        \* mgr->state
  terminate,    \* globals->thread_mgr_terminate
  num_excpts,   \* mgr->num_excpts
  global_time,  \* globals->global_time
  queue,        \* worker -> its jobs queue
  jobs,         \* the jobs created so far: their vid, writer id and context
  blocked,      \* worker -> vid -> jobs waiting for the vid's resource
  ctxs,         \* vid -> its execution context, 0 if not created
  nctxs,        \* contexts created so far
  timers,       \* worker -> timers pending in its contexts
  started,      \* timers started so far
  wtime,        \* worker -> worker->global_time
  idle,         \* worker -> worker->idle
  finished,     \* worker -> the local flag of _worker
  pc, job,      \* worker -> where it is, and the job it holds (0: none)
  at, gt,       \* worker -> loop index and time of the loop at threading.c:532
  sched,        \* thread -> the _worker_schedule call it is in
  mpc, mi, midle,  \* main: where it is, its loop index and idle count
  begun,        \* jobs in the order they first ran (history)
  done, lost,   \* jobs that ended; jobs a terminated writer dropped (history)
  deleted,      \* jobs deleted with their worker (history)
  yields        \* yields so far

mainVars == <<mpc, mi, midle>>
jobVars == <<begun, done, lost, deleted, yields>>
timeVars == <<global_time, timers, started, wtime>>
workerVars == <<idle, finished, pc, job, at, gt>>
vars == <<state, terminate, num_excpts, queue, jobs, blocked, ctxs, nctxs, sched,
          mainVars, jobVars, timeVars, workerVars>>

NoCall == [vid |-> 0, ctx |-> 0]

-----------------------------------------------------------------------------
(* The job queue (external view of tqueue.c) *)

EmptyQueue ==
  [priv |-> [i \in Ids |-> <<>>],      \* unflushed batch of each writer
   pending |-> <<>>, head |-> <<>>,    \* flushed; taken by the reader
   term |-> [i \in Ids |-> FALSE], seen |-> FALSE, need_flush |-> FALSE]

(* Fault: a flushed batch goes before the pending ones (tqueue.c:257). *)
QFlush_Prepends(q, i) == [q EXCEPT !.pending = q.priv[i] \o @, !.priv[i] = <<>>]

QFlush(q, i) == [q EXCEPT !.pending = @ \o q.priv[i], !.priv[i] = <<>>]
QUpdate(q, i) == IF q.need_flush THEN QFlush(q, i) ELSE q
QWrite(q, i, j) ==
  IF q.term[i] THEN q ELSE QUpdate([q EXCEPT !.priv[i] = Append(@, j)], i)
QTerminate(q, i) == QFlush([q EXCEPT !.term[i] = TRUE], i)
QTake(q) ==
  IF q.head # <<>> THEN q
  ELSE [q EXCEPT !.head = q.pending, !.pending = <<>>,
                 !.seen = \A i \in Ids : q.term[i]]
QRead(q) ==
  LET r == QTake(q)
  IN IF r.head = <<>> THEN [r EXCEPT !.need_flush = TRUE]
                      ELSE [r EXCEPT !.need_flush = FALSE, !.head = Tail(@)]
QFront(q) == LET r == QTake(q) IN IF r.head = <<>> THEN 0 ELSE Head(r.head)
QEmpty(q) == /\ q.head = <<>> /\ q.pending = <<>>
             /\ \A i \in Ids : q.priv[i] = <<>>

(* Fault: the jobs still queued are not considered (tqueue.c:406). *)
QTerminated_IgnoresSize(q) == q.seen

QTerminated(q) == q.seen /\ QEmpty(q)

-----------------------------------------------------------------------------
(* hlt_thread_mgr_new and hlt_thread_mgr_start *)
Init ==
  /\ state = "RUN" /\ terminate = FALSE /\ num_excpts = 0
  /\ global_time = 0
  /\ queue = [t \in Workers |-> EmptyQueue]
  /\ jobs = <<>>
  /\ blocked = [t \in Workers |-> [v \in Vids |-> <<>>]]
  /\ ctxs = [v \in Vids |-> 0] /\ nctxs = 0
  /\ timers = [t \in Workers |-> 0] /\ started = 0
  /\ wtime = [t \in Workers |-> 0]
  /\ idle = [t \in Workers |-> FALSE]
  /\ finished = [t \in Workers |-> FALSE]
  /\ pc = [t \in Workers |-> "loop"]
  /\ job = [t \in Workers |-> 0]
  /\ at = [t \in Workers |-> 1]
  /\ gt = [t \in Workers |-> 0]
  /\ sched = [i \in Ids |-> NoCall]
  /\ mpc = "run" /\ mi = 1 /\ midle = 0
  /\ begun = <<>> /\ done = {} /\ lost = {} /\ deleted = {} /\ yields = 0

Goto(w, where) == pc' = [pc EXCEPT ![w] = where]

-----------------------------------------------------------------------------
(* Scheduling: __hlt_thread_mgr_schedule and _worker_schedule, called by   *)
(* thread i (0: main) from a context of its own, so that i is the writer   *)
(* number too.  The target's context is looked up by the calling thread,   *)
(* and created if it is missing; between the two another thread may do the *)
(* same.                                                                   *)

ScheduleBegin(i, v) ==
  /\ sched[i] = NoCall
  /\ state \in {"RUN", "FINISH"}
  /\ Len(jobs) + Cardinality({k \in Ids : sched[k] # NoCall}) < MaxJobs
  /\ sched' = [sched EXCEPT ![i] = [vid |-> v, ctx |-> ctxs[v]]]

(* _worker_get_ctx: the context thread i uses for its new job. *)
ContextFor(i) == IF sched[i].ctx # 0 THEN sched[i].ctx ELSE nctxs + 1

ScheduleEnd(i) ==
  LET v == sched[i].vid
      t == WorkerOf[v]
      j == Len(jobs) + 1
  IN /\ sched[i] # NoCall
     /\ jobs' = Append(jobs, [vid |-> v, by |-> i, ctx |-> ContextFor(i)])
     /\ ctxs' = [ctxs EXCEPT ![v] = ContextFor(i)]
     /\ nctxs' = IF sched[i].ctx # 0 THEN nctxs ELSE nctxs + 1
     /\ queue' = [queue EXCEPT ![t] = QWrite(@, i, j)]
     /\ lost' = IF queue[t].term[i] THEN lost \cup {j} ELSE lost
     /\ sched' = [sched EXCEPT ![i] = NoCall]
     /\ UNCHANGED <<state, terminate, num_excpts, blocked, mainVars, begun, done,
                    deleted, yields, timeVars, workerVars>>

-----------------------------------------------------------------------------
(* The worker loop, _worker *)

LoopHead(w) ==
  /\ pc[w] = "loop"
  /\ Goto(w, IF terminate \/ QTerminated(queue[w]) THEN "exit" ELSE "read")
  /\ UNCHANGED <<state, terminate, num_excpts, queue, jobs, blocked, ctxs, nctxs, sched,
                 mainVars, jobVars, timeVars, idle, finished, job, at, gt>>

ReadJob(w) ==
  /\ pc[w] = "read"
  /\ job' = [job EXCEPT ![w] = QFront(queue[w])]
  /\ queue' = [queue EXCEPT ![w] = QRead(@)]
  /\ Goto(w, "state")
  /\ UNCHANGED <<state, terminate, num_excpts, jobs, blocked, ctxs, nctxs, sched,
                 mainVars, jobVars, timeVars, idle, finished, at, gt>>

FlushAll(w) == queue' = [t \in Workers |-> QFlush(queue[t], w)]

(* In state FINISH a worker reports whether it is idle. *)
CheckState(w) ==
  /\ pc[w] = "state"
  /\ IF state = "FINISH"
       THEN /\ idle' = [idle EXCEPT ![w] = (job[w] = 0)]
            /\ IF job[w] = 0 /\ ~ idle[w] THEN FlushAll(w) ELSE UNCHANGED queue
       ELSE UNCHANGED <<idle, queue>>
  /\ Goto(w, IF job[w] = 0 THEN "stop" ELSE "run")
  /\ begun' = IF job[w] # 0 /\ \A k \in 1..Len(begun) : begun[k] # job[w]
                THEN Append(begun, job[w]) ELSE begun
  /\ UNCHANGED <<state, terminate, num_excpts, jobs, blocked, ctxs, nctxs, sched,
                 mainVars, done, lost, deleted, yields, timeVars, finished, job, at, gt>>

(* The job's virtual thread, whose resource it may wait for. *)
VidOf(w) == jobs[job[w]].vid

Running(w) == pc[w] = "run" /\ sched[w] = NoCall

JobSchedules(w, v) ==
  /\ Running(w)
  /\ ScheduleBegin(w, v)
  /\ UNCHANGED <<state, terminate, num_excpts, queue, jobs, blocked, ctxs, nctxs,
                 mainVars, jobVars, timeVars, workerVars>>

JobStartsTimer(w) ==
  /\ Running(w)
  /\ "timer" \in Features /\ started < MaxTimers
  /\ timers' = [timers EXCEPT ![w] = @ + 1]
  /\ started' = started + 1
  /\ UNCHANGED <<state, terminate, num_excpts, queue, jobs, blocked, ctxs, nctxs, sched,
                 mainVars, jobVars, global_time, wtime, workerVars>>

(* Writing the jobs of s into w's own queue, one after the other. *)
WriteOwn(q, w, s) ==
  LET W[k \in 0..Len(s)] == IF k = 0 THEN q ELSE QWrite(W[k - 1], w, s[k])
  IN W[Len(s)]

(* Fault: the blocked list is not deleted (threading.c:353). *)
Unblock_KeepsList(t, v) ==
  LET s == blocked[t][v]
  IN /\ s # <<>>
     /\ queue' = [queue EXCEPT ![t] = WriteOwn(@, t, s)]
     /\ lost' = IF queue[t].term[t] THEN lost \cup {s[k] : k \in 1..Len(s)} ELSE lost
     /\ UNCHANGED blocked

(* hlt_thread_mgr_unblock, called by worker t in a context of its own: all *)
(* jobs waiting for the resource go back to t's own queue, if there are    *)
(* any.                                                                    *)
Unblock(t, v) ==
  LET s == blocked[t][v]
  IN /\ s # <<>>
     /\ queue' = [queue EXCEPT ![t] = WriteOwn(@, t, s)]
     /\ blocked' = [blocked EXCEPT ![t][v] = <<>>]
     /\ lost' = IF queue[t].term[t] THEN lost \cup {s[k] : k \in 1..Len(s)} ELSE lost

JobUnblocks(w) ==
  /\ Running(w)
  /\ Unblock(w, VidOf(w))
  /\ UNCHANGED <<state, terminate, num_excpts, jobs, ctxs, nctxs, sched, mainVars,
                 begun, done, deleted, yields, timeVars, workerVars>>

JobEnds(w) ==
  /\ job' = [job EXCEPT ![w] = 0]
  /\ Goto(w, "stop")

(* _worker_run_job after a plain yield. *)
JobYields(w) ==
  /\ Running(w)
  /\ "yield" \in Features /\ yields < MaxYields
  /\ yields' = yields + 1
  /\ queue' = [queue EXCEPT ![w] = QWrite(@, w, job[w])]
  /\ lost' = IF queue[w].term[w] THEN lost \cup {job[w]} ELSE lost
  /\ JobEnds(w)
  /\ UNCHANGED <<state, terminate, num_excpts, jobs, blocked, ctxs, nctxs, sched,
                 mainVars, begun, done, deleted, timeVars, idle, finished, at, gt>>

(* _worker_run_job after a yield that waits for a resource: the job goes   *)
(* to the front of the blocked list (_add_to_blocked).                     *)
JobBlocks(w) ==
  /\ Running(w)
  /\ "block" \in Features /\ yields < MaxYields
  /\ yields' = yields + 1
  /\ blocked' = [blocked EXCEPT ![w][VidOf(w)] = <<job[w]>> \o @]
  /\ JobEnds(w)
  /\ UNCHANGED <<state, terminate, num_excpts, queue, jobs, ctxs, nctxs, sched,
                 mainVars, begun, done, lost, deleted, timeVars, idle, finished, at, gt>>

JobReturns(w) ==
  /\ Running(w)
  /\ done' = done \cup {job[w]}
  /\ JobEnds(w)
  /\ UNCHANGED <<state, terminate, num_excpts, queue, jobs, blocked, ctxs, nctxs, sched,
                 mainVars, begun, lost, deleted, yields, timeVars, idle, finished, at, gt>>

(* __hlt_thread_mgr_uncaught_exception_in_thread *)
Uncaught == num_excpts' = num_excpts + 1 /\ terminate' = TRUE

JobThrows(w) ==
  /\ Running(w)
  /\ "throw" \in Features
  /\ Uncaught
  /\ done' = done \cup {job[w]}
  /\ JobEnds(w)
  /\ UNCHANGED <<state, queue, jobs, blocked, ctxs, nctxs, sched, mainVars,
                 begun, lost, deleted, yields, timeVars, idle, finished, at, gt>>

(* In state STOP a worker closes its end of all queues, once. *)
CheckStop(w) ==
  /\ pc[w] = "stop"
  /\ IF state = "STOP" /\ ~ finished[w]
       THEN /\ queue' = [t \in Workers |-> QTerminate(queue[t], w)]
            /\ finished' = [finished EXCEPT ![w] = TRUE]
       ELSE UNCHANGED <<queue, finished>>
  /\ gt' = [gt EXCEPT ![w] = global_time]
  /\ Goto(w, "update")
  /\ UNCHANGED <<state, terminate, num_excpts, jobs, blocked, ctxs, nctxs, sched,
                 mainVars, jobVars, timeVars, idle, job, at>>

NextWorker(w) ==
  /\ at' = [at EXCEPT ![w] = IF @ = NumWorkers THEN 1 ELSE @ + 1]
  /\ gt' = [gt EXCEPT ![w] = IF at[w] = NumWorkers THEN 0 ELSE @]
  /\ Goto(w, IF at[w] = NumWorkers THEN "loop" ELSE "update")

(* Fault: the call of writer_update is missing (threading.c:535). *)
Update_NoUpdate(w) ==
  LET t == at[w]
  IN /\ pc[w] = "update"
     /\ IF wtime[t] >= gt[w] THEN NextWorker(w)
                             ELSE Goto(w, "advance") /\ UNCHANGED <<at, gt>>
     /\ UNCHANGED <<state, terminate, num_excpts, queue, jobs, blocked, ctxs, nctxs,
                    sched, mainVars, jobVars, timeVars, idle, finished, job>>

(* One turn of the loop over all workers: writer_update, then advance the  *)
(* time of that worker's virtual threads if it lags behind.                *)
Update(w) ==
  LET t == at[w]
  IN /\ pc[w] = "update"
     /\ queue' = [queue EXCEPT ![t] = QUpdate(@, w)]
     /\ IF wtime[t] >= gt[w] THEN NextWorker(w)
                             ELSE Goto(w, "advance") /\ UNCHANGED <<at, gt>>
     /\ UNCHANGED <<state, terminate, num_excpts, jobs, blocked, ctxs, nctxs, sched,
                    mainVars, jobVars, timeVars, idle, finished, job>>

(* hlt_timer_mgr_advance on the contexts of worker at[w]: the timers that  *)
(* are due, any of the pending ones, fire in this thread.  A callback that *)
(* runs in its own worker's thread may schedule a job ...                  *)
(*                                                                         *)
(* Run by another thread the callback would write with the owner's number, *)
(* taken from the context (threading.c:323, 850), while the owner may be   *)
(* writing or closing its end.  tqueue.c:196-232 and the blocked lists     *)
(* (threading.h:94-97) have no lock: what two threads at once leave of a   *)
(* batch or a hash table is not defined, and not modelled.                 *)
TimerSchedules(w, v) ==
  /\ pc[w] = "advance" /\ at[w] = w /\ timers[w] > 0
  /\ timers' = [timers EXCEPT ![w] = @ - 1]
  /\ ScheduleBegin(w, v)
  /\ UNCHANGED <<state, terminate, num_excpts, queue, jobs, blocked, ctxs, nctxs,
                 mainVars, jobVars, global_time, started, wtime, workerVars>>

(* ... or unblock jobs of its worker.  Whoever runs it, it may do neither  *)
(* ...                                                                     *)
TimerUnblocks(w, v) ==
  /\ pc[w] = "advance" /\ at[w] = w /\ timers[w] > 0 /\ WorkerOf[v] = w
  /\ timers' = [timers EXCEPT ![w] = @ - 1]
  /\ sched[w] = NoCall
  /\ Unblock(w, v)
  /\ UNCHANGED <<state, terminate, num_excpts, jobs, ctxs, nctxs, sched, mainVars,
                 begun, done, deleted, yields, global_time, started, wtime, workerVars>>

TimerFires(w) ==
  /\ pc[w] = "advance" /\ sched[w] = NoCall /\ timers[at[w]] > 0
  /\ timers' = [timers EXCEPT ![at[w]] = @ - 1]
  /\ UNCHANGED <<state, terminate, num_excpts, queue, jobs, blocked, ctxs, nctxs, sched,
                 mainVars, jobVars, global_time, started, wtime, workerVars>>

(* ... or throw an exception that nobody catches. *)
TimerThrows(w) ==
  /\ pc[w] = "advance" /\ sched[w] = NoCall /\ timers[at[w]] > 0
  /\ "throw" \in Features
  /\ timers' = [timers EXCEPT ![at[w]] = @ - 1]
  /\ Uncaught
  /\ UNCHANGED <<state, queue, jobs, blocked, ctxs, nctxs, sched, mainVars, jobVars,
                 global_time, started, wtime, workerVars>>

Advanced(w) ==
  /\ pc[w] = "advance" /\ sched[w] = NoCall
  /\ wtime' = [wtime EXCEPT ![at[w]] = gt[w]]
  /\ NextWorker(w)
  /\ UNCHANGED <<state, terminate, num_excpts, queue, jobs, blocked, ctxs, nctxs, sched,
                 mainVars, jobVars, global_time, timers, started, idle, finished, job>>

(* Fault: the final flush is missing (threading.c:581). *)
Exit_NoFlush(w) ==
  /\ pc[w] = "exit"
  /\ Goto(w, "dead")
  /\ UNCHANGED <<state, terminate, num_excpts, queue, jobs, blocked, ctxs, nctxs, sched,
                 mainVars, jobVars, timeVars, idle, finished, job, at, gt>>

(* The worker's last act is to flush what it wrote. *)
Exit(w) ==
  /\ pc[w] = "exit"
  /\ FlushAll(w)
  /\ Goto(w, "dead")
  /\ UNCHANGED <<state, terminate, num_excpts, jobs, blocked, ctxs, nctxs, sched,
                 mainVars, jobVars, timeVars, idle, finished, job, at, gt>>

-----------------------------------------------------------------------------
(* The main thread *)

MainSchedules(v) ==
  /\ mpc = "run"
  /\ ScheduleBegin(0, v)
  /\ UNCHANGED <<state, terminate, num_excpts, queue, jobs, blocked, ctxs, nctxs,
                 mainVars, jobVars, timeVars, workerVars>>

(* hilti_sleep flushes main's ends of the queues. *)
MainSleeps ==
  /\ mpc = "run" /\ sched[0] = NoCall
  /\ FlushAll(0)
  /\ UNCHANGED <<state, terminate, num_excpts, jobs, blocked, ctxs, nctxs, sched,
                 mainVars, jobVars, timeVars, workerVars>>

(* hlt_timer_mgr_advance_global *)
MainAdvancesTime ==
  /\ mpc = "run" /\ sched[0] = NoCall
  /\ global_time < MaxTime
  /\ global_time' = global_time + 1
  /\ UNCHANGED <<state, terminate, num_excpts, queue, jobs, blocked, ctxs, nctxs, sched,
                 mainVars, jobVars, timers, started, wtime, workerVars>>

(* hlt_thread_mgr_set_state and _terminate_threads *)
MainRequests(s) ==
  /\ mpc = "run" /\ sched[0] = NoCall
  /\ state' = s
  /\ mpc' = "terminate"
  /\ UNCHANGED <<terminate, num_excpts, queue, jobs, blocked, ctxs, nctxs, sched,
                 mi, midle, jobVars, timeVars, workerVars>>

(* Fault: main's ends of the queues stay open (threading.c:225). *)
MainTerminates_KeepsEnds ==
  /\ mpc = "terminate"
  /\ terminate' = (terminate \/ state = "KILL")
  /\ mpc' = IF state = "FINISH" THEN "idle" ELSE "join"
  /\ UNCHANGED <<state, num_excpts, queue, jobs, blocked, ctxs, nctxs, sched, mi, midle,
                 jobVars, timeVars, workerVars>>

MainTerminates ==
  /\ mpc = "terminate"
  /\ queue' = [t \in Workers |-> QTerminate(queue[t], 0)]
  /\ terminate' = (terminate \/ state = "KILL")
  /\ mpc' = IF state = "FINISH" THEN "idle" ELSE "join"
  /\ UNCHANGED <<state, num_excpts, jobs, blocked, ctxs, nctxs, sched, mi, midle,
                 jobVars, timeVars, workerVars>>

(* The loop that waits for all workers to be idle reads each worker's flag *)
(* and then the size of its queue, while the workers go on.                *)
MainNext(n) ==
  /\ mi' = IF mi = NumWorkers THEN 1 ELSE mi + 1
  /\ midle' = IF mi = NumWorkers THEN 0 ELSE n
  /\ mpc' = IF mi = NumWorkers /\ n = NumWorkers THEN "join" ELSE "idle"
  /\ state' = IF mi = NumWorkers /\ n = NumWorkers THEN "STOP" ELSE state

MainReadsIdle ==
  /\ mpc = "idle"
  /\ IF idle[mi] THEN mpc' = "size" /\ UNCHANGED <<mi, midle, state>>
                 ELSE MainNext(midle)
  /\ UNCHANGED <<terminate, num_excpts, queue, jobs, blocked, ctxs, nctxs, sched,
                 jobVars, timeVars, workerVars>>

MainReadsSize ==
  /\ mpc = "size"
  /\ MainNext(IF QEmpty(queue[mi]) THEN midle + 1 ELSE midle)
  /\ UNCHANGED <<terminate, num_excpts, queue, jobs, blocked, ctxs, nctxs, sched,
                 jobVars, timeVars, workerVars>>

MainJoins ==
  /\ mpc = "join"
  /\ \A w \in Workers : pc[w] = "dead"
  /\ state' = "DEAD"
  /\ mpc' = "dead"
  /\ UNCHANGED <<terminate, num_excpts, queue, jobs, blocked, ctxs, nctxs, sched,
                 mi, midle, jobVars, timeVars, workerVars>>

(* hlt_thread_mgr_delete, once all workers are dead: each worker's queue   *)
(* is read until its size is 0, and every read must return a job; then its *)
(* blocked jobs are deleted.                                               *)
Readable(t) ==
  LET q == queue[t]
  IN {q.head[k] : k \in 1..Len(q.head)} \cup {q.pending[k] : k \in 1..Len(q.pending)}

BlockedJobs(t) ==
  UNION {{blocked[t][v][k] : k \in 1..Len(blocked[t][v])} : v \in Vids}

Unflushed(t) == \E i \in Ids : queue[t].priv[i] # <<>>

MainDeletes ==
  /\ mpc = "dead"
  /\ IF \E t \in Workers : Unflushed(t)
       THEN mpc' = "assert" /\ UNCHANGED <<queue, blocked, deleted>>
       ELSE /\ mpc' = "deleted"
            /\ deleted' = UNION {Readable(t) \cup BlockedJobs(t) : t \in Workers}
            /\ queue' = [t \in Workers |-> EmptyQueue]
            /\ blocked' = [t \in Workers |-> [v \in Vids |-> <<>>]]
  /\ UNCHANGED <<state, terminate, num_excpts, jobs, ctxs, nctxs, sched, mi, midle,
                 begun, done, lost, yields, timeVars, workerVars>>

Stopped == mpc \in {"deleted", "assert"} /\ UNCHANGED vars

-----------------------------------------------------------------------------
WorkerStep(w) ==
  \/ LoopHead(w) \/ ReadJob(w) \/ CheckState(w) \/ CheckStop(w) \/ Update(w)
  \/ (\E v \in Vids : JobSchedules(w, v)) \/ JobStartsTimer(w) \/ JobUnblocks(w)
  \/ JobYields(w) \/ JobBlocks(w) \/ JobReturns(w) \/ JobThrows(w)
  \/ (\E v \in Vids : TimerSchedules(w, v)) \/ TimerFires(w) \/ TimerThrows(w)
  \/ (\E v \in Vids : TimerUnblocks(w, v)) \/ Advanced(w)
  \/ ScheduleEnd(w)
  \/ Exit(w)

MainRuns ==
  \/ \E v \in Vids : MainSchedules(v)
  \/ MainSleeps \/ MainAdvancesTime
  \/ \E s \in Requests : MainRequests(s)

MainStep ==
  \/ ScheduleEnd(0)
  \/ MainTerminates \/ MainReadsIdle \/ MainReadsSize \/ MainJoins
  \/ MainDeletes

Next == MainRuns \/ MainStep \/ Stopped \/ \E w \in Workers : WorkerStep(w)

Spec == Init /\ [][Next]_vars

(* Every thread keeps running; what main does in state RUN is its choice.  *)
Fairness == WF_vars(MainStep) /\ \A w \in Workers : WF_vars(WorkerStep(w))

FairSpec == Spec /\ Fairness
-----------------------------------------------------------------------------
(* Properties *)

TypeOK ==
  /\ state \in {"RUN", "FINISH", "STOP", "KILL", "DEAD"}
  /\ terminate \in BOOLEAN
  /\ num_excpts \in Nat
  /\ global_time \in 0..MaxTime
  /\ Len(jobs) <= MaxJobs
  /\ \A j \in 1..Len(jobs) : jobs[j] \in [vid : Vids, by : Ids, ctx : Jobs]
  /\ \A t \in Workers : /\ job[t] \in 0..Len(jobs)
                        /\ pc[t] = "run" => job[t] # 0
                        /\ at[t] \in Workers
                        /\ timers[t] \in 0..MaxTimers
                        /\ wtime[t] \in 0..MaxTime
  /\ nctxs \in 0..MaxJobs
  /\ \A v \in Vids : ctxs[v] \in 0..nctxs
  /\ mi \in Workers /\ midle \in 0..NumWorkers

Positions(s, j) == {k \in 1..Len(s) : s[k] = j}

(* The places of worker t's data structures where job j is. *)
CopiesAt(t, j) ==
  LET q == queue[t]
  IN {<<"head", 0, k>> : k \in Positions(q.head, j)}
     \cup {<<"pending", 0, k>> : k \in Positions(q.pending, j)}
     \cup (UNION {{<<"priv", i, k>> : k \in Positions(q.priv[i], j)} : i \in Ids})
     \cup (UNION {{<<"blocked", v, k>> : k \in Positions(blocked[t][v], j)} : v \in Vids})
     \cup (IF job[t] = j THEN {<<"held", 0, 0>>} ELSE {})

(* How job j ended: it returned or threw, was dropped, or was deleted. *)
EndsOf(j) == {n \in 1..3 : j \in <<done, lost, deleted>>[n]}

(* No job is ever duplicated or leaked: it is in one queue, on one blocked *)
(* list or held by one worker, always the worker its virtual thread is     *)
(* mapped to, until it has ended, has been deleted with its worker, or was *)
(* dropped by a terminated writer, which happens only after the manager    *)
(* told the workers to stop (threading.c:317-365, 439-474, 520-528).       *)
JobsAccountedFor ==
  /\ TypeOK
  /\ lost # {} => state \in {"STOP", "DEAD"}
  /\ \A j \in 1..Len(jobs) :
       LET home == WorkerOf[jobs[j].vid]
       IN /\ \A t \in Workers \ {home} : CopiesAt(t, j) = {}
          /\ Cardinality(CopiesAt(home, j)) + Cardinality(EndsOf(j)) = 1

(* Unless the workers were killed, by KILL or by an uncaught exception,    *)
(* they leave no job in any queue behind (threading.h:38-39).              *)
StoppedMeansDrained ==
  state = "DEAD" /\ ~ terminate
    => \A t \in Workers : QEmpty(queue[t]) /\ job[t] = 0

(* hlt_thread_mgr_delete can read every job that is left, however the      *)
(* workers ended: the assert at threading.c:123 holds.                     *)
DeleteFindsJobs == mpc # "assert"

Before(i, k) ==
  \E a, b \in 1..Len(begun) : a < b /\ begun[a] = i /\ begun[b] = k

(* Jobs that one thread schedules to one virtual thread start in the order *)
(* they were scheduled, through batches, flushes and the hand-over to the  *)
(* worker (threading.c:317-326, tqueue.h:3-4).                             *)
ScheduledOrder ==
  \A i, k \in 1..Len(jobs) :
    /\ i < k /\ jobs[i].vid = jobs[k].vid /\ jobs[i].by = jobs[k].by
    /\ \E b \in 1..Len(begun) : begun[b] = k
    => Before(i, k)

(* Shutdown ends: after the main thread has asked for it, all workers exit *)
(* and are joined, also if jobs throw (threading.c:217-272).  The one      *)
(* exception is FINISH: a worker that throws leaves its loop without       *)
(* setting its idle flag, and main polls it for ever (threading.c:245).    *)
ShutdownCompletes ==
  mpc = "terminate" ~> mpc = "deleted" \/ (state = "FINISH" /\ num_excpts > 0)

(* A job scheduled by a worker runs: it does not stay in the scheduling    *)
(* worker's private batch, however idle that worker is (threading.c:535).  *)
WorkerJobsRun ==
  \A j \in Jobs :
    j <= Len(jobs) /\ jobs[j].by # 0 ~>
      terminate \/ j \in lost \/ \E b \in 1..Len(begun) : begun[b] = j

-----------------------------------------------------------------------------
(* What the code's comments and docs say and the code does not do *)

(* threading.h:35 and threading.c:210: in FINISH the workers terminate     *)
(* once all of them are idle.                                              *)
FinishWaitsForIdle ==
  [][state = "FINISH" /\ state' = "STOP"
       => \A t \in Workers : QEmpty(queue[t]) /\ job[t] = 0]_vars
=============================================================================
