-------------------------------- MODULE Timer --------------------------------
(***************************************************************************)
(* One timer manager and its timers, libhilti/timer.c.  A timer's callback *)
(* is program code: while it runs it may schedule, update and cancel       *)
(* timers and advance or expire the manager itself, so the calls in        *)
(* progress form a stack.                                                  *)
(*                                                                         *)
(* Two calls whose effect depends on memory the manager no longer owns are *)
(* left out: hlt_timer_cancel of a timer without manager, which follows a  *)
(* null pointer, and hlt_timer_cancel or hlt_timer_update of a timer that  *)
(* still has its manager but has left the queue.                           *)
(***************************************************************************)
EXTENDS Integers, Sequences, FiniteSets, PriorityQueue

CONSTANTS
  Timers,         \* the timers
  MaxTime,        \* bound on all times
  MaxDepth,       \* bound on the depth of the stack
  UpdatesEarlier  \* it also updates timers to earlier times still to come

ASSUME TimerAssumption ==
  /\ IsFiniteSet(Timers)
  /\ {MaxTime, MaxDepth} \subseteq Nat
  /\ UpdatesEarlier \in BOOLEAN

VARIABLES
  time,       \* mgr->time
  heap,       \* mgr->timers
  scheduled,  \* timer -> timer->mgr is set
  at,         \* timer -> timer->time, 0 is HLT_TIME_UNSET
  queue_pos,  \* timer -> timer->queue_pos
  refs,       \* timer -> references the manager holds on it
  stack       \* the calls in progress, the innermost last

vars == <<time, heap, scheduled, at, queue_pos, refs, stack>>

Times == 0..MaxTime

(* hlt_timer_mgr_new *)
MgrNew == time = 0 /\ heap = <<>> /\ stack = <<>>

(* __hlt_timer_new_function, _list, _vector, _map, _set, _profiler *)
TimersNew ==
  /\ scheduled = [x \in Timers |-> FALSE]
  /\ at = [x \in Timers |-> 0]
  /\ queue_pos = [x \in Timers |-> 0]
  /\ refs = [x \in Timers |-> 0]

Init == MgrNew /\ TimersNew

-----------------------------------------------------------------------------
Top == stack[Len(stack)]
Call(op) == stack # <<>> /\ Top.op = op
Push(op, t, x) == stack' = Append(stack, [op |-> op, time |-> t, timer |-> x])
Return == stack' = SubSeq(stack, 1, Len(stack) - 1)

(* Program code runs outside of all calls and in callbacks. *)
ProgramRuns == (stack = <<>> \/ Call("fire")) /\ Len(stack) < MaxDepth

Queued(x) == \E k \in 1..Len(heap) : heap[k] = x
Firing(x) == \E k \in 1..Len(stack) : stack[k].op = "fire" /\ stack[k].timer = x

(* The priority queue, whose entries keep their positions themselves, and  *)
(* what an operation makes of it.                                          *)
Queue == [d |-> heap, pos |-> queue_pos]
SetQueue(q) == heap' = q.d /\ queue_pos' = q.pos

(* Entry into __hlt_timer_fire, which ignores a timer without manager. *)
Fire(x) == Push("fire", 0, x)

(* The rest of __hlt_timer_fire, after the callback. *)
FireEnd ==
  /\ Call("fire")
  /\ scheduled' = [scheduled EXCEPT ![Top.timer] = FALSE]
  /\ refs' = [refs EXCEPT ![Top.timer] = @ - 1]
  /\ Return
  /\ UNCHANGED <<time, heap, at, queue_pos>>

-----------------------------------------------------------------------------
(* hlt_timer_mgr_schedule *)

(* TimerAlreadyScheduled is raised if this is not the case. *)
MaySchedule(x) == ~ scheduled[x]

(* Fault: a timer that is due now is queued (timer.c:295). *)
DueNow_Exclusive(t) == t < time

DueNow(t) == t <= time

Schedule(x, t) ==
  /\ ProgramRuns
  /\ MaySchedule(x)
  /\ scheduled' = [scheduled EXCEPT ![x] = TRUE]
  /\ at' = [at EXCEPT ![x] = t]
  /\ refs' = [refs EXCEPT ![x] = @ + 1]
  /\ IF DueNow(t) THEN Fire(x) /\ UNCHANGED <<heap, queue_pos>>
                  ELSE SetQueue(Insert(Queue, at', x)) /\ UNCHANGED stack
  /\ UNCHANGED time

(* hlt_timer_update.  timer->time is set before the priority queue looks   *)
(* at it, so to the queue the priority does not seem to change.            *)
Update(x, t) ==
  /\ ProgramRuns
  /\ scheduled[x] /\ Queued(x)
  /\ t >= at[x] \/ t <= time \/ UpdatesEarlier
  /\ IF t > time
       THEN /\ at' = [at EXCEPT ![x] = t]
            /\ SetQueue(ChangePriority(Queue, at', x, at'[x]))
            /\ UNCHANGED stack
       ELSE /\ SetQueue(Remove(Queue, at, x))
            /\ Fire(x)
            /\ UNCHANGED at
  /\ UNCHANGED <<time, scheduled, refs>>

(* Fault: the manager's reference is kept (timer.c:206). *)
Cancel_KeepsRef(x) ==
  /\ ProgramRuns
  /\ scheduled[x] /\ Queued(x)
  /\ SetQueue(Remove(Queue, at, x))
  /\ scheduled' = [scheduled EXCEPT ![x] = FALSE]
  /\ at' = [at EXCEPT ![x] = 0]
  /\ UNCHANGED <<time, refs, stack>>

(* hlt_timer_cancel *)
Cancel(x) ==
  /\ ProgramRuns
  /\ scheduled[x] /\ Queued(x)
  /\ SetQueue(Remove(Queue, at, x))
  /\ refs' = [refs EXCEPT ![x] = @ - 1]
  /\ scheduled' = [scheduled EXCEPT ![x] = FALSE]
  /\ at' = [at EXCEPT ![x] = 0]
  /\ UNCHANGED <<time, stack>>

-----------------------------------------------------------------------------
(* hlt_timer_mgr_advance, which takes any time. *)
Advance(t) ==
  /\ ProgramRuns
  /\ time' = t
  /\ stack' = Append(stack, [op |-> "advance", time |-> t, timer |-> 0])
  /\ UNCHANGED <<heap, scheduled, at, queue_pos, refs>>

FirstIsDue == heap # <<>> /\ at[heap[1]] <= Top.time

(* A timer of the queue that has no manager is dropped by the fire call. *)
AdvanceFires ==
  /\ Call("advance") /\ FirstIsDue
  /\ SetQueue(Pop(Queue, at))
  /\ IF scheduled[heap[1]] THEN Fire(heap[1]) ELSE UNCHANGED stack
  /\ UNCHANGED <<time, scheduled, at, refs>>

AdvanceEnd ==
  /\ Call("advance") /\ ~ FirstIsDue
  /\ Return
  /\ UNCHANGED <<time, heap, scheduled, at, queue_pos, refs>>

(* hlt_timer_mgr_expire, with and without firing the timers. *)
Expire ==
  /\ ProgramRuns
  /\ stack' = Append(stack, [op |-> "expire", time |-> 0, timer |-> 0])
  /\ UNCHANGED <<time, heap, scheduled, at, queue_pos, refs>>

ExpireFires ==
  /\ Call("expire") /\ heap # <<>>
  /\ SetQueue(Pop(Queue, at))
  /\ IF scheduled[heap[1]] THEN Fire(heap[1]) ELSE UNCHANGED stack
  /\ UNCHANGED <<time, scheduled, at, refs>>

ExpireEnd ==
  /\ Call("expire") /\ heap = <<>>
  /\ Return
  /\ UNCHANGED <<time, heap, scheduled, at, queue_pos, refs>>

(* Each timer is the first of the queue when it is taken out. *)
CancelAll ==
  /\ ProgramRuns
  /\ heap' = <<>>
  /\ queue_pos' = [x \in Timers |-> IF Queued(x) THEN 1 ELSE queue_pos[x]]
  /\ refs' = [x \in Timers |-> IF Queued(x) THEN refs[x] - 1 ELSE refs[x]]
  /\ UNCHANGED <<time, scheduled, at, stack>>

-----------------------------------------------------------------------------
Next ==
  \/ \E x \in Timers :
       \/ \E t \in Times : Schedule(x, t) \/ Update(x, t)
       \/ Cancel(x)
  \/ \E t \in Times : Advance(t)
  \/ Expire \/ CancelAll
  \/ FireEnd \/ AdvanceFires \/ AdvanceEnd \/ ExpireFires \/ ExpireEnd

Spec == Init /\ [][Next]_vars
-----------------------------------------------------------------------------
(* Properties *)

TypeOK ==
  /\ time \in Times
  /\ Len(heap) <= Cardinality(Timers)
  /\ \A k \in 1..Len(heap) : heap[k] \in Timers
  /\ scheduled \in [Timers -> BOOLEAN]
  /\ at \in [Timers -> Times]
  /\ queue_pos \in [Timers -> 0..Cardinality(Timers)]
  /\ refs \in [Timers -> 0..1]
  /\ Len(stack) <= MaxDepth + 1

(* The priority queue stays a heap in which every timer knows its position *)
(* through all insertions, removals and changes of priority, also the ones *)
(* that callbacks make in the middle of an advance (pqueue.c:94-220): each *)
(* entry that moves is told so by a setpos of its own.                     *)
HeapOrdered ==
  /\ \A k \in 2..Len(heap) : at[heap[Parent(k)]] <= at[heap[k]]
  /\ \A k \in 1..Len(heap) : queue_pos[heap[k]] = k

(* The manager holds one reference on every timer it has, in its queue or  *)
(* firing, and none on the others, so that none is freed early or leaked   *)
(* (timer.c:100, 206, 290, 357).  A timer it has also has its manager set: *)
(* otherwise __hlt_timer_fire would drop it when it is due, and schedule() *)
(* would queue it a second time (timer.c:67, 282).                         *)
RefsMatch ==
  /\ TypeOK
  /\ \A x \in Timers :
       IF Queued(x) \/ Firing(x) THEN refs[x] = 1 /\ scheduled[x] ELSE refs[x] = 0

(* When no call is in progress no timer in the queue is due: "all timers   *)
(* scheduled for a time smaller or equal the new time will fire"           *)
(* (timer.h:146).  UpdatesEarlier breaks this: update() to a time that is  *)
(* ahead sets timer->time before the heap compares it (timer.c:188).       *)
DueTimersFire ==
  stack = <<>> => \A k \in 1..Len(heap) : at[heap[k]] > time

=============================================================================
