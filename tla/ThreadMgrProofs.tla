--------------------------- MODULE ThreadMgrProofs ---------------------------
(***************************************************************************)
(* Proofs about the scheduler: workers that were not killed leave nothing  *)
(* in their queues, what killed ones leave can be deleted, jobs of one     *)
(* thread start in the order it scheduled them, and every job is in one    *)
(* place only.                                                             *)
(***************************************************************************)
EXTENDS ThreadMgr, SequenceTheorems, NaturalsInduction, WellFoundedInduction,
        FiniteSetTheorems, TLAPS

JobIds == 1..Len(jobs)

(* q is a job queue for the jobs of J. *)
IsQueue(q, J) ==
  /\ DOMAIN q = {"priv", "pending", "head", "term", "seen", "need_flush"}
  /\ q.priv \in [Ids -> Seq(J)] /\ q.pending \in Seq(J) /\ q.head \in Seq(J)
  /\ q.term \in [Ids -> BOOLEAN] /\ q.seen \in BOOLEAN /\ q.need_flush \in BOOLEAN

AllClosed(q) == \A k \in Ids : q.term[k]

(* Queue q has become r by what writer i did: its end may be closed, the   *)
(* other writers' batches are theirs, and a queue that all writers have    *)
(* closed and that is empty stays so.                                      *)
Written(q, r, i) ==
  /\ r.seen = q.seen
  /\ \A k \in Ids : q.term[k] => r.term[k]
  /\ \A k \in Ids : k # i => r.priv[k] = q.priv[k]
  /\ AllClosed(q) /\ QEmpty(q) => QEmpty(r)

-----------------------------------------------------------------------------
(* What the operations of the queue do *)
LEMMA EmptyIs ==
  ASSUME NEW J
  PROVE  IsQueue(EmptyQueue, J) /\ QEmpty(EmptyQueue) /\ ~ EmptyQueue.seen
BY DEF IsQueue, QEmpty, EmptyQueue

LEMMA QueueGrows ==
  ASSUME NEW J, NEW K, J \subseteq K, NEW q, IsQueue(q, J)
  PROVE  IsQueue(q, K)
BY DEF IsQueue

(* Writer i has flushed its batch. *)
Flushed(q, r, i) ==
  /\ r.priv[i] = <<>> /\ \A k \in Ids : k # i => r.priv[k] = q.priv[k]
  /\ r.pending = q.pending \o q.priv[i]
  /\ r.head = q.head /\ r.term = q.term /\ r.seen = q.seen /\ r.need_flush = q.need_flush

LEMMA FlushIs ==
  ASSUME NEW J, NEW q, IsQueue(q, J), NEW i \in Ids
  PROVE  IsQueue(QFlush(q, i), J) /\ Flushed(q, QFlush(q, i), i)
BY DEF QFlush, IsQueue, Flushed

LEMMA FlushWrites ==
  ASSUME NEW J, NEW q, IsQueue(q, J), NEW i \in Ids
  PROVE  /\ IsQueue(QFlush(q, i), J) /\ Written(q, QFlush(q, i), i)
         /\ QFlush(q, i).priv[i] = <<>>
<1>1. PICK r : r = QFlush(q, i)
  OBVIOUS
<1>2. IsQueue(r, J) /\ Flushed(q, r, i)
  BY <1>1, FlushIs
<1>3. ASSUME QEmpty(q) PROVE QEmpty(r)
  <2>1. q.pending = <<>> /\ q.priv[i] = <<>> /\ <<>> \o <<>> = <<>>
    BY <1>3 DEF QEmpty
  <2>2. r.pending = <<>>
    BY <1>2, <2>1 DEF Flushed
  <2> QED BY <1>2, <1>3, <2>2 DEF QEmpty, Flushed
<1> QED BY <1>1, <1>2, <1>3 DEF Written, Flushed

LEMMA UpdateWrites ==
  ASSUME NEW J, NEW q, IsQueue(q, J), NEW i \in Ids
  PROVE  IsQueue(QUpdate(q, i), J) /\ Written(q, QUpdate(q, i), i)
BY FlushWrites DEF QUpdate, Written

LEMMA TerminateWrites ==
  ASSUME NEW J, NEW q, IsQueue(q, J), NEW i \in Ids
  PROVE  /\ IsQueue(QTerminate(q, i), J) /\ Written(q, QTerminate(q, i), i)
         /\ QTerminate(q, i).priv[i] = <<>>
<1>1. PICK r : r = [q EXCEPT !.term[i] = TRUE]
  OBVIOUS
<1>2. /\ IsQueue(r, J) /\ r.priv = q.priv /\ r.pending = q.pending /\ r.head = q.head
      /\ r.seen = q.seen /\ \A k \in Ids : q.term[k] => r.term[k]
  BY <1>1 DEF IsQueue
<1>3. Written(q, r, i) /\ AllClosed(q) => AllClosed(r)
  BY <1>2 DEF Written, QEmpty, AllClosed
<1>4. /\ IsQueue(QFlush(r, i), J) /\ Written(r, QFlush(r, i), i)
      /\ QFlush(r, i).priv[i] = <<>> /\ QTerminate(q, i) = QFlush(r, i)
  BY <1>1, <1>2, FlushWrites DEF QTerminate
<1>5. Written(q, QFlush(r, i), i)
  BY <1>2, <1>4 DEF Written, QEmpty, AllClosed
<1> QED BY <1>4, <1>5

LEMMA WriteWrites ==
  ASSUME NEW J, NEW q, IsQueue(q, J), NEW i \in Ids, NEW j \in J
  PROVE  /\ IsQueue(QWrite(q, i, j), J) /\ Written(q, QWrite(q, i, j), i)
         /\ QWrite(q, i, j).term = q.term
<1>1. CASE q.term[i]
  BY <1>1 DEF QWrite, Written
<1>2. CASE ~ q.term[i]
  <2>1. PICK r : r = [q EXCEPT !.priv[i] = Append(@, j)]
    OBVIOUS
  <2>2. /\ IsQueue(r, J) /\ r.seen = q.seen /\ r.term = q.term
        /\ \A k \in Ids : k # i => r.priv[k] = q.priv[k]
    <3>1. PICK p : p = [q.priv EXCEPT ![i] = Append(q.priv[i], j)]
      OBVIOUS
    <3>2. q.priv \in [Ids -> Seq(J)]
      BY DEF IsQueue
    <3>3. p \in [Ids -> Seq(J)] /\ \A k \in Ids : k # i => p[k] = q.priv[k]
      <4>1. Append(q.priv[i], j) \in Seq(J)
        BY <3>2
      <4> QED BY <3>1, <3>2, <4>1
    <3>4. r = [q EXCEPT !.priv = p]
      BY <2>1, <3>1
    <3>5. r.priv = p /\ IsQueue(r, J) /\ r.seen = q.seen /\ r.term = q.term
      BY <3>3, <3>4 DEF IsQueue
    <3> QED BY <3>3, <3>5
  <2>3. PICK u : u = QUpdate(r, i) /\ u = QWrite(q, i, j)
    BY <1>2, <2>1 DEF QWrite
  <2>4. IsQueue(u, J) /\ Written(r, u, i)
    BY <2>2, <2>3, UpdateWrites
  <2>5. u.term = r.term
    <3>1. QFlush(r, i).term = r.term
      BY <2>2, FlushIs DEF Flushed
    <3> QED BY <2>3, <3>1 DEF QUpdate
  <2>6. Written(q, u, i)
    BY <1>2, <2>2, <2>4, <2>5 DEF Written, IsQueue, AllClosed
  <2> QED BY <2>2, <2>3, <2>4, <2>5, <2>6
<1> QED BY <1>1, <1>2

LEMMA TakeIs ==
  ASSUME NEW J, NEW q, IsQueue(q, J)
  PROVE  /\ IsQueue(QTake(q), J) /\ QTake(q).priv = q.priv /\ QTake(q).term = q.term
         /\ q.head # <<>> => QTake(q) = q
         /\ q.head = <<>> => /\ QTake(q).head = q.pending /\ QTake(q).pending = <<>>
                             /\ QTake(q).seen = AllClosed(q)
BY DEF QTake, IsQueue, AllClosed

LEMMA ReadIs ==
  ASSUME NEW J, NEW q, IsQueue(q, J)
  PROVE  /\ IsQueue(QRead(q), J) /\ QRead(q).priv = q.priv /\ QRead(q).term = q.term
         /\ QRead(q).seen => q.seen \/ AllClosed(q)
         /\ QFront(q) \in J \cup {0}
<1>1. PICK r : r = QTake(q)
  OBVIOUS
<1>2. /\ IsQueue(r, J) /\ r.priv = q.priv /\ r.term = q.term
      /\ r.seen => q.seen \/ AllClosed(q)
  BY <1>1, TakeIs
<1>3. CASE r.head = <<>>
  <2>1. PICK u : u = [r EXCEPT !.need_flush = TRUE]
    OBVIOUS
  <2>2. u = QRead(q) /\ QFront(q) = 0
    BY <1>1, <1>3, <2>1 DEF QRead, QFront
  <2>3. IsQueue(u, J) /\ u.priv = r.priv /\ u.term = r.term /\ u.seen = r.seen
    BY <1>2, <2>1 DEF IsQueue
  <2> QED BY <1>2, <2>2, <2>3
<1>4. CASE r.head # <<>>
  <2>1. PICK u : u = [r EXCEPT !.need_flush = FALSE, !.head = Tail(@)]
    OBVIOUS
  <2>2. u = QRead(q) /\ QFront(q) = Head(r.head)
    BY <1>1, <1>4, <2>1 DEF QRead, QFront
  <2>3. PICK s : s = r.head /\ s \in Seq(J) /\ s # <<>>
    BY <1>2, <1>4 DEF IsQueue
  <2>4. Tail(s) \in Seq(J) /\ Head(s) \in J
    BY <2>3
  <2>5. IsQueue(u, J) /\ u.priv = r.priv /\ u.term = r.term /\ u.seen = r.seen
    BY <1>2, <2>1, <2>3, <2>4 DEF IsQueue
  <2> QED BY <1>2, <2>2, <2>3, <2>4, <2>5
<1> QED BY <1>3, <1>4

-----------------------------------------------------------------------------
(* Writing several jobs.  Every non-empty set of naturals has a least      *)
(* element: the form in which induction is used.                           *)
LEMMA LeastNat ==
  ASSUME NEW T, T \subseteq Nat, T # {}
  PROVE  \E m \in T : \A k \in T : m <= k
<1> DEFINE R == {ss \in Nat \X Nat : ss[1] < ss[2]}
<1>1. PICK m \in T : \A k \in T : ~ (<<k, m>> \in R)
  <2>1. IsWellFoundedOn(R, Nat)
    BY NatLessThanWellFounded DEF OpToRel
  <2> HIDE DEF R
  <2> QED BY <2>1, WFMin
<1>2. \A k \in T : ~ (k < m)
  BY <1>1
<1> QED BY <1>2

WriteLoop(f, q, w, s, n) ==
  f = [k \in 0..n |-> IF k = 0 THEN q ELSE QWrite(f[k - 1], w, s[k])]

LEMMA WriteLoopExists ==
  ASSUME NEW n \in Nat, NEW q, NEW w, NEW s
  PROVE  \E f : WriteLoop(f, q, w, s, n)
<1> DEFINE T == {m \in Nat : ~ \E f : WriteLoop(f, q, w, s, m)}
<1>1. T \subseteq Nat /\ \A m \in Nat : m \notin T <=> \E f : WriteLoop(f, q, w, s, m)
  OBVIOUS
<1> HIDE DEF T
<1>2. T = {}
  <2> SUFFICES ASSUME T # {} PROVE FALSE
    OBVIOUS
  <2>1. PICK m \in Nat : m \in T /\ \A k \in T : m <= k
    BY <1>1, LeastNat
  <2>2. m # 0
    <3> DEFINE f == [k \in 0..0 |-> q]
    <3>1. f = [k \in 0..0 |-> IF k = 0 THEN q ELSE QWrite(f[k - 1], w, s[k])]
      OBVIOUS
    <3>2. WriteLoop(f, q, w, s, 0)
      BY <3>1 DEF WriteLoop
    <3> QED BY <1>1, <2>1, <3>2
  <2>3. PICK l \in Nat : m = l + 1 /\ l \notin T
    BY <2>1, <2>2
  <2>4. PICK g : WriteLoop(g, q, w, s, l)
    BY <1>1, <2>3
  <2>5. \A k \in 0..l : g[k] = IF k = 0 THEN q ELSE QWrite(g[k - 1], w, s[k])
    BY <2>4 DEF WriteLoop
  <2> DEFINE f == [k \in 0..m |-> IF k <= l THEN g[k] ELSE QWrite(g[l], w, s[m])]
  <2>6. \A k \in 0..m : f[k] = IF k <= l THEN g[k] ELSE QWrite(g[l], w, s[m])
    OBVIOUS
  <2>7. f = [k \in 0..m |-> f[k]]
    OBVIOUS
  <2> HIDE DEF f
  <2>8. ASSUME NEW k \in 0..m
        PROVE  f[k] = IF k = 0 THEN q ELSE QWrite(f[k - 1], w, s[k])
    <3>1. CASE k = 0
      <4>1. k <= l /\ k \in 0..l
        BY <2>3, <3>1
      <4> QED BY <2>5, <2>6, <3>1, <4>1
    <3>2. CASE k # 0 /\ k <= l
      <4>1. k \in 0..l /\ k - 1 \in 0..m /\ k - 1 <= l
        BY <2>3, <3>2
      <4>2. f[k - 1] = g[k - 1] /\ f[k] = g[k]
        BY <2>6, <3>2, <4>1
      <4> QED BY <2>5, <3>2, <4>1, <4>2
    <3>3. CASE k # 0 /\ ~ (k <= l)
      <4>1. k = m /\ k - 1 = l /\ l \in 0..m /\ l <= l
        BY <2>3, <3>3
      <4>2. f[l] = g[l] /\ f[k] = QWrite(g[l], w, s[m])
        BY <2>6, <3>3, <4>1
      <4> QED BY <3>3, <4>1, <4>2
    <3> QED BY <3>1, <3>2, <3>3
  <2>9. WriteLoop(f, q, w, s, m)
    BY <2>7, <2>8 DEF WriteLoop
  <2> QED BY <1>1, <2>1, <2>9
<1> QED BY <1>1, <1>2

LEMMA WriteOwnWrites ==
  ASSUME NEW J, NEW q, IsQueue(q, J), NEW i \in Ids, NEW s \in Seq(J)
  PROVE  /\ IsQueue(WriteOwn(q, i, s), J) /\ Written(q, WriteOwn(q, i, s), i)
         /\ WriteOwn(q, i, s).term = q.term
<1>1. PICK n \in Nat : n = Len(s) /\ \A k \in 1..n : s[k] \in J
  OBVIOUS
<1>2. PICK f : WriteLoop(f, q, i, s, n) /\ WriteOwn(q, i, s) = f[n]
  <2> DEFINE f == CHOOSE g : WriteLoop(g, q, i, s, n)
  <2>1. WriteLoop(f, q, i, s, n)
    BY WriteLoopExists
  <2>2. WriteOwn(q, i, s) = f[n]
    BY <1>1 DEF WriteOwn, WriteLoop
  <2> QED BY <2>1, <2>2
<1>3. \A k \in 0..n : f[k] = IF k = 0 THEN q ELSE QWrite(f[k - 1], i, s[k])
  BY <1>2 DEF WriteLoop
<1> DEFINE Good(k) == IsQueue(f[k], J) /\ Written(q, f[k], i) /\ f[k].term = q.term
           T == {k \in 0..n : ~ Good(k)}
<1>4. T \subseteq Nat /\ \A k \in 0..n : k \notin T <=> Good(k)
  OBVIOUS
<1> HIDE DEF T
<1>5. T = {}
  <2> SUFFICES ASSUME T # {} PROVE FALSE
    OBVIOUS
  <2>1. PICK m \in T : \A k \in T : m <= k
    BY <1>4, LeastNat
  <2>2. m \in 0..n
    BY <2>1 DEF T
  <2>3. m # 0
    <3>1. f[0] = q
      BY <1>3
    <3>2. Good(0)
      BY <3>1 DEF Written
    <3> QED BY <1>4, <2>1, <2>2, <3>2
  <2>4. PICK l \in 0..n : m = l + 1 /\ l = m - 1 /\ l \notin T
    <3>1. m - 1 \in 0..n /\ m - 1 < m /\ m = (m - 1) + 1 /\ ~ (m <= m - 1)
      BY <2>2, <2>3
    <3> QED BY <2>1, <3>1
  <2>5. PICK r : r = f[l] /\ IsQueue(r, J) /\ Written(q, r, i) /\ r.term = q.term
    BY <1>4, <2>4
  <2>6. PICK u : u = f[m] /\ u = QWrite(r, i, s[m]) /\ s[m] \in J
    BY <1>1, <1>3, <2>2, <2>3, <2>4, <2>5
  <2>7. IsQueue(u, J) /\ Written(r, u, i) /\ u.term = r.term
    BY <2>5, <2>6, WriteWrites
  <2>8. Written(q, u, i)
    BY <2>5, <2>7 DEF Written, AllClosed
  <2>9. Good(m)
    BY <2>5, <2>6, <2>7, <2>8
  <2> QED BY <1>4, <2>1, <2>2, <2>9
<1>6. Good(n)
  <2> HIDE DEF Good
  <2>1. n \in 0..n
    OBVIOUS
  <2> QED BY <1>4, <1>5, <2>1
<1> QED BY <1>2, <1>6

-----------------------------------------------------------------------------
(* The inductive invariant *)
JobType == [vid : Vids, by : Ids, ctx : Nat]

Points == {"loop", "read", "state", "run", "stop", "update", "advance", "exit", "dead"}

QueuesTyped == DOMAIN queue = Workers /\ \A t \in Workers : IsQueue(queue[t], JobIds)

Typed ==
  /\ jobs \in Seq(JobType)
  /\ QueuesTyped
  /\ blocked \in [Workers -> [Vids -> Seq(JobIds)]]
  /\ job \in [Workers -> JobIds \cup {0}]
  /\ pc \in [Workers -> Points]
  /\ at \in [Workers -> Workers]
  /\ timers \in [Workers -> Nat]
  /\ ctxs \in [Vids -> Nat] /\ nctxs \in Nat
  /\ terminate \in BOOLEAN

(* Who is scheduling a job: main before it shuts down, and workers in a    *)
(* job or in a timer's callback.                                           *)
CallsInv ==
  /\ DOMAIN sched = Ids
  /\ \A i \in Ids : sched[i] # NoCall =>
       sched[i].vid \in Vids /\ sched[i].ctx \in Nat
  /\ sched[0] # NoCall => mpc = "run"
  /\ \A w \in Workers : sched[w] # NoCall => pc[w] \in {"run", "advance"}

Ended == {"dead", "deleted", "assert"}

PhaseInv ==
  /\ \A w \in Workers : pc[w] = "run" => job[w] # 0
  /\ \A w \in Workers : job[w] # 0 => pc[w] \in {"state", "run"}
  /\ mpc \in Ended => \A w \in Workers : pc[w] = "dead"
  /\ state = "DEAD" => mpc \in Ended

Exited(w) == pc[w] \in {"exit", "dead"}

(* A worker that left its loop without being killed has an empty queue to  *)
(* which nobody can write any more.                                        *)
DrainedInv ==
  /\ \A t \in Workers : queue[t].seen => AllClosed(queue[t])
  /\ \A w \in Workers : Exited(w) /\ ~ terminate =>
       QEmpty(queue[w]) /\ (mpc = "deleted" \/ AllClosed(queue[w]))

Inv == Typed /\ CallsInv /\ PhaseInv /\ DrainedInv

-----------------------------------------------------------------------------
(* Steps that change the queues *)
Wrote(i) ==
  /\ QueuesTyped'
  /\ \A t \in Workers : Written(queue[t], queue'[t], i)

LEMMA IdsAre == Workers \subseteq Ids /\ 0 \in Ids /\ 0 \notin Workers
BY ThreadMgrAssumption DEF Workers, Ids

LEMMA NothingWritten ==
  ASSUME QueuesTyped, UNCHANGED <<queue, jobs>>, NEW i
  PROVE  Wrote(i)
BY DEF QueuesTyped, Wrote, Written, JobIds

LEMMA OneWritten ==
  ASSUME QueuesTyped, NEW i, NEW t \in Workers, NEW r, queue' = [queue EXCEPT ![t] = r],
         IsQueue(r, JobIds'), JobIds \subseteq JobIds', Written(queue[t], r, i)
  PROVE  Wrote(i)
<1>1. DOMAIN queue' = Workers /\ \A u \in Workers : queue'[u] = IF u = t THEN r ELSE queue[u]
  BY DEF QueuesTyped
<1>2. ASSUME NEW u \in Workers PROVE IsQueue(queue'[u], JobIds') /\ Written(queue[u], queue'[u], i)
  <2>1. CASE u = t
    BY <1>1, <2>1
  <2>2. CASE u # t
    <3>1. IsQueue(queue[u], JobIds') /\ queue'[u] = queue[u]
      BY <1>1, <2>2, QueueGrows DEF QueuesTyped
    <3> QED BY <3>1 DEF Written
  <2> QED BY <2>1, <2>2
<1> QED BY <1>1, <1>2 DEF Wrote, QueuesTyped

LEMMA AllFlushed ==
  ASSUME QueuesTyped, UNCHANGED jobs, NEW i \in Ids, FlushAll(i)
  PROVE  Wrote(i) /\ \A t \in Workers : queue'[t].priv[i] = <<>>
<1>1. DOMAIN queue' = Workers /\ JobIds' = JobIds
  BY DEF FlushAll, JobIds
<1>2. ASSUME NEW t \in Workers
      PROVE  /\ IsQueue(queue'[t], JobIds) /\ Written(queue[t], queue'[t], i)
             /\ queue'[t].priv[i] = <<>>
  <2>1. queue'[t] = QFlush(queue[t], i) /\ IsQueue(queue[t], JobIds)
    BY DEF FlushAll, QueuesTyped
  <2> QED BY <2>1, FlushWrites
<1> QED BY <1>1, <1>2 DEF Wrote, QueuesTyped

LEMMA AllTerminated ==
  ASSUME QueuesTyped, UNCHANGED jobs, NEW i \in Ids,
         queue' = [t \in Workers |-> QTerminate(queue[t], i)]
  PROVE  Wrote(i) /\ \A t \in Workers : queue'[t].priv[i] = <<>>
<1>1. DOMAIN queue' = Workers /\ JobIds' = JobIds
  BY DEF JobIds
<1>2. ASSUME NEW t \in Workers
      PROVE  /\ IsQueue(queue'[t], JobIds) /\ Written(queue[t], queue'[t], i)
             /\ queue'[t].priv[i] = <<>>
  <2>1. queue'[t] = QTerminate(queue[t], i) /\ IsQueue(queue[t], JobIds)
    BY DEF QueuesTyped
  <2> QED BY <2>1, TerminateWrites
<1> QED BY <1>1, <1>2 DEF Wrote, QueuesTyped

LEMMA JobWritten ==
  ASSUME QueuesTyped, NEW i \in Ids, NEW t \in Workers, NEW j \in JobIds', JobIds \subseteq JobIds',
         queue' = [queue EXCEPT ![t] = QWrite(@, i, j)]
  PROVE  Wrote(i)
<1>1. PICK r : r = QWrite(queue[t], i, j)
  OBVIOUS
<1>2. IsQueue(queue[t], JobIds')
  BY QueueGrows DEF QueuesTyped
<1>3. IsQueue(r, JobIds') /\ Written(queue[t], r, i)
  BY <1>1, <1>2, WriteWrites
<1> QED BY <1>1, <1>3, OneWritten

LEMMA Unblocked ==
  ASSUME QueuesTyped, UNCHANGED jobs, blocked \in [Workers -> [Vids -> Seq(JobIds)]],
         NEW t \in Workers, NEW v \in Vids, Unblock(t, v)
  PROVE  Wrote(t) /\ blocked' \in [Workers -> [Vids -> Seq(JobIds)]]
<1>1. PICK s \in Seq(JobIds) : s = blocked[t][v]
  OBVIOUS
<1>2. PICK r : r = WriteOwn(queue[t], t, s)
  OBVIOUS
<1>3. IsQueue(queue[t], JobIds) /\ t \in Ids /\ JobIds' = JobIds
  BY IdsAre DEF QueuesTyped, JobIds
<1>4. IsQueue(r, JobIds) /\ Written(queue[t], r, t)
  BY <1>2, <1>3, WriteOwnWrites
<1>5. queue' = [queue EXCEPT ![t] = r]
  BY <1>1, <1>2 DEF Unblock
<1>6. Wrote(t)
  BY <1>3, <1>4, <1>5, OneWritten
<1>7. blocked' = [blocked EXCEPT ![t] = [blocked[t] EXCEPT ![v] = <<>>]]
  BY DEF Unblock
<1>8. <<>> \in Seq(JobIds)
  OBVIOUS
<1> QED BY <1>6, <1>7, <1>8

LEMMA DrainedStays ==
  ASSUME Inv, NEW i, Wrote(i), terminate => terminate',
         \A w \in Workers : Exited(w)' => Exited(w),
         mpc # "deleted"
  PROVE  DrainedInv'
<1>1. ASSUME NEW t \in Workers, queue'[t].seen PROVE AllClosed(queue'[t])
  BY <1>1 DEF Inv, DrainedInv, Wrote, Written, AllClosed
<1>2. ASSUME NEW w \in Workers, Exited(w)', ~ terminate'
      PROVE  QEmpty(queue'[w]) /\ (mpc' = "deleted" \/ AllClosed(queue'[w]))
  <2>1. QEmpty(queue[w]) /\ (mpc = "deleted" \/ AllClosed(queue[w]))
    BY <1>2 DEF Inv, DrainedInv
  <2>2. Written(queue[w], queue'[w], i)
    BY DEF Wrote
  <2> QED BY <2>1, <2>2 DEF Written, AllClosed
<1> QED BY <1>1, <1>2 DEF DrainedInv, QEmpty, AllClosed

(* Main has not joined the workers while one of them is running. *)
LEMMA WorkerRuns ==
  ASSUME Inv, NEW w \in Workers, pc[w] # "dead"
  PROVE  mpc \notin Ended /\ state # "DEAD"
BY DEF Inv, PhaseInv

(* What every step must keep, with the queues and the jobs as they are or  *)
(* as writer i leaves them                                                 *)
LEMMA Assembled ==
  ASSUME Inv, NEW i, Wrote(i), mpc \notin Ended, UNCHANGED jobs,
         blocked' \in [Workers -> [Vids -> Seq(JobIds)]], job' \in [Workers -> JobIds \cup {0}],
         pc' \in [Workers -> Points],
         at' \in [Workers -> Workers], timers' \in [Workers -> Nat],
         UNCHANGED <<ctxs, nctxs>>, terminate' \in BOOLEAN, terminate => terminate',
         \A w \in Workers : Exited(w)' => Exited(w),
         CallsInv', PhaseInv'
  PROVE  Inv'
<1>1. JobIds' = JobIds
  BY DEF JobIds
<1>2. Typed'
  BY <1>1 DEF Inv, Typed, Wrote
<1>3. DrainedInv'
  BY DrainedStays DEF Ended
<1> QED BY <1>2, <1>3 DEF Inv

LEMMA LoopHeadKeeps ==
  ASSUME Inv, NEW w \in Workers, LoopHead(w)
  PROVE  Inv'
<1>1. UNCHANGED <<queue, jobs, blocked, job, at, timers, ctxs, nctxs, terminate, sched, mpc, state>>
  BY DEF LoopHead, mainVars, timeVars
<1>2. pc[w] = "loop" /\ mpc \notin Ended
  BY WorkerRuns DEF LoopHead
<1>3. pc' = [pc EXCEPT ![w] = IF terminate \/ QTerminated(queue[w]) THEN "exit" ELSE "read"]
  BY DEF LoopHead, Goto
<1>4. PICK p \in {"exit", "read"} : pc' = [pc EXCEPT ![w] = p] /\ (p = "exit" => terminate \/ QTerminated(queue[w]))
  BY <1>3
<1>5. \A u \in Workers : pc'[u] = IF u = w THEN p ELSE pc[u]
  BY <1>4 DEF Inv, Typed
<1>6. Typed'
  BY <1>1, <1>4 DEF Inv, Typed, QueuesTyped, JobIds, Points
<1>7. CallsInv' /\ PhaseInv'
  BY <1>1, <1>2, <1>5 DEF Inv, CallsInv, PhaseInv
<1>8. DrainedInv'
  <2>1. ASSUME p = "exit", ~ terminate PROVE QEmpty(queue[w]) /\ AllClosed(queue[w])
    BY <1>4, <2>1 DEF QTerminated, Inv, DrainedInv
  <2>2. ASSUME NEW u \in Workers, Exited(u)', ~ terminate
        PROVE  QEmpty(queue[u]) /\ (mpc = "deleted" \/ AllClosed(queue[u]))
    BY <1>4, <1>5, <2>1, <2>2 DEF Inv, DrainedInv, Exited
  <2>3. \A t \in Workers : queue[t].seen => AllClosed(queue[t])
    BY DEF Inv, DrainedInv
  <2> QED BY <1>1, <2>2, <2>3 DEF DrainedInv, QEmpty, AllClosed
<1> QED BY <1>6, <1>7, <1>8 DEF Inv

LEMMA ReadJobKeeps ==
  ASSUME Inv, NEW w \in Workers, ReadJob(w)
  PROVE  Inv'
<1>1. UNCHANGED <<jobs, blocked, at, timers, ctxs, nctxs, terminate, sched, mpc, state>>
  BY DEF ReadJob, mainVars, timeVars
<1>2. pc[w] = "read" /\ mpc \notin Ended
  BY WorkerRuns DEF ReadJob
<1>3. PICK j, r : j = QFront(queue[w]) /\ r = QRead(queue[w])
  OBVIOUS
<1>4. /\ IsQueue(r, JobIds) /\ j \in JobIds \cup {0} /\ r.term = queue[w].term
      /\ r.seen => queue[w].seen \/ AllClosed(queue[w])
  BY <1>3, ReadIs DEF Inv, Typed, QueuesTyped
<1>5. /\ \A u \in Workers : pc'[u] = IF u = w THEN "state" ELSE pc[u]
      /\ \A u \in Workers : job'[u] = IF u = w THEN j ELSE job[u]
      /\ \A u \in Workers : queue'[u] = IF u = w THEN r ELSE queue[u]
      /\ DOMAIN queue' = Workers
  BY <1>3 DEF ReadJob, Goto, Inv, Typed, QueuesTyped
<1>6. Typed'
  <2>1. QueuesTyped' /\ JobIds' = JobIds
    BY <1>1, <1>4, <1>5 DEF Inv, Typed, QueuesTyped, JobIds
  <2>2. job' \in [Workers -> JobIds \cup {0}]
    BY <1>3, <1>4 DEF ReadJob, Inv, Typed
  <2> QED BY <1>1, <2>1, <2>2 DEF Inv, Typed, ReadJob, Goto, Points
<1>7. CallsInv' /\ PhaseInv'
  BY <1>1, <1>2, <1>5 DEF Inv, CallsInv, PhaseInv
<1>8. DrainedInv'
  <2>1. ASSUME NEW u \in Workers, Exited(u)', ~ terminate
        PROVE  QEmpty(queue'[u]) /\ (mpc = "deleted" \/ AllClosed(queue'[u]))
    BY <1>2, <1>5, <2>1 DEF Inv, DrainedInv, Exited
  <2>2. \A t \in Workers : queue'[t].seen => AllClosed(queue'[t])
    BY <1>4, <1>5 DEF Inv, DrainedInv, AllClosed
  <2> QED BY <1>1, <2>1, <2>2 DEF DrainedInv, QEmpty, AllClosed
<1> QED BY <1>6, <1>7, <1>8 DEF Inv

(* A step of worker w that leaves it at p *)
LEMMA WorkerMoves ==
  ASSUME Inv, NEW w \in Workers, NEW p \in Points, pc' = [pc EXCEPT ![w] = p],
         pc[w] # "dead", NEW i, Wrote(i),
         UNCHANGED <<jobs, ctxs, nctxs, sched, mpc, state>>,
         blocked' \in [Workers -> [Vids -> Seq(JobIds)]], job' \in [Workers -> JobIds \cup {0}],
         at' \in [Workers -> Workers], timers' \in [Workers -> Nat],
         terminate' \in BOOLEAN, terminate => terminate',
         p \in {"exit", "dead"} => pc[w] = "exit",
         sched[w] # NoCall => p \in {"run", "advance"},
         \A u \in Workers : u # w => job'[u] = job[u],
         IF job'[w] = 0 THEN p # "run" ELSE p \in {"state", "run"}
  PROVE  Inv'
<1>1. mpc \notin Ended /\ state # "DEAD"
  BY WorkerRuns
<1>2. pc' \in [Workers -> Points] /\ \A u \in Workers : pc'[u] = IF u = w THEN p ELSE pc[u]
  BY DEF Inv, Typed
<1>3. \A u \in Workers : Exited(u)' => Exited(u)
  BY <1>2 DEF Exited
<1>4. CallsInv'
  BY <1>2 DEF Inv, CallsInv
<1>5. PhaseInv'
  BY <1>1, <1>2 DEF Inv, PhaseInv
<1> QED BY <1>1, <1>2, <1>3, <1>4, <1>5, Assembled

LEMMA PcUnchanged ==
  ASSUME Inv, NEW w \in Workers, UNCHANGED pc
  PROVE  pc[w] \in Points /\ pc' = [pc EXCEPT ![w] = pc[w]]
BY DEF Inv, Typed

LEMMA CheckStateKeeps ==
  ASSUME Inv, NEW w \in Workers, CheckState(w)
  PROVE  Inv'
<1>1. /\ UNCHANGED <<jobs, blocked, at, timers, ctxs, nctxs, terminate, sched, mpc, state, job>>
      /\ pc[w] = "state" /\ Typed /\ CallsInv /\ w \in Ids
  BY IdsAre DEF CheckState, mainVars, timeVars, Inv
<1>2. Wrote(w)
  BY <1>1, AllFlushed, NothingWritten DEF CheckState, Typed
<1>3. PICK p \in {"stop", "run"} : pc' = [pc EXCEPT ![w] = p] /\ (p = "run" <=> job[w] # 0)
  BY DEF CheckState, Goto
<1>4. p \in Points /\ sched[w] = NoCall
  BY <1>1 DEF Points, CallsInv
<1> QED BY <1>1, <1>2, <1>3, <1>4, WorkerMoves DEF Typed

LEMMA JobIsKnown ==
  ASSUME Inv, NEW w \in Workers, pc[w] = "run"
  PROVE  job[w] # 0 /\ job[w] \in JobIds /\ VidOf(w) \in Vids
<1>1. job[w] # 0 /\ job[w] \in JobIds /\ jobs \in Seq(JobType)
  BY DEF Inv, PhaseInv, Typed
<1>2. PICK j \in 1..Len(jobs) : j = job[w]
  BY <1>1 DEF JobIds
<1>3. jobs[j] \in JobType
  BY <1>1, <1>2
<1>4. VidOf(w) \in Vids
  BY <1>2, <1>3 DEF VidOf, JobType
<1> QED BY <1>1, <1>4

(* The job of w goes on, or ends for now. *)
LEMMA JobStepKeeps ==
  ASSUME Inv, NEW w \in Workers,
         JobStartsTimer(w) \/ JobUnblocks(w) \/ JobYields(w) \/ JobBlocks(w) \/ JobReturns(w) \/ JobThrows(w)
  PROVE  Inv'
<1>1. /\ UNCHANGED <<jobs, at, ctxs, nctxs, sched, mpc, state>>
      /\ pc[w] = "run" /\ sched[w] = NoCall /\ Typed
  BY DEF Inv, JobStartsTimer, JobUnblocks, JobYields, JobBlocks, JobReturns, JobThrows,
         Running, mainVars, timeVars, workerVars
<1>2. job[w] # 0 /\ job[w] \in JobIds /\ VidOf(w) \in Vids /\ w \in Ids
  BY <1>1, JobIsKnown, IdsAre
<1>3. Wrote(w) /\ blocked' \in [Workers -> [Vids -> Seq(JobIds)]]
  <2>1. CASE JobUnblocks(w)
    BY <1>1, <1>2, <2>1, Unblocked DEF JobUnblocks, Typed
  <2>2. CASE JobYields(w)
    <3>1. JobIds' = JobIds
      BY <1>1 DEF JobIds
    <3>2. queue' = [queue EXCEPT ![w] = QWrite(@, w, job[w])] /\ blocked' = blocked
      BY <2>2 DEF JobYields
    <3> QED BY <1>1, <1>2, <3>1, <3>2, JobWritten DEF Typed
  <2>3. CASE JobBlocks(w)
    <3>1. PICK v \in Vids : v = VidOf(w)
      BY <1>2
    <3>2. PICK s : s = <<job[w]>> \o blocked[w][v]
      OBVIOUS
    <3>3. s \in Seq(JobIds)
      BY <1>1, <1>2, <3>2 DEF Typed
    <3>4. blocked' = [blocked EXCEPT ![w] = [blocked[w] EXCEPT ![v] = s]]
      BY <2>3, <3>1, <3>2 DEF JobBlocks
    <3>5. Wrote(w)
      BY <1>1, <2>3, NothingWritten DEF JobBlocks, Typed
    <3> QED BY <1>1, <3>3, <3>4, <3>5 DEF Typed
  <2>4. CASE JobStartsTimer(w) \/ JobReturns(w) \/ JobThrows(w)
    BY <1>1, <2>4, NothingWritten DEF JobStartsTimer, JobReturns, JobThrows, Typed
  <2> QED BY <2>1, <2>2, <2>3, <2>4
<1>4. timers' \in [Workers -> Nat] /\ terminate' \in BOOLEAN /\ (terminate => terminate')
  <2>1. timers \in [Workers -> Nat] /\ terminate \in BOOLEAN
    BY <1>1 DEF Typed
  <2>2. CASE JobStartsTimer(w)
    <3>1. timers' = [timers EXCEPT ![w] = timers[w] + 1] /\ terminate' = terminate
      BY <2>2 DEF JobStartsTimer
    <3> QED BY <2>1, <3>1
  <2>3. CASE ~ JobStartsTimer(w)
    BY <2>1, <2>3 DEF JobUnblocks, JobYields, JobBlocks, JobReturns, JobThrows, Uncaught, timeVars
  <2> QED BY <2>2, <2>3
<1>5. CASE JobStartsTimer(w) \/ JobUnblocks(w)
  <2>1. UNCHANGED <<pc, job>>
    BY <1>5 DEF JobStartsTimer, JobUnblocks, workerVars
  <2>2. pc[w] \in Points /\ pc' = [pc EXCEPT ![w] = pc[w]]
    BY <2>1, PcUnchanged
  <2>3. job' \in [Workers -> JobIds \cup {0}] /\ at' \in [Workers -> Workers]
    BY <1>1, <2>1 DEF Typed
  <2> QED BY <1>1, <1>2, <1>3, <1>4, <2>1, <2>2, <2>3, WorkerMoves
<1>6. CASE JobYields(w) \/ JobBlocks(w) \/ JobReturns(w) \/ JobThrows(w)
  <2>1. job' = [job EXCEPT ![w] = 0] /\ pc' = [pc EXCEPT ![w] = "stop"]
    BY <1>6 DEF JobYields, JobBlocks, JobReturns, JobThrows, JobEnds, Goto
  <2>2. /\ job' \in [Workers -> JobIds \cup {0}] /\ job'[w] = 0
        /\ \A u \in Workers : u # w => job'[u] = job[u]
    BY <1>1, <2>1 DEF Typed
  <2>3. "stop" \in Points /\ at' \in [Workers -> Workers]
    BY <1>1 DEF Points, Typed
  <2> QED BY <1>1, <1>3, <1>4, <2>1, <2>2, <2>3, WorkerMoves
<1> QED BY <1>5, <1>6

LEMMA CheckStopKeeps ==
  ASSUME Inv, NEW w \in Workers, CheckStop(w)
  PROVE  Inv'
<1>1. /\ UNCHANGED <<jobs, blocked, at, timers, ctxs, nctxs, terminate, sched, mpc, state, job>>
      /\ pc[w] = "stop" /\ pc' = [pc EXCEPT ![w] = "update"] /\ Typed /\ w \in Ids
  BY IdsAre DEF CheckStop, Goto, mainVars, timeVars, Inv
<1>2. Wrote(w)
  BY <1>1, AllTerminated, NothingWritten DEF CheckStop, Typed
<1>3. "update" \in Points /\ sched[w] = NoCall /\ job[w] = 0
  BY <1>1 DEF Points, Inv, CallsInv, PhaseInv
<1> QED BY <1>1, <1>2, <1>3, WorkerMoves DEF Typed

LEMMA NextWorkerIs ==
  ASSUME Typed, NEW w \in Workers, NextWorker(w)
  PROVE  /\ at' \in [Workers -> Workers]
         /\ \E p \in {"loop", "update"} : pc' = [pc EXCEPT ![w] = p]
<1>1. PICK k : k = IF at[w] = NumWorkers THEN 1 ELSE at[w] + 1
  OBVIOUS
<1>2. k \in Workers
  BY <1>1, ThreadMgrAssumption DEF Typed, Workers
<1>3. at' = [at EXCEPT ![w] = k]
  BY <1>1 DEF NextWorker
<1> QED BY <1>2, <1>3 DEF NextWorker, Goto, Typed

LEMMA UpdateKeeps ==
  ASSUME Inv, NEW w \in Workers, Update(w)
  PROVE  Inv'
<1>1. /\ UNCHANGED <<jobs, blocked, timers, ctxs, nctxs, terminate, sched, mpc, state, job>>
      /\ pc[w] = "update" /\ Typed /\ w \in Ids
  BY IdsAre DEF Update, mainVars, timeVars, Inv
<1>2. PICK t \in Workers : t = at[w]
  BY <1>1 DEF Typed
<1>3. Wrote(w)
  <2>1. PICK r : r = QUpdate(queue[t], w)
    OBVIOUS
  <2>2. IsQueue(r, JobIds) /\ Written(queue[t], r, w) /\ JobIds' = JobIds
    BY <1>1, <2>1, UpdateWrites DEF Typed, QueuesTyped, JobIds
  <2>3. queue' = [queue EXCEPT ![t] = r]
    BY <1>2, <2>1 DEF Update
  <2> QED BY <1>1, <2>2, <2>3, OneWritten DEF Typed
<1>4. /\ at' \in [Workers -> Workers]
      /\ \E p \in {"loop", "update", "advance"} : pc' = [pc EXCEPT ![w] = p]
  BY <1>1, NextWorkerIs DEF Update, Goto, Typed
<1>5. PICK p \in Points : pc' = [pc EXCEPT ![w] = p] /\ p \in {"loop", "update", "advance"}
  BY <1>4 DEF Points
<1>6. sched[w] = NoCall /\ job[w] = 0
  BY <1>1 DEF Inv, CallsInv, PhaseInv
<1> QED BY <1>1, <1>3, <1>4, <1>5, <1>6, WorkerMoves DEF Typed

LEMMA TimerStepKeeps ==
  ASSUME Inv, NEW w \in Workers,
         (\E v \in Vids : TimerUnblocks(w, v)) \/ TimerFires(w) \/ TimerThrows(w) \/ Advanced(w)
  PROVE  Inv'
<1>1. /\ UNCHANGED <<jobs, ctxs, nctxs, sched, mpc, state, job>>
      /\ pc[w] = "advance" /\ sched[w] = NoCall /\ Typed
  BY DEF Inv, TimerUnblocks, TimerFires, TimerThrows, Advanced, mainVars, timeVars, workerVars
<1>2. PICK t \in Workers : t = at[w]
  BY <1>1 DEF Typed
<1>3. Wrote(t) /\ blocked' \in [Workers -> [Vids -> Seq(JobIds)]]
  <2>1. ASSUME NEW v \in Vids, TimerUnblocks(w, v)
        PROVE  Wrote(t) /\ blocked' \in [Workers -> [Vids -> Seq(JobIds)]]
    BY <1>1, <1>2, <2>1, Unblocked DEF TimerUnblocks, Typed
  <2>2. CASE TimerFires(w) \/ TimerThrows(w) \/ Advanced(w)
    BY <1>1, <2>2, NothingWritten DEF TimerFires, TimerThrows, Advanced, Typed
  <2> QED BY <2>1, <2>2
<1>4. terminate' \in BOOLEAN /\ (terminate => terminate')
  BY <1>1 DEF Typed, TimerUnblocks, TimerFires, TimerThrows, Advanced, Uncaught
<1>5. timers' \in [Workers -> Nat]
  <2>1. CASE Advanced(w)
    BY <1>1, <2>1 DEF Typed, Advanced
  <2>2. CASE ~ Advanced(w)
    <3>1. timers[t] > 0 /\ timers' = [timers EXCEPT ![t] = @ - 1]
      BY <1>2, <2>2 DEF TimerUnblocks, TimerFires, TimerThrows
    <3> QED BY <1>1, <3>1 DEF Typed
  <2> QED BY <2>1, <2>2
<1>6. /\ at' \in [Workers -> Workers]
      /\ \E p \in {"loop", "update", "advance"} : pc' = [pc EXCEPT ![w] = p]
  <2>1. CASE Advanced(w)
    BY <1>1, <2>1, NextWorkerIs DEF Advanced
  <2>2. CASE ~ Advanced(w)
    <3>1. UNCHANGED <<at, pc>>
      BY <2>2 DEF TimerUnblocks, TimerFires, TimerThrows, workerVars
    <3> QED BY <1>1, <3>1 DEF Typed
  <2> QED BY <2>1, <2>2
<1>7. PICK p \in Points : pc' = [pc EXCEPT ![w] = p] /\ p \in {"loop", "update", "advance"}
  BY <1>6 DEF Points
<1>8. job[w] = 0
  BY <1>1 DEF Inv, PhaseInv
<1> QED BY <1>1, <1>3, <1>4, <1>5, <1>6, <1>7, <1>8, WorkerMoves DEF Typed

LEMMA ExitKeeps ==
  ASSUME Inv, NEW w \in Workers, Exit(w)
  PROVE  Inv'
<1>1. /\ UNCHANGED <<jobs, blocked, at, timers, ctxs, nctxs, terminate, sched, mpc, state, job>>
      /\ pc[w] = "exit" /\ pc' = [pc EXCEPT ![w] = "dead"] /\ Typed /\ w \in Ids
  BY IdsAre DEF Exit, Goto, mainVars, timeVars, Inv
<1>2. Wrote(w)
  BY <1>1, AllFlushed DEF Exit, Typed
<1>3. "dead" \in Points /\ sched[w] = NoCall /\ job[w] = 0
  BY <1>1 DEF Points, Inv, CallsInv, PhaseInv
<1> QED BY <1>1, <1>2, <1>3, WorkerMoves DEF Typed

(* A thread begins to schedule a job. *)
LEMMA CallBegins ==
  ASSUME Inv, NEW i \in Ids, NEW v \in Vids, ScheduleBegin(i, v),
         IF i = 0 THEN mpc = "run" ELSE pc[i] \in {"run", "advance"},
         UNCHANGED <<state, terminate, queue, jobs, blocked, ctxs, nctxs, mpc, at, pc, job>>,
         timers' \in [Workers -> Nat]
  PROVE  Inv'
<1>1. Typed /\ CallsInv /\ PhaseInv /\ DrainedInv
  BY DEF Inv
<1>2. PICK c : c = [vid |-> v, ctx |-> ctxs[v]]
  OBVIOUS
<1>3. c.vid = v /\ c.ctx \in Nat
  BY <1>1, <1>2 DEF Typed
<1>4. DOMAIN sched' = Ids /\ \A k \in Ids : sched'[k] = IF k = i THEN c ELSE sched[k]
  BY <1>1, <1>2 DEF ScheduleBegin, CallsInv
<1>5. CallsInv'
  BY <1>1, <1>3, <1>4, IdsAre DEF CallsInv
<1>6. Typed'
  BY <1>1 DEF Typed, QueuesTyped, JobIds
<1>7. PhaseInv' /\ DrainedInv'
  BY <1>1 DEF PhaseInv, DrainedInv, Exited, QEmpty, AllClosed
<1> QED BY <1>5, <1>6, <1>7 DEF Inv

LEMMA SchedulesKeeps ==
  ASSUME Inv, NEW v \in Vids,
         MainSchedules(v) \/ \E w \in Workers : JobSchedules(w, v) \/ TimerSchedules(w, v)
  PROVE  Inv'
<1>1. Typed
  BY DEF Inv
<1>2. CASE MainSchedules(v)
  BY <1>1, <1>2, CallBegins, IdsAre DEF MainSchedules, Typed, mainVars, timeVars, workerVars
<1>3. ASSUME NEW w \in Workers, JobSchedules(w, v) PROVE Inv'
  BY <1>1, <1>3, CallBegins, IdsAre DEF JobSchedules, Running, Typed, mainVars, timeVars, workerVars
<1>4. ASSUME NEW w \in Workers, TimerSchedules(w, v) PROVE Inv'
  <2>1. timers[w] > 0 /\ timers' = [timers EXCEPT ![w] = timers[w] - 1]
    BY <1>4 DEF TimerSchedules
  <2>2. timers' \in [Workers -> Nat]
    BY <1>1, <2>1 DEF Typed
  <2>3. ScheduleBegin(w, v) /\ pc[w] \in {"run", "advance"} /\ w \in Ids /\ w # 0
    BY <1>4, IdsAre DEF TimerSchedules
  <2>4. UNCHANGED <<state, terminate, queue, jobs, blocked, ctxs, nctxs, mpc, at, pc, job>>
    BY <1>4 DEF TimerSchedules, mainVars, workerVars
  <2> QED BY <2>2, <2>3, <2>4, CallBegins
<1> QED BY <1>2, <1>3, <1>4

(* It writes the job into the queue. *)
LEMMA ScheduledIs ==
  ASSUME Inv, NEW i \in Ids, ScheduleEnd(i)
  PROVE  /\ Wrote(i) /\ jobs' \in Seq(JobType)
         /\ JobIds \subseteq JobIds' /\ mpc \notin Ended
<1>1. Typed /\ CallsInv
  BY DEF Inv
<1>2. PICK v \in Vids, c \in Nat : v = sched[i].vid /\ c = sched[i].ctx
  BY <1>1 DEF CallsInv, ScheduleEnd
<1> DEFINE d == ContextFor(i)
<1>3. PICK e : e = [vid |-> v, by |-> i, ctx |-> d]
  OBVIOUS
<1>4. e \in JobType
  <2>1. d \in Nat
    BY <1>1, <1>2 DEF ContextFor, Typed
  <2> QED BY <1>3, <2>1 DEF JobType
<1>5. jobs' = Append(jobs, e) /\ jobs \in Seq(JobType)
  BY <1>1, <1>2, <1>3 DEF ScheduleEnd, Typed
<1>6. PICK n \in Nat : n = Len(jobs) /\ Len(jobs') = n + 1 /\ jobs' \in Seq(JobType)
  BY <1>4, <1>5
<1>7. JobIds = 1..n /\ JobIds' = 1..(n + 1) /\ n + 1 \in JobIds' /\ JobIds \subseteq JobIds'
  BY <1>6 DEF JobIds
<1>8. PICK t \in Workers : t = WorkerOf[v]
  BY ThreadMgrAssumption
<1>9. queue' = [queue EXCEPT ![t] = QWrite(@, i, n + 1)]
  BY <1>2, <1>6, <1>8 DEF ScheduleEnd
<1>10. Wrote(i)
  BY <1>1, <1>7, <1>9, JobWritten DEF Typed
<1>11. mpc \notin Ended
  <2>1. CASE i = 0
    BY <1>1, <2>1 DEF CallsInv, ScheduleEnd, Ended
  <2>2. CASE i # 0
    <3>1. i \in Workers
      BY <2>2 DEF Ids, Workers
    <3>2. pc[i] # "dead"
      BY <1>1, <3>1 DEF CallsInv, ScheduleEnd
    <3> QED BY <3>1, <3>2, WorkerRuns
  <2> QED BY <2>1, <2>2
<1> QED BY <1>2, <1>6, <1>7, <1>10, <1>11

LEMMA ScheduleEndKeeps ==
  ASSUME Inv, NEW i \in Ids, ScheduleEnd(i)
  PROVE  Inv'
<1>1. /\ Wrote(i) /\ jobs' \in Seq(JobType)
      /\ JobIds \subseteq JobIds' /\ mpc \notin Ended
  BY ScheduledIs
<1>2. /\ Typed /\ CallsInv /\ PhaseInv
      /\ UNCHANGED <<state, terminate, blocked, mpc, timers, job, pc, at>>
  BY DEF Inv, ScheduleEnd, mainVars, timeVars, workerVars
<1>3. ctxs' \in [Vids -> Nat] /\ nctxs' \in Nat
  <2>1. sched[i].vid \in Vids /\ sched[i].ctx \in Nat
    BY <1>2 DEF CallsInv, ScheduleEnd
  <2>2. ContextFor(i) \in Nat
    BY <1>2, <2>1 DEF ContextFor, Typed
  <2> QED BY <1>2, <2>1, <2>2 DEF ScheduleEnd, Typed
<1>4. /\ blocked' \in [Workers -> [Vids -> Seq(JobIds')]]
      /\ job' \in [Workers -> JobIds' \cup {0}]
  <2>1. Seq(JobIds) \subseteq Seq(JobIds')
    BY <1>1
  <2> QED BY <1>1, <1>2, <2>1 DEF Typed
<1>5. Typed'
  BY <1>1, <1>2, <1>3, <1>4 DEF Typed, Wrote
<1>6. CallsInv'
  <2>1. DOMAIN sched' = Ids /\ \A k \in Ids : sched'[k] = IF k = i THEN NoCall ELSE sched[k]
    BY <1>2 DEF ScheduleEnd, CallsInv
  <2> QED BY <1>2, <2>1, IdsAre DEF CallsInv
<1>7. PhaseInv'
  BY <1>2 DEF PhaseInv
<1>8. DrainedInv'
  BY <1>1, <1>2, DrainedStays DEF Ended, Exited
<1> QED BY <1>5, <1>6, <1>7, <1>8 DEF Inv

-----------------------------------------------------------------------------
(* The main thread *)
LEMMA MainStepKeeps ==
  ASSUME Inv,
         \/ MainSleeps \/ MainAdvancesTime \/ (\E s \in Requests : MainRequests(s))
         \/ MainTerminates \/ MainReadsIdle \/ MainReadsSize
  PROVE  Inv'
<1>1. /\ Typed /\ CallsInv /\ PhaseInv
      /\ UNCHANGED <<jobs, blocked, ctxs, nctxs, sched, timers, job, pc, at>>
  BY DEF Inv, MainSleeps, MainAdvancesTime, MainRequests, MainTerminates, MainReadsIdle,
         MainReadsSize, timeVars, workerVars
<1>2. mpc \notin Ended /\ mpc' \notin Ended /\ (mpc = "run" => mpc' = "run" \/ sched[0] = NoCall)
  BY DEF MainSleeps, MainAdvancesTime, MainRequests, MainTerminates, MainReadsIdle,
         MainReadsSize, MainNext, mainVars, Ended
<1>3. state' # "DEAD"
  <2>1. state # "DEAD"
    BY <1>1, <1>2 DEF PhaseInv
  <2>2. ASSUME NEW s \in Requests, MainRequests(s) PROVE state' # "DEAD"
    BY <2>2, ThreadMgrAssumption DEF MainRequests
  <2> QED BY <2>1, <2>2 DEF MainSleeps, MainAdvancesTime, MainTerminates, MainReadsIdle,
                            MainReadsSize, MainNext
<1>4. terminate' \in BOOLEAN /\ (terminate => terminate')
  BY <1>1 DEF Typed, MainSleeps, MainAdvancesTime, MainRequests, MainTerminates, MainReadsIdle,
              MainReadsSize
<1>5. Wrote(0)
  BY <1>1, AllFlushed, AllTerminated, NothingWritten, IdsAre
     DEF Typed, MainSleeps, MainAdvancesTime, MainRequests, MainTerminates, MainReadsIdle, MainReadsSize
<1>6. CallsInv' /\ PhaseInv'
  BY <1>1, <1>2, <1>3 DEF CallsInv, PhaseInv, Ended
<1>7. \A w \in Workers : Exited(w)' => Exited(w)
  BY <1>1 DEF Exited
<1>8. /\ blocked' \in [Workers -> [Vids -> Seq(JobIds)]] /\ job' \in [Workers -> JobIds \cup {0}]
      /\ pc' \in [Workers -> Points] /\ at' \in [Workers -> Workers] /\ timers' \in [Workers -> Nat]
  BY <1>1 DEF Typed
<1> QED BY <1>1, <1>2, <1>4, <1>5, <1>6, <1>7, <1>8, Assembled

LEMMA MainJoinsKeeps ==
  ASSUME Inv, MainJoins
  PROVE  Inv'
<1>1. /\ Typed /\ CallsInv /\ PhaseInv /\ DrainedInv
      /\ UNCHANGED <<terminate, queue, jobs, blocked, ctxs, nctxs, sched, timers, job, pc, at>>
  BY DEF Inv, MainJoins, timeVars, workerVars
<1>2. mpc = "join" /\ mpc' = "dead" /\ \A w \in Workers : pc[w] = "dead"
  BY DEF MainJoins
<1>3. Typed'
  BY <1>1 DEF Typed, QueuesTyped, JobIds
<1>4. CallsInv' /\ PhaseInv'
  BY <1>1, <1>2 DEF CallsInv, PhaseInv, Ended
<1>5. DrainedInv'
  BY <1>1, <1>2 DEF DrainedInv, Exited, QEmpty, AllClosed
<1> QED BY <1>3, <1>4, <1>5 DEF Inv

LEMMA MainDeletesKeeps ==
  ASSUME Inv, MainDeletes
  PROVE  Inv'
<1>1. /\ Typed /\ CallsInv /\ PhaseInv /\ DrainedInv
      /\ UNCHANGED <<terminate, jobs, ctxs, nctxs, sched, timers, job, pc, at>>
  BY DEF Inv, MainDeletes, timeVars, workerVars
<1>2. mpc = "dead" /\ mpc' \in {"assert", "deleted"}
  BY DEF MainDeletes
<1>3. CallsInv' /\ PhaseInv'
  BY <1>1, <1>2 DEF CallsInv, PhaseInv, Ended
<1>4. CASE \E t \in Workers : Unflushed(t)
  <2>1. UNCHANGED <<queue, blocked>>
    BY <1>4 DEF MainDeletes
  <2>2. Typed' /\ DrainedInv'
    BY <1>1, <1>2, <2>1 DEF Typed, QueuesTyped, JobIds, DrainedInv, Exited, QEmpty, AllClosed
  <2> QED BY <1>3, <2>2 DEF Inv
<1>5. CASE ~ \E t \in Workers : Unflushed(t)
  <2>1. /\ mpc' = "deleted" /\ queue' = [t \in Workers |-> EmptyQueue]
        /\ blocked' = [t \in Workers |-> [v \in Vids |-> <<>>]]
    BY <1>5 DEF MainDeletes
  <2>2. PICK e : e = EmptyQueue /\ IsQueue(e, JobIds) /\ QEmpty(e) /\ ~ e.seen
    BY EmptyIs
  <2>3. DOMAIN queue' = Workers /\ \A t \in Workers : queue'[t] = e
    BY <2>1, <2>2
  <2>4. QueuesTyped'
    BY <1>1, <2>2, <2>3 DEF QueuesTyped, JobIds
  <2>5. blocked' \in [Workers -> [Vids -> Seq(JobIds')]]
    BY <2>1
  <2>6. Typed'
    BY <1>1, <2>4, <2>5 DEF Typed, JobIds
  <2>7. DrainedInv'
    BY <2>1, <2>2, <2>3 DEF DrainedInv, QEmpty
  <2> QED BY <1>3, <2>6, <2>7 DEF Inv
<1> QED BY <1>4, <1>5

LEMMA InitHolds ==
  ASSUME Init
  PROVE  Inv
<1>1. JobIds = {} /\ jobs \in Seq(JobType)
  BY DEF Init, JobIds
<1>2. PICK e : e = EmptyQueue /\ IsQueue(e, JobIds) /\ ~ e.seen
  BY EmptyIs
<1>3. QueuesTyped /\ \A t \in Workers : ~ queue[t].seen
  BY <1>2 DEF Init, QueuesTyped
<1>4. blocked \in [Workers -> [Vids -> Seq(JobIds)]]
  BY DEF Init
<1>5. at \in [Workers -> Workers] /\ timers \in [Workers -> Nat]
  BY ThreadMgrAssumption DEF Init, Workers
<1>6. Typed
  BY <1>1, <1>3, <1>4, <1>5 DEF Typed, Init, Points
<1>7. CallsInv /\ PhaseInv
  BY IdsAre DEF Init, CallsInv, PhaseInv, Ended
<1>8. DrainedInv
  BY <1>3 DEF Init, DrainedInv, Exited
<1> QED BY <1>6, <1>7, <1>8 DEF Inv

LEMMA StutterKeeps ==
  ASSUME Inv, UNCHANGED vars
  PROVE  Inv'
<1>1. Typed'
  BY DEF Inv, Typed, QueuesTyped, JobIds, vars, timeVars, workerVars
<1>2. CallsInv' /\ PhaseInv' /\ DrainedInv'
  BY DEF Inv, CallsInv, PhaseInv, DrainedInv, Exited, QEmpty, AllClosed, vars, mainVars, workerVars
<1> QED BY <1>1, <1>2 DEF Inv

LEMMA NextKeeps ==
  ASSUME Inv, [Next]_vars
  PROVE  Inv'
<1>1. CASE UNCHANGED vars \/ Stopped
  BY <1>1, StutterKeeps DEF Stopped
<1>2. CASE MainRuns
  BY <1>2, MainStepKeeps, SchedulesKeeps DEF MainRuns
<1>3. CASE MainStep
  BY <1>3, MainStepKeeps, MainJoinsKeeps, MainDeletesKeeps, ScheduleEndKeeps, IdsAre DEF MainStep
<1>4. ASSUME NEW w \in Workers, WorkerStep(w) PROVE Inv'
  <2>1. w \in Ids
    BY IdsAre
  <2> QED BY <1>4, <2>1, LoopHeadKeeps, ReadJobKeeps, CheckStateKeeps, CheckStopKeeps, UpdateKeeps,
             JobStepKeeps, SchedulesKeeps, TimerStepKeeps, ScheduleEndKeeps, ExitKeeps DEF WorkerStep
<1> QED BY <1>1, <1>2, <1>3, <1>4 DEF Next

LEMMA InvHolds == Spec => []Inv
<1>1. Init => Inv
  BY InitHolds
<1>2. Inv /\ [Next]_vars => Inv'
  BY NextKeeps
<1> QED BY <1>1, <1>2, PTL DEF Spec

(***************************************************************************)
(* Unless the workers were killed they leave no job behind in any queue,   *)
(* in whatever order they close their ends of the queues.  Jobs come from  *)
(* the main thread, from jobs and from the callbacks of timers that a      *)
(* worker fires in its own contexts (StoppedMeansDrained).                 *)
(***************************************************************************)
THEOREM StopDrainsQueues == Spec => []StoppedMeansDrained
<1>1. Inv => StoppedMeansDrained
  BY DEF Inv, PhaseInv, DrainedInv, Exited, StoppedMeansDrained
<1> QED BY <1>1, InvHolds, PTL

-----------------------------------------------------------------------------
(* Deleting what is left: a thread writes only with its own number, so its *)
(* last flush leaves none of its batches behind.                           *)
FlushedInv ==
  /\ \A w \in Workers : pc[w] = "dead" => \A t \in Workers : queue[t].priv[w] = <<>>
  /\ mpc \notin {"run", "terminate"} => \A t \in Workers : queue[t].priv[0] = <<>>
  /\ mpc # "assert"

(* Writer i has not had its last flush, or flushes now. *)
LEMMA FlushedStays ==
  ASSUME Inv, FlushedInv, NEW i \in Ids, Wrote(i), mpc' # "assert",
         \A w \in Workers : pc'[w] = "dead" =>
           \/ pc[w] = "dead" /\ w # i
           \/ \A t \in Workers : queue'[t].priv[w] = <<>>,
         mpc' \notin {"run", "terminate"} =>
           \/ mpc \notin {"run", "terminate"} /\ i # 0
           \/ \A t \in Workers : queue'[t].priv[0] = <<>>
  PROVE  FlushedInv'
<1>1. \A t \in Workers, k \in Ids : k # i => queue'[t].priv[k] = queue[t].priv[k]
  BY DEF Wrote, Written
<1>2. ASSUME NEW w \in Workers, pc'[w] = "dead", NEW t \in Workers PROVE queue'[t].priv[w] = <<>>
  BY <1>1, <1>2, IdsAre DEF FlushedInv
<1>3. ASSUME mpc' \notin {"run", "terminate"}, NEW t \in Workers PROVE queue'[t].priv[0] = <<>>
  BY <1>1, <1>3, IdsAre DEF FlushedInv
<1> QED BY <1>2, <1>3 DEF FlushedInv

(* Nothing is done to the queues. *)
LEMMA FlushedUnmoved ==
  ASSUME FlushedInv, UNCHANGED queue, mpc' # "assert",
         \A w \in Workers : pc'[w] = "dead" => pc[w] = "dead",
         mpc' \notin {"run", "terminate"} => mpc \notin {"run", "terminate"}
  PROVE  FlushedInv'
BY DEF FlushedInv

LEMMA WorkerFlushed ==
  ASSUME Inv, FlushedInv, NEW w \in Workers, WorkerStep(w)
  PROVE  FlushedInv'
<1>1. Typed /\ CallsInv /\ w \in Ids /\ w # 0 /\ mpc # "assert"
  BY IdsAre DEF Inv, FlushedInv
<1>2. PICK t \in Workers : t = at[w]
  BY <1>1 DEF Typed
<1>3. ASSUME NEW p, p # "dead", pc' = [pc EXCEPT ![w] = p]
      PROVE  /\ pc'[w] = p /\ \A u \in Workers : u # w => pc'[u] = pc[u]
             /\ \A u \in Workers : pc'[u] = "dead" => pc[u] = "dead" /\ u # w
  BY <1>1, <1>3 DEF Typed
<1>4. CASE LoopHead(w)
  <2>1. PICK p : p \in {"exit", "read"} /\ pc' = [pc EXCEPT ![w] = p]
    BY <1>4 DEF LoopHead, Goto
  <2> QED BY <1>1, <1>3, <1>4, <2>1, FlushedUnmoved DEF LoopHead, mainVars, timeVars
<1>5. CASE ReadJob(w)
  <2>1. pc' = [pc EXCEPT ![w] = "state"] /\ UNCHANGED <<mpc, timers, sched>> /\ pc[w] = "read"
    BY <1>5 DEF ReadJob, Goto, mainVars, timeVars
  <2>2. ASSUME NEW u \in Workers PROVE queue'[u].priv = queue[u].priv
    <3>1. queue'[u] = IF u = w THEN QRead(queue[u]) ELSE queue[u]
      BY <1>1, <1>5 DEF ReadJob, Typed, QueuesTyped
    <3>2. IsQueue(queue[u], JobIds)
      BY <1>1 DEF Typed, QueuesTyped
    <3> QED BY <3>1, <3>2, ReadIs
  <2> QED BY <1>1, <1>3, <2>1, <2>2 DEF FlushedInv
<1>6. CASE CheckState(w)
  <2>1. PICK p : p \in {"stop", "run"} /\ pc' = [pc EXCEPT ![w] = p] /\ pc[w] = "state"
    BY <1>6 DEF CheckState, Goto
  <2>2. UNCHANGED <<mpc, timers, sched, jobs>>
    BY <1>6 DEF CheckState, mainVars, timeVars
  <2>3. Wrote(w)
    BY <1>1, <1>6, <2>2, AllFlushed, NothingWritten DEF CheckState, Typed
  <2> QED BY <1>1, <1>3, <2>1, <2>2, <2>3, FlushedStays
<1>7. CASE CheckStop(w)
  <2>1. pc' = [pc EXCEPT ![w] = "update"] /\ UNCHANGED <<mpc, timers, sched, jobs>> /\ pc[w] = "stop"
    BY <1>7 DEF CheckStop, Goto, mainVars, timeVars
  <2>2. Wrote(w)
    BY <1>1, <1>7, <2>1, AllTerminated, NothingWritten DEF CheckStop, Typed
  <2> QED BY <1>1, <1>3, <2>1, <2>2, FlushedStays
<1>8. CASE Update(w)
  <2>1. PICK p : p \in {"loop", "update", "advance"} /\ pc' = [pc EXCEPT ![w] = p] /\ pc[w] = "update"
    BY <1>8 DEF Update, Goto, NextWorker
  <2>2. UNCHANGED <<mpc, timers, sched, jobs>>
    BY <1>8 DEF Update, mainVars, timeVars
  <2>3. PICK r : r = QUpdate(queue[t], w)
    OBVIOUS
  <2>4. IsQueue(r, JobIds) /\ Written(queue[t], r, w) /\ JobIds' = JobIds
    BY <1>1, <2>2, <2>3, UpdateWrites DEF Typed, QueuesTyped, JobIds
  <2>5. queue' = [queue EXCEPT ![t] = r]
    BY <1>2, <1>8, <2>3 DEF Update
  <2>6. Wrote(w)
    BY <1>1, <2>4, <2>5, OneWritten DEF Typed
  <2> QED BY <1>1, <1>3, <2>1, <2>2, <2>6, FlushedStays
<1>9. CASE \/ (\E v \in Vids : JobSchedules(w, v) \/ TimerSchedules(w, v))
          \/ JobStartsTimer(w) \/ TimerFires(w) \/ TimerThrows(w)
  <2>1. UNCHANGED <<queue, mpc, pc>>
    BY <1>9 DEF JobSchedules, TimerSchedules, JobStartsTimer, TimerFires, TimerThrows, mainVars,
       workerVars
  <2> QED BY <1>1, <2>1, FlushedUnmoved
<1>10. CASE JobUnblocks(w)
  <2>1. UNCHANGED <<mpc, timers, sched, jobs, pc>> /\ pc[w] = "run"
    BY <1>10 DEF JobUnblocks, Running, mainVars, timeVars, workerVars
  <2>2. VidOf(w) \in Vids
    BY <2>1, JobIsKnown
  <2>3. Wrote(w)
    BY <1>1, <1>10, <2>1, <2>2, Unblocked DEF JobUnblocks, Typed
  <2> QED BY <1>1, <2>1, <2>3, FlushedStays
<1>11. CASE JobYields(w)
  <2>1. /\ UNCHANGED <<mpc, timers, sched, jobs>> /\ pc[w] = "run" /\ sched[w] = NoCall
        /\ pc' = [pc EXCEPT ![w] = "stop"] /\ queue' = [queue EXCEPT ![w] = QWrite(@, w, job[w])]
    BY <1>11 DEF JobYields, JobEnds, Goto, Running, mainVars, timeVars
  <2>2. job[w] \in JobIds' /\ JobIds' = JobIds
    BY <2>1, JobIsKnown DEF JobIds
  <2>3. Wrote(w)
    BY <1>1, <2>1, <2>2, JobWritten DEF Typed
  <2> QED BY <1>1, <1>3, <2>1, <2>3, FlushedStays
<1>12. CASE JobBlocks(w) \/ JobReturns(w) \/ JobThrows(w)
  <2>1. /\ UNCHANGED <<queue, mpc, timers, sched>> /\ sched[w] = NoCall
        /\ pc' = [pc EXCEPT ![w] = "stop"]
    BY <1>12 DEF JobBlocks, JobReturns, JobThrows, JobEnds, Goto, Running, mainVars, timeVars
  <2> QED BY <1>1, <1>3, <2>1, FlushedUnmoved
<1>13. ASSUME NEW v \in Vids, TimerUnblocks(w, v) PROVE FlushedInv'
  <2>1. UNCHANGED <<mpc, jobs, pc>> /\ pc[w] = "advance"
    BY <1>13 DEF TimerUnblocks, mainVars, workerVars
  <2>2. Wrote(w)
    BY <1>1, <1>13, <2>1, Unblocked DEF TimerUnblocks, Typed
  <2> QED BY <1>1, <2>1, <2>2, FlushedStays
<1>14. CASE Advanced(w)
  <2>1. PICK p : p \in {"loop", "update"} /\ pc' = [pc EXCEPT ![w] = p]
    BY <1>14 DEF Advanced, Goto, NextWorker
  <2>2. UNCHANGED <<queue, mpc, timers, sched>> /\ sched[w] = NoCall
    BY <1>14 DEF Advanced, mainVars
  <2> QED BY <1>1, <1>3, <2>1, <2>2, FlushedUnmoved
<1>15. CASE ScheduleEnd(w)
  <2>1. pc[w] # "dead" /\ UNCHANGED <<mpc, pc>>
    BY <1>1, <1>15 DEF CallsInv, ScheduleEnd, mainVars, workerVars
  <2>2. Wrote(w)
    BY <1>1, <1>15, ScheduledIs
  <2> QED BY <1>1, <2>1, <2>2, FlushedStays
<1>16. CASE Exit(w)
  <2>1. UNCHANGED <<mpc, timers, sched, jobs>> /\ pc' = [pc EXCEPT ![w] = "dead"] /\ pc[w] = "exit"
    BY <1>16 DEF Exit, Goto, mainVars, timeVars
  <2>2. Wrote(w) /\ \A u \in Workers : queue'[u].priv[w] = <<>>
    BY <1>1, <1>16, <2>1, AllFlushed DEF Exit, Typed
  <2>3. \A u \in Workers : pc'[u] = IF u = w THEN "dead" ELSE pc[u]
    BY <1>1, <2>1 DEF Typed
  <2> QED BY <1>1, <2>1, <2>2, <2>3, FlushedStays
<1> QED BY <1>4, <1>5, <1>6, <1>7, <1>8, <1>9, <1>10, <1>11, <1>12, <1>13, <1>14, <1>15, <1>16
        DEF WorkerStep

LEMMA MainFlushed ==
  ASSUME Inv, FlushedInv, MainRuns \/ MainStep
  PROVE  FlushedInv'
<1>1. Typed /\ CallsInv /\ PhaseInv /\ 0 \in Ids /\ 0 \notin Workers
  BY IdsAre DEF Inv, FlushedInv
<1>2. CASE \E v \in Vids : MainSchedules(v)
  <2>1. UNCHANGED <<queue, mpc, pc>> /\ mpc = "run"
    BY <1>2 DEF MainSchedules, mainVars, workerVars
  <2> QED BY <1>1, <2>1, FlushedUnmoved
<1>3. CASE MainSleeps
  <2>1. UNCHANGED <<mpc, timers, pc, sched, jobs>> /\ mpc = "run"
    BY <1>3 DEF MainSleeps, mainVars, timeVars, workerVars
  <2>2. Wrote(0)
    BY <1>1, <1>3, <2>1, AllFlushed DEF MainSleeps, Typed
  <2> QED BY <1>1, <2>1, <2>2, FlushedStays
<1>4. CASE MainAdvancesTime \/ \E s \in Requests : MainRequests(s)
  <2>1. UNCHANGED <<queue, timers, pc, sched>> /\ mpc' \in {"run", "terminate"}
    BY <1>4 DEF MainAdvancesTime, MainRequests, mainVars, timeVars, workerVars
  <2> QED BY <1>1, <2>1, FlushedUnmoved
<1>5. CASE ScheduleEnd(0)
  <2>1. mpc = "run" /\ UNCHANGED <<mpc, pc>>
    BY <1>1, <1>5 DEF CallsInv, ScheduleEnd, mainVars, workerVars
  <2>2. Wrote(0)
    BY <1>1, <1>5, ScheduledIs
  <2> QED BY <1>1, <2>1, <2>2, FlushedStays
<1>6. CASE MainTerminates
  <2>1. UNCHANGED <<timers, pc, sched, jobs>> /\ mpc' # "assert"
    BY <1>6 DEF MainTerminates, timeVars, workerVars
  <2>2. Wrote(0) /\ \A t \in Workers : queue'[t].priv[0] = <<>>
    BY <1>1, <1>6, <2>1, AllTerminated DEF MainTerminates, Typed
  <2> QED BY <1>1, <2>1, <2>2, FlushedStays
<1>7. CASE MainReadsIdle \/ MainReadsSize \/ MainJoins
  <2>1. UNCHANGED <<queue, timers, pc, sched>> /\ mpc \notin {"run", "terminate"} /\ mpc' # "assert"
    BY <1>7 DEF MainReadsIdle, MainReadsSize, MainJoins, MainNext, timeVars, workerVars
  <2> QED BY <1>1, <2>1, FlushedUnmoved
<1>8. CASE MainDeletes
  <2>1. UNCHANGED <<timers, pc, sched>> /\ mpc = "dead"
    BY <1>8 DEF MainDeletes, timeVars, workerVars
  <2>2. \A w \in Workers : pc[w] = "dead"
    BY <1>1, <2>1 DEF PhaseInv, Ended
  <2>3. ASSUME NEW t \in Workers PROVE ~ Unflushed(t)
    <3>1. ASSUME NEW i \in Ids PROVE queue[t].priv[i] = <<>>
      <4>1. i = 0 \/ i \in Workers
        BY DEF Ids, Workers
      <4> QED BY <2>1, <2>2, <4>1 DEF FlushedInv
    <3> QED BY <3>1 DEF Unflushed
  <2>4. mpc' = "deleted" /\ queue' = [t \in Workers |-> EmptyQueue]
    BY <1>8, <2>3 DEF MainDeletes
  <2>5. \A t \in Workers : queue'[t] = EmptyQueue /\ \A i \in Ids : EmptyQueue.priv[i] = <<>>
    BY <2>4 DEF EmptyQueue
  <2> QED BY <1>1, <2>1, <2>4, <2>5, IdsAre DEF FlushedInv
<1> QED BY <1>2, <1>3, <1>4, <1>5, <1>6, <1>7, <1>8 DEF MainRuns, MainStep

(***************************************************************************)
(* hlt_thread_mgr_delete can read every job that is left in a queue, also  *)
(* after KILL and uncaught exceptions: no job stays in the private batch   *)
(* of a thread that is gone (DeleteFindsJobs).                             *)
(***************************************************************************)
THEOREM DeleteIsComplete == Spec => []DeleteFindsJobs
<1>1. ASSUME Init PROVE FlushedInv
  <2>0. \A i \in Ids : EmptyQueue.priv[i] = <<>>
    BY DEF EmptyQueue
  <2>1. PICK e : e = EmptyQueue /\ \A i \in Ids : e.priv[i] = <<>>
    BY <2>0
  <2>2. \A t \in Workers : queue[t] = e
    BY <1>1, <2>1 DEF Init
  <2>3. mpc = "run" /\ \A w \in Workers : timers[w] = 0 /\ sched[w] = NoCall /\ pc[w] = "loop"
    BY <1>1, IdsAre DEF Init
  <2> QED BY <2>1, <2>2, <2>3, IdsAre DEF FlushedInv
<1>2. Inv /\ FlushedInv /\ [Next]_vars => FlushedInv'
  <2> SUFFICES ASSUME Inv, FlushedInv, [Next]_vars PROVE FlushedInv'
    OBVIOUS
  <2>1. CASE UNCHANGED vars \/ Stopped
    BY <2>1 DEF Stopped, FlushedInv, vars, mainVars, timeVars, workerVars
  <2> QED BY <2>1, WorkerFlushed, MainFlushed DEF Next
<1>3. FlushedInv => DeleteFindsJobs
  BY DEF FlushedInv, DeleteFindsJobs
<1> QED BY <1>1, <1>2, <1>3, InvHolds, PTL DEF Spec

-----------------------------------------------------------------------------
(* Where the jobs are.  Job j is in s not at all, or once. *)
Absent(s, j) == \A k \in 1..Len(s) : s[k] # j
Once(s, j) == \E k \in 1..Len(s) : s[k] = j /\ \A l \in 1..Len(s) : s[l] = j => l = k

NotQueued(q, j) ==
  Absent(q.head, j) /\ Absent(q.pending, j) /\ \A i \in Ids : Absent(q.priv[i], j)

OnceQueued(q, j) ==
  \/ Once(q.head, j) /\ Absent(q.pending, j) /\ \A i \in Ids : Absent(q.priv[i], j)
  \/ Absent(q.head, j) /\ Once(q.pending, j) /\ \A i \in Ids : Absent(q.priv[i], j)
  \/ /\ Absent(q.head, j) /\ Absent(q.pending, j)
     /\ \E i \in Ids : Once(q.priv[i], j) /\ \A k \in Ids : k # i => Absent(q.priv[k], j)

HomeOf(j) == WorkerOf[jobs[j].vid]

Homes == {"queue", "blocked", "held", "done", "lost", "deleted"}

(* Of the places where job j may be it is in h, once, and in no other. *)
IsIn(j, h) ==
  LET t == HomeOf(j)
      s == blocked[t][jobs[j].vid]
  IN /\ IF h = "queue" THEN OnceQueued(queue[t], j) ELSE NotQueued(queue[t], j)
     /\ IF h = "blocked" THEN Once(s, j) ELSE Absent(s, j)
     /\ job[t] = j <=> h = "held"
     /\ j \in done <=> h = "done"
     /\ j \in lost <=> h = "lost"
     /\ j \in deleted <=> h = "deleted"

(* Nothing of job j is with another worker or virtual thread. *)
StaysHome(j) ==
  \A t \in Workers :
    /\ t # HomeOf(j) => NotQueued(queue[t], j) /\ job[t] # j
    /\ \A v \in Vids : v # jobs[j].vid \/ t # HomeOf(j) => Absent(blocked[t][v], j)

JobsInv ==
  /\ done \cup lost \cup deleted \subseteq JobIds
  /\ \A j \in JobIds : StaysHome(j) /\ \E h \in Homes : IsIn(j, h)

-----------------------------------------------------------------------------
(* The order of jobs that have not begun yet *)
Fresh(j) == \A b \in 1..Len(begun) : begun[b] # j

(* The pairs of jobs of which the first one may come first. *)
MayPrecede ==
  {p \in JobIds \X JobIds :
     Fresh(p[1]) /\ Fresh(p[2]) /\ jobs[p[1]].by = jobs[p[2]].by => p[1] < p[2]}

Sorted(s, R) == \A a, b \in 1..Len(s) : a < b => <<s[a], s[b]>> \in R
Ahead(s, u, R) == \A a \in 1..Len(s), b \in 1..Len(u) : <<s[a], u[b]>> \in R
IsAhead(x, u, R) == x # 0 => \A b \in 1..Len(u) : <<x, u[b]>> \in R

(* A worker that holds job x (0: none) and has queue q gets the jobs of    *)
(* each writer in the order R.                                             *)
InLine(x, q, R) ==
  /\ IsAhead(x, q.head, R) /\ IsAhead(x, q.pending, R)
  /\ Sorted(q.head, R) /\ Ahead(q.head, q.pending, R) /\ Sorted(q.pending, R)
  /\ \A i \in Ids : /\ IsAhead(x, q.priv[i], R) /\ Ahead(q.head, q.priv[i], R)
                    /\ Ahead(q.pending, q.priv[i], R) /\ Sorted(q.priv[i], R)

(* Jobs in a batch that have not begun are those of its writer. *)
OwnBatch(q) ==
  \A i \in Ids : \A k \in 1..Len(q.priv[i]) : Fresh(q.priv[i][k]) => jobs[q.priv[i][k]].by = i

BegunInv ==
  /\ begun \in Seq(JobIds)
  /\ \A w \in Workers : pc[w] = "run" => ~ Fresh(job[w])
  /\ \A t \in Workers, v \in Vids : \A k \in 1..Len(blocked[t][v]) : ~ Fresh(blocked[t][v][k])
  /\ \A j \in done : ~ Fresh(j)

LineInv == \A t \in Workers : InLine(job[t], queue[t], MayPrecede) /\ OwnBatch(queue[t])

(* What a terminated writer drops comes after what it has written. *)
LostInv ==
  /\ \A j \in lost : Fresh(j) =>
       /\ mpc = "deleted" \/ queue[HomeOf(j)].term[jobs[j].by]
       /\ \A k \in JobIds : /\ HomeOf(k) = HomeOf(j) /\ jobs[k].by = jobs[j].by
                            /\ Fresh(k) /\ k \notin lost
                            => k < j
  /\ deleted # {} => mpc = "deleted"

OrderInv == BegunInv /\ LineInv /\ LostInv /\ ScheduledOrder
-----------------------------------------------------------------------------
(* Sequences of jobs that are joined or shortened *)
(* c is b after a, which has length m. *)
Joined(c, a, b, m) ==
  /\ m \in Nat /\ m = Len(a) /\ Len(b) \in Nat /\ Len(c) = m + Len(b)
  /\ \A k \in 1..m : k \in 1..Len(c) /\ c[k] = a[k]
  /\ \A k \in 1..Len(b) : m + k \in 1..Len(c) /\ c[m + k] = b[k]
  /\ \A k \in 1..Len(c) : k \in 1..m \/ \E l \in 1..Len(b) : k = m + l

LEMMA JoinIs ==
  ASSUME NEW J, NEW a \in Seq(J), NEW b \in Seq(J)
  PROVE  a \o b \in Seq(J) /\ Joined(a \o b, a, b, Len(a))
<1>0. PICK c, m : c = a \o b /\ m = Len(a)
  OBVIOUS
<1>1. PICK n \in Nat : n = Len(b)
  OBVIOUS
<1>2. /\ c \in Seq(J) /\ m \in Nat /\ Len(c) = m + n
      /\ \A k \in 1..(m + n) : c[k] = IF k <= m THEN a[k] ELSE b[k - m]
  BY <1>0, <1>1
<1>3. ASSUME NEW k \in 1..n PROVE m + k \in 1..(m + n) /\ (m + k) - m = k /\ ~ (m + k <= m)
  BY <1>2
<1>4. ASSUME NEW k \in 1..(m + n), k \notin 1..m PROVE k - m \in 1..n /\ k = m + (k - m)
  BY <1>2, <1>4
<1>5. \A k \in 1..m : k \in 1..(m + n) /\ k <= m
  BY <1>2
<1>6. \A k \in 1..Len(c) : k \in 1..m \/ \E l \in 1..Len(b) : k = m + l
  BY <1>1, <1>2, <1>4
<1>7. \A k \in 1..Len(b) : m + k \in 1..Len(c) /\ c[m + k] = b[k]
  BY <1>1, <1>2, <1>3
<1> QED BY <1>0, <1>1, <1>2, <1>5, <1>6, <1>7 DEF Joined

LEMMA TailIs ==
  ASSUME NEW J, NEW s \in Seq(J), s # <<>>
  PROVE  /\ Tail(s) \in Seq(J) /\ Head(s) \in J /\ 1 \in 1..Len(s) /\ Head(s) = s[1]
         /\ \A k \in 1..Len(Tail(s)) : /\ k + 1 \in 1..Len(s) /\ k + 1 # 1
                                       /\ Tail(s)[k] = s[k + 1]
         /\ \A k \in 1..Len(s) : k = 1 \/ (k - 1 \in 1..Len(Tail(s)) /\ k = (k - 1) + 1)
<1>1. PICK n \in Nat : n = Len(s) /\ n > 0
  OBVIOUS
<1>2. /\ Tail(s) \in Seq(J) /\ Len(Tail(s)) = n - 1 /\ Head(s) = s[1] /\ s[1] \in J
      /\ \A k \in 1..(n - 1) : Tail(s)[k] = s[k + 1]
  BY <1>1
<1> QED BY <1>1, <1>2

LEMMA AbsentJoin ==
  ASSUME NEW J, NEW a \in Seq(J), NEW b \in Seq(J), NEW j
  PROVE  Absent(a \o b, j) <=> Absent(a, j) /\ Absent(b, j)
<1>1. PICK c, m : c = a \o b /\ m = Len(a)
  OBVIOUS
<1>2. Joined(c, a, b, m)
  BY <1>1, JoinIs
<1>3. ASSUME NEW k \in 1..Len(c) PROVE \/ \E l \in 1..Len(a) : c[k] = a[l]
                                      \/ \E l \in 1..Len(b) : c[k] = b[l]
  BY <1>2 DEF Joined
<1>4. /\ \A l \in 1..Len(a) : \E k \in 1..Len(c) : c[k] = a[l]
      /\ \A l \in 1..Len(b) : \E k \in 1..Len(c) : c[k] = b[l]
  BY <1>2 DEF Joined
<1>5. Absent(a, j) /\ Absent(b, j) => Absent(c, j)
  BY <1>3 DEF Absent
<1>6. Absent(c, j) => Absent(a, j) /\ Absent(b, j)
  BY <1>4 DEF Absent
<1> QED BY <1>1, <1>5, <1>6

LEMMA OnceJoin ==
  ASSUME NEW J, NEW a \in Seq(J), NEW b \in Seq(J), NEW j,
         (Once(a, j) /\ Absent(b, j)) \/ (Absent(a, j) /\ Once(b, j))
  PROVE  Once(a \o b, j)
<1>1. PICK c, m : c = a \o b /\ m = Len(a)
  OBVIOUS
<1>2. Joined(c, a, b, m)
  BY <1>1, JoinIs
<1>3. CASE Once(a, j) /\ Absent(b, j)
  <2>1. PICK k \in 1..Len(a) : a[k] = j /\ \A l \in 1..Len(a) : a[l] = j => l = k
    BY <1>3 DEF Once
  <2>2. k \in 1..Len(c) /\ c[k] = j
    BY <1>2, <2>1 DEF Joined
  <2>3. ASSUME NEW l \in 1..Len(c), c[l] = j PROVE l = k
    <3>1. ASSUME NEW x \in 1..Len(b), l = m + x PROVE FALSE
      BY <1>2, <1>3, <2>3, <3>1 DEF Joined, Absent
    <3>2. l \in 1..Len(a) /\ a[l] = j
      BY <1>2, <2>3, <3>1 DEF Joined
    <3> QED BY <2>1, <3>2
  <2> QED BY <1>1, <2>2, <2>3 DEF Once
<1>4. CASE Absent(a, j) /\ Once(b, j)
  <2>1. PICK k \in 1..Len(b) : b[k] = j /\ \A l \in 1..Len(b) : b[l] = j => l = k
    BY <1>4 DEF Once
  <2>2. PICK n : n = m + k /\ n \in 1..Len(c) /\ c[n] = j
    BY <1>2, <2>1 DEF Joined
  <2>3. ASSUME NEW l \in 1..Len(c), c[l] = j PROVE l = n
    <3>1. l \notin 1..m
      BY <1>2, <1>4, <2>3 DEF Joined, Absent
    <3>2. PICK x \in 1..Len(b) : l = m + x
      BY <1>2, <3>1 DEF Joined
    <3>3. b[x] = j
      BY <1>2, <2>3, <3>2 DEF Joined
    <3> QED BY <2>1, <2>2, <3>2, <3>3
  <2> QED BY <1>1, <2>2, <2>3 DEF Once
<1> QED BY <1>3, <1>4

LEMMA EmptyHasNone ==
  ASSUME NEW j
  PROVE  Absent(<<>>, j)
BY DEF Absent

LEMMA OneHasOne ==
  ASSUME NEW x, NEW j
  PROVE  IF x = j THEN Once(<<x>>, j) ELSE Absent(<<x>>, j)
BY DEF Once, Absent

LEMMA NotBoth ==
  ASSUME NEW s, NEW j, Once(s, j)
  PROVE  ~ Absent(s, j)
BY DEF Once, Absent

LEMMA HeadTaken ==
  ASSUME NEW J, NEW s \in Seq(J), s # <<>>, NEW j
  PROVE  /\ Absent(s, j) => Absent(Tail(s), j) /\ Head(s) # j
         /\ Once(s, j) => IF Head(s) = j THEN Absent(Tail(s), j) ELSE Once(Tail(s), j)
<1>0. PICK u : u = Tail(s)
  OBVIOUS
<1>1. u = Tail(s) /\ \A k \in 1..Len(u) : k + 1 \in 1..Len(s) /\ k + 1 # 1 /\ u[k] = s[k + 1]
  BY <1>0, TailIs
<1>2. /\ 1 \in 1..Len(s) /\ Head(s) = s[1]
      /\ \A k \in 1..Len(s) : k = 1 \/ (k - 1 \in 1..Len(u) /\ k = (k - 1) + 1)
  BY <1>1, TailIs
<1>3. ASSUME Absent(s, j) PROVE Absent(u, j) /\ Head(s) # j
  BY <1>1, <1>2, <1>3 DEF Absent
<1>4. ASSUME Once(s, j), Head(s) = j PROVE Absent(u, j)
  BY <1>1, <1>2, <1>4 DEF Absent, Once
<1>5. ASSUME Once(s, j), Head(s) # j PROVE Once(u, j)
  <2>1. PICK k \in 1..Len(s) : s[k] = j /\ \A l \in 1..Len(s) : s[l] = j => l = k
    BY <1>5 DEF Once
  <2>2. PICK i \in 1..Len(u) : k = i + 1
    BY <1>2, <1>5, <2>1
  <2>3. u[i] = j
    BY <1>1, <2>1, <2>2
  <2>4. ASSUME NEW l \in 1..Len(u), u[l] = j PROVE l = i
    <3>1. l + 1 = i + 1 /\ l \in Int /\ i \in Int
      BY <1>1, <2>1, <2>2, <2>4
    <3> QED BY <3>1
  <2> QED BY <2>3, <2>4 DEF Once
<1> QED BY <1>1, <1>3, <1>4, <1>5

LEMMA SortedJoin ==
  ASSUME NEW J, NEW a \in Seq(J), NEW b \in Seq(J), NEW R,
         Sorted(a, R), Sorted(b, R), Ahead(a, b, R)
  PROVE  Sorted(a \o b, R)
<1>1. PICK c, m : c = a \o b /\ m = Len(a)
  OBVIOUS
<1>2. Joined(c, a, b, m)
  BY <1>1, JoinIs
<1>3. ASSUME NEW k \in 1..Len(c), NEW l \in 1..Len(c), k < l PROVE <<c[k], c[l]>> \in R
  <2>1. CASE k \in 1..m /\ l \in 1..m
    <3>1. k \in 1..Len(a) /\ l \in 1..Len(a) /\ c[k] = a[k] /\ c[l] = a[l]
      BY <1>2, <2>1 DEF Joined
    <3> QED BY <1>3, <3>1 DEF Sorted
  <2>2. CASE k \in 1..m /\ l \notin 1..m
    <3>1. PICK y \in 1..Len(b) : l = m + y
      BY <1>2, <2>2 DEF Joined
    <3>2. k \in 1..Len(a) /\ c[k] = a[k] /\ c[l] = b[y]
      BY <1>2, <2>2, <3>1 DEF Joined
    <3> QED BY <3>2 DEF Ahead
  <2>3. CASE k \notin 1..m
    <3>1. PICK x \in 1..Len(b) : k = m + x
      BY <1>2, <2>3 DEF Joined
    <3>2. m \in Nat /\ Len(b) \in Nat /\ Len(c) \in Nat
      BY <1>2 DEF Joined
    <3>3. l \notin 1..m
      BY <1>3, <3>1, <3>2
    <3>4. PICK y \in 1..Len(b) : l = m + y
      BY <1>2, <3>3 DEF Joined
    <3>5. x < y
      BY <1>3, <3>1, <3>2, <3>4
    <3>6. c[k] = b[x] /\ c[l] = b[y]
      BY <1>2, <3>1, <3>4 DEF Joined
    <3> QED BY <3>5, <3>6 DEF Sorted
  <2> QED BY <2>1, <2>2, <2>3
<1> QED BY <1>1, <1>3 DEF Sorted

LEMMA AheadJoin ==
  ASSUME NEW J, NEW a \in Seq(J), NEW b \in Seq(J), NEW c, NEW R
  PROVE  /\ Ahead(a, c, R) /\ Ahead(b, c, R) => Ahead(a \o b, c, R)
         /\ Ahead(c, a, R) /\ Ahead(c, b, R) => Ahead(c, a \o b, R)
         /\ IsAhead(c, a, R) /\ IsAhead(c, b, R) => IsAhead(c, a \o b, R)
<1>1. PICK d, m : d = a \o b /\ m = Len(a)
  OBVIOUS
<1>2. Joined(d, a, b, m)
  BY <1>1, JoinIs
<1>3. ASSUME NEW k \in 1..Len(d) PROVE \/ \E l \in 1..Len(a) : d[k] = a[l]
                                      \/ \E l \in 1..Len(b) : d[k] = b[l]
  BY <1>2 DEF Joined
<1> QED BY <1>1, <1>3 DEF Ahead, IsAhead

LEMMA HeadFirst ==
  ASSUME NEW J, NEW s \in Seq(J), s # <<>>, NEW R
  PROVE  /\ Sorted(s, R) => Sorted(Tail(s), R) /\ IsAhead(Head(s), Tail(s), R)
         /\ \A u : Ahead(s, u, R) => Ahead(Tail(s), u, R) /\ IsAhead(Head(s), u, R)
<1>0. PICK u : u = Tail(s)
  OBVIOUS
<1>1. u = Tail(s) /\ \A k \in 1..Len(u) : k + 1 \in 1..Len(s) /\ k + 1 # 1 /\ u[k] = s[k + 1]
  BY <1>0, TailIs
<1>2. 1 \in 1..Len(s) /\ Head(s) = s[1] /\ \A k \in 1..Len(u) : 1 < k + 1
  BY <1>1, TailIs
<1>3. ASSUME Sorted(s, R) PROVE Sorted(u, R) /\ IsAhead(Head(s), u, R)
  <2>1. ASSUME NEW k \in 1..Len(u), NEW l \in 1..Len(u), k < l PROVE <<u[k], u[l]>> \in R
    <3>1. k + 1 < l + 1
      BY <2>1
    <3> QED BY <1>1, <1>3, <3>1 DEF Sorted
  <2> QED BY <1>1, <1>2, <1>3, <2>1 DEF Sorted, IsAhead
<1>4. ASSUME NEW v, Ahead(s, v, R) PROVE Ahead(u, v, R) /\ IsAhead(Head(s), v, R)
  BY <1>1, <1>2, <1>4 DEF Ahead, IsAhead
<1> QED BY <1>1, <1>3, <1>4

-----------------------------------------------------------------------------
(* What the operations of the queue do to its lists *)
SameLists(q, r) == r.head = q.head /\ r.pending = q.pending /\ r.priv = q.priv

(* Writer i has flushed its batch, or nothing has been moved. *)
Regrouped(q, r, i) ==
  \/ SameLists(q, r)
  \/ /\ r.head = q.head /\ r.pending = q.pending \o q.priv[i]
     /\ r.priv[i] = <<>> /\ \A k \in Ids : k # i => r.priv[k] = q.priv[k]

(* Writer i has put the jobs s into its batch. *)
Lengthened(q, r, i, s) ==
  /\ r.head = q.head /\ r.pending = q.pending
  /\ r.priv[i] = q.priv[i] \o s /\ \A k \in Ids : k # i => r.priv[k] = q.priv[k]

(* ... and has flushed it if it was told to. *)
Put(q, r, i, s, J) ==
  \E p : IsQueue(p, J) /\ Lengthened(q, p, i, s) /\ Regrouped(p, r, i)

LEMMA RegroupedCounts ==
  ASSUME NEW J, NEW q, IsQueue(q, J), NEW r, NEW i \in Ids, Regrouped(q, r, i), NEW j
  PROVE  /\ NotQueued(q, j) => NotQueued(r, j)
         /\ OnceQueued(q, j) => OnceQueued(r, j)
<1>1. CASE SameLists(q, r)
  BY <1>1 DEF SameLists, NotQueued, OnceQueued
<1>2. CASE ~ SameLists(q, r)
  <2>1. PICK a, b : a = q.pending /\ b = q.priv[i] /\ a \in Seq(J) /\ b \in Seq(J)
    BY DEF IsQueue
  <2>2. /\ r.head = q.head /\ r.pending = a \o b /\ r.priv[i] = <<>>
        /\ \A k \in Ids : k # i => r.priv[k] = q.priv[k]
    BY <1>2, <2>1 DEF Regrouped
  <2>3. Absent(r.priv[i], j)
    BY <2>2, EmptyHasNone
  <2>4. Absent(a, j) /\ Absent(b, j) => Absent(r.pending, j)
    BY <2>1, <2>2, AbsentJoin
  <2>5. (Once(a, j) /\ Absent(b, j)) \/ (Absent(a, j) /\ Once(b, j)) => Once(r.pending, j)
    BY <2>1, <2>2, OnceJoin
  <2>6. ASSUME NotQueued(q, j) PROVE NotQueued(r, j)
    BY <2>1, <2>2, <2>3, <2>4, <2>6 DEF NotQueued
  <2>7. ASSUME OnceQueued(q, j) PROVE OnceQueued(r, j)
    <3>1. CASE Once(q.head, j) /\ Absent(a, j) /\ \A k \in Ids : Absent(q.priv[k], j)
      BY <2>1, <2>2, <2>3, <2>4, <3>1 DEF OnceQueued
    <3>2. CASE Absent(q.head, j) /\ Once(a, j) /\ \A k \in Ids : Absent(q.priv[k], j)
      BY <2>1, <2>2, <2>3, <2>5, <3>2 DEF OnceQueued
    <3>3. CASE Absent(q.head, j) /\ Absent(a, j) /\ Once(b, j) /\ \A k \in Ids : k # i => Absent(q.priv[k], j)
      BY <2>1, <2>2, <2>3, <2>5, <3>3 DEF OnceQueued
    <3>4. ASSUME NEW l \in Ids, l # i, Absent(q.head, j), Absent(a, j), Once(q.priv[l], j),
                 \A k \in Ids : k # l => Absent(q.priv[k], j)
          PROVE  OnceQueued(r, j)
      <4>1. \A k \in Ids : k # l => Absent(r.priv[k], j)
        BY <2>2, <2>3, <3>4
      <4>2. Absent(r.head, j) /\ Absent(r.pending, j) /\ Once(r.priv[l], j)
        BY <2>1, <2>2, <2>4, <3>4
      <4> QED BY <4>1, <4>2 DEF OnceQueued
    <3> QED BY <2>1, <2>7, <3>1, <3>2, <3>3, <3>4 DEF OnceQueued
  <2> QED BY <2>6, <2>7
<1> QED BY <1>1, <1>2

LEMMA LengthenedCounts ==
  ASSUME NEW J, NEW q, IsQueue(q, J), NEW r, NEW i \in Ids, NEW s \in Seq(J),
         Lengthened(q, r, i, s), NEW j
  PROVE  /\ NotQueued(q, j) /\ Absent(s, j) => NotQueued(r, j)
         /\ OnceQueued(q, j) /\ Absent(s, j) => OnceQueued(r, j)
         /\ NotQueued(q, j) /\ Once(s, j) => OnceQueued(r, j)
<1>1. PICK b : b = q.priv[i] /\ b \in Seq(J)
  BY DEF IsQueue
<1>2. /\ r.head = q.head /\ r.pending = q.pending /\ r.priv[i] = b \o s
      /\ \A k \in Ids : k # i => r.priv[k] = q.priv[k]
  BY <1>1 DEF Lengthened
<1>3. Absent(b, j) /\ Absent(s, j) => Absent(r.priv[i], j)
  BY <1>1, <1>2, AbsentJoin
<1>4. (Once(b, j) /\ Absent(s, j)) \/ (Absent(b, j) /\ Once(s, j)) => Once(r.priv[i], j)
  BY <1>1, <1>2, OnceJoin
<1>5. ASSUME NotQueued(q, j), Absent(s, j) PROVE NotQueued(r, j)
  BY <1>1, <1>2, <1>3, <1>5 DEF NotQueued
<1>6. ASSUME NotQueued(q, j), Once(s, j) PROVE OnceQueued(r, j)
  BY <1>1, <1>2, <1>4, <1>6 DEF NotQueued, OnceQueued
<1>7. ASSUME OnceQueued(q, j), Absent(s, j) PROVE OnceQueued(r, j)
  <2>1. CASE \A k \in Ids : Absent(q.priv[k], j)
    <3>1. \A k \in Ids : Absent(r.priv[k], j)
      BY <1>1, <1>2, <1>3, <1>7, <2>1
    <3> QED BY <1>2, <1>7, <2>1, <3>1, NotBoth DEF OnceQueued
  <2>2. ASSUME NEW l \in Ids, Absent(q.head, j), Absent(q.pending, j), Once(q.priv[l], j),
               \A k \in Ids : k # l => Absent(q.priv[k], j)
        PROVE  OnceQueued(r, j)
    <3>1. Once(r.priv[l], j) /\ \A k \in Ids : k # l => Absent(r.priv[k], j)
      BY <1>1, <1>2, <1>3, <1>4, <1>7, <2>2
    <3> QED BY <1>2, <2>2, <3>1 DEF OnceQueued
  <2> QED BY <1>7, <2>1, <2>2 DEF OnceQueued
<1> QED BY <1>5, <1>6, <1>7

LEMMA PutCounts ==
  ASSUME NEW J, NEW q, IsQueue(q, J), NEW r, NEW i \in Ids, NEW s \in Seq(J),
         Put(q, r, i, s, J), NEW j
  PROVE  /\ NotQueued(q, j) /\ Absent(s, j) => NotQueued(r, j)
         /\ OnceQueued(q, j) /\ Absent(s, j) => OnceQueued(r, j)
         /\ NotQueued(q, j) /\ Once(s, j) => OnceQueued(r, j)
<1>1. PICK p : IsQueue(p, J) /\ Lengthened(q, p, i, s) /\ Regrouped(p, r, i)
  BY DEF Put
<1>2. /\ NotQueued(q, j) /\ Absent(s, j) => NotQueued(p, j)
      /\ OnceQueued(q, j) /\ Absent(s, j) => OnceQueued(p, j)
      /\ NotQueued(q, j) /\ Once(s, j) => OnceQueued(p, j)
  BY <1>1, LengthenedCounts
<1>3. /\ NotQueued(p, j) => NotQueued(r, j)
      /\ OnceQueued(p, j) => OnceQueued(r, j)
  BY <1>1, RegroupedCounts
<1> QED BY <1>2, <1>3

(* The reader has taken job x, or found nothing if x = 0. *)
Taken(q, r, x) ==
  /\ r.priv = q.priv
  /\ \/ q.head # <<>> /\ x = Head(q.head) /\ r.head = Tail(q.head) /\ r.pending = q.pending
     \/ /\ q.head = <<>> /\ q.pending # <<>>
        /\ x = Head(q.pending) /\ r.head = Tail(q.pending) /\ r.pending = <<>>
     \/ q.head = <<>> /\ q.pending = <<>> /\ x = 0 /\ r.head = <<>> /\ r.pending = <<>>

LEMMA ReadTakes ==
  ASSUME NEW J, NEW q, IsQueue(q, J)
  PROVE  Taken(q, QRead(q), QFront(q))
<1>1. PICK u : u = QTake(q)
  OBVIOUS
<1>2. /\ IsQueue(u, J) /\ u.priv = q.priv
      /\ q.head # <<>> => u = q
      /\ q.head = <<>> => u.head = q.pending /\ u.pending = <<>>
  BY <1>1, TakeIs
<1>3. CASE u.head = <<>>
  <2>1. PICK r : r = [u EXCEPT !.need_flush = TRUE]
    OBVIOUS
  <2>2. r = QRead(q) /\ QFront(q) = 0
    BY <1>1, <1>3, <2>1 DEF QRead, QFront
  <2>3. r.priv = u.priv /\ r.head = u.head /\ r.pending = u.pending
    BY <1>2, <2>1 DEF IsQueue
  <2> QED BY <1>2, <1>3, <2>2, <2>3 DEF Taken
<1>4. CASE u.head # <<>>
  <2>1. PICK r : r = [u EXCEPT !.need_flush = FALSE, !.head = Tail(@)]
    OBVIOUS
  <2>2. r = QRead(q) /\ QFront(q) = Head(u.head)
    BY <1>1, <1>4, <2>1 DEF QRead, QFront
  <2>3. r.priv = u.priv /\ r.head = Tail(u.head) /\ r.pending = u.pending
    BY <1>2, <2>1 DEF IsQueue
  <2> QED BY <1>2, <1>4, <2>2, <2>3 DEF Taken
<1> QED BY <1>3, <1>4

LEMMA TakenCounts ==
  ASSUME NEW J, 0 \notin J, NEW q, IsQueue(q, J), NEW r, NEW x, Taken(q, r, x), NEW j \in J
  PROVE  /\ NotQueued(q, j) => NotQueued(r, j) /\ x # j
         /\ OnceQueued(q, j) => IF x = j THEN NotQueued(r, j) ELSE OnceQueued(r, j)
<1>1. PICK h, p : h = q.head /\ p = q.pending /\ h \in Seq(J) /\ p \in Seq(J)
  BY DEF IsQueue
<1>2. CASE h # <<>>
  <2>1. x = Head(h) /\ r.head = Tail(h) /\ r.pending = p /\ r.priv = q.priv
    BY <1>1, <1>2 DEF Taken
  <2>2. /\ Absent(h, j) => Absent(r.head, j) /\ x # j
        /\ Once(h, j) => IF x = j THEN Absent(r.head, j) ELSE Once(r.head, j)
    BY <1>1, <1>2, <2>1, HeadTaken
  <2>3. ASSUME NotQueued(q, j) PROVE NotQueued(r, j) /\ x # j
    BY <1>1, <2>1, <2>2, <2>3 DEF NotQueued
  <2>4. ASSUME OnceQueued(q, j) PROVE IF x = j THEN NotQueued(r, j) ELSE OnceQueued(r, j)
    BY <1>1, <2>1, <2>2, <2>4 DEF NotQueued, OnceQueued
  <2> QED BY <2>3, <2>4
<1>3. CASE h = <<>> /\ p # <<>>
  <2>1. x = Head(p) /\ r.head = Tail(p) /\ r.pending = <<>> /\ r.priv = q.priv
    BY <1>1, <1>3 DEF Taken
  <2>2. /\ Absent(p, j) => Absent(r.head, j) /\ x # j
        /\ Once(p, j) => IF x = j THEN Absent(r.head, j) ELSE Once(r.head, j)
    BY <1>1, <1>3, <2>1, HeadTaken
  <2>3. Absent(q.head, j) /\ Absent(r.pending, j) /\ ~ Once(q.head, j)
    BY <1>1, <1>3, <2>1, EmptyHasNone, NotBoth
  <2>4. ASSUME NotQueued(q, j) PROVE NotQueued(r, j) /\ x # j
    BY <1>1, <2>1, <2>2, <2>3, <2>4 DEF NotQueued
  <2>5. ASSUME OnceQueued(q, j) PROVE IF x = j THEN NotQueued(r, j) ELSE OnceQueued(r, j)
    BY <1>1, <2>1, <2>2, <2>3, <2>5 DEF NotQueued, OnceQueued
  <2> QED BY <2>4, <2>5
<1>4. CASE h = <<>> /\ p = <<>>
  BY <1>1, <1>4 DEF Taken, NotQueued, OnceQueued
<1> QED BY <1>2, <1>3, <1>4

LEMMA RegroupedLine ==
  ASSUME NEW J, NEW q, IsQueue(q, J), NEW r, NEW i \in Ids, Regrouped(q, r, i), NEW x, NEW R,
         InLine(x, q, R), \A k \in Ids : k # i => Ahead(q.priv[i], q.priv[k], R)
  PROVE  InLine(x, r, R)
<1>1. CASE SameLists(q, r)
  BY <1>1 DEF SameLists, InLine
<1>2. CASE ~ SameLists(q, r)
  <2>1. PICK h, a, b : /\ h = q.head /\ a = q.pending /\ b = q.priv[i]
                       /\ a \in Seq(J) /\ b \in Seq(J)
    BY DEF IsQueue
  <2>2. PICK c : /\ c = a \o b /\ r.head = h /\ r.pending = c /\ r.priv[i] = <<>>
                 /\ \A k \in Ids : k # i => r.priv[k] = q.priv[k]
    BY <1>2, <2>1 DEF Regrouped
  <2>3. /\ IsAhead(x, h, R) /\ IsAhead(x, a, R) /\ IsAhead(x, b, R) /\ Sorted(h, R)
        /\ Ahead(h, a, R) /\ Ahead(h, b, R) /\ Sorted(a, R) /\ Sorted(b, R) /\ Ahead(a, b, R)
    BY <2>1 DEF InLine
  <2>4. IsAhead(x, c, R) /\ Ahead(h, c, R) /\ Sorted(c, R)
    BY <2>1, <2>2, <2>3, SortedJoin, AheadJoin
  <2>5. ASSUME NEW k \in Ids
        PROVE  /\ IsAhead(x, r.priv[k], R) /\ Ahead(h, r.priv[k], R)
               /\ Ahead(c, r.priv[k], R) /\ Sorted(r.priv[k], R)
    <3>1. CASE k = i
      BY <2>2, <3>1 DEF IsAhead, Ahead, Sorted
    <3>2. CASE k # i
      <4>1. PICK d : d = q.priv[k] /\ d = r.priv[k]
        BY <2>2, <3>2
      <4>2. /\ IsAhead(x, d, R) /\ Ahead(h, d, R) /\ Ahead(a, d, R) /\ Sorted(d, R)
            /\ Ahead(b, d, R)
        BY <2>1, <3>2, <4>1 DEF InLine
      <4>3. Ahead(c, d, R)
        BY <2>1, <2>2, <4>2, AheadJoin
      <4> QED BY <4>1, <4>2, <4>3
    <3> QED BY <3>1, <3>2
  <2> QED BY <2>2, <2>3, <2>4, <2>5 DEF InLine
<1> QED BY <1>1, <1>2

LEMMA LengthenedLine ==
  ASSUME NEW J, NEW K, K \subseteq J, NEW q, IsQueue(q, K), NEW r, NEW i \in Ids,
         NEW s \in Seq(J), Lengthened(q, r, i, s), NEW x \in K \cup {0}, NEW R, InLine(x, q, R),
         Sorted(s, R), \A y \in K : \A k \in 1..Len(s) : <<y, s[k]>> \in R
  PROVE  InLine(x, r, R)
<1>1. PICK h, a, b : /\ h = q.head /\ a = q.pending /\ b = q.priv[i]
                     /\ h \in Seq(K) /\ a \in Seq(K) /\ b \in Seq(K)
                     /\ h \in Seq(J) /\ a \in Seq(J) /\ b \in Seq(J)
  BY DEF IsQueue
<1>2. PICK c : /\ c = b \o s /\ r.head = h /\ r.pending = a /\ r.priv[i] = c
               /\ \A k \in Ids : k # i => r.priv[k] = q.priv[k]
  BY <1>1 DEF Lengthened
<1>3. /\ IsAhead(x, h, R) /\ IsAhead(x, a, R) /\ IsAhead(x, b, R) /\ Sorted(h, R)
      /\ Ahead(h, a, R) /\ Ahead(h, b, R) /\ Sorted(a, R) /\ Sorted(b, R) /\ Ahead(a, b, R)
  BY <1>1 DEF InLine
<1>4. ASSUME NEW u \in Seq(K) PROVE Ahead(u, s, R)
  BY DEF Ahead
<1>5. IsAhead(x, s, R)
  BY DEF IsAhead
<1>6. IsAhead(x, c, R) /\ Ahead(h, c, R) /\ Ahead(a, c, R)
  BY <1>1, <1>2, <1>3, <1>4, <1>5, AheadJoin
<1>7. Sorted(c, R)
  BY <1>1, <1>2, <1>3, <1>4, <1>5, SortedJoin
<1>8. ASSUME NEW k \in Ids
      PROVE  /\ IsAhead(x, r.priv[k], R) /\ Ahead(h, r.priv[k], R)
             /\ Ahead(a, r.priv[k], R) /\ Sorted(r.priv[k], R)
  BY <1>1, <1>2, <1>6, <1>7 DEF InLine
<1> QED BY <1>1, <1>2, <1>3, <1>8 DEF InLine

LEMMA TakenLine ==
  ASSUME NEW J, NEW q, IsQueue(q, J), NEW r, NEW x, Taken(q, r, x), NEW y, NEW R, InLine(y, q, R)
  PROVE  InLine(x, r, R)
<1>1. PICK h, a : h = q.head /\ a = q.pending /\ h \in Seq(J) /\ a \in Seq(J)
  BY DEF IsQueue
<1>2. /\ Sorted(h, R) /\ Ahead(h, a, R) /\ Sorted(a, R)
      /\ \A i \in Ids : Ahead(h, q.priv[i], R) /\ Ahead(a, q.priv[i], R) /\ Sorted(q.priv[i], R)
  BY <1>1 DEF InLine
<1>3. r.priv = q.priv
  BY DEF Taken
<1>4. CASE h # <<>>
  <2>1. x = Head(h) /\ r.head = Tail(h) /\ r.pending = a
    BY <1>1, <1>4 DEF Taken
  <2>2. Sorted(Tail(h), R) /\ IsAhead(x, Tail(h), R)
    BY <1>1, <1>2, <1>4, <2>1, HeadFirst
  <2>3. \A u : Ahead(h, u, R) => Ahead(Tail(h), u, R) /\ IsAhead(x, u, R)
    BY <1>1, <1>4, <2>1, HeadFirst
  <2> QED BY <1>2, <1>3, <2>1, <2>2, <2>3 DEF InLine
<1>5. CASE h = <<>> /\ a # <<>>
  <2>1. x = Head(a) /\ r.head = Tail(a) /\ r.pending = <<>>
    BY <1>1, <1>5 DEF Taken
  <2>2. Sorted(Tail(a), R) /\ IsAhead(x, Tail(a), R)
    BY <1>1, <1>2, <1>5, <2>1, HeadFirst
  <2>3. \A u : Ahead(a, u, R) => Ahead(Tail(a), u, R) /\ IsAhead(x, u, R)
    BY <1>1, <1>5, <2>1, HeadFirst
  <2>4. /\ IsAhead(x, <<>>, R) /\ Sorted(<<>>, R)
        /\ \A u : Ahead(u, <<>>, R) /\ Ahead(<<>>, u, R)
    BY DEF IsAhead, Sorted, Ahead
  <2> QED BY <1>2, <1>3, <2>1, <2>2, <2>3, <2>4 DEF InLine
<1>6. CASE h = <<>> /\ a = <<>>
  <2>1. x = 0 /\ r.head = h /\ r.pending = a
    BY <1>1, <1>6 DEF Taken
  <2> QED BY <1>2, <1>3, <2>1 DEF InLine, IsAhead
<1> QED BY <1>4, <1>5, <1>6

LEMMA LineGrows ==
  ASSUME NEW x, NEW q, NEW R, NEW S, InLine(x, q, R), R \subseteq S
  PROVE  InLine(x, q, S) /\ InLine(0, q, S)
BY DEF InLine, IsAhead, Ahead, Sorted

-----------------------------------------------------------------------------
(* How the writers' operations regroup and lengthen the lists *)
LEMMA FlushRegroups ==
  ASSUME NEW J, NEW q, IsQueue(q, J), NEW i \in Ids
  PROVE  /\ Regrouped(q, QFlush(q, i), i) /\ Regrouped(q, QUpdate(q, i), i)
         /\ QFlush(q, i).term = q.term /\ QUpdate(q, i).term = q.term
<1>1. Flushed(q, QFlush(q, i), i)
  BY FlushIs
<1> QED BY <1>1 DEF Flushed, Regrouped, SameLists, QUpdate

LEMMA TerminateRegroups ==
  ASSUME NEW J, NEW q, IsQueue(q, J), NEW i \in Ids
  PROVE  /\ Regrouped(q, QTerminate(q, i), i)
         /\ QTerminate(q, i).term = [q.term EXCEPT ![i] = TRUE]
<1>1. PICK r : r = [q EXCEPT !.term[i] = TRUE]
  OBVIOUS
<1>2. /\ IsQueue(r, J) /\ r.priv = q.priv /\ r.pending = q.pending /\ r.head = q.head
      /\ r.term = [q.term EXCEPT ![i] = TRUE]
  BY <1>1 DEF IsQueue
<1>3. Regrouped(r, QFlush(r, i), i) /\ QFlush(r, i).term = r.term /\ QTerminate(q, i) = QFlush(r, i)
  BY <1>1, <1>2, FlushRegroups DEF QTerminate
<1> QED BY <1>2, <1>3 DEF Regrouped, SameLists

(* Writing the jobs s through an open end *)
Stored(q, r, i, s) ==
  /\ r.head = q.head /\ r.term = q.term /\ r.need_flush = q.need_flush
  /\ \A k \in Ids : k # i => r.priv[k] = q.priv[k]
  /\ IF q.need_flush
       THEN r.priv[i] = <<>> /\ r.pending = q.pending \o (q.priv[i] \o s)
       ELSE r.priv[i] = q.priv[i] \o s /\ r.pending = q.pending

LEMMA BatchLengthened ==
  ASSUME NEW J, NEW q, IsQueue(q, J), NEW i \in Ids, NEW s \in Seq(J)
  PROVE  \E p : /\ p = [q EXCEPT !.priv[i] = @ \o s] /\ IsQueue(p, J) /\ Lengthened(q, p, i, s)
                /\ p.term = q.term /\ p.seen = q.seen /\ p.need_flush = q.need_flush
<1>1. PICK p : p = [q EXCEPT !.priv[i] = @ \o s]
  OBVIOUS
<1>2. PICK b : b = [q.priv EXCEPT ![i] = q.priv[i] \o s]
  OBVIOUS
<1>3. q.priv \in [Ids -> Seq(J)] /\ q.priv[i] \o s \in Seq(J)
  BY DEF IsQueue
<1>4. /\ b \in [Ids -> Seq(J)] /\ b[i] = q.priv[i] \o s
      /\ \A k \in Ids : k # i => b[k] = q.priv[k]
  BY <1>2, <1>3
<1>5. p = [q EXCEPT !.priv = b]
  BY <1>1, <1>2
<1>6. /\ IsQueue(p, J) /\ p.priv = b /\ p.head = q.head /\ p.pending = q.pending
      /\ p.term = q.term /\ p.seen = q.seen /\ p.need_flush = q.need_flush
  BY <1>4, <1>5 DEF IsQueue
<1>7. Lengthened(q, p, i, s)
  BY <1>4, <1>6 DEF Lengthened
<1> QED BY <1>1, <1>6, <1>7

LEMMA WriteStores ==
  ASSUME NEW J, NEW q, IsQueue(q, J), NEW i \in Ids, NEW j \in J, ~ q.term[i]
  PROVE  Stored(q, QWrite(q, i, j), i, <<j>>)
<1>0. <<j>> \in Seq(J)
  OBVIOUS
<1>1. PICK s \in Seq(J) : s = <<j>>
  BY <1>0
<1>2. PICK p : /\ p = [q EXCEPT !.priv[i] = @ \o s] /\ IsQueue(p, J)
               /\ Lengthened(q, p, i, s) /\ p.term = q.term /\ p.need_flush = q.need_flush
  <2>1. \E p : /\ p = [q EXCEPT !.priv[i] = @ \o s] /\ IsQueue(p, J) /\ Lengthened(q, p, i, s)
               /\ p.term = q.term /\ p.seen = q.seen /\ p.need_flush = q.need_flush
    BY BatchLengthened
  <2> QED BY <2>1
<1>3. q.priv[i] \o s = Append(q.priv[i], j)
  BY <1>1 DEF IsQueue
<1>4. QWrite(q, i, j) = QUpdate(p, i)
  BY <1>2, <1>3 DEF QWrite
<1>5. CASE q.need_flush
  <2>1. QUpdate(p, i) = QFlush(p, i) /\ Flushed(p, QFlush(p, i), i)
    BY <1>2, <1>5, FlushIs DEF QUpdate
  <2> QED BY <1>1, <1>2, <1>4, <1>5, <2>1 DEF Flushed, Stored, Lengthened
<1>6. CASE ~ q.need_flush
  BY <1>1, <1>2, <1>4, <1>6 DEF Stored, Lengthened, QUpdate
<1> QED BY <1>5, <1>6

LEMMA StoredIsPut ==
  ASSUME NEW J, NEW q, IsQueue(q, J), NEW r, IsQueue(r, J), NEW i \in Ids, NEW s \in Seq(J),
         Stored(q, r, i, s)
  PROVE  Put(q, r, i, s, J)
<1>1. PICK p : IsQueue(p, J) /\ Lengthened(q, p, i, s)
  BY BatchLengthened
<1>2. CASE q.need_flush
  BY <1>1, <1>2 DEF Put, Stored, Lengthened, Regrouped
<1>3. CASE ~ q.need_flush
  <2>1. r.priv = p.priv
    <3>1. \A k \in Ids : r.priv[k] = p.priv[k]
      BY <1>1, <1>3 DEF Stored, Lengthened
    <3> QED BY <1>1, <3>1 DEF IsQueue
  <2> QED BY <1>1, <1>3, <2>1 DEF Put, Stored, Lengthened, Regrouped, SameLists
<1> QED BY <1>2, <1>3

(* r is a and then the first n elements of s. *)
Prefixed(r, a, s, n) ==
  /\ Len(r) = Len(a) + n
  /\ \A k \in 1..Len(a) : r[k] = a[k]
  /\ \A k \in 1..n : r[Len(a) + k] = s[k]

LEMMA PrefixedMore ==
  ASSUME NEW J, NEW a \in Seq(J), NEW s \in Seq(J), NEW r \in Seq(J), NEW n \in Nat,
         Prefixed(r, a, s, n), NEW x \in J, x = s[n + 1]
  PROVE  Prefixed(r \o <<x>>, a, s, n + 1)
<1>1. PICK l \in Nat : l = Len(a)
  OBVIOUS
<1>2. PICK u : u = r \o <<x>>
  OBVIOUS
<1>3. Len(r) = l + n /\ (\A k \in 1..l : r[k] = a[k]) /\ (\A k \in 1..n : r[l + k] = s[k])
  BY <1>1 DEF Prefixed
<1>4. Len(u) = (l + n) + 1 /\ u[(l + n) + 1] = x /\ \A k \in 1..(l + n) : u[k] = r[k]
  BY <1>2, <1>3
<1>5. \A k \in 1..l : u[k] = a[k]
  BY <1>3, <1>4
<1>6. ASSUME NEW k \in 1..(n + 1) PROVE u[l + k] = s[k]
  <2>1. CASE k = n + 1
    <3>1. l + k = (l + n) + 1
      BY <2>1
    <3> QED BY <1>4, <2>1, <3>1
  <2>2. CASE k # n + 1
    <3>1. k \in 1..n /\ l + k \in 1..(l + n)
      BY <2>2
    <3> QED BY <1>3, <1>4, <3>1
  <2> QED BY <2>1, <2>2
<1>7. (l + n) + 1 = l + (n + 1)
  OBVIOUS
<1> QED BY <1>1, <1>2, <1>4, <1>5, <1>6, <1>7 DEF Prefixed

LEMMA PrefixedAll ==
  ASSUME NEW J, NEW a \in Seq(J), NEW s \in Seq(J), NEW r \in Seq(J), Prefixed(r, a, s, Len(s))
  PROVE  r = a \o s
<1>1. PICK c, l, n : c = a \o s /\ l = Len(a) /\ n = Len(s)
  OBVIOUS
<1>2. c \in Seq(J) /\ Joined(c, a, s, l)
  BY <1>1, JoinIs
<1>3. Len(r) = l + n /\ (\A k \in 1..l : r[k] = a[k]) /\ (\A k \in 1..n : r[l + k] = s[k])
  BY <1>1 DEF Prefixed
<1>4. Len(c) = Len(r)
  BY <1>1, <1>2, <1>3 DEF Joined
<1>5. ASSUME NEW k \in 1..Len(c) PROVE c[k] = r[k]
  <2>1. CASE k \in 1..l
    BY <1>2, <1>3, <2>1 DEF Joined
  <2>2. CASE k \notin 1..l
    <3>1. PICK x \in 1..n : k = l + x
      BY <1>1, <1>2, <2>2 DEF Joined
    <3> QED BY <1>1, <1>2, <1>3, <3>1 DEF Joined
  <2> QED BY <2>1, <2>2
<1>6. c = r
  BY <1>2, <1>4, <1>5, SeqEqual
<1> QED BY <1>1, <1>6

LEMMA JoinAssociative ==
  ASSUME NEW J, NEW a \in Seq(J), NEW b \in Seq(J), NEW c \in Seq(J)
  PROVE  (a \o b) \o c = a \o (b \o c)
BY ConcatAssociative

LEMMA WriteOwnStores ==
  ASSUME NEW J, NEW q, IsQueue(q, J), NEW i \in Ids, NEW s \in Seq(J), s # <<>>, ~ q.term[i]
  PROVE  Stored(q, WriteOwn(q, i, s), i, s)
<1>1. PICK n \in Nat : n = Len(s) /\ n # 0 /\ \A k \in 1..n : s[k] \in J
  OBVIOUS
<1>2. PICK f : WriteLoop(f, q, i, s, n) /\ WriteOwn(q, i, s) = f[n]
  <2> DEFINE f == CHOOSE g : WriteLoop(g, q, i, s, n)
  <2>1. WriteLoop(f, q, i, s, n)
    BY WriteLoopExists
  <2>2. WriteOwn(q, i, s) = f[n]
    BY <1>1 DEF WriteOwn, WriteLoop
  <2> QED BY <2>1, <2>2
<1>3. f[0] = q /\ \A k \in 1..n : f[k] = QWrite(f[k - 1], i, s[k])
  BY <1>2 DEF WriteLoop
<1>4. PICK a, b, c : /\ a = q.priv[i] /\ b = q.pending /\ c = b \o a
                     /\ a \in Seq(J) /\ b \in Seq(J) /\ c \in Seq(J)
  <2>1. PICK a, b : a = q.priv[i] /\ b = q.pending /\ a \in Seq(J) /\ b \in Seq(J)
    BY DEF IsQueue
  <2>2. b \o a \in Seq(J)
    BY <2>1
  <2> QED BY <2>1, <2>2
<1> DEFINE Good(k) ==
             /\ IsQueue(f[k], J) /\ f[k].head = q.head /\ f[k].term = q.term
             /\ f[k].need_flush = q.need_flush
             /\ \A l \in Ids : l # i => f[k].priv[l] = q.priv[l]
             /\ IF q.need_flush
                  THEN f[k].priv[i] = <<>> /\ Prefixed(f[k].pending, c, s, k)
                  ELSE f[k].pending = b /\ Prefixed(f[k].priv[i], a, s, k)
           T == {k \in 1..n : ~ Good(k)}
<1>5. T \subseteq 1..n /\ \A k \in 1..n : k \notin T <=> Good(k)
  OBVIOUS
<1>6. \A d \in Seq(J) : Prefixed(d, d, s, 0)
  BY DEF Prefixed
<1>7. Good(1)
  <2>1. PICK r, x : r = f[1] /\ x = s[1] /\ r = QWrite(q, i, x) /\ x \in J
    BY <1>1, <1>3
  <2>2. Stored(q, r, i, <<x>>) /\ IsQueue(r, J)
    BY <2>1, WriteStores, WriteWrites
  <2>3. \A d \in Seq(J) : Prefixed(d \o <<x>>, d, s, 1)
    <3>1. x = s[0 + 1] /\ 0 + 1 = 1 /\ 0 \in Nat
      BY <2>1
    <3>2. ASSUME NEW d \in Seq(J) PROVE Prefixed(d \o <<x>>, d, s, 0 + 1)
      BY <1>6, <2>1, <3>1, PrefixedMore
    <3> QED BY <3>1, <3>2
  <2>4. b \o (a \o <<x>>) = c \o <<x>>
    <3>1. <<x>> \in Seq(J)
      BY <2>1
    <3>0. a \in Seq(J) /\ b \in Seq(J)
      BY <1>4
    <3>2. (b \o a) \o <<x>> = b \o (a \o <<x>>)
      BY <3>0, <3>1, JoinAssociative
    <3> QED BY <1>4, <3>2
  <2>5. CASE q.need_flush
    <3>1. r.priv[i] = <<>> /\ r.pending = c \o <<x>>
      BY <1>4, <2>2, <2>4, <2>5 DEF Stored
    <3>2. Prefixed(r.pending, c, s, 1)
      BY <1>4, <2>3, <3>1
    <3> QED BY <2>1, <2>2, <2>5, <3>1, <3>2 DEF Stored
  <2>6. CASE ~ q.need_flush
    <3>1. r.pending = b /\ r.priv[i] = a \o <<x>>
      BY <1>4, <2>2, <2>6 DEF Stored
    <3>2. Prefixed(r.priv[i], a, s, 1)
      BY <1>4, <2>3, <3>1
    <3> QED BY <2>1, <2>2, <2>6, <3>1, <3>2 DEF Stored
  <2> QED BY <2>5, <2>6
<1>8. ASSUME NEW m \in 1..n, m + 1 \in 1..n, Good(m) PROVE Good(m + 1)
  <2>1. PICK p, r, x : p = f[m] /\ r = f[m + 1] /\ x = s[m + 1]
    OBVIOUS
  <2>2. r = QWrite(p, i, x) /\ x \in J /\ m \in Nat
    <3>1. (m + 1) - 1 = m
      OBVIOUS
    <3> QED BY <1>1, <1>3, <1>8, <2>1, <3>1
  <2>3. /\ IsQueue(p, J) /\ p.head = q.head /\ p.term = q.term /\ p.need_flush = q.need_flush
        /\ \A l \in Ids : l # i => p.priv[l] = q.priv[l]
        /\ IF q.need_flush THEN p.priv[i] = <<>> /\ Prefixed(p.pending, c, s, m)
                           ELSE p.pending = b /\ Prefixed(p.priv[i], a, s, m)
    BY <1>8, <2>1
  <2>4. Stored(p, r, i, <<x>>) /\ IsQueue(r, J)
    BY <2>2, <2>3, WriteStores, WriteWrites
  <2>5. CASE q.need_flush
    <3>1. PICK d \in Seq(J) : d = p.pending /\ Prefixed(d, c, s, m)
      BY <2>3, <2>5 DEF IsQueue
    <3>2. <<>> \o <<x>> = <<x>>
      BY <2>2
    <3>3. r.priv[i] = <<>> /\ r.pending = d \o <<x>>
      BY <2>3, <2>4, <2>5, <3>1, <3>2 DEF Stored
    <3>4. Prefixed(r.pending, c, s, m + 1)
      BY <1>4, <2>1, <2>2, <3>1, <3>3, PrefixedMore
    <3> QED BY <2>1, <2>3, <2>4, <2>5, <3>3, <3>4 DEF Stored
  <2>6. CASE ~ q.need_flush
    <3>1. PICK d \in Seq(J) : d = p.priv[i] /\ Prefixed(d, a, s, m)
      BY <2>3, <2>6 DEF IsQueue
    <3>2. r.pending = b /\ r.priv[i] = d \o <<x>>
      BY <2>3, <2>4, <2>6, <3>1 DEF Stored
    <3>3. Prefixed(r.priv[i], a, s, m + 1)
      BY <1>4, <2>1, <2>2, <3>1, <3>2, PrefixedMore
    <3> QED BY <2>1, <2>3, <2>4, <2>6, <3>2, <3>3 DEF Stored
  <2> QED BY <2>5, <2>6
<1> HIDE DEF T, Good
<1>9. T = {}
  <2> SUFFICES ASSUME T # {} PROVE FALSE
    OBVIOUS
  <2>1. T \subseteq Nat
    BY <1>5
  <2>2. PICK m \in T : \A k \in T : m <= k
    BY <2>1, LeastNat
  <2>3. m \in 1..n /\ m # 1
    BY <1>5, <1>7, <2>2
  <2>4. PICK l \in 1..n : m = l + 1
    <3>1. m - 1 \in 1..n /\ m = (m - 1) + 1
      BY <1>1, <2>3
    <3> QED BY <3>1
  <2>5. l \notin T
    BY <2>2, <2>4
  <2> QED BY <1>5, <1>8, <2>2, <2>3, <2>4, <2>5
<1>10. Good(n)
  <2>1. n \in 1..n
    BY <1>1
  <2> QED BY <1>5, <1>9, <2>1
<1>11. PICK r : r = f[n] /\ r = WriteOwn(q, i, s)
  BY <1>2
<1>12. /\ IsQueue(r, J) /\ r.head = q.head /\ r.term = q.term /\ r.need_flush = q.need_flush
       /\ \A l \in Ids : l # i => r.priv[l] = q.priv[l]
       /\ IF q.need_flush THEN r.priv[i] = <<>> /\ Prefixed(r.pending, c, s, Len(s))
                          ELSE r.pending = b /\ Prefixed(r.priv[i], a, s, Len(s))
  BY <1>1, <1>10, <1>11 DEF Good
<1>13. r.pending \in Seq(J) /\ r.priv[i] \in Seq(J)
  BY <1>12 DEF IsQueue
<1>14. CASE q.need_flush
  <2>1. r.pending = c \o s
    BY <1>4, <1>12, <1>13, <1>14, PrefixedAll
  <2>2. r.pending = b \o (a \o s)
    <3>0. a \in Seq(J) /\ b \in Seq(J)
      BY <1>4
    <3>1. (b \o a) \o s = b \o (a \o s)
      BY <3>0, JoinAssociative
    <3> QED BY <1>4, <2>1, <3>1
  <2> QED BY <1>4, <1>11, <1>12, <1>14, <2>2 DEF Stored
<1>15. CASE ~ q.need_flush
  <2>1. r.priv[i] = a \o s
    BY <1>4, <1>12, <1>13, <1>15, PrefixedAll
  <2> QED BY <1>4, <1>11, <1>12, <1>15, <2>1 DEF Stored
<1> QED BY <1>14, <1>15

LEMMA WriteOwnClosed ==
  ASSUME NEW J, NEW q, IsQueue(q, J), NEW i \in Ids, NEW s \in Seq(J), q.term[i]
  PROVE  WriteOwn(q, i, s) = q
<1>1. PICK n \in Nat : n = Len(s)
  OBVIOUS
<1>2. PICK f : WriteLoop(f, q, i, s, n) /\ WriteOwn(q, i, s) = f[n]
  <2> DEFINE f == CHOOSE g : WriteLoop(g, q, i, s, n)
  <2>1. WriteLoop(f, q, i, s, n)
    BY WriteLoopExists
  <2>2. WriteOwn(q, i, s) = f[n]
    BY <1>1 DEF WriteOwn, WriteLoop
  <2> QED BY <2>1, <2>2
<1>3. f[0] = q /\ \A k \in 1..n : f[k] = QWrite(f[k - 1], i, s[k])
  BY <1>2 DEF WriteLoop
<1> DEFINE T == {k \in 0..n : f[k] # q}
<1>4. T \subseteq 0..n /\ \A k \in 0..n : k \notin T <=> f[k] = q
  OBVIOUS
<1> HIDE DEF T
<1>5. T = {}
  <2> SUFFICES ASSUME T # {} PROVE FALSE
    OBVIOUS
  <2>1. T \subseteq Nat
    BY <1>4
  <2>2. PICK m \in T : \A k \in T : m <= k
    BY <2>1, LeastNat
  <2>3. m \in 1..n
    BY <1>3, <1>4, <2>2
  <2>4. PICK l \in 0..n : l = m - 1 /\ l < m
    BY <2>3
  <2>5. f[l] = q
    BY <1>4, <2>2, <2>4
  <2>6. f[m] = QWrite(q, i, s[m])
    BY <1>3, <2>3, <2>4, <2>5
  <2>7. f[m] = q
    BY <2>6 DEF QWrite
  <2> QED BY <1>4, <2>2, <2>7
<1>6. n \in 0..n
  OBVIOUS
<1> QED BY <1>2, <1>4, <1>5, <1>6

-----------------------------------------------------------------------------
(* Steps that leave jobs where they are *)
LEMMA JobIs ==
  ASSUME Inv, NEW j \in JobIds
  PROVE  HomeOf(j) \in Workers /\ jobs[j].vid \in Vids /\ jobs[j].by \in Ids /\ j # 0
<1>1. jobs[j] \in JobType
  BY DEF Inv, Typed, JobIds
<1>2. j # 0
  BY DEF JobIds
<1> QED BY <1>1, <1>2, ThreadMgrAssumption DEF JobType, HomeOf

LEMMA QueueIs ==
  ASSUME Inv, NEW t \in Workers
  PROVE  IsQueue(queue[t], JobIds)
BY DEF Inv, Typed, QueuesTyped

Unmoved(j) ==
  /\ jobs'[j] = jobs[j]
  /\ \A t \in Workers : /\ NotQueued(queue[t], j) => NotQueued(queue'[t], j)
                        /\ OnceQueued(queue[t], j) => OnceQueued(queue'[t], j)
                        /\ job'[t] = j <=> job[t] = j
  /\ \A t \in Workers, v \in Vids :
       /\ Absent(blocked[t][v], j) => Absent(blocked'[t][v], j)
       /\ Once(blocked[t][v], j) => Once(blocked'[t][v], j)
  /\ j \in done' <=> j \in done
  /\ j \in lost' <=> j \in lost
  /\ j \in deleted' <=> j \in deleted

Found(j) == StaysHome(j) /\ \E h \in Homes : IsIn(j, h)

LEMMA UnmovedStays ==
  ASSUME Inv, NEW j \in JobIds, Found(j), Unmoved(j)
  PROVE  Found(j)'
<1>1. PICK h \in Homes : IsIn(j, h)
  BY DEF Found
<1>2. PICK t, v : t = HomeOf(j) /\ v = jobs[j].vid /\ t \in Workers /\ v \in Vids
  BY JobIs
<1>3. t = HomeOf(j)' /\ v = jobs'[j].vid
  BY <1>2 DEF Unmoved, HomeOf
<1>4. StaysHome(j)'
  BY <1>2, <1>3 DEF Found, StaysHome, Unmoved
<1>5. /\ IF h = "queue" THEN OnceQueued(queue'[t], j) ELSE NotQueued(queue'[t], j)
      /\ IF h = "blocked" THEN Once(blocked'[t][v], j) ELSE Absent(blocked'[t][v], j)
  BY <1>1, <1>2 DEF IsIn, Unmoved
<1>6. /\ job'[t] = j <=> h = "held"
      /\ j \in done' <=> h = "done"
      /\ j \in lost' <=> h = "lost"
      /\ j \in deleted' <=> h = "deleted"
  BY <1>1, <1>2 DEF IsIn, Unmoved
<1>7. IsIn(j, h)'
  BY <1>3, <1>5, <1>6 DEF IsIn
<1> QED BY <1>4, <1>7 DEF Found

LEMMA FoundAll ==
  ASSUME JobIds' = JobIds, (done \cup lost \cup deleted)' \subseteq JobIds, \A j \in JobIds : Found(j)'
  PROVE  JobsInv'
BY DEF JobsInv, Found

(* The ends of the queues that are closed stay closed. *)
EndsKept == \A t \in Workers, k \in Ids : queue[t].term[k] => queue'[t].term[k]

BegunKept == \A j \in JobIds : ~ Fresh(j) => ~ Fresh(j)'

LEMMA PrecedeKept ==
  ASSUME JobIds \subseteq JobIds', \A j \in JobIds : jobs'[j] = jobs[j], BegunKept
  PROVE  MayPrecede \subseteq MayPrecede'
BY DEF MayPrecede, BegunKept

LEMMA OwnCross ==
  ASSUME NEW q, IsQueue(q, JobIds), OwnBatch(q), NEW i \in Ids, NEW k \in Ids, k # i
  PROVE  Ahead(q.priv[i], q.priv[k], MayPrecede)
<1>1. PICK a, b : a = q.priv[i] /\ b = q.priv[k] /\ a \in Seq(JobIds) /\ b \in Seq(JobIds)
  BY DEF IsQueue
<1>2. /\ \A l \in 1..Len(a) : a[l] \in JobIds /\ (Fresh(a[l]) => jobs[a[l]].by = i)
      /\ \A l \in 1..Len(b) : b[l] \in JobIds /\ (Fresh(b[l]) => jobs[b[l]].by = k)
  BY <1>1 DEF OwnBatch
<1>3. ASSUME NEW l \in 1..Len(a), NEW m \in 1..Len(b) PROVE <<a[l], b[m]>> \in MayPrecede
  BY <1>2 DEF MayPrecede
<1> QED BY <1>1, <1>3 DEF Ahead

LEMMA OwnCrossNext ==
  ASSUME NEW q, IsQueue(q, JobIds'), OwnBatch(q)', NEW i \in Ids, NEW k \in Ids, k # i
  PROVE  Ahead(q.priv[i], q.priv[k], MayPrecede')
<1>1. PICK a, b : a = q.priv[i] /\ b = q.priv[k] /\ a \in Seq(JobIds') /\ b \in Seq(JobIds')
  BY DEF IsQueue
<1>2. /\ \A l \in 1..Len(a) : a[l] \in JobIds' /\ (Fresh(a[l])' => jobs'[a[l]].by = i)
      /\ \A l \in 1..Len(b) : b[l] \in JobIds' /\ (Fresh(b[l])' => jobs'[b[l]].by = k)
  BY <1>1 DEF OwnBatch
<1>3. ASSUME NEW l \in 1..Len(a), NEW m \in 1..Len(b) PROVE <<a[l], b[m]>> \in MayPrecede'
  BY <1>2 DEF MayPrecede
<1> QED BY <1>1, <1>3 DEF Ahead

LEMMA OwnKept ==
  ASSUME NEW q, IsQueue(q, JobIds), OwnBatch(q), \A j \in JobIds : jobs'[j] = jobs[j], BegunKept
  PROVE  OwnBatch(q)'
<1>1. \A i \in Ids : \A k \in 1..Len(q.priv[i]) : q.priv[i][k] \in JobIds
  BY DEF IsQueue
<1> QED BY <1>1 DEF OwnBatch, BegunKept

LEMMA LineStays ==
  ASSUME Inv, LineInv, UNCHANGED jobs, BegunKept, NEW i \in Ids,
         \A t \in Workers : Regrouped(queue[t], queue'[t], i) /\ job'[t] \in {job[t], 0}
  PROVE  LineInv'
<1>1. MayPrecede \subseteq MayPrecede'
  <2>1. JobIds' = JobIds
    BY DEF JobIds
  <2> QED BY <2>1, PrecedeKept
<1>2. ASSUME NEW t \in Workers
      PROVE  InLine(job'[t], queue'[t], MayPrecede') /\ OwnBatch(queue[t])'
  <2>1. PICK q, r, x : q = queue[t] /\ r = queue'[t] /\ x = job[t]
    OBVIOUS
  <2>2. IsQueue(q, JobIds) /\ InLine(x, q, MayPrecede) /\ OwnBatch(q) /\ Regrouped(q, r, i)
    BY <2>1, QueueIs DEF LineInv
  <2>3. \A k \in Ids : k # i => Ahead(q.priv[i], q.priv[k], MayPrecede)
    BY <2>2, OwnCross
  <2>4. InLine(x, r, MayPrecede)
    BY <2>2, <2>3, RegroupedLine
  <2>5. InLine(x, r, MayPrecede') /\ InLine(0, r, MayPrecede')
    BY <1>1, <2>4, LineGrows
  <2>6. OwnBatch(q)'
    BY <2>2, OwnKept
  <2>7. ASSUME NEW k \in Ids PROVE r.priv[k] = q.priv[k] \/ r.priv[k] = <<>>
    BY <2>2 DEF Regrouped, SameLists
  <2>8. OwnBatch(r)'
    BY <2>6, <2>7 DEF OwnBatch
  <2>9. OwnBatch(queue[t])'
    BY <2>1, <2>8 DEF OwnBatch
  <2> QED BY <2>1, <2>5, <2>9
<1> QED BY <1>2 DEF LineInv

LEMMA LostStays ==
  ASSUME Inv, LostInv, lost \subseteq JobIds, UNCHANGED <<jobs, deleted>>, BegunKept, EndsKept,
         lost \subseteq lost', lost' \subseteq JobIds, \A j \in lost' : j \in lost \/ ~ Fresh(j)',
         mpc = "deleted" => mpc' = "deleted"
  PROVE  LostInv'
<1>1. JobIds' = JobIds
  BY DEF JobIds
<1>2. deleted' # {} => mpc' = "deleted"
  BY DEF LostInv
<1>3. ASSUME NEW j \in lost', Fresh(j)'
      PROVE  /\ mpc' = "deleted" \/ queue'[HomeOf(j)'].term[jobs'[j].by]
             /\ \A k \in JobIds : /\ HomeOf(k)' = HomeOf(j)' /\ jobs'[k].by = jobs'[j].by
                                  /\ Fresh(k)' /\ k \notin lost'
                                  => k < j
  <2>1. j \in lost /\ j \in JobIds /\ Fresh(j)
    BY <1>3 DEF BegunKept
  <2>2. /\ mpc = "deleted" \/ queue[HomeOf(j)].term[jobs[j].by]
        /\ \A k \in JobIds : /\ HomeOf(k) = HomeOf(j) /\ jobs[k].by = jobs[j].by
                             /\ Fresh(k) /\ k \notin lost
                             => k < j
    BY <2>1 DEF LostInv
  <2>3. HomeOf(j) \in Workers /\ jobs[j].by \in Ids
    BY <2>1, JobIs
  <2>4. \A k : HomeOf(k)' = HomeOf(k)
    BY DEF HomeOf
  <2>5. mpc' = "deleted" \/ queue'[HomeOf(j)'].term[jobs'[j].by]
    BY <2>2, <2>3, <2>4 DEF EndsKept
  <2>6. ASSUME NEW k \in JobIds, HomeOf(k)' = HomeOf(j)', jobs'[k].by = jobs'[j].by,
               Fresh(k)', k \notin lost'
        PROVE  k < j
    BY <2>2, <2>4, <2>6 DEF BegunKept
  <2> QED BY <2>5, <2>6
<1> QED BY <1>1, <1>2, <1>3 DEF LostInv

LEMMA SameBegun ==
  ASSUME UNCHANGED begun
  PROVE  BegunKept /\ \A j : Fresh(j)' <=> Fresh(j)
BY DEF Fresh, BegunKept

LEMMA JobsStay ==
  ASSUME Inv, JobsInv, UNCHANGED <<jobs, blocked, job, done, lost, deleted>>, NEW i \in Ids,
         \A t \in Workers : Regrouped(queue[t], queue'[t], i)
  PROVE  JobsInv'
<1>1. JobIds' = JobIds
  BY DEF JobIds
<1>2. ASSUME NEW j \in JobIds PROVE Found(j)'
  <2>1. ASSUME NEW t \in Workers PROVE /\ NotQueued(queue[t], j) => NotQueued(queue'[t], j)
                                       /\ OnceQueued(queue[t], j) => OnceQueued(queue'[t], j)
    BY QueueIs, RegroupedCounts
  <2>2. Unmoved(j)
    BY <2>1 DEF Unmoved
  <2>3. Found(j)
    BY DEF JobsInv, Found
  <2> QED BY <2>2, <2>3, UnmovedStays
<1>3. (done \cup lost \cup deleted)' \subseteq JobIds
  BY DEF JobsInv
<1> QED BY <1>1, <1>2, <1>3, FoundAll

(* No job moves between a queue, a blocked list and a hand, or begins. *)
Quiet(i) ==
  /\ UNCHANGED <<jobs, blocked, job, begun, done, lost, deleted>>
  /\ \A t \in Workers : Regrouped(queue[t], queue'[t], i)
  /\ EndsKept
  /\ \A w \in Workers : pc'[w] = "run" => pc[w] = "run"
  /\ mpc = "deleted" => mpc' = "deleted"

LEMMA QuietKeeps ==
  ASSUME Inv, JobsInv, OrderInv, NEW i \in Ids, Quiet(i)
  PROVE  JobsInv' /\ OrderInv'
<1>1. UNCHANGED <<jobs, blocked, job, begun, done, lost, deleted>> /\ JobIds' = JobIds
  BY DEF Quiet, JobIds
<1>2. JobsInv'
  BY <1>1, JobsStay DEF Quiet
<1>3. BegunInv'
  BY <1>1, SameBegun DEF OrderInv, BegunInv, Quiet
<1>4. LineInv'
  BY <1>1, SameBegun, LineStays DEF OrderInv, Quiet
<1>5. LostInv'
  <2>1. lost \subseteq JobIds
    BY DEF JobsInv
  <2> QED BY <1>1, <2>1, SameBegun, LostStays DEF OrderInv, Quiet
<1>6. ScheduledOrder'
  BY <1>1 DEF OrderInv, ScheduledOrder, Before
<1> QED BY <1>2, <1>3, <1>4, <1>5, <1>6 DEF OrderInv

-----------------------------------------------------------------------------
(* Writer i puts the jobs s into the queue of worker t. *)
PutInto(t, i, s) ==
  \A u \in Workers : IF u = t THEN Put(queue[u], queue'[u], i, s, JobIds')
                              ELSE SameLists(queue[u], queue'[u])

Untouched == \A u \in Workers : queue'[u] = queue[u]

LEMMA PutOwn ==
  ASSUME NEW q, IsQueue(q, JobIds'), OwnBatch(q)', NEW p, NEW i \in Ids, NEW s \in Seq(JobIds'),
         Lengthened(q, p, i, s), \A k \in 1..Len(s) : Fresh(s[k])' => jobs'[s[k]].by = i
  PROVE  OwnBatch(p)'
<1>1. PICK a, b : a = q.priv[i] /\ a \in Seq(JobIds') /\ b = a \o s
  BY DEF IsQueue
<1>2. Joined(b, a, s, Len(a)) /\ p.priv[i] = b
  BY <1>1, JoinIs DEF Lengthened
<1>3. ASSUME NEW k \in 1..Len(b) PROVE Fresh(b[k])' => jobs'[b[k]].by = i
  <2>1. \/ \E l \in 1..Len(a) : b[k] = a[l]
        \/ \E l \in 1..Len(s) : b[k] = s[l]
    BY <1>2 DEF Joined
  <2> QED BY <1>1, <2>1 DEF OwnBatch
<1>4. ASSUME NEW l \in Ids PROVE \A k \in 1..Len(p.priv[l]) : Fresh(p.priv[l][k])' => jobs'[p.priv[l][k]].by = l
  <2>1. CASE l = i
    BY <1>2, <1>3, <2>1
  <2>2. CASE l # i
    BY <2>2 DEF OwnBatch, Lengthened
  <2> QED BY <2>1, <2>2
<1> QED BY <1>4 DEF OwnBatch

LEMMA LinePut ==
  ASSUME Inv, LineInv, JobIds \subseteq JobIds', \A j \in JobIds : jobs'[j] = jobs[j], BegunKept,
         NEW t \in Workers, NEW i \in Ids, NEW s \in Seq(JobIds'), PutInto(t, i, s),
         \A u \in Workers : job'[u] \in {job[u], 0},
         \A k \in 1..Len(s) : Fresh(s[k])' => jobs'[s[k]].by = i,
         Sorted(s, MayPrecede'), \A y \in JobIds : \A k \in 1..Len(s) : <<y, s[k]>> \in MayPrecede'
  PROVE  LineInv'
<1>1. MayPrecede \subseteq MayPrecede'
  BY PrecedeKept
<1>2. ASSUME NEW u \in Workers
      PROVE  InLine(job'[u], queue'[u], MayPrecede') /\ OwnBatch(queue[u])'
  <2>1. PICK q, r, x, R : q = queue[u] /\ r = queue'[u] /\ x = job[u] /\ R = MayPrecede'
    OBVIOUS
  <2>2. /\ IsQueue(q, JobIds') /\ InLine(x, q, R) /\ OwnBatch(q)'
        /\ x \in JobIds \cup {0} /\ IsQueue(q, JobIds)
    <3>1. IsQueue(q, JobIds) /\ InLine(x, q, MayPrecede) /\ OwnBatch(q)
      BY <2>1, QueueIs DEF LineInv
    <3>2. IsQueue(q, JobIds') /\ InLine(x, q, R) /\ OwnBatch(q)'
      BY <1>1, <2>1, <3>1, QueueGrows, LineGrows, OwnKept
    <3>3. x \in JobIds \cup {0}
      BY <2>1 DEF Inv, Typed
    <3> QED BY <3>1, <3>2, <3>3
  <2>3. CASE u # t
    <3>1. SameLists(q, r)
      BY <2>1, <2>3 DEF PutInto
    <3>2. InLine(x, r, R) /\ OwnBatch(r)'
      BY <2>2, <3>1 DEF SameLists, InLine, OwnBatch
    <3>3. InLine(0, r, R)
      BY <3>2, LineGrows
    <3>4. OwnBatch(queue[u])'
      BY <2>1, <3>2 DEF OwnBatch
    <3> QED BY <2>1, <3>2, <3>3, <3>4
  <2>4. CASE u = t
    <3>1. PICK p : IsQueue(p, JobIds') /\ Lengthened(q, p, i, s) /\ Regrouped(p, r, i)
      BY <2>1, <2>4 DEF PutInto, Put
    <3>2. OwnBatch(p)'
      BY <2>2, <3>1, PutOwn
    <3>3. InLine(x, p, R)
      BY <2>1, <2>2, <3>1, LengthenedLine
    <3>4. \A k \in Ids : k # i => Ahead(p.priv[i], p.priv[k], R)
      BY <2>1, <3>1, <3>2, OwnCrossNext
    <3>5. InLine(x, r, R)
      BY <3>1, <3>3, <3>4, RegroupedLine
    <3>6. InLine(0, r, R)
      BY <3>5, LineGrows
    <3>7. ASSUME NEW k \in Ids PROVE r.priv[k] = p.priv[k] \/ r.priv[k] = <<>>
      BY <3>1 DEF Regrouped, SameLists
    <3>8. OwnBatch(r)'
      BY <3>2, <3>7 DEF OwnBatch
    <3>9. OwnBatch(queue[u])'
      BY <2>1, <3>8 DEF OwnBatch
    <3> QED BY <2>1, <3>5, <3>6, <3>9
  <2> QED BY <2>3, <2>4
<1> QED BY <1>2 DEF LineInv

(* A write or a rewrite of jobs is put into the queue unless the end is closed. *)
LEMMA WritePuts ==
  ASSUME Inv, NEW i \in Ids, NEW t \in Workers, NEW j \in JobIds', JobIds \subseteq JobIds',
         queue' = [queue EXCEPT ![t] = QWrite(@, i, j)]
  PROVE  /\ IF queue[t].term[i] THEN Untouched ELSE PutInto(t, i, <<j>>)
         /\ \A u \in Workers : queue'[u].term = queue[u].term
<1>1. DOMAIN queue = Workers /\ IsQueue(queue[t], JobIds')
  BY QueueIs, QueueGrows DEF Inv, Typed, QueuesTyped
<1>2. \A u \in Workers : queue'[u] = IF u = t THEN QWrite(queue[t], i, j) ELSE queue[u]
  BY <1>1
<1>3. IsQueue(QWrite(queue[t], i, j), JobIds') /\ QWrite(queue[t], i, j).term = queue[t].term
  BY <1>1, WriteWrites
<1>4. ASSUME queue[t].term[i] PROVE Untouched
  <2>1. QWrite(queue[t], i, j) = queue[t]
    BY <1>4 DEF QWrite
  <2> QED BY <1>2, <2>1 DEF Untouched
<1>5. ASSUME ~ queue[t].term[i] PROVE PutInto(t, i, <<j>>)
  <2>1. <<j>> \in Seq(JobIds')
    OBVIOUS
  <2>2. Stored(queue[t], QWrite(queue[t], i, j), i, <<j>>)
    BY <1>1, <1>5, WriteStores
  <2>3. Put(queue[t], QWrite(queue[t], i, j), i, <<j>>, JobIds')
    BY <1>1, <1>3, <2>1, <2>2, StoredIsPut
  <2> QED BY <1>2, <2>3 DEF PutInto, SameLists
<1> QED BY <1>2, <1>3, <1>4, <1>5

LEMMA UnblockPuts ==
  ASSUME Inv, UNCHANGED jobs, NEW t \in Workers, NEW v \in Vids, Unblock(t, v)
  PROVE  /\ IF queue[t].term[t] THEN Untouched ELSE PutInto(t, t, blocked[t][v])
         /\ \A u \in Workers : queue'[u].term = queue[u].term
<1>1. PICK q, s, r : q = queue[t] /\ s = blocked[t][v] /\ r = WriteOwn(q, t, s)
  OBVIOUS
<1>2. /\ DOMAIN queue = Workers /\ IsQueue(q, JobIds) /\ s \in Seq(JobIds) /\ s # <<>> /\ t \in Ids
      /\ JobIds' = JobIds
  BY <1>1, IdsAre DEF Inv, Typed, QueuesTyped, Unblock, JobIds
<1>3. \A u \in Workers : queue'[u] = IF u = t THEN r ELSE queue[u]
  BY <1>1, <1>2 DEF Unblock
<1>4. IsQueue(r, JobIds) /\ r.term = q.term
  BY <1>1, <1>2, WriteOwnWrites
<1>5. ASSUME q.term[t] PROVE Untouched
  <2>1. r = q
    BY <1>1, <1>2, <1>5, WriteOwnClosed
  <2> QED BY <1>1, <1>3, <2>1 DEF Untouched
<1>6. ASSUME ~ q.term[t] PROVE PutInto(t, t, s)
  <2>1. Stored(q, r, t, s)
    BY <1>1, <1>2, <1>6, WriteOwnStores
  <2>2. Put(q, r, t, s, JobIds')
    BY <1>2, <1>4, <2>1, StoredIsPut
  <2> QED BY <1>1, <1>3, <2>2 DEF PutInto, SameLists
<1> QED BY <1>1, <1>3, <1>4, <1>5, <1>6

-----------------------------------------------------------------------------
(* Steps that move jobs *)

(* What is needed besides the lines if no job begins and none is scheduled *)
LEMMA OrderFollows ==
  ASSUME Inv, JobsInv, OrderInv, LineInv', UNCHANGED <<jobs, begun, deleted>>, EndsKept,
         \A w \in Workers : pc'[w] = "run" => pc[w] = "run" /\ job'[w] = job[w],
         \A t \in Workers, v \in Vids : \A k \in 1..Len(blocked'[t][v]) : ~ Fresh(blocked'[t][v][k]),
         \A j \in done' : ~ Fresh(j),
         lost \subseteq lost', lost' \subseteq JobIds, \A j \in lost' : j \in lost \/ ~ Fresh(j),
         UNCHANGED mpc
  PROVE  OrderInv'
<1>1. JobIds' = JobIds /\ BegunKept /\ \A j : Fresh(j)' <=> Fresh(j)
  BY SameBegun DEF JobIds
<1>2. BegunInv'
  BY <1>1 DEF OrderInv, BegunInv
<1>3. LostInv'
  <2>1. lost \subseteq JobIds
    BY DEF JobsInv
  <2> QED BY <1>1, <2>1, LostStays DEF OrderInv
<1>4. ScheduledOrder'
  BY DEF OrderInv, ScheduledOrder, Before
<1> QED BY <1>2, <1>3, <1>4 DEF OrderInv

LEMMA ReadMoves ==
  ASSUME Inv, JobsInv, OrderInv, NEW w \in Workers, ReadJob(w)
  PROVE  JobsInv' /\ OrderInv'
<1>1. /\ UNCHANGED <<jobs, blocked, begun, done, lost, deleted, mpc>> /\ JobIds' = JobIds
      /\ pc[w] = "read" /\ job[w] = 0 /\ 0 \notin JobIds
  BY DEF ReadJob, mainVars, jobVars, JobIds, Inv, PhaseInv
<1>2. PICK q, r, x : q = queue[w] /\ r = QRead(q) /\ x = QFront(q)
  OBVIOUS
<1>3. IsQueue(q, JobIds) /\ Taken(q, r, x) /\ r.term = q.term
  BY <1>2, QueueIs, ReadTakes, ReadIs
<1>4. /\ \A u \in Workers : queue'[u] = IF u = w THEN r ELSE queue[u]
      /\ \A u \in Workers : job'[u] = IF u = w THEN x ELSE job[u]
      /\ \A u \in Workers : pc'[u] = IF u = w THEN "state" ELSE pc[u]
  BY <1>2 DEF ReadJob, Goto, Inv, Typed, QueuesTyped
<1>5. ASSUME NEW j \in JobIds PROVE Found(j)'
  <2>1. Found(j)
    BY DEF JobsInv, Found
  <2>2. /\ NotQueued(q, j) => NotQueued(r, j) /\ x # j
        /\ OnceQueued(q, j) => IF x = j THEN NotQueued(r, j) ELSE OnceQueued(r, j)
    BY <1>1, <1>3, TakenCounts
  <2>3. CASE x # j
    <3>1. Unmoved(j)
      BY <1>1, <1>2, <1>4, <2>2, <2>3 DEF Unmoved
    <3> QED BY <2>1, <3>1, UnmovedStays
  <2>4. CASE x = j
    <3>1. HomeOf(j) = w /\ HomeOf(j)' = w
      BY <1>1, <1>2, <2>1, <2>2, <2>4 DEF Found, StaysHome, HomeOf
    <3>2. PICK h \in Homes : IsIn(j, h)
      BY <2>1 DEF Found
    <3>3. h = "queue" /\ OnceQueued(q, j)
      BY <1>2, <2>2, <2>4, <3>1, <3>2 DEF IsIn
    <3>4. IsIn(j, "held")'
      BY <1>1, <1>4, <2>2, <2>4, <3>1, <3>2, <3>3 DEF IsIn
    <3>5. StaysHome(j)'
      BY <1>1, <1>4, <2>1, <3>1 DEF Found, StaysHome
    <3> QED BY <3>4, <3>5 DEF Found, Homes
  <2> QED BY <2>3, <2>4
<1>6. JobsInv'
  BY <1>1, <1>5, FoundAll DEF JobsInv
<1>7. LineInv'
  <2>1. BegunKept /\ MayPrecede' = MayPrecede /\ \A j : Fresh(j)' <=> Fresh(j)
    BY <1>1, SameBegun DEF MayPrecede, Fresh
  <2>2. InLine(job[w], q, MayPrecede)
    BY <1>2 DEF OrderInv, LineInv
  <2>3. InLine(x, r, MayPrecede)
    BY <1>3, <2>2, TakenLine
  <2>4. r.priv = q.priv
    BY <1>3 DEF Taken
  <2>5. ASSUME NEW u \in Workers PROVE InLine(job'[u], queue'[u], MayPrecede')
    BY <1>4, <2>1, <2>3 DEF OrderInv, LineInv
  <2>6. ASSUME NEW u \in Workers PROVE OwnBatch(queue[u])'
    <3>1. queue'[u].priv = queue[u].priv
      BY <1>2, <1>4, <2>4
    <3> QED BY <1>1, <2>1, <3>1 DEF OwnBatch, OrderInv, LineInv
  <2> QED BY <2>5, <2>6 DEF LineInv
<1>8. EndsKept
  BY <1>2, <1>3, <1>4 DEF EndsKept
<1>9. \A j \in lost' : j \in lost \/ ~ Fresh(j)
  BY <1>1
<1>10. OrderInv'
  BY <1>1, <1>4, <1>7, <1>8, OrderFollows DEF OrderInv, BegunInv, JobsInv
<1> QED BY <1>6, <1>10

LEMMA SameQueue ==
  ASSUME Untouched
  PROVE  /\ \A t \in Workers : \A i : Regrouped(queue[t], queue'[t], i)
         /\ \A t \in Workers : queue'[t].term = queue[t].term
         /\ EndsKept
         /\ \A j : \A t \in Workers : /\ NotQueued(queue[t], j) => NotQueued(queue'[t], j)
                                      /\ OnceQueued(queue[t], j) => OnceQueued(queue'[t], j)
BY DEF Untouched, Regrouped, SameLists, EndsKept

LEMMA PutIntoCounts ==
  ASSUME Inv, JobIds \subseteq JobIds', NEW t \in Workers, NEW i \in Ids, NEW s \in Seq(JobIds'),
         PutInto(t, i, s), NEW j
  PROVE  /\ \A u \in Workers : u # t \/ Absent(s, j) =>
              /\ NotQueued(queue[u], j) => NotQueued(queue'[u], j)
              /\ OnceQueued(queue[u], j) => OnceQueued(queue'[u], j)
         /\ NotQueued(queue[t], j) /\ Once(s, j) => OnceQueued(queue'[t], j)
<1>1. ASSUME NEW u \in Workers, u # t
      PROVE  /\ NotQueued(queue[u], j) => NotQueued(queue'[u], j)
             /\ OnceQueued(queue[u], j) => OnceQueued(queue'[u], j)
  <2>1. SameLists(queue[u], queue'[u])
    BY <1>1 DEF PutInto
  <2> QED BY <2>1 DEF SameLists, NotQueued, OnceQueued
<1>2. IsQueue(queue[t], JobIds') /\ Put(queue[t], queue'[t], i, s, JobIds')
  BY QueueIs, QueueGrows DEF PutInto
<1>3. /\ NotQueued(queue[t], j) /\ Absent(s, j) => NotQueued(queue'[t], j)
      /\ OnceQueued(queue[t], j) /\ Absent(s, j) => OnceQueued(queue'[t], j)
      /\ NotQueued(queue[t], j) /\ Once(s, j) => OnceQueued(queue'[t], j)
  BY <1>2, PutCounts
<1> QED BY <1>1, <1>3

LEMMA HeldIs ==
  ASSUME Inv, JobsInv, NEW w \in Workers, NEW j \in JobIds, job[w] = j
  PROVE  Found(j) /\ HomeOf(j) = w /\ IsIn(j, "held")
<1>1. Found(j)
  BY DEF JobsInv, Found
<1>2. HomeOf(j) = w
  BY <1>1 DEF Found, StaysHome
<1>3. PICK h \in Homes : IsIn(j, h)
  BY <1>1 DEF Found
<1>4. h = "held"
  BY <1>2, <1>3 DEF IsIn
<1> QED BY <1>1, <1>2, <1>3, <1>4

(* The job that worker w runs ends for now or for good. *)
Leaves(w, j) ==
  /\ job[w] = j /\ j \in JobIds /\ pc[w] = "run" /\ ~ Fresh(j) /\ mpc # "deleted"
  /\ UNCHANGED <<jobs, begun, deleted, mpc>>
  /\ \A u \in Workers : /\ job'[u] = IF u = w THEN 0 ELSE job[u]
                        /\ pc'[u] = IF u = w THEN "stop" ELSE pc[u]

LEMMA JobLeaves ==
  ASSUME Inv, JobsInv, OrderInv, NEW w \in Workers, Running(w), JobEnds(w),
         UNCHANGED <<jobs, begun, deleted, mainVars>>
  PROVE  Leaves(w, job[w])
<1>1. job[w] \in JobIds /\ pc[w] = "run" /\ mpc # "deleted"
  BY JobIsKnown, WorkerRuns DEF Running, Ended
<1>2. ~ Fresh(job[w])
  BY <1>1 DEF OrderInv, BegunInv
<1> QED BY <1>1, <1>2 DEF Leaves, JobEnds, Goto, mainVars, Inv, Typed

LEMMA OthersStay ==
  ASSUME Inv, JobsInv, NEW w \in Workers, NEW j, Leaves(w, j), NEW k \in JobIds, k # j,
         \A t \in Workers : /\ NotQueued(queue[t], k) => NotQueued(queue'[t], k)
                            /\ OnceQueued(queue[t], k) => OnceQueued(queue'[t], k),
         \A t \in Workers, v \in Vids :
            /\ Absent(blocked[t][v], k) => Absent(blocked'[t][v], k)
            /\ Once(blocked[t][v], k) => Once(blocked'[t][v], k),
         k \in done' <=> k \in done, k \in lost' <=> k \in lost
  PROVE  Found(k)'
<1>1. Found(k) /\ k # 0
  BY DEF JobsInv, Found, JobIds
<1>2. Unmoved(k)
  BY <1>1 DEF Unmoved, Leaves
<1> QED BY <1>1, <1>2, UnmovedStays

LEMMA MovedTo ==
  ASSUME Inv, JobsInv, NEW w \in Workers, NEW j, Leaves(w, j), NEW h \in Homes, h # "held",
         h # "deleted",
         \A t \in Workers : t # w => (NotQueued(queue[t], j) => NotQueued(queue'[t], j)),
         IF h = "queue" THEN OnceQueued(queue'[w], j) ELSE NotQueued(queue'[w], j),
         \A t \in Workers, v \in Vids :
            v # jobs[j].vid \/ t # w => (Absent(blocked[t][v], j) => Absent(blocked'[t][v], j)),
         IF h = "blocked" THEN Once(blocked'[w][jobs[j].vid], j)
                          ELSE Absent(blocked'[w][jobs[j].vid], j),
         j \in done' <=> h = "done", j \in lost' <=> h = "lost"
  PROVE  Found(j)'
<1>1. j \in JobIds /\ j # 0 /\ UNCHANGED <<jobs, deleted>> /\ job[w] = j
  BY DEF Leaves, JobIds
<1>2. Found(j) /\ HomeOf(j) = w /\ IsIn(j, "held")
  BY <1>1, HeldIs
<1>3. HomeOf(j)' = w /\ jobs'[j].vid = jobs[j].vid
  BY <1>1, <1>2 DEF HomeOf
<1>4. StaysHome(j)'
  BY <1>1, <1>2, <1>3 DEF Found, StaysHome, Leaves
<1>5. IsIn(j, h)'
  BY <1>1, <1>2, <1>3 DEF IsIn, Leaves
<1> QED BY <1>4, <1>5 DEF Found

LEMMA EndMoves ==
  ASSUME Inv, JobsInv, OrderInv, NEW w \in Workers, JobReturns(w) \/ JobThrows(w)
  PROVE  JobsInv' /\ OrderInv'
<1>1. PICK j : j = job[w]
  OBVIOUS
<1>2. /\ Leaves(w, j) /\ UNCHANGED <<jobs, blocked, lost, begun, deleted, mpc>> /\ done' = done \cup {j}
      /\ Untouched
  BY <1>1, JobLeaves DEF JobReturns, JobThrows, mainVars, Untouched
<1>3. IsIn(j, "held") /\ HomeOf(j) = w /\ JobIds' = JobIds /\ j \in JobIds /\ jobs[j].vid \in Vids
  BY <1>2, HeldIs, JobIs DEF Leaves, JobIds
<1>4. ASSUME NEW k \in JobIds, k # j PROVE Found(k)'
  BY <1>2, <1>4, SameQueue, OthersStay
<1>5. Found(j)'
  <2>1. j \notin lost
    BY <1>3 DEF IsIn
  <2>2. NotQueued(queue'[w], j) /\ Absent(blocked'[w][jobs[j].vid], j)
    BY <1>2, <1>3, SameQueue DEF IsIn
  <2> QED BY <1>2, <2>1, <2>2, SameQueue, MovedTo DEF Homes
<1>6. JobsInv'
  BY <1>2, <1>3, <1>4, <1>5, FoundAll DEF JobsInv
<1>7. LineInv'
  <2>1. BegunKept /\ w \in Ids
    BY <1>2, SameBegun, IdsAre
  <2>2. \A t \in Workers : Regrouped(queue[t], queue'[t], w) /\ job'[t] \in {job[t], 0}
    BY <1>2, SameQueue DEF Leaves
  <2> QED BY <1>2, <2>1, <2>2, LineStays DEF OrderInv
<1>8. OrderInv'
  <2>1. \A u \in Workers : pc'[u] = "run" => pc[u] = "run" /\ job'[u] = job[u]
    BY <1>2 DEF Leaves
  <2>2. \A k \in done' : ~ Fresh(k)
    BY <1>2 DEF Leaves, OrderInv, BegunInv
  <2>3. EndsKept
    BY <1>2, SameQueue
  <2>4. lost \subseteq JobIds
    BY DEF JobsInv
  <2> QED BY <1>2, <1>7, <2>1, <2>2, <2>3, <2>4, OrderFollows DEF OrderInv, BegunInv
<1> QED BY <1>6, <1>8

LEMMA BlockMoves ==
  ASSUME Inv, JobsInv, OrderInv, NEW w \in Workers, JobBlocks(w)
  PROVE  JobsInv' /\ OrderInv'
<1>1. PICK j, v, s : j = job[w] /\ v = jobs[j].vid /\ s = blocked[w][v]
  OBVIOUS
<1>2. /\ Leaves(w, j) /\ UNCHANGED <<jobs, done, lost, begun, deleted, mpc>> /\ Untouched
  BY <1>1, JobLeaves DEF JobBlocks, mainVars, Untouched
<1>3. IsIn(j, "held") /\ HomeOf(j) = w /\ JobIds' = JobIds /\ j \in JobIds /\ v \in Vids
  BY <1>1, <1>2, HeldIs, JobIs DEF Leaves, JobIds
<1>4. s \in Seq(JobIds) /\ <<j>> \in Seq(JobIds)
  BY <1>1, <1>3 DEF Inv, Typed
<1>5. \A t \in Workers, u \in Vids :
        blocked'[t][u] = IF t = w /\ u = v THEN <<j>> \o s ELSE blocked[t][u]
  BY <1>1, <1>3 DEF JobBlocks, VidOf, Inv, Typed
<1>6. ASSUME NEW k \in JobIds, k # j PROVE Found(k)'
  <2>1. Absent(<<j>>, k)
    BY <1>6, OneHasOne
  <2>2. /\ Absent(s, k) => Absent(<<j>> \o s, k)
        /\ Once(s, k) => Once(<<j>> \o s, k)
    BY <1>4, <2>1, AbsentJoin, OnceJoin
  <2>3. \A t \in Workers, u \in Vids :
           /\ Absent(blocked[t][u], k) => Absent(blocked'[t][u], k)
           /\ Once(blocked[t][u], k) => Once(blocked'[t][u], k)
    BY <1>1, <1>5, <2>2
  <2> QED BY <1>2, <1>6, <2>3, SameQueue, OthersStay
<1>7. Found(j)'
  <2>1. j \notin lost /\ j \notin done /\ Absent(s, j) /\ NotQueued(queue[w], j)
    BY <1>1, <1>3 DEF IsIn
  <2>2. Once(<<j>>, j)
    BY OneHasOne
  <2>3. Once(<<j>> \o s, j)
    BY <1>4, <2>1, <2>2, OnceJoin
  <2>4. Once(blocked'[w][v], j) /\ NotQueued(queue'[w], j)
    BY <1>2, <1>3, <1>5, <2>1, <2>3, SameQueue
  <2>5. \A t \in Workers, u \in Vids :
           u # v \/ t # w => (Absent(blocked[t][u], j) => Absent(blocked'[t][u], j))
    BY <1>5
  <2> QED BY <1>1, <1>2, <2>1, <2>4, <2>5, SameQueue, MovedTo DEF Homes
<1>8. JobsInv'
  BY <1>2, <1>3, <1>6, <1>7, FoundAll DEF JobsInv
<1>9. LineInv'
  <2>1. BegunKept /\ w \in Ids
    BY <1>2, SameBegun, IdsAre
  <2>2. \A t \in Workers : Regrouped(queue[t], queue'[t], w) /\ job'[t] \in {job[t], 0}
    BY <1>2, SameQueue DEF Leaves
  <2> QED BY <1>2, <2>1, <2>2, LineStays DEF OrderInv
<1>10. OrderInv'
  <2>1. \A u \in Workers : pc'[u] = "run" => pc[u] = "run" /\ job'[u] = job[u]
    BY <1>2 DEF Leaves
  <2>2. ~ Fresh(j) /\ EndsKept /\ lost \subseteq JobIds
    BY <1>2, SameQueue DEF Leaves, JobsInv
  <2>3. PICK a : a = <<j>> /\ a \in Seq(JobIds) /\ \A k \in 1..Len(a) : a[k] = j
    <3>1. \A k \in 1..Len(<<j>>) : <<j>>[k] = j
      OBVIOUS
    <3> QED BY <1>4, <3>1
  <2>4. \A k \in 1..Len(s) : ~ Fresh(s[k])
    BY <1>1, <1>3 DEF OrderInv, BegunInv
  <2>5. PICK b : b = a \o s /\ Joined(b, a, s, Len(a))
    BY <1>4, <2>3, JoinIs
  <2>6. \A k \in 1..Len(b) : ~ Fresh(b[k])
    <3>1. ASSUME NEW k \in 1..Len(b)
          PROVE  (\E l \in 1..Len(a) : b[k] = a[l]) \/ \E l \in 1..Len(s) : b[k] = s[l]
      BY <2>5 DEF Joined
    <3> QED BY <2>2, <2>3, <2>4, <3>1
  <2>7. \A t \in Workers, u \in Vids : \A k \in 1..Len(blocked'[t][u]) : ~ Fresh(blocked'[t][u][k])
    BY <1>5, <2>3, <2>5, <2>6 DEF OrderInv, BegunInv
  <2> QED BY <1>2, <1>9, <2>1, <2>2, <2>7, OrderFollows DEF OrderInv, BegunInv
<1> QED BY <1>8, <1>10

(* Jobs that have begun may be queued after any job. *)
LEMMA BegunAnywhere ==
  ASSUME NEW j \in JobIds, ~ Fresh(j), NEW y \in JobIds
  PROVE  <<y, j>> \in MayPrecede
BY DEF MayPrecede

LEMMA YieldMoves ==
  ASSUME Inv, JobsInv, OrderInv, NEW w \in Workers, JobYields(w)
  PROVE  JobsInv' /\ OrderInv'
<1>1. PICK j, v : j = job[w] /\ v = jobs[j].vid
  OBVIOUS
<1>2. /\ Leaves(w, j) /\ UNCHANGED <<jobs, blocked, done, begun, deleted, mpc>> /\ w \in Ids
      /\ lost' = IF queue[w].term[w] THEN lost \cup {j} ELSE lost
  BY <1>1, JobLeaves, IdsAre DEF JobYields, mainVars
<1>3. IsIn(j, "held") /\ HomeOf(j) = w /\ JobIds' = JobIds /\ j \in JobIds /\ v \in Vids /\ ~ Fresh(j)
  BY <1>1, <1>2, HeldIs, JobIs DEF Leaves, JobIds
<1>4. /\ IF queue[w].term[w] THEN Untouched ELSE PutInto(w, w, <<j>>)
      /\ \A u \in Workers : queue'[u].term = queue[u].term
  <2>1. queue' = [queue EXCEPT ![w] = QWrite(@, w, j)]
    BY <1>1 DEF JobYields
  <2> QED BY <1>2, <1>3, <2>1, WritePuts
<1>5. <<j>> \in Seq(JobIds') /\ JobIds \subseteq JobIds'
  BY <1>3
<1>6. ASSUME NEW k \in JobIds, k # j PROVE Found(k)'
  <2>1. Absent(<<j>>, k)
    BY <1>6, OneHasOne
  <2>2. \A t \in Workers : /\ NotQueued(queue[t], k) => NotQueued(queue'[t], k)
                           /\ OnceQueued(queue[t], k) => OnceQueued(queue'[t], k)
    BY <1>2, <1>4, <1>5, <2>1, SameQueue, PutIntoCounts
  <2>3. k \in lost' <=> k \in lost
    BY <1>2, <1>6
  <2> QED BY <1>2, <1>6, <2>2, <2>3, OthersStay
<1>7. Found(j)'
  <2>1. j \notin lost /\ j \notin done /\ Absent(blocked[w][v], j) /\ NotQueued(queue[w], j)
    BY <1>1, <1>3 DEF IsIn
  <2>2. Absent(blocked'[w][v], j) /\ j \notin done'
    BY <1>2, <2>1
  <2>3. CASE queue[w].term[w]
    <3>1. NotQueued(queue'[w], j) /\ j \in lost'
      BY <1>2, <1>4, <2>1, <2>3, SameQueue
    <3>2. \A t \in Workers : t # w => (NotQueued(queue[t], j) => NotQueued(queue'[t], j))
      BY <1>4, <2>3, SameQueue
    <3> QED BY <1>1, <1>2, <2>2, <3>1, <3>2, MovedTo DEF Homes
  <2>4. CASE ~ queue[w].term[w]
    <3>1. Once(<<j>>, j)
      BY OneHasOne
    <3>2. /\ OnceQueued(queue'[w], j) /\ j \notin lost'
          /\ \A t \in Workers : t # w => (NotQueued(queue[t], j) => NotQueued(queue'[t], j))
      BY <1>2, <1>4, <1>5, <2>1, <2>4, <3>1, PutIntoCounts
    <3> QED BY <1>1, <1>2, <2>2, <3>2, MovedTo DEF Homes
  <2> QED BY <2>3, <2>4
<1>8. JobsInv'
  BY <1>2, <1>3, <1>6, <1>7, FoundAll DEF JobsInv
<1>9. LineInv'
  <2>1. BegunKept /\ MayPrecede' = MayPrecede /\ \A k : Fresh(k)' <=> Fresh(k)
    BY <1>2, SameBegun DEF MayPrecede, Fresh, JobIds
  <2>2. \A t \in Workers : job'[t] \in {job[t], 0}
    BY <1>2 DEF Leaves
  <2>3. CASE queue[w].term[w]
    BY <1>2, <1>4, <2>1, <2>2, <2>3, SameQueue, LineStays DEF OrderInv
  <2>4. CASE ~ queue[w].term[w]
    <3>1. \A k \in 1..Len(<<j>>) : <<j>>[k] = j
      OBVIOUS
    <3>2. \A k \in 1..Len(<<j>>) : Fresh(<<j>>[k])' => jobs'[<<j>>[k]].by = w
      BY <1>3, <2>1, <3>1
    <3>3. /\ \A y \in JobIds : \A k \in 1..Len(<<j>>) : <<y, <<j>>[k]>> \in MayPrecede'
          /\ Sorted(<<j>>, MayPrecede')
      BY <1>3, <2>1, <3>1, BegunAnywhere DEF Sorted
    <3>4. \A k \in JobIds : jobs'[k] = jobs[k]
      BY <1>2
    <3> QED BY <1>2, <1>4, <1>5, <2>1, <2>2, <2>4, <3>2, <3>3, <3>4, LinePut DEF OrderInv
  <2> QED BY <2>3, <2>4
<1>10. OrderInv'
  <2>1. \A u \in Workers : pc'[u] = "run" => pc[u] = "run" /\ job'[u] = job[u]
    BY <1>2 DEF Leaves
  <2>2. EndsKept /\ lost \subseteq JobIds
    BY <1>4 DEF EndsKept, JobsInv
  <2>3. lost \subseteq lost' /\ lost' \subseteq JobIds /\ \A k \in lost' : k \in lost \/ ~ Fresh(k)
    BY <1>2, <1>3, <2>2
  <2> QED BY <1>2, <1>9, <2>1, <2>2, <2>3, OrderFollows DEF OrderInv, BegunInv
<1> QED BY <1>8, <1>10

LEMMA UnblockMoves ==
  ASSUME Inv, JobsInv, OrderInv, NEW t \in Workers, NEW v \in Vids, Unblock(t, v),
         UNCHANGED <<jobs, begun, done, deleted, mpc, pc, job>>
  PROVE  JobsInv' /\ OrderInv'
<1>1. PICK s : s = blocked[t][v]
  OBVIOUS
<1>2. /\ s \in Seq(JobIds) /\ JobIds' = JobIds /\ t \in Ids
      /\ lost' = IF queue[t].term[t] THEN lost \cup {s[k] : k \in 1..Len(s)} ELSE lost
  BY <1>1, IdsAre DEF Unblock, Inv, Typed, JobIds
<1>3. \A u \in Workers, x \in Vids :
        blocked'[u][x] = IF u = t /\ x = v THEN <<>> ELSE blocked[u][x]
  BY DEF Unblock, Inv, Typed
<1>4. /\ IF queue[t].term[t] THEN Untouched ELSE PutInto(t, t, s)
      /\ \A u \in Workers : queue'[u].term = queue[u].term
  BY <1>1, UnblockPuts
<1>5. \A k \in 1..Len(s) : s[k] \in JobIds /\ ~ Fresh(s[k])
  BY <1>1, <1>2 DEF OrderInv, BegunInv
<1>6. ASSUME NEW j \in JobIds PROVE Found(j)'
  <2>1. Found(j)
    BY DEF JobsInv, Found
  <2>2. CASE Absent(s, j)
    <3>1. j \in lost' <=> j \in lost
      BY <1>2, <2>2 DEF Absent
    <3>2. \A u \in Workers : /\ NotQueued(queue[u], j) => NotQueued(queue'[u], j)
                             /\ OnceQueued(queue[u], j) => OnceQueued(queue'[u], j)
      BY <1>2, <1>4, <2>2, SameQueue, PutIntoCounts
    <3>3. \A u \in Workers, x \in Vids :
             /\ Absent(blocked[u][x], j) => Absent(blocked'[u][x], j)
             /\ Once(blocked[u][x], j) => Once(blocked'[u][x], j)
      BY <1>1, <1>3, <2>2, NotBoth, EmptyHasNone
    <3>4. Unmoved(j)
      BY <3>1, <3>2, <3>3 DEF Unmoved
    <3> QED BY <2>1, <3>4, UnmovedStays
  <2>3. CASE ~ Absent(s, j)
    <3>1. /\ HomeOf(j) = t /\ jobs[j].vid = v /\ HomeOf(j)' = t /\ jobs'[j].vid = v
      BY <1>1, <2>1, <2>3 DEF Found, StaysHome, HomeOf
    <3>2. PICK h \in Homes : IsIn(j, h)
      BY <2>1 DEF Found
    <3>3. h = "blocked" /\ Once(s, j) /\ NotQueued(queue[t], j)
      BY <1>1, <2>3, <3>1, <3>2 DEF IsIn
    <3>4. Absent(blocked'[t][v], j)
      BY <1>3, EmptyHasNone
    <3>5. StaysHome(j)'
      <4>1. \A u \in Workers : u # t => (NotQueued(queue[u], j) => NotQueued(queue'[u], j))
        BY <1>2, <1>4, SameQueue, PutIntoCounts
      <4> QED BY <1>3, <2>1, <3>1, <4>1 DEF Found, StaysHome
    <3>6. CASE queue[t].term[t]
      <4>1. NotQueued(queue'[t], j) /\ j \in lost'
        BY <1>2, <1>4, <2>3, <3>3, <3>6, SameQueue DEF Absent
      <4>2. IsIn(j, "lost")'
        BY <3>1, <3>2, <3>3, <3>4, <4>1 DEF IsIn
      <4> QED BY <3>5, <4>2 DEF Found, Homes
    <3>7. CASE ~ queue[t].term[t]
      <4>1. OnceQueued(queue'[t], j) /\ (j \in lost' <=> j \in lost)
        BY <1>2, <1>4, <3>3, <3>7, PutIntoCounts
      <4>2. IsIn(j, "queue")'
        BY <3>1, <3>2, <3>3, <3>4, <4>1 DEF IsIn
      <4> QED BY <3>5, <4>2 DEF Found, Homes
    <3> QED BY <3>6, <3>7
  <2> QED BY <2>2, <2>3
<1>7. lost \subseteq lost' /\ lost' \subseteq JobIds /\ \A k \in lost' : k \in lost \/ ~ Fresh(k)
  BY <1>2, <1>5 DEF JobsInv
<1>8. JobsInv'
  BY <1>2, <1>6, <1>7, FoundAll DEF JobsInv
<1>9. LineInv'
  <2>1. BegunKept /\ MayPrecede' = MayPrecede /\ \A k : Fresh(k)' <=> Fresh(k)
    BY SameBegun DEF MayPrecede, Fresh, JobIds
  <2>2. \A u \in Workers : job'[u] \in {job[u], 0}
    OBVIOUS
  <2>3. CASE queue[t].term[t]
    BY <1>2, <1>4, <2>1, <2>2, <2>3, SameQueue, LineStays DEF OrderInv
  <2>4. CASE ~ queue[t].term[t]
    <3>1. \A k \in 1..Len(s) : Fresh(s[k])' => jobs'[s[k]].by = t
      BY <1>5, <2>1
    <3>2. /\ \A y \in JobIds : \A k \in 1..Len(s) : <<y, s[k]>> \in MayPrecede'
          /\ Sorted(s, MayPrecede')
      BY <1>2, <1>5, <2>1, BegunAnywhere DEF Sorted
    <3>3. \A k \in JobIds : jobs'[k] = jobs[k]
      OBVIOUS
    <3> QED BY <1>2, <1>4, <2>1, <2>2, <2>4, <3>1, <3>2, <3>3, LinePut DEF OrderInv
  <2> QED BY <2>3, <2>4
<1>10. OrderInv'
  <2>1. \A u \in Workers : pc'[u] = "run" => pc[u] = "run" /\ job'[u] = job[u]
    OBVIOUS
  <2>2. EndsKept
    BY <1>4 DEF EndsKept
  <2>3. \A u \in Workers, x \in Vids : \A k \in 1..Len(blocked'[u][x]) : ~ Fresh(blocked'[u][x][k])
    BY <1>3 DEF OrderInv, BegunInv
  <2> QED BY <1>7, <1>9, <2>1, <2>2, <2>3, OrderFollows DEF OrderInv, BegunInv
<1> QED BY <1>8, <1>10

(* When a worker takes up a job that has not begun, those that the same    *)
(* writer scheduled to the same worker before it have begun.               *)
LEMMA EarlierHaveBegun ==
  ASSUME Inv, JobsInv, OrderInv, NEW w \in Workers, NEW j \in JobIds, job[w] = j, Fresh(j),
         NEW i \in JobIds, i < j, HomeOf(i) = w, jobs[i].by = jobs[j].by, Fresh(i)
  PROVE  FALSE
<1>1. HomeOf(j) = w /\ IsIn(j, "held") /\ j # 0 /\ i # 0 /\ i # j /\ ~ (j < i)
  BY HeldIs DEF JobIds
<1>2. <<j, i>> \notin MayPrecede
  BY <1>1 DEF MayPrecede
<1>3. PICK h \in Homes : IsIn(i, h)
  BY DEF JobsInv
<1>4. PICK q : q = queue[w] /\ InLine(j, q, MayPrecede)
  BY DEF OrderInv, LineInv
<1>5. Absent(q.head, i) /\ Absent(q.pending, i) /\ \A l \in Ids : Absent(q.priv[l], i)
  BY <1>1, <1>2, <1>4 DEF InLine, IsAhead, Absent
<1>6. h # "queue"
  <2>1. h = "queue" => OnceQueued(q, i)
    BY <1>3, <1>4 DEF IsIn
  <2>2. ~ OnceQueued(q, i)
    BY <1>5, NotBoth DEF OnceQueued
  <2> QED BY <2>1, <2>2
<1>7. h # "held"
  BY <1>1, <1>3 DEF IsIn
<1>8. h # "blocked"
  <2>1. jobs[i].vid \in Vids
    BY JobIs
  <2>2. Absent(blocked[w][jobs[i].vid], i)
    BY <2>1 DEF Absent, OrderInv, BegunInv
  <2> QED BY <1>3, <2>2, NotBoth DEF IsIn
<1>9. h # "done"
  BY <1>3 DEF IsIn, OrderInv, BegunInv
<1>10. h # "lost"
  <2>1. j \notin lost
    BY <1>1 DEF IsIn
  <2>2. i \in lost => j < i
    BY <1>1, <2>1 DEF OrderInv, LostInv
  <2> QED BY <1>1, <1>3, <2>2 DEF IsIn
<1>11. h # "deleted"
  <2>1. mpc # "deleted"
    <3>1. pc[w] # "dead"
      BY <1>1 DEF Inv, PhaseInv
    <3> QED BY <3>1, WorkerRuns DEF Ended
  <2> QED BY <1>3, <2>1 DEF IsIn, OrderInv, LostInv
<1> QED BY <1>3, <1>6, <1>7, <1>8, <1>9, <1>10, <1>11 DEF Homes

(* Job j begins, or has begun before. *)
Begins(j) == begun' = IF Fresh(j) THEN Append(begun, j) ELSE begun

LEMMA BeginIs ==
  ASSUME begun \in Seq(JobIds), NEW j \in JobIds, Begins(j)
  PROVE  /\ BegunKept /\ ~ Fresh(j)' /\ \A k \in JobIds : k # j => (Fresh(k)' <=> Fresh(k))
         /\ begun' \in Seq(JobIds)
         /\ \A a \in 1..Len(begun) : a \in 1..Len(begun') /\ begun'[a] = begun[a]
         /\ \A b \in 1..Len(begun') : \/ b \in 1..Len(begun)
                                      \/ begun'[b] = j /\ Fresh(j) /\ \A a \in 1..Len(begun) : a < b
<1>1. CASE ~ Fresh(j)
  <2>1. begun' = begun
    BY <1>1 DEF Begins
  <2> QED BY <1>1, <2>1, SameBegun
<1>2. CASE Fresh(j)
  <2>1. PICK n \in Nat : n = Len(begun)
    OBVIOUS
  <2>2. PICK c : c = begun' /\ c = Append(begun, j)
    BY <1>2 DEF Begins
  <2>3. c \in Seq(JobIds) /\ Len(c) = n + 1 /\ c[n + 1] = j /\ \A a \in 1..n : c[a] = begun[a]
    BY <2>1, <2>2
  <2>4. n + 1 \in 1..(n + 1) /\ \A a \in 1..n : a \in 1..(n + 1) /\ a < n + 1
    OBVIOUS
  <2>5. \A b \in 1..(n + 1) : b \in 1..n \/ b = n + 1
    OBVIOUS
  <2>6. /\ \A a \in 1..Len(begun) : a \in 1..Len(begun') /\ begun'[a] = begun[a]
        /\ \A b \in 1..Len(begun') : \/ b \in 1..Len(begun)
                                     \/ begun'[b] = j /\ Fresh(j) /\ \A a \in 1..Len(begun) : a < b
        /\ \E b \in 1..Len(begun') : begun'[b] = j
    BY <1>2, <2>1, <2>2, <2>3, <2>4, <2>5
  <2>7. ~ Fresh(j)' /\ \A k \in JobIds : k # j => (Fresh(k)' <=> Fresh(k))
    BY <2>6 DEF Fresh
  <2>8. BegunKept
    BY <2>7 DEF BegunKept
  <2> QED BY <2>2, <2>3, <2>6, <2>7, <2>8
<1> QED BY <1>1, <1>2

LEMMA FirstInOrder ==
  ASSUME Inv, JobsInv, OrderInv, NEW w \in Workers, NEW j \in JobIds, job[w] = j, Begins(j),
         UNCHANGED jobs
  PROVE  ScheduledOrder'
<1>1. /\ \A a \in 1..Len(begun) : a \in 1..Len(begun') /\ begun'[a] = begun[a]
      /\ \A b \in 1..Len(begun') : \/ b \in 1..Len(begun)
                                   \/ begun'[b] = j /\ Fresh(j) /\ \A a \in 1..Len(begun) : a < b
  BY BeginIs DEF OrderInv, BegunInv
<1>2. ASSUME NEW i \in JobIds, NEW k \in JobIds, i < k, jobs[i].vid = jobs[k].vid,
             jobs[i].by = jobs[k].by, NEW b \in 1..Len(begun'), begun'[b] = k
      PROVE  \E a, c \in 1..Len(begun') : a < c /\ begun'[a] = i /\ begun'[c] = k
  <2>1. CASE b \in 1..Len(begun)
    <3>1. begun[b] = k
      BY <1>1, <1>2, <2>1
    <3>2. Before(i, k)
      BY <1>2, <2>1, <3>1 DEF OrderInv, ScheduledOrder, JobIds
    <3> QED BY <1>1, <3>2 DEF Before
  <2>2. CASE b \notin 1..Len(begun)
    <3>1. k = j /\ Fresh(j) /\ \A a \in 1..Len(begun) : a < b
      BY <1>1, <1>2, <2>2
    <3>2. HomeOf(i) = w
      BY <1>2, <3>1, HeldIs DEF HomeOf
    <3>3. ~ Fresh(i)
      BY <1>2, <3>1, <3>2, EarlierHaveBegun
    <3>4. PICK a \in 1..Len(begun) : begun[a] = i
      BY <3>3 DEF Fresh
    <3>5. a < b /\ a \in 1..Len(begun') /\ begun'[a] = i
      BY <1>1, <3>1, <3>4
    <3> QED BY <1>2, <3>5
  <2> QED BY <2>1, <2>2
<1> QED BY <1>2 DEF ScheduledOrder, Before, JobIds

LEMMA CheckStateMoves ==
  ASSUME Inv, JobsInv, OrderInv, NEW w \in Workers, CheckState(w)
  PROVE  JobsInv' /\ OrderInv'
<1>1. /\ UNCHANGED <<jobs, blocked, job, done, lost, deleted, mpc>> /\ JobIds' = JobIds
      /\ \A u \in Workers : pc'[u] = IF u = w THEN (IF job[w] = 0 THEN "stop" ELSE "run") ELSE pc[u]
      /\ w \in Ids
  BY IdsAre DEF CheckState, Goto, mainVars, Inv, Typed, JobIds
<1>2. CASE job[w] = 0
  <2>1. begun' = begun
    BY <1>2 DEF CheckState
  <2>2. ASSUME NEW t \in Workers
        PROVE  Regrouped(queue[t], queue'[t], w) /\ queue'[t].term = queue[t].term
    <3>1. queue'[t] = queue[t] \/ queue'[t] = QFlush(queue[t], w)
      BY DEF CheckState, FlushAll
    <3>2. IsQueue(queue[t], JobIds)
      BY QueueIs
    <3>3. Regrouped(queue[t], QFlush(queue[t], w), w) /\ QFlush(queue[t], w).term = queue[t].term
      BY <1>1, <3>2, FlushRegroups
    <3> QED BY <3>1, <3>3 DEF Regrouped, SameLists
  <2>3. Quiet(w)
    BY <1>1, <1>2, <2>1, <2>2 DEF Quiet, EndsKept
  <2> QED BY <1>1, <2>3, QuietKeeps
<1>3. CASE job[w] # 0
  <2>1. PICK j \in JobIds : j = job[w]
    BY <1>3 DEF Inv, Typed
  <2>2. Begins(j) /\ Untouched
    BY <1>3, <2>1 DEF CheckState, Begins, Fresh, Untouched
  <2>3. /\ BegunKept /\ ~ Fresh(j)' /\ \A k \in JobIds : k # j => (Fresh(k)' <=> Fresh(k))
        /\ begun' \in Seq(JobIds)
    BY <2>2, BeginIs DEF OrderInv, BegunInv
  <2>4. JobsInv'
    BY <1>1, <2>2, SameQueue, JobsStay
  <2>5. LineInv'
    BY <1>1, <2>2, <2>3, SameQueue, LineStays DEF OrderInv
  <2>6. LostInv'
    <3>1. lost \subseteq JobIds
      BY DEF JobsInv
    <3> QED BY <1>1, <2>2, <2>3, <3>1, SameQueue, LostStays DEF OrderInv
  <2>7. BegunInv'
    <3>1. ASSUME NEW u \in Workers, pc'[u] = "run" PROVE ~ Fresh(job[u])'
      <4>1. CASE u = w
        BY <1>1, <2>1, <2>3, <4>1
      <4>2. CASE u # w
        <5>1. pc[u] = "run"
          BY <1>1, <3>1, <4>2
        <5>2. job[u] \in JobIds /\ ~ Fresh(job[u])
          BY <5>1, JobIsKnown DEF OrderInv, BegunInv
        <5>3. PICK k \in JobIds : k = job[u] /\ ~ Fresh(k)
          BY <5>2
        <5>4. ~ Fresh(k)'
          BY <2>3, <5>3 DEF BegunKept
        <5> QED BY <1>1, <5>3, <5>4 DEF Fresh
      <4> QED BY <4>1, <4>2
    <3>2. ASSUME NEW t \in Workers, NEW v \in Vids, NEW k \in 1..Len(blocked[t][v])
          PROVE  ~ Fresh(blocked[t][v][k])'
      <4>1. PICK x : x = blocked[t][v][k] /\ x \in JobIds /\ ~ Fresh(x)
        BY DEF Inv, Typed, OrderInv, BegunInv
      <4>2. ~ Fresh(x)'
        BY <2>3, <4>1 DEF BegunKept
      <4> QED BY <1>1, <4>1, <4>2 DEF Fresh
    <3>3. \A k \in done' : ~ Fresh(k)'
      BY <1>1, <2>3 DEF BegunKept, JobsInv, OrderInv, BegunInv
    <3> QED BY <1>1, <2>3, <3>1, <3>2, <3>3 DEF BegunInv
  <2>8. ScheduledOrder'
    BY <1>1, <2>1, <2>2, FirstInOrder
  <2> QED BY <2>4, <2>5, <2>6, <2>7, <2>8 DEF OrderInv
<1> QED BY <1>2, <1>3

(* Thread i has scheduled job n, the next one, to virtual thread v of      *)
(* worker t, through end a of its queue.                                   *)
Scheduled(n, v, t, a) ==
  /\ n = Len(jobs) + 1 /\ n \notin JobIds /\ JobIds' = JobIds \cup {n}
  /\ \A j \in JobIds : jobs'[j] = jobs[j] /\ j < n
  /\ jobs'[n].vid = v /\ jobs'[n].by = a /\ v \in Vids /\ a \in Ids /\ t \in Workers /\ WorkerOf[v] = t
  /\ IF queue[t].term[a] THEN Untouched /\ lost' = lost \cup {n}
                         ELSE PutInto(t, a, <<n>>) /\ lost' = lost
  /\ \A u \in Workers : queue'[u].term = queue[u].term
  /\ UNCHANGED <<blocked, mpc, begun, done, deleted, job, pc>>

LEMMA ScheduleIs ==
  ASSUME Inv, NEW i \in Ids, ScheduleEnd(i)
  PROVE  \E n, v, t, a : Scheduled(n, v, t, a)
<1>1. PICK n, v, t, a : n = Len(jobs) + 1 /\ v = sched[i].vid /\ t = WorkerOf[v] /\ a = i
  OBVIOUS
<1>2. PICK x, c : c = ContextFor(i) /\ x = [vid |-> v, by |-> a, ctx |-> c]
  OBVIOUS
<1>3. v \in Vids /\ a \in Ids /\ t \in Workers
  BY <1>1, ThreadMgrAssumption DEF Inv, CallsInv, ScheduleEnd
<1>4. jobs' = Append(jobs, x) /\ jobs \in Seq(JobType)
  BY <1>1, <1>2 DEF ScheduleEnd, Inv, Typed
<1>5. PICK m \in Nat : m = Len(jobs)
  BY <1>4
<1>6. Len(jobs') = m + 1 /\ jobs'[m + 1] = x /\ \A j \in 1..m : jobs'[j] = jobs[j]
  <2>1. x \in JobType
    <3>1. ContextFor(i) \in Nat
      BY DEF ContextFor, Inv, Typed, CallsInv, ScheduleEnd
    <3> QED BY <1>2, <1>3, <3>1 DEF JobType
  <2> QED BY <1>4, <1>5, <2>1
<1>7. m + 1 \notin 1..m /\ 1..(m + 1) = 1..m \cup {m + 1} /\ \A j \in 1..m : j < m + 1
  OBVIOUS
<1>8. /\ n \notin JobIds /\ JobIds' = JobIds \cup {n}
      /\ \A j \in JobIds : jobs'[j] = jobs[j] /\ j < n
      /\ jobs'[n].vid = v /\ jobs'[n].by = a
  BY <1>1, <1>2, <1>5, <1>6, <1>7 DEF JobIds
<1>9. /\ queue' = [queue EXCEPT ![t] = QWrite(@, a, n)]
      /\ lost' = IF queue[t].term[a] THEN lost \cup {n} ELSE lost
      /\ UNCHANGED <<blocked, mpc, begun, done, deleted, job, pc>>
  BY <1>1 DEF ScheduleEnd, mainVars, workerVars
<1>10. /\ IF queue[t].term[a] THEN Untouched ELSE PutInto(t, a, <<n>>)
       /\ \A u \in Workers : queue'[u].term = queue[u].term
  BY <1>3, <1>8, <1>9, WritePuts
<1>11. Scheduled(n, v, t, a)
  BY <1>1, <1>3, <1>8, <1>9, <1>10 DEF Scheduled
<1> QED BY <1>11

LEMMA NotThere ==
  ASSUME Inv, NEW n, n \notin JobIds, n # 0
  PROVE  \A t \in Workers : /\ NotQueued(queue[t], n) /\ job[t] # n
                            /\ \A v \in Vids : Absent(blocked[t][v], n)
<1>1. ASSUME NEW t \in Workers PROVE NotQueued(queue[t], n)
  BY QueueIs DEF IsQueue, NotQueued, Absent
<1>2. ASSUME NEW t \in Workers, NEW v \in Vids PROVE Absent(blocked[t][v], n)
  <2>1. blocked[t][v] \in Seq(JobIds)
    BY DEF Inv, Typed
  <2> QED BY <2>1 DEF Absent
<1> QED BY <1>1, <1>2 DEF Inv, Typed

LEMMA ScheduleMoves ==
  ASSUME Inv, JobsInv, OrderInv, NEW i \in Ids, ScheduleEnd(i)
  PROVE  JobsInv' /\ OrderInv'
<1>1. PICK n, v, t, a : Scheduled(n, v, t, a)
  BY ScheduleIs
<1>2. /\ n \notin JobIds /\ JobIds' = JobIds \cup {n} /\ n # 0
      /\ \A j \in JobIds : jobs'[j] = jobs[j] /\ j < n
      /\ jobs'[n].vid = v /\ jobs'[n].by = a /\ v \in Vids /\ a \in Ids /\ t \in Workers
      /\ WorkerOf[v] = t
      /\ UNCHANGED <<blocked, mpc, begun, done, deleted, job, pc>>
      /\ \A u \in Workers : queue'[u].term = queue[u].term
  <2>1. n # 0
    BY <1>1 DEF Scheduled, Inv, Typed
  <2> QED BY <1>1, <2>1 DEF Scheduled
<1>3. queue[t].term[a] => Untouched /\ lost' = lost \cup {n}
  BY <1>1 DEF Scheduled
<1>4. ~ queue[t].term[a] => PutInto(t, a, <<n>>) /\ lost' = lost
  BY <1>1 DEF Scheduled
<1>5. <<n>> \in Seq(JobIds') /\ JobIds \subseteq JobIds'
  BY <1>2
<1>6. /\ done \cup lost \cup deleted \subseteq JobIds
      /\ (done \cup lost \cup deleted)' \subseteq JobIds' /\ n \notin done' /\ n \notin deleted'
  BY <1>2, <1>3, <1>4 DEF JobsInv
<1>7. ASSUME NEW j \in JobIds PROVE Found(j)'
  <2>1. Absent(<<n>>, j)
    BY <1>2, OneHasOne
  <2>2. \A u \in Workers : /\ NotQueued(queue[u], j) => NotQueued(queue'[u], j)
                           /\ OnceQueued(queue[u], j) => OnceQueued(queue'[u], j)
    BY <1>2, <1>3, <1>4, <1>5, <2>1, SameQueue, PutIntoCounts
  <2>3. j \in lost' <=> j \in lost
    BY <1>2, <1>3, <1>4
  <2>4. Unmoved(j) /\ Found(j)
    BY <1>2, <2>2, <2>3 DEF Unmoved, JobsInv, Found
  <2> QED BY <2>4, UnmovedStays
<1>8. Found(n)'
  <2>1. \A u \in Workers : /\ NotQueued(queue[u], n) /\ job'[u] # n
                           /\ \A x \in Vids : Absent(blocked'[u][x], n)
    BY <1>2, NotThere
  <2>2. Once(<<n>>, n)
    BY OneHasOne
  <2>3. HomeOf(n)' = t /\ jobs'[n].vid = v
    BY <1>2 DEF HomeOf
  <2>4. \A u \in Workers : u # t => NotQueued(queue'[u], n)
    BY <1>2, <1>3, <1>4, <1>5, <2>1, SameQueue, PutIntoCounts
  <2>5. StaysHome(n)'
    BY <2>1, <2>3, <2>4 DEF StaysHome
  <2>6. CASE queue[t].term[a]
    <3>1. NotQueued(queue'[t], n) /\ n \in lost'
      BY <1>2, <1>3, <2>1, <2>6, SameQueue
    <3>2. IsIn(n, "lost")'
      BY <1>2, <1>6, <2>1, <2>3, <3>1 DEF IsIn
    <3> QED BY <2>5, <3>2 DEF Found, Homes
  <2>7. CASE ~ queue[t].term[a]
    <3>1. OnceQueued(queue'[t], n) /\ n \notin lost'
      BY <1>2, <1>4, <1>5, <1>6, <2>1, <2>2, <2>7, PutIntoCounts
    <3>2. IsIn(n, "queue")'
      BY <1>2, <1>6, <2>1, <2>3, <3>1 DEF IsIn
    <3> QED BY <2>5, <3>2 DEF Found, Homes
  <2> QED BY <2>6, <2>7
<1>9. JobsInv'
  <2>1. \A j \in JobIds' : Found(j)'
    BY <1>2, <1>7, <1>8
  <2> QED BY <1>6, <2>1 DEF JobsInv, Found
<1>10. /\ begun \in Seq(JobIds) /\ Fresh(n) /\ BegunKept
       /\ \A k \in 1..Len(begun) : begun[k] \in JobIds
       /\ \A j : Fresh(j)' <=> Fresh(j)
  BY <1>2, SameBegun DEF OrderInv, BegunInv, Fresh
<1>11. BegunInv'
  <2>1. begun' \in Seq(JobIds')
    BY <1>2, <1>5, <1>10
  <2> QED BY <1>2, <1>10, <2>1 DEF OrderInv, BegunInv
<1>12. LineInv'
  <2>1. \A u \in Workers : job'[u] \in {job[u], 0}
    BY <1>2
  <2>2. CASE queue[t].term[a]
    <3>1. PutInto(t, a, <<>>)
      <4>1. ASSUME NEW q, IsQueue(q, JobIds') PROVE Lengthened(q, q, a, <<>>)
        <5>1. PICK b : b = q.priv[a] /\ b \in Seq(JobIds')
          BY <1>2, <4>1 DEF IsQueue
        <5>2. b \o <<>> = b
          BY <5>1
        <5> QED BY <5>1, <5>2 DEF Lengthened
      <4>2. IsQueue(queue[t], JobIds')
        BY <1>2, <1>5, QueueIs, QueueGrows
      <4>3. Put(queue[t], queue[t], a, <<>>, JobIds')
        BY <4>1, <4>2 DEF Put, Regrouped, SameLists
      <4> QED BY <1>3, <2>2, <4>3 DEF PutInto, Untouched, SameLists
    <3>2. /\ <<>> \in Seq(JobIds') /\ Sorted(<<>>, MayPrecede')
          /\ \A k \in 1..Len(<<>>) : Fresh(<<>>[k])' => jobs'[<<>>[k]].by = a
          /\ \A y \in JobIds : \A k \in 1..Len(<<>>) : <<y, <<>>[k]>> \in MayPrecede'
      BY DEF Sorted
    <3> QED BY <1>2, <1>5, <1>10, <2>1, <3>1, <3>2, LinePut DEF OrderInv
  <2>3. CASE ~ queue[t].term[a]
    <3>1. \A k \in 1..Len(<<n>>) : <<n>>[k] = n
      OBVIOUS
    <3>2. \A k \in 1..Len(<<n>>) : Fresh(<<n>>[k])' => jobs'[<<n>>[k]].by = a
      BY <1>2, <3>1
    <3>3. \A y \in JobIds : <<y, n>> \in MayPrecede'
      BY <1>2 DEF MayPrecede
    <3>4. /\ \A y \in JobIds : \A k \in 1..Len(<<n>>) : <<y, <<n>>[k]>> \in MayPrecede'
          /\ Sorted(<<n>>, MayPrecede')
      BY <3>1, <3>3 DEF Sorted
    <3> QED BY <1>2, <1>4, <1>5, <1>10, <2>1, <2>3, <3>2, <3>4, LinePut DEF OrderInv
  <2> QED BY <2>2, <2>3
<1>13. LostInv'
  <2>1. mpc # "deleted"
    BY ScheduledIs DEF Ended
  <2>2. HomeOf(n)' = t /\ \A j \in JobIds : HomeOf(j)' = HomeOf(j)
    BY <1>2 DEF HomeOf
  <2>3. ASSUME NEW j \in lost', Fresh(j)'
        PROVE  /\ mpc' = "deleted" \/ queue'[HomeOf(j)'].term[jobs'[j].by]
               /\ \A k \in JobIds' : /\ HomeOf(k)' = HomeOf(j)' /\ jobs'[k].by = jobs'[j].by
                                     /\ Fresh(k)' /\ k \notin lost'
                                     => k < j
    <3>1. CASE j = n
      <4>1. queue[t].term[a] /\ n \in lost'
        BY <1>2, <1>4, <1>6, <2>3, <3>1
      <4> QED BY <1>2, <2>2, <3>1, <4>1
    <3>2. CASE j # n
      <4>1. j \in lost /\ j \in JobIds /\ Fresh(j)
        BY <1>2, <1>3, <1>4, <1>6, <1>10, <2>3, <3>2
      <4>2. /\ queue[HomeOf(j)].term[jobs[j].by]
            /\ \A k \in JobIds : /\ HomeOf(k) = HomeOf(j) /\ jobs[k].by = jobs[j].by
                                 /\ Fresh(k) /\ k \notin lost
                                 => k < j
        BY <2>1, <4>1 DEF OrderInv, LostInv
      <4>3. HomeOf(j) \in Workers /\ jobs[j].by \in Ids
        BY <4>1, JobIs
      <4>4. queue'[HomeOf(j)'].term[jobs'[j].by]
        BY <1>2, <2>2, <4>1, <4>2, <4>3
      <4>5. ASSUME NEW k \in JobIds', HomeOf(k)' = HomeOf(j)', jobs'[k].by = jobs'[j].by,
                   Fresh(k)', k \notin lost'
            PROVE  k < j
        <5>1. CASE k = n
          <6>1. queue[t].term[a]
            BY <1>2, <2>2, <4>1, <4>2, <4>5, <5>1
          <6> QED BY <1>3, <4>5, <5>1, <6>1
        <5>2. CASE k # n
          <6>1. k \in JobIds /\ k \notin lost /\ Fresh(k)
            BY <1>2, <1>3, <1>4, <1>10, <4>5, <5>2
          <6> QED BY <1>2, <2>2, <4>1, <4>2, <4>5, <6>1
        <5> QED BY <5>1, <5>2
      <4> QED BY <4>4, <4>5
    <3> QED BY <3>1, <3>2
  <2> QED BY <1>2, <2>3 DEF OrderInv, LostInv
<1>14. ScheduledOrder'
  <2>1. ASSUME NEW k \in JobIds', NEW l \in JobIds', k < l, jobs'[k].vid = jobs'[l].vid,
               jobs'[k].by = jobs'[l].by, \E b \in 1..Len(begun') : begun'[b] = l
        PROVE  Before(k, l)
    <3>1. l \in JobIds
      BY <1>2, <1>10, <2>1
    <3>2. l < n /\ n \in Int /\ l \in Int
      BY <1>1, <1>2, <3>1 DEF Scheduled, JobIds, Inv, Typed
    <3>3. k # n
      BY <2>1, <3>2
    <3>4. k \in JobIds /\ jobs'[k] = jobs[k] /\ jobs'[l] = jobs[l]
      BY <1>2, <3>1, <3>3
    <3> QED BY <1>2, <2>1, <3>1, <3>4 DEF OrderInv, ScheduledOrder, JobIds
  <2>2. \A k, l : Before(k, l)' <=> Before(k, l)
    BY <1>2 DEF Before
  <2> QED BY <2>1, <2>2 DEF ScheduledOrder, JobIds
<1> QED BY <1>9, <1>11, <1>12, <1>13, <1>14 DEF OrderInv

LEMMA DeleteMoves ==
  ASSUME Inv, JobsInv, OrderInv, MainDeletes
  PROVE  JobsInv' /\ OrderInv'
<1>1. /\ mpc = "dead" /\ UNCHANGED <<jobs, begun, done, lost, job, pc>> /\ JobIds' = JobIds
      /\ 0 \in Ids
  BY IdsAre DEF MainDeletes, workerVars, JobIds
<1>2. CASE \E t \in Workers : Unflushed(t)
  <2>1. UNCHANGED <<queue, blocked, deleted>> /\ mpc' = "assert"
    BY <1>2 DEF MainDeletes
  <2>2. Quiet(0)
    BY <1>1, <2>1 DEF Quiet, Regrouped, SameLists, EndsKept
  <2> QED BY <1>1, <2>2, QuietKeeps
<1>3. CASE ~ \E t \in Workers : Unflushed(t)
  <2>1. /\ mpc' = "deleted"
        /\ deleted' = UNION {Readable(t) \cup BlockedJobs(t) : t \in Workers}
        /\ \A t \in Workers : queue'[t] = EmptyQueue
        /\ \A t \in Workers, v \in Vids : blocked'[t][v] = <<>>
    BY <1>3 DEF MainDeletes
  <2>2. PICK e : e = EmptyQueue /\ QEmpty(e) /\ IsQueue(e, JobIds)
    BY EmptyIs
  <2>3. /\ e.head = <<>> /\ e.pending = <<>> /\ \A i \in Ids : e.priv[i] = <<>>
        /\ \A t \in Workers : queue'[t] = e
    BY <2>1, <2>2 DEF QEmpty
  <2>4. \A j : /\ \A t \in Workers : NotQueued(queue'[t], j)
               /\ \A t \in Workers, v \in Vids : Absent(blocked'[t][v], j)
    BY <2>1, <2>3, EmptyHasNone DEF NotQueued
  <2>5. \A t \in Workers : job[t] = 0
    BY <1>1 DEF Inv, PhaseInv, Ended
  <2>6. deleted = {}
    BY <1>1 DEF OrderInv, LostInv
  <2>7. \A j : j \in deleted' <=> \E t \in Workers : \/ ~ Absent(queue[t].head, j)
                                                     \/ ~ Absent(queue[t].pending, j)
                                                     \/ \E v \in Vids : ~ Absent(blocked[t][v], j)
    BY <2>1 DEF Readable, BlockedJobs, Absent
  <2>8. ASSUME NEW j \in JobIds PROVE Found(j)'
    <3>1. PICK h \in Homes : IsIn(j, h)
      BY DEF JobsInv
    <3>2. PICK t, v : /\ t = HomeOf(j) /\ v = jobs[j].vid /\ t \in Workers /\ v \in Vids /\ j # 0
                      /\ t = HomeOf(j)' /\ v = jobs'[j].vid
      BY <1>1, JobIs DEF HomeOf
    <3>3. h # "held" /\ h # "deleted"
      BY <2>5, <2>6, <3>1, <3>2 DEF IsIn
    <3>4. \A i \in Ids : Absent(queue[t].priv[i], j)
      BY <1>3, <3>2, EmptyHasNone DEF Unflushed
    <3>5. h = "queue" => j \in deleted'
      <4>1. ASSUME h = "queue" PROVE OnceQueued(queue[t], j)
        BY <3>1, <3>2, <4>1 DEF IsIn
      <4>2. OnceQueued(queue[t], j) => ~ Absent(queue[t].head, j) \/ ~ Absent(queue[t].pending, j)
        BY <3>4, NotBoth DEF OnceQueued
      <4> QED BY <2>7, <3>2, <4>1, <4>2
    <3>6. h = "blocked" => j \in deleted'
      BY <2>7, <3>1, <3>2, NotBoth DEF IsIn
    <3>7. h \in {"done", "lost"} => j \notin deleted'
      <4>1. ASSUME h \in {"done", "lost"} PROVE NotQueued(queue[t], j) /\ Absent(blocked[t][v], j)
        BY <3>1, <3>2, <4>1 DEF IsIn
      <4>2. ASSUME NEW u \in Workers, h \in {"done", "lost"}
            PROVE  NotQueued(queue[u], j) /\ \A x \in Vids : Absent(blocked[u][x], j)
        BY <3>2, <4>1, <4>2 DEF JobsInv, StaysHome
      <4> QED BY <2>7, <4>2 DEF NotQueued
    <3>8. StaysHome(j)'
      BY <1>1, <2>4, <2>5, <3>2 DEF StaysHome
    <3>9. CASE h \in {"queue", "blocked"}
      <4>1. IsIn(j, "deleted")'
        BY <1>1, <2>4, <2>5, <3>1, <3>2, <3>5, <3>6, <3>9 DEF IsIn
      <4> QED BY <3>8, <4>1 DEF Found, Homes
    <3>10. CASE h \in {"done", "lost"}
      <4>1. IsIn(j, h)'
        BY <1>1, <2>4, <2>5, <3>1, <3>2, <3>7, <3>10 DEF IsIn
      <4> QED BY <3>8, <4>1 DEF Found
    <3> QED BY <3>3, <3>9, <3>10 DEF Homes
  <2>9. deleted' \subseteq JobIds
    <3>1. ASSUME NEW j \in deleted', j \notin JobIds PROVE FALSE
      <4>1. PICK t \in Workers : \/ ~ Absent(queue[t].head, j)
                                 \/ ~ Absent(queue[t].pending, j)
                                 \/ \E v \in Vids : ~ Absent(blocked[t][v], j)
        BY <2>7
      <4>2. IsQueue(queue[t], JobIds) /\ \A v \in Vids : blocked[t][v] \in Seq(JobIds)
        BY QueueIs DEF Inv, Typed
      <4> QED BY <3>1, <4>1, <4>2 DEF IsQueue, Absent
    <3> QED BY <3>1
  <2>10. JobsInv'
    BY <1>1, <2>8, <2>9, FoundAll DEF JobsInv
  <2>11. \A j : Fresh(j)' <=> Fresh(j)
    BY <1>1, SameBegun
  <2>12. BegunInv'
    <3>1. \A w \in Workers : pc'[w] # "run"
      BY <1>1 DEF Inv, PhaseInv, Ended
    <3>2. \A t \in Workers, v \in Vids : Len(blocked'[t][v]) = 0
      BY <2>1
    <3> QED BY <1>1, <2>11, <3>1, <3>2 DEF OrderInv, BegunInv
  <2>13. LineInv'
    <3>1. ASSUME NEW R PROVE InLine(0, e, R)
      BY <2>3 DEF InLine, IsAhead, Sorted, Ahead
    <3>2. ASSUME NEW t \in Workers PROVE InLine(job'[t], queue'[t], MayPrecede')
      BY <1>1, <2>3, <2>5, <3>1
    <3>3. ASSUME NEW t \in Workers PROVE OwnBatch(queue[t])'
      BY <2>3 DEF OwnBatch
    <3> QED BY <3>2, <3>3 DEF LineInv
  <2>14. LostInv'
    <3>1. \A j : HomeOf(j)' = HomeOf(j)
      BY <1>1 DEF HomeOf
    <3> QED BY <1>1, <2>1, <2>11, <3>1 DEF OrderInv, LostInv
  <2>15. ScheduledOrder'
    BY <1>1 DEF OrderInv, ScheduledOrder, Before
  <2> QED BY <2>10, <2>12, <2>13, <2>14, <2>15 DEF OrderInv
<1> QED BY <1>2, <1>3

LEMMA FlushedQuiet ==
  ASSUME Inv, NEW i \in Ids, FlushAll(i)
  PROVE  EndsKept /\ \A t \in Workers : Regrouped(queue[t], queue'[t], i)
<1>1. ASSUME NEW t \in Workers
      PROVE  Regrouped(queue[t], queue'[t], i) /\ queue'[t].term = queue[t].term
  <2>1. IsQueue(queue[t], JobIds) /\ queue'[t] = QFlush(queue[t], i)
    BY QueueIs DEF FlushAll
  <2> QED BY <2>1, FlushRegroups
<1> QED BY <1>1 DEF EndsKept

LEMMA TerminatedQuiet ==
  ASSUME Inv, NEW i \in Ids, queue' = [t \in Workers |-> QTerminate(queue[t], i)]
  PROVE  EndsKept /\ \A t \in Workers : Regrouped(queue[t], queue'[t], i)
<1>1. ASSUME NEW t \in Workers
      PROVE  Regrouped(queue[t], queue'[t], i) /\ \A k \in Ids : queue[t].term[k] => queue'[t].term[k]
  <2>1. IsQueue(queue[t], JobIds) /\ queue'[t] = QTerminate(queue[t], i)
    BY QueueIs
  <2> QED BY <2>1, TerminateRegroups, TerminateWrites DEF Written
<1> QED BY <1>1 DEF EndsKept

LEMMA UpdatedQuiet ==
  ASSUME Inv, NEW i \in Ids, NEW u \in Workers, queue' = [queue EXCEPT ![u] = QUpdate(@, i)]
  PROVE  EndsKept /\ \A t \in Workers : Regrouped(queue[t], queue'[t], i)
<1>1. ASSUME NEW t \in Workers
      PROVE  Regrouped(queue[t], queue'[t], i) /\ queue'[t].term = queue[t].term
  <2>1. /\ IsQueue(queue[t], JobIds)
        /\ queue'[t] = queue[t] \/ queue'[t] = QUpdate(queue[t], i)
    BY QueueIs DEF Inv, Typed, QueuesTyped
  <2>2. Regrouped(queue[t], QUpdate(queue[t], i), i) /\ QUpdate(queue[t], i).term = queue[t].term
    BY <2>1, FlushRegroups
  <2> QED BY <2>1, <2>2 DEF Regrouped, SameLists
<1> QED BY <1>1 DEF EndsKept

LEMMA UnchangedQuiet ==
  ASSUME UNCHANGED queue, NEW i
  PROVE  EndsKept /\ \A t \in Workers : Regrouped(queue[t], queue'[t], i)
BY DEF EndsKept, Regrouped, SameLists

LEMMA WorkerQuiet ==
  ASSUME Inv, NEW w \in Workers,
         \/ LoopHead(w) \/ CheckStop(w) \/ Update(w) \/ Advanced(w) \/ Exit(w)
         \/ (\E v \in Vids : JobSchedules(w, v) \/ TimerSchedules(w, v))
         \/ JobStartsTimer(w) \/ TimerFires(w) \/ TimerThrows(w)
  PROVE  Quiet(w)
<1>1. UNCHANGED <<jobs, blocked, job, begun, done, lost, deleted, mpc>>
  BY DEF LoopHead, CheckStop, Update, Advanced, Exit, JobSchedules, TimerSchedules, JobStartsTimer,
         TimerFires, TimerThrows, jobVars, mainVars, workerVars
<1>2. \A u \in Workers : pc'[u] = "run" => pc[u] = "run"
  <2>1. CASE LoopHead(w) \/ CheckStop(w) \/ Exit(w)
    <3>1. PICK p : p # "run" /\ pc' = [pc EXCEPT ![w] = p]
      BY <2>1 DEF LoopHead, CheckStop, Exit, Goto
    <3> QED BY <3>1 DEF Inv, Typed
  <2>2. CASE Update(w) \/ Advanced(w)
    <3>1. PICK p : p # "run" /\ pc' = [pc EXCEPT ![w] = p]
      BY <2>2 DEF Update, Advanced, NextWorker, Goto
    <3> QED BY <3>1 DEF Inv, Typed
  <2>3. CASE \/ (\E v \in Vids : JobSchedules(w, v) \/ TimerSchedules(w, v))
             \/ JobStartsTimer(w) \/ TimerFires(w) \/ TimerThrows(w)
    BY <2>3 DEF JobSchedules, TimerSchedules, JobStartsTimer, TimerFires, TimerThrows, workerVars
  <2> QED BY <2>1, <2>2, <2>3
<1>3. EndsKept /\ \A t \in Workers : Regrouped(queue[t], queue'[t], w)
  <2>1. w \in Ids /\ at[w] \in Workers
    BY IdsAre DEF Inv, Typed
  <2>2. CASE CheckStop(w)
    <3>1. \/ queue' = [t \in Workers |-> QTerminate(queue[t], w)]
          \/ UNCHANGED queue
      BY <2>2 DEF CheckStop
    <3> QED BY <2>1, <3>1, TerminatedQuiet, UnchangedQuiet
  <2>3. CASE Update(w)
    <3>1. queue' = [queue EXCEPT ![at[w]] = QUpdate(@, w)]
      BY <2>3 DEF Update
    <3> QED BY <2>1, <3>1, UpdatedQuiet
  <2>4. CASE Exit(w)
    BY <2>1, <2>4, FlushedQuiet DEF Exit
  <2>5. CASE \/ LoopHead(w) \/ Advanced(w)
             \/ (\E v \in Vids : JobSchedules(w, v) \/ TimerSchedules(w, v))
             \/ JobStartsTimer(w) \/ TimerFires(w) \/ TimerThrows(w)
    <3>1. UNCHANGED queue
      BY <2>5 DEF LoopHead, Advanced, JobSchedules, TimerSchedules, JobStartsTimer,
                  TimerFires, TimerThrows
    <3> QED BY <3>1, UnchangedQuiet
  <2> QED BY <2>2, <2>3, <2>4, <2>5
<1> QED BY <1>1, <1>2, <1>3 DEF Quiet

LEMMA MainQuiet ==
  ASSUME Inv,
         \/ (\E v \in Vids : MainSchedules(v)) \/ MainSleeps \/ MainAdvancesTime
         \/ (\E s \in Requests : MainRequests(s))
         \/ MainTerminates \/ MainReadsIdle \/ MainReadsSize \/ MainJoins \/ UNCHANGED vars
  PROVE  Quiet(0)
<1>1. /\ UNCHANGED <<jobs, blocked, job, begun, done, lost, deleted, pc>>
      /\ mpc = "deleted" => mpc' = "deleted"
  BY DEF MainSchedules, MainSleeps, MainAdvancesTime, MainRequests, MainTerminates, MainReadsIdle,
         MainReadsSize, MainJoins, vars, jobVars, mainVars, workerVars
<1>2. EndsKept /\ \A t \in Workers : Regrouped(queue[t], queue'[t], 0)
  <2>1. CASE MainSleeps
    BY <2>1, IdsAre, FlushedQuiet DEF MainSleeps
  <2>2. CASE MainTerminates
    BY <2>2, IdsAre, TerminatedQuiet DEF MainTerminates
  <2>3. CASE \/ (\E v \in Vids : MainSchedules(v)) \/ MainAdvancesTime
             \/ (\E s \in Requests : MainRequests(s))
             \/ MainReadsIdle \/ MainReadsSize \/ MainJoins \/ UNCHANGED vars
    <3>1. UNCHANGED queue
      BY <2>3 DEF MainSchedules, MainAdvancesTime, MainRequests, MainReadsIdle,
                  MainReadsSize, MainJoins, vars
    <3> QED BY <3>1, UnchangedQuiet
  <2> QED BY <2>1, <2>2, <2>3
<1> QED BY <1>1, <1>2 DEF Quiet

LEMMA JobsInit ==
  ASSUME Init
  PROVE  JobsInv /\ OrderInv
<1>1. /\ JobIds = {} /\ begun \in Seq(JobIds) /\ Len(begun) = 0 /\ Len(jobs) = 0
      /\ done = {} /\ lost = {} /\ deleted = {}
  BY DEF Init, JobIds
<1>2. \A t \in Workers : job[t] = 0 /\ pc[t] = "loop" /\ queue[t] = EmptyQueue
  BY DEF Init
<1>3. PICK e : e = EmptyQueue /\ QEmpty(e)
  BY EmptyIs
<1>4. e.head = <<>> /\ e.pending = <<>> /\ \A i \in Ids : e.priv[i] = <<>>
  BY <1>3 DEF QEmpty
<1>5. LineInv
  <2>1. \A R : InLine(0, e, R)
    BY <1>4 DEF InLine, IsAhead, Sorted, Ahead
  <2>2. OwnBatch(e)
    BY <1>4 DEF OwnBatch
  <2> QED BY <1>2, <1>3, <2>1, <2>2 DEF LineInv
<1>6. JobsInv
  BY <1>1 DEF JobsInv
<1>7. BegunInv
  <2>1. \A t \in Workers, v \in Vids : Len(blocked[t][v]) = 0
    BY DEF Init
  <2> QED BY <1>1, <1>2, <2>1 DEF BegunInv
<1>8. LostInv /\ ScheduledOrder
  BY <1>1 DEF LostInv, ScheduledOrder
<1> QED BY <1>5, <1>6, <1>7, <1>8 DEF OrderInv

LEMMA JobsNext ==
  ASSUME Inv, JobsInv, OrderInv, [Next]_vars
  PROVE  JobsInv' /\ OrderInv'
<1>1. CASE UNCHANGED vars \/ MainRuns \/ Stopped
  <2>1. Quiet(0)
    BY <1>1, MainQuiet DEF MainRuns, Stopped
  <2> QED BY <2>1, IdsAre, QuietKeeps
<1>2. CASE MainStep
  <2>1. CASE ScheduleEnd(0)
    BY <2>1, IdsAre, ScheduleMoves
  <2>2. CASE MainDeletes
    BY <2>2, DeleteMoves
  <2>3. CASE MainTerminates \/ MainReadsIdle \/ MainReadsSize \/ MainJoins
    <3>1. Quiet(0)
      BY <2>3, MainQuiet
    <3> QED BY <3>1, IdsAre, QuietKeeps
  <2> QED BY <1>2, <2>1, <2>2, <2>3 DEF MainStep
<1>3. ASSUME NEW w \in Workers, WorkerStep(w) PROVE JobsInv' /\ OrderInv'
  <2>1. w \in Ids
    BY IdsAre
  <2>2. CASE ReadJob(w) \/ CheckState(w)
    BY <2>2, ReadMoves, CheckStateMoves
  <2>3. CASE JobYields(w) \/ JobBlocks(w) \/ JobReturns(w) \/ JobThrows(w)
    BY <2>3, YieldMoves, BlockMoves, EndMoves
  <2>4. CASE JobUnblocks(w)
    <3>1. VidOf(w) \in Vids
      BY <2>4, JobIsKnown DEF JobUnblocks, Running
    <3>2. Unblock(w, VidOf(w)) /\ UNCHANGED <<jobs, begun, done, deleted, mpc, pc, job>>
      BY <2>4 DEF JobUnblocks, mainVars, workerVars
    <3> QED BY <3>1, <3>2, UnblockMoves
  <2>5. CASE \E v \in Vids : TimerUnblocks(w, v)
    <3>1. PICK v \in Vids : TimerUnblocks(w, v)
      BY <2>5
    <3>2. Unblock(at[w], v) /\ UNCHANGED <<jobs, begun, done, deleted, mpc, pc, job>>
      BY <3>1 DEF TimerUnblocks, mainVars, workerVars
    <3>3. at[w] \in Workers
      BY DEF Inv, Typed
    <3> QED BY <3>2, <3>3, UnblockMoves
  <2>6. CASE ScheduleEnd(w)
    BY <2>1, <2>6, ScheduleMoves
  <2>7. CASE \/ LoopHead(w) \/ CheckStop(w) \/ Update(w) \/ Advanced(w) \/ Exit(w)
             \/ (\E v \in Vids : JobSchedules(w, v) \/ TimerSchedules(w, v))
             \/ JobStartsTimer(w) \/ TimerFires(w) \/ TimerThrows(w)
    <3>1. Quiet(w)
      BY <2>7, WorkerQuiet
    <3> QED BY <2>1, <3>1, QuietKeeps
  <2> QED BY <1>3, <2>2, <2>3, <2>4, <2>5, <2>6, <2>7 DEF WorkerStep
<1> QED BY <1>1, <1>2, <1>3 DEF Next

LEMMA JobsHold == Spec => [](Inv /\ JobsInv /\ OrderInv)
<1>1. Init => JobsInv /\ OrderInv
  BY JobsInit
<1>2. Inv /\ (JobsInv /\ OrderInv) /\ [Next]_vars => (JobsInv /\ OrderInv)'
  BY JobsNext
<1> QED BY <1>1, <1>2, InvHolds, PTL DEF Spec

(***************************************************************************)
(* Jobs that one thread schedules to one virtual thread start in the order *)
(* they were scheduled, whatever other threads write to the same queue,    *)
(* whenever batches are flushed, ends closed and the timers of a worker's  *)
(* own contexts fired (ScheduledOrder).                                    *)
(***************************************************************************)
THEOREM JobsStartInOrder == Spec => []ScheduledOrder
<1>1. OrderInv => ScheduledOrder
  BY DEF OrderInv
<1> QED BY <1>1, JobsHold, PTL

-----------------------------------------------------------------------------
(* The bounds of the counters *)
CountsInv ==
  /\ state \in {"RUN", "FINISH", "STOP", "KILL", "DEAD"}
  /\ num_excpts \in Nat
  /\ mi \in Workers /\ midle \in 0..(mi - 1)

TimeInv ==
  /\ global_time \in 0..MaxTime
  /\ wtime \in [Workers -> 0..MaxTime] /\ gt \in [Workers -> 0..MaxTime]
  /\ started \in 0..MaxTimers /\ \A t \in Workers : timers[t] <= started

(* The threads that are scheduling a job *)
Calls == {i \in Ids : sched[i] # NoCall}

(* A context is created for a job, at most one for each. *)
ContextInv ==
  /\ Len(jobs) + Cardinality(Calls) <= MaxJobs
  /\ nctxs <= Len(jobs)
  /\ \A v \in Vids : ctxs[v] <= nctxs
  /\ \A i \in Ids : sched[i].ctx <= nctxs
  /\ \A j \in JobIds : jobs[j].ctx \in 1..nctxs

(* Workers close their ends of the queues only in state STOP, main only    *)
(* after it has stopped scheduling.                                        *)
ClosedInv ==
  /\ \A t, w \in Workers : queue[t].term[w] => state \in {"STOP", "DEAD"}
  /\ mpc = "run" => state = "RUN" /\ \A t \in Workers : ~ queue[t].term[0]
  /\ lost # {} => state \in {"STOP", "DEAD"}

BoundsInv == CountsInv /\ TimeInv /\ ContextInv /\ ClosedInv

LEMMA CountsInit ==
  ASSUME Init
  PROVE  CountsInv
BY ThreadMgrAssumption DEF Init, CountsInv, Workers

LEMMA MainNextCounts ==
  ASSUME CountsInv, NEW n \in 0..mi, MainNext(n), UNCHANGED num_excpts
  PROVE  CountsInv'
<1>1. mi \in 1..NumWorkers /\ NumWorkers \in Nat
  BY ThreadMgrAssumption DEF CountsInv, Workers
<1>2. mi' \in Workers /\ midle' \in 0..(mi' - 1)
  BY <1>1 DEF MainNext, Workers
<1> QED BY <1>2 DEF CountsInv, MainNext

LEMMA CountsNext ==
  ASSUME Inv, CountsInv, [Next]_vars
  PROVE  CountsInv'
<1>1. ASSUME UNCHANGED <<mi, midle>>, num_excpts' \in {num_excpts, num_excpts + 1},
             state' \in {state, "FINISH", "STOP", "KILL", "DEAD"}
      PROVE  CountsInv'
  BY <1>1 DEF CountsInv
<1>2. CASE UNCHANGED vars \/ Stopped
  BY <1>1, <1>2 DEF vars, mainVars, Stopped
<1>3. CASE MainRuns
  BY <1>1, <1>3, ThreadMgrAssumption DEF MainRuns, MainSchedules, MainSleeps, MainAdvancesTime, MainRequests, mainVars
<1>4. CASE MainStep
  <2>1. CASE ScheduleEnd(0)
    BY <1>1, <2>1 DEF ScheduleEnd, mainVars
  <2>2. CASE MainTerminates \/ MainJoins \/ MainDeletes
    BY <1>1, <2>2 DEF MainTerminates, MainJoins, MainDeletes
  <2>3. CASE MainReadsIdle
    <3>1. num_excpts' = num_excpts /\ midle \in 0..mi
      BY <2>3 DEF MainReadsIdle, CountsInv, Workers
    <3>2. CASE idle[mi]
      BY <1>1, <2>3, <3>1, <3>2 DEF MainReadsIdle
    <3>3. CASE ~ idle[mi]
      BY <2>3, <3>1, <3>3, MainNextCounts DEF MainReadsIdle
    <3> QED BY <3>2, <3>3
  <2>4. CASE MainReadsSize
    <3>1. PICK n : /\ n = (IF QEmpty(queue[mi]) THEN midle + 1 ELSE midle) /\ MainNext(n)
                   /\ UNCHANGED num_excpts
      BY <2>4 DEF MainReadsSize
    <3>2. n \in 0..mi
      BY <3>1 DEF CountsInv, Workers
    <3> QED BY <3>1, <3>2, MainNextCounts
  <2> QED BY <1>4, <2>1, <2>2, <2>3, <2>4 DEF MainStep
<1>5. ASSUME NEW w \in Workers, WorkerStep(w) PROVE CountsInv'
  <2>1. UNCHANGED <<mi, midle, state>> /\ num_excpts' \in {num_excpts, num_excpts + 1}
    BY <1>5 DEF WorkerStep, LoopHead, ReadJob, CheckState, CheckStop, Update, JobSchedules, JobStartsTimer, JobUnblocks,
       JobYields, JobBlocks, JobReturns, JobThrows, Uncaught, TimerSchedules, TimerFires, TimerThrows, TimerUnblocks,
       Advanced, ScheduleEnd, Exit, mainVars
  <2> QED BY <1>1, <2>1
<1> QED BY <1>2, <1>3, <1>4, <1>5 DEF Next

LEMMA TimeInit ==
  ASSUME Init
  PROVE  TimeInv
BY ThreadMgrAssumption DEF Init, TimeInv

(* A pending timer of worker t is taken. *)
LEMMA TimerTaken ==
  ASSUME Inv, TimeInv, NEW t \in Workers, timers' = [timers EXCEPT ![t] = @ - 1],
         UNCHANGED <<global_time, wtime, gt, started>>
  PROVE  TimeInv'
<1>1. \A u \in Workers : timers[u] \in Nat /\ timers'[u] \in {timers[u], timers[u] - 1}
  BY DEF Inv, Typed
<1>2. started \in Nat /\ \A u \in Workers : timers'[u] <= started
  BY <1>1, ThreadMgrAssumption DEF TimeInv
<1> QED BY <1>2 DEF TimeInv

LEMMA TimeOn ==
  ASSUME Typed, TimeInv, NEW w \in Workers, NextWorker(w)
  PROVE  gt' \in [Workers -> 0..MaxTime]
<1>1. 0 \in 0..MaxTime /\ gt \in [Workers -> 0..MaxTime] /\ gt[w] \in 0..MaxTime
  BY ThreadMgrAssumption DEF TimeInv
<1>2. PICK x \in 0..MaxTime : gt' = [gt EXCEPT ![w] = x]
  BY <1>1 DEF NextWorker
<1> QED BY <1>1, <1>2

LEMMA TimeNext ==
  ASSUME Inv, TimeInv, [Next]_vars
  PROVE  TimeInv'
<1>1. ASSUME UNCHANGED <<timers, started, wtime>>, global_time' \in 0..MaxTime,
             gt' \in [Workers -> 0..MaxTime]
      PROVE  TimeInv'
  BY <1>1 DEF TimeInv
<1>2. global_time \in 0..MaxTime /\ gt \in [Workers -> 0..MaxTime] /\ MaxTime \in Nat
  BY ThreadMgrAssumption DEF TimeInv
<1>3. CASE UNCHANGED vars \/ Stopped
  BY <1>1, <1>2, <1>3 DEF vars, timeVars, workerVars, Stopped
<1>4. CASE MainRuns
  <2>1. UNCHANGED <<timers, started, wtime, gt>>
    BY <1>4 DEF MainRuns, MainSchedules, MainSleeps, MainAdvancesTime, MainRequests, timeVars, workerVars
  <2>2. global_time' = global_time \/ (global_time < MaxTime /\ global_time' = global_time + 1)
    BY <1>4 DEF MainRuns, MainSchedules, MainSleeps, MainAdvancesTime, MainRequests, timeVars, workerVars
  <2>3. global_time' \in 0..MaxTime
    BY <1>2, <2>2
  <2> QED BY <1>1, <1>2, <2>1, <2>3
<1>5. CASE MainStep
  BY <1>1, <1>2, <1>5 DEF MainStep, ScheduleEnd, MainTerminates, MainReadsIdle, MainReadsSize, MainJoins,
     MainDeletes, timeVars, workerVars
<1>6. ASSUME NEW w \in Workers, WorkerStep(w) PROVE TimeInv'
  <2>0. at[w] \in Workers
    BY DEF Inv, Typed
  <2>1. CASE \/ LoopHead(w) \/ ReadJob(w) \/ CheckState(w) \/ (\E v \in Vids : JobSchedules(w, v))
             \/ JobUnblocks(w) \/ JobYields(w) \/ JobBlocks(w) \/ JobReturns(w) \/ JobThrows(w)
             \/ ScheduleEnd(w) \/ Exit(w)
    BY <1>1, <1>2, <2>1 DEF LoopHead, ReadJob, CheckState, JobSchedules, JobUnblocks, JobYields, JobBlocks,
       JobReturns, JobThrows, ScheduleEnd, Exit, timeVars, workerVars
  <2>2. CASE CheckStop(w)
    BY <1>1, <1>2, <2>2 DEF CheckStop, timeVars
  <2>3. CASE Update(w)
    <3>1. gt' \in [Workers -> 0..MaxTime]
      BY <1>2, <2>3, TimeOn DEF Update, Inv
    <3> QED BY <1>1, <1>2, <2>3, <3>1 DEF Update, timeVars
  <2>4. CASE \/ (\E v \in Vids : TimerSchedules(w, v) \/ TimerUnblocks(w, v))
             \/ TimerFires(w) \/ TimerThrows(w)
    BY <2>0, <2>4, TimerTaken DEF TimerSchedules, TimerUnblocks, TimerFires, TimerThrows, workerVars
  <2>5. CASE Advanced(w)
    <3>1. gt' \in [Workers -> 0..MaxTime] /\ gt[w] \in 0..MaxTime
      BY <1>2, <2>5, TimeOn DEF Advanced, Inv
    <3>2. wtime' \in [Workers -> 0..MaxTime]
      BY <2>5, <3>1 DEF Advanced, TimeInv
    <3> QED BY <2>5, <3>1, <3>2 DEF Advanced, TimeInv
  <2>6. CASE JobStartsTimer(w)
    <3>1. started \in Nat /\ MaxTimers \in Nat /\ started < MaxTimers /\ started' = started + 1
      BY <2>6, ThreadMgrAssumption DEF JobStartsTimer, TimeInv
    <3>2. \A u \in Workers : /\ timers[u] \in Nat /\ timers'[u] \in {timers[u], timers[u] + 1}
                             /\ timers[u] <= started
      BY <2>6 DEF JobStartsTimer, Inv, Typed, TimeInv
    <3>3. started' \in 0..MaxTimers /\ \A u \in Workers : timers'[u] <= started'
      BY <3>1, <3>2
    <3> QED BY <2>6, <3>3 DEF JobStartsTimer, TimeInv, workerVars
  <2> QED BY <1>6, <2>1, <2>2, <2>3, <2>4, <2>5, <2>6 DEF WorkerStep
<1> QED BY <1>3, <1>4, <1>5, <1>6 DEF Next

LEMMA CallsFinite ==
  ASSUME NEW S, S \subseteq Ids
  PROVE  IsFiniteSet(S) /\ Cardinality(S) \in Nat
<1>1. NumWorkers \in Int /\ 0 \in Int
  BY ThreadMgrAssumption
<1>2. IsFiniteSet(0..NumWorkers)
  BY <1>1, FS_Interval
<1>3. IsFiniteSet(S)
  BY <1>2, FS_Subset DEF Ids
<1> QED BY <1>3, FS_CardinalityType

LEMMA CallsCounted ==
  ASSUME Inv
  PROVE  Len(jobs) \in Nat /\ Cardinality(Calls) \in Nat /\ IsFiniteSet(Calls)
<1>1. Calls \subseteq Ids
  BY DEF Calls
<1>2. Len(jobs) \in Nat
  BY DEF Inv, Typed
<1> QED BY <1>1, <1>2, CallsFinite

LEMMA ContextInit ==
  ASSUME Init
  PROVE  ContextInv
<1>1. NoCall.ctx = 0
  BY DEF NoCall
<1>2. Len(jobs) = 0 /\ JobIds = {} /\ nctxs = 0 /\ Calls = {} /\ MaxJobs \in Nat
  BY ThreadMgrAssumption DEF Init, JobIds, Calls
<1>3. Cardinality(Calls) = 0
  BY <1>2, FS_EmptySet
<1>4. /\ \A v \in Vids : ctxs[v] = 0
      /\ \A i \in Ids : sched[i].ctx = 0
  BY <1>1 DEF Init
<1> QED BY <1>2, <1>3, <1>4 DEF ContextInv

LEMMA BeginContext ==
  ASSUME Inv, ContextInv, NEW i \in Ids, NEW v \in Vids, ScheduleBegin(i, v),
         UNCHANGED <<jobs, ctxs, nctxs>>
  PROVE  ContextInv'
<1>1. PICK x, c : c = ctxs[v] /\ x = [vid |-> v, ctx |-> c]
  OBVIOUS
<1>2. /\ sched[i] = NoCall /\ DOMAIN sched = Ids
      /\ \A k \in Ids : sched'[k] = IF k = i THEN x ELSE sched[k]
      /\ Len(jobs) + Cardinality(Calls) < MaxJobs
  BY <1>1 DEF ScheduleBegin, Inv, CallsInv, Calls
<1>3. PICK m, n : /\ m = Len(jobs) /\ n = Cardinality(Calls) /\ m \in Nat /\ n \in Nat
                  /\ IsFiniteSet(Calls) /\ MaxJobs \in Nat
  BY CallsCounted, ThreadMgrAssumption
<1>4. Calls' \subseteq Calls \cup {i} /\ i \notin Calls
  BY <1>2 DEF Calls
<1>5. Cardinality(Calls \cup {i}) = n + 1 /\ IsFiniteSet(Calls \cup {i})
  BY <1>3, <1>4, FS_AddElement
<1>6. PICK l : l = Cardinality(Calls') /\ l \in Nat /\ l <= n + 1
  <2>1. Calls' \subseteq Ids
    BY DEF Calls
  <2> QED BY <1>4, <1>5, <2>1, FS_Subset, CallsFinite
<1>7. Len(jobs') + Cardinality(Calls') <= MaxJobs
  BY <1>2, <1>3, <1>6
<1>8. \A k \in Ids : sched'[k].ctx <= nctxs'
  BY <1>1, <1>2 DEF ContextInv
<1> QED BY <1>7, <1>8 DEF ContextInv, JobIds

LEMMA EndContext ==
  ASSUME Inv, ContextInv, NEW i \in Ids, ScheduleEnd(i)
  PROVE  ContextInv'
<1>1. PICK v, d, c, e, x : /\ v = sched[i].vid /\ c = sched[i].ctx /\ d = ContextFor(i)
                           /\ x = [vid |-> v, by |-> i, ctx |-> d] /\ e = nctxs
  OBVIOUS
<1>2. /\ v \in Vids /\ c \in Nat /\ e \in Nat /\ DOMAIN sched = Ids
      /\ d = IF c # 0 THEN c ELSE e + 1
      /\ nctxs' = IF c # 0 THEN e ELSE e + 1
      /\ c <= e
  BY <1>1 DEF Inv, CallsInv, Typed, ScheduleEnd, ContextFor, ContextInv
<1>3. PICK f \in Nat : f = nctxs' /\ e <= f /\ f <= e + 1 /\ d \in 1..f /\ d \in Nat
  BY <1>2
<1>4. PICK m, n : /\ m = Len(jobs) /\ n = Cardinality(Calls) /\ m \in Nat /\ n \in Nat
                  /\ IsFiniteSet(Calls) /\ MaxJobs \in Nat /\ m + n <= MaxJobs /\ e <= m
  <2>1. Len(jobs) \in Nat /\ Cardinality(Calls) \in Nat /\ IsFiniteSet(Calls) /\ MaxJobs \in Nat
    BY CallsCounted, ThreadMgrAssumption
  <2>2. Len(jobs) + Cardinality(Calls) <= MaxJobs /\ e <= Len(jobs)
    BY <1>1 DEF ContextInv
  <2> QED BY <2>1, <2>2
<1>5. \A k \in Ids : sched'[k] = IF k = i THEN NoCall ELSE sched[k]
  BY <1>2 DEF ScheduleEnd
<1>6. i \in Calls /\ Calls' \subseteq Calls \ {i}
  BY <1>5 DEF Calls, ScheduleEnd
<1>7. Cardinality(Calls \ {i}) = n - 1 /\ IsFiniteSet(Calls \ {i})
  BY <1>4, <1>6, FS_RemoveElement
<1>8. PICK l : l = Cardinality(Calls') /\ l \in Nat /\ l <= n - 1
  <2>1. Calls' \subseteq Ids
    BY DEF Calls
  <2> QED BY <1>6, <1>7, <2>1, FS_Subset, CallsFinite
<1>9. jobs \in Seq(JobType) /\ x \in JobType /\ jobs' = Append(jobs, x) /\ x.ctx = d
  <2>1. jobs \in Seq(JobType) /\ jobs' = Append(jobs, x)
    BY <1>1 DEF Inv, Typed, ScheduleEnd
  <2>2. x \in JobType /\ x.ctx = d
    BY <1>1, <1>2, <1>3 DEF JobType
  <2> QED BY <2>1, <2>2
<1>10. Len(jobs') = m + 1 /\ jobs'[m + 1] = x /\ \A j \in 1..m : jobs'[j] = jobs[j]
  BY <1>4, <1>9
<1>11. Len(jobs') + Cardinality(Calls') <= MaxJobs /\ nctxs' <= Len(jobs')
  <2>1. (m + 1) + l <= MaxJobs
    BY <1>4, <1>8
  <2>2. f <= m + 1
    BY <1>2, <1>3, <1>4
  <2> QED BY <1>3, <1>8, <1>10, <2>1, <2>2
<1>12. \A u \in Vids : ctxs'[u] <= nctxs'
  <2>1. \A u \in Vids : ctxs'[u] = (IF u = v THEN d ELSE ctxs[u]) /\ ctxs[u] \in Nat /\ ctxs[u] <= e
    BY <1>1, <1>2 DEF ScheduleEnd, Inv, Typed, ContextInv
  <2> QED BY <1>2, <1>3, <2>1
<1>13. \A k \in Ids : sched'[k].ctx <= nctxs'
  <2>1. NoCall.ctx = 0
    BY DEF NoCall
  <2>2. \A k \in Ids : sched[k].ctx \in Nat /\ sched[k].ctx <= e
    BY <1>1, <2>1 DEF Inv, CallsInv, ContextInv
  <2> QED BY <1>2, <1>3, <1>5, <2>1, <2>2
<1>14. \A j \in JobIds' : jobs'[j].ctx \in 1..nctxs'
  <2>1. ASSUME NEW j \in 1..m PROVE jobs'[j].ctx \in 1..f
    <3>1. jobs[j].ctx \in 1..e
      BY <1>1, <1>4 DEF ContextInv, JobIds
    <3> QED BY <1>2, <1>3, <1>10, <3>1
  <2>2. jobs'[m + 1].ctx \in 1..f
    BY <1>3, <1>9, <1>10
  <2>3. \A j \in 1..(m + 1) : j \in 1..m \/ j = m + 1
    BY <1>4
  <2>4. JobIds' = 1..(m + 1)
    BY <1>10 DEF JobIds
  <2> QED BY <1>3, <2>1, <2>2, <2>3, <2>4
<1> QED BY <1>11, <1>12, <1>13, <1>14 DEF ContextInv

LEMMA ContextNext ==
  ASSUME Inv, ContextInv, [Next]_vars
  PROVE  ContextInv'
<1>1. ASSUME UNCHANGED <<jobs, ctxs, nctxs, sched>> PROVE ContextInv'
  BY <1>1 DEF ContextInv, Calls, JobIds
<1>2. 0 \in Ids /\ Workers \subseteq Ids
  BY IdsAre
<1>3. CASE UNCHANGED vars \/ Stopped
  BY <1>1, <1>3 DEF vars, Stopped
<1>4. CASE MainRuns
  <2>1. ASSUME NEW v \in Vids, MainSchedules(v) PROVE ContextInv'
    BY <1>2, <2>1, BeginContext DEF MainSchedules
  <2>2. CASE MainSleeps \/ MainAdvancesTime \/ \E s \in Requests : MainRequests(s)
    BY <1>1, <2>2 DEF MainSleeps, MainAdvancesTime, MainRequests
  <2> QED BY <1>4, <2>1, <2>2 DEF MainRuns
<1>5. CASE MainStep
  <2>1. CASE ScheduleEnd(0)
    BY <1>2, <2>1, EndContext
  <2>2. CASE MainTerminates \/ MainReadsIdle \/ MainReadsSize \/ MainJoins \/ MainDeletes
    BY <1>1, <2>2 DEF MainTerminates, MainReadsIdle, MainReadsSize, MainJoins, MainDeletes
  <2> QED BY <1>5, <2>1, <2>2 DEF MainStep
<1>6. ASSUME NEW w \in Workers, WorkerStep(w) PROVE ContextInv'
  <2>1. CASE ScheduleEnd(w)
    BY <1>2, <2>1, EndContext
  <2>2. ASSUME NEW v \in Vids, JobSchedules(w, v) \/ TimerSchedules(w, v) PROVE ContextInv'
    BY <1>2, <2>2, BeginContext DEF JobSchedules, TimerSchedules
  <2>3. CASE \/ LoopHead(w) \/ ReadJob(w) \/ CheckState(w) \/ CheckStop(w) \/ Update(w)
             \/ JobStartsTimer(w) \/ JobUnblocks(w) \/ JobYields(w) \/ JobBlocks(w) \/ JobReturns(w)
             \/ JobThrows(w) \/ TimerFires(w) \/ TimerThrows(w)
             \/ (\E v \in Vids : TimerUnblocks(w, v)) \/ Advanced(w) \/ Exit(w)
    BY <1>1, <2>3 DEF LoopHead, ReadJob, CheckState, CheckStop, Update, JobStartsTimer, JobUnblocks,
       JobYields, JobBlocks, JobReturns, JobThrows, TimerFires, TimerThrows, TimerUnblocks, Advanced, Exit
  <2> QED BY <1>6, <2>1, <2>2, <2>3 DEF WorkerStep
<1> QED BY <1>3, <1>4, <1>5, <1>6 DEF Next

(* No end of a queue is closed. *)
EndsOpen == \A t \in Workers, k \in Ids : queue'[t].term[k] => queue[t].term[k]

LEMMA ClosedStays ==
  ASSUME ClosedInv, EndsOpen, state' = state \/ (state' \in {"STOP", "DEAD"} /\ mpc' # "run"),
         mpc' = "run" => mpc = "run",
         lost' # {} => lost # {} \/ state \in {"STOP", "DEAD"}
  PROVE  ClosedInv'
BY IdsAre DEF ClosedInv, EndsOpen

LEMMA SameEndsOpen ==
  ASSUME \A t \in Workers : queue'[t].term = queue[t].term
  PROVE  EndsOpen
BY DEF EndsOpen

LEMMA FlushEndsOpen ==
  ASSUME Inv, NEW i \in Ids, FlushAll(i) \/ UNCHANGED queue
  PROVE  EndsOpen
<1>1. ASSUME NEW t \in Workers PROVE queue'[t].term = queue[t].term
  <2>1. IsQueue(queue[t], JobIds) /\ (queue'[t] = QFlush(queue[t], i) \/ queue'[t] = queue[t])
    BY QueueIs DEF FlushAll
  <2>2. QFlush(queue[t], i).term = queue[t].term
    BY <2>1, FlushRegroups
  <2> QED BY <2>1, <2>2
<1> QED BY <1>1, SameEndsOpen

LEMMA TerminateCloses ==
  ASSUME Inv, NEW i \in Ids, queue' = [t \in Workers |-> QTerminate(queue[t], i)]
  PROVE  \A t \in Workers, k \in Ids : queue'[t].term[k] => queue[t].term[k] \/ k = i
<1>1. ASSUME NEW t \in Workers, NEW k \in Ids, k # i PROVE queue'[t].term[k] = queue[t].term[k]
  <2>1. IsQueue(queue[t], JobIds) /\ queue'[t] = QTerminate(queue[t], i)
    BY QueueIs
  <2>2. PICK f : f = queue[t].term /\ f \in [Ids -> BOOLEAN] /\ queue'[t].term = [f EXCEPT ![i] = TRUE]
    BY <2>1, TerminateRegroups DEF IsQueue
  <2> QED BY <1>1, <2>2
<1> QED BY <1>1

LEMMA ClosedInit ==
  ASSUME Init
  PROVE  ClosedInv
<1>1. \A t \in Workers, k \in Ids : ~ queue[t].term[k]
  BY DEF Init, EmptyQueue
<1> QED BY <1>1, IdsAre DEF Init, ClosedInv

LEMMA WorkerClosed ==
  ASSUME Inv, ClosedInv, NEW w \in Workers, WorkerStep(w)
  PROVE  ClosedInv'
<1>1. w \in Ids /\ at[w] \in Workers /\ DOMAIN sched = Ids /\ UNCHANGED <<state, mpc>>
  BY IdsAre DEF Inv, Typed, CallsInv, WorkerStep, LoopHead, ReadJob, CheckState, CheckStop, Update,
     JobSchedules, JobStartsTimer, JobUnblocks, JobYields, JobBlocks, JobReturns, JobThrows,
     TimerSchedules, TimerFires, TimerThrows, TimerUnblocks, Advanced, ScheduleEnd, Exit, mainVars
<1>2. ASSUME EndsOpen, lost' # {} => lost # {} \/ state \in {"STOP", "DEAD"}
      PROVE  ClosedInv'
  BY <1>1, <1>2, ClosedStays DEF ClosedInv
<1>3. CASE \/ LoopHead(w) \/ CheckState(w) \/ JobStartsTimer(w) \/ JobBlocks(w) \/ JobReturns(w)
           \/ JobThrows(w) \/ TimerFires(w) \/ TimerThrows(w) \/ Advanced(w) \/ Exit(w)
  <2>1. /\ FlushAll(w) \/ UNCHANGED queue
        /\ UNCHANGED <<sched, lost>>
    BY <1>3 DEF LoopHead, CheckState, JobStartsTimer, JobBlocks, JobReturns, JobThrows,
       TimerFires, TimerThrows, Advanced, Exit, jobVars
  <2> QED BY <1>1, <1>2, <2>1, FlushEndsOpen
<1>4. CASE ReadJob(w)
  <2>1. ASSUME NEW t \in Workers PROVE queue'[t].term = queue[t].term
    <3>1. /\ IsQueue(queue[t], JobIds)
          /\ queue'[t] = queue[t] \/ queue'[t] = QRead(queue[t])
      BY <1>4, QueueIs DEF ReadJob, Inv, Typed, QueuesTyped
    <3>2. QRead(queue[t]).term = queue[t].term
      BY <3>1, ReadIs
    <3> QED BY <3>1, <3>2
  <2>2. UNCHANGED <<sched, lost>>
    BY <1>4 DEF ReadJob, jobVars
  <2> QED BY <1>2, <2>1, <2>2, SameEndsOpen
<1>5. CASE Update(w)
  <2>1. ASSUME NEW t \in Workers PROVE queue'[t].term = queue[t].term
    <3>1. /\ IsQueue(queue[t], JobIds)
          /\ queue'[t] = queue[t] \/ queue'[t] = QUpdate(queue[t], w)
      BY <1>5, QueueIs DEF Update, Inv, Typed, QueuesTyped
    <3>2. QUpdate(queue[t], w).term = queue[t].term
      BY <1>1, <3>1, FlushRegroups
    <3> QED BY <3>1, <3>2
  <2>2. UNCHANGED <<sched, lost>>
    BY <1>5 DEF Update, jobVars
  <2> QED BY <1>2, <2>1, <2>2, SameEndsOpen
<1>6. CASE JobYields(w)
  <2>1. JobIds' = JobIds /\ job[w] \in JobIds
    BY <1>6, JobIsKnown DEF JobYields, Running, JobIds
  <2>2. \A t \in Workers : queue'[t].term = queue[t].term
    BY <1>1, <1>6, <2>1, WritePuts DEF JobYields
  <2>3. lost' # {} => lost # {} \/ queue[w].term[w]
    BY <1>6 DEF JobYields
  <2>4. UNCHANGED sched
    BY <1>6 DEF JobYields
  <2> QED BY <1>2, <2>2, <2>3, <2>4, SameEndsOpen DEF ClosedInv
<1>7. ASSUME NEW t \in Workers, NEW v \in Vids, Unblock(t, v), UNCHANGED <<jobs, sched>>
      PROVE  ClosedInv'
  <2>1. \A u \in Workers : queue'[u].term = queue[u].term
    BY <1>7, UnblockPuts
  <2>2. lost' # {} => lost # {} \/ queue[t].term[t]
    BY <1>7 DEF Unblock
  <2> QED BY <1>2, <1>7, <2>1, <2>2, SameEndsOpen DEF ClosedInv
<1>8. CASE JobUnblocks(w)
  <2>1. VidOf(w) \in Vids
    BY <1>8, JobIsKnown DEF JobUnblocks, Running
  <2> QED BY <1>7, <1>8, <2>1 DEF JobUnblocks
<1>9. CASE \E v \in Vids : TimerUnblocks(w, v)
  BY <1>1, <1>7, <1>9 DEF TimerUnblocks
<1>10. CASE \E v \in Vids : JobSchedules(w, v) \/ TimerSchedules(w, v)
  <2>1. UNCHANGED <<queue, lost>>
    BY <1>10 DEF JobSchedules, TimerSchedules, jobVars
  <2>2. EndsOpen
    BY <2>1 DEF EndsOpen
  <2> QED BY <1>2, <2>1, <2>2
<1>11. CASE ScheduleEnd(w)
  <2>1. \A u \in Workers : queue'[u].term = queue[u].term
    BY <1>1, <1>11, ScheduleIs DEF Scheduled
  <2>2. PICK t : t = WorkerOf[sched[w].vid] /\ t \in Workers
    BY <1>1, <1>11, ThreadMgrAssumption DEF ScheduleEnd, Inv, CallsInv
  <2>3. lost' # {} => lost # {} \/ queue[t].term[w]
    BY <1>11, <2>2 DEF ScheduleEnd
  <2> QED BY <1>2, <2>1, <2>2, <2>3, SameEndsOpen DEF ClosedInv
<1>12. CASE CheckStop(w)
  <2>1. UNCHANGED <<sched, lost>>
    BY <1>12 DEF CheckStop, jobVars
  <2>2. CASE UNCHANGED queue
    BY <1>1, <1>2, <2>1, <2>2, FlushEndsOpen
  <2>3. CASE state = "STOP" /\ queue' = [t \in Workers |-> QTerminate(queue[t], w)]
    <3>1. \A t \in Workers, k \in Ids : queue'[t].term[k] => queue[t].term[k] \/ k = w
      BY <1>1, <2>3, TerminateCloses
    <3>2. \A t \in Workers : queue'[t].term[0] => queue[t].term[0]
      BY <3>1, IdsAre
    <3> QED BY <1>1, <2>1, <2>3, <3>2 DEF ClosedInv
  <2> QED BY <1>12, <2>2, <2>3 DEF CheckStop
<1> QED BY <1>3, <1>4, <1>5, <1>6, <1>8, <1>9, <1>10, <1>11, <1>12 DEF WorkerStep

LEMMA MainClosed ==
  ASSUME Inv, CountsInv, ClosedInv, MainRuns \/ MainStep
  PROVE  ClosedInv'
<1>1. 0 \in Ids /\ 0 \notin Workers /\ Workers \subseteq Ids
  BY IdsAre
<1>2. CASE MainSleeps \/ MainAdvancesTime
  <2>1. /\ FlushAll(0) \/ UNCHANGED queue
        /\ UNCHANGED <<sched, lost, state, mpc>>
    BY <1>2 DEF MainSleeps, MainAdvancesTime, jobVars, mainVars
  <2> QED BY <1>1, <2>1, FlushEndsOpen, ClosedStays DEF ClosedInv
<1>3. CASE \E v \in Vids : MainSchedules(v)
  <2>1. PICK v \in Vids : ScheduleBegin(0, v) /\ UNCHANGED <<queue, lost, state, mpc>>
    BY <1>3 DEF MainSchedules, jobVars, mainVars
  <2>2. EndsOpen /\ \A u \in Workers : sched'[u] = sched[u]
    BY <1>1, <2>1 DEF ScheduleBegin, EndsOpen, Inv, CallsInv
  <2> QED BY <2>1, <2>2, ClosedStays DEF ClosedInv
<1>4. CASE \E s \in Requests : MainRequests(s)
  BY <1>4 DEF MainRequests, ClosedInv, jobVars
<1>5. CASE ScheduleEnd(0)
  <2>1. \A u \in Workers : queue'[u].term = queue[u].term
    BY <1>1, <1>5, ScheduleIs DEF Scheduled
  <2>2. UNCHANGED <<state, mpc>> /\ \A u \in Workers : sched'[u] = sched[u]
    BY <1>1, <1>5 DEF ScheduleEnd, mainVars, Inv, CallsInv
  <2>3. PICK t : t = WorkerOf[sched[0].vid] /\ t \in Workers /\ mpc = "run"
    BY <1>1, <1>5, ThreadMgrAssumption DEF ScheduleEnd, Inv, CallsInv
  <2>4. lost' = lost
    BY <1>5, <2>3 DEF ScheduleEnd, ClosedInv
  <2> QED BY <2>1, <2>2, <2>4, SameEndsOpen, ClosedStays DEF ClosedInv
<1>6. CASE MainTerminates
  <2>1. \A t \in Workers, k \in Ids : queue'[t].term[k] => queue[t].term[k] \/ k = 0
    BY <1>1, <1>6, TerminateCloses DEF MainTerminates
  <2>2. \A t, w \in Workers : queue'[t].term[w] => queue[t].term[w]
    BY <1>1, <2>1
  <2> QED BY <1>6, <2>2 DEF MainTerminates, ClosedInv, jobVars
<1>7. CASE MainReadsIdle \/ MainReadsSize \/ MainJoins
  <2>1. /\ UNCHANGED <<queue, sched, lost>> /\ mpc' # "run"
        /\ state' = state \/ state' \in {"STOP", "DEAD"}
    BY <1>7 DEF MainReadsIdle, MainReadsSize, MainJoins, MainNext, jobVars
  <2>2. EndsOpen
    BY <2>1 DEF EndsOpen
  <2> QED BY <2>1, <2>2, ClosedStays DEF ClosedInv
<1>8. CASE MainDeletes
  <2>1. UNCHANGED <<sched, lost, state>> /\ mpc' # "run"
    BY <1>8 DEF MainDeletes
  <2>2. \A k \in Ids : ~ EmptyQueue.term[k]
    BY DEF EmptyQueue
  <2>3. EndsOpen
    BY <1>8, <2>2 DEF MainDeletes, EndsOpen
  <2> QED BY <2>1, <2>3, ClosedStays DEF ClosedInv
<1> QED BY <1>2, <1>3, <1>4, <1>5, <1>6, <1>7, <1>8 DEF MainRuns, MainStep

LEMMA BoundsHold == Spec => []BoundsInv
<1>1. Init => BoundsInv
  BY CountsInit, TimeInit, ContextInit, ClosedInit DEF BoundsInv
<1>2. Inv /\ BoundsInv /\ [Next]_vars => BoundsInv'
  <2>1. ASSUME Inv, BoundsInv, [Next]_vars PROVE BoundsInv'
    <3>1. CountsInv' /\ TimeInv' /\ ContextInv'
      BY <2>1, CountsNext, TimeNext, ContextNext DEF BoundsInv
    <3>2. CASE UNCHANGED vars \/ Stopped
      BY <2>1, <3>1, <3>2 DEF BoundsInv, ClosedInv, vars, Stopped, mainVars, jobVars
    <3>3. CASE MainRuns \/ MainStep
      BY <2>1, <3>1, <3>3, MainClosed DEF BoundsInv
    <3>4. CASE \E w \in Workers : WorkerStep(w)
      BY <2>1, <3>1, <3>4, WorkerClosed DEF BoundsInv
    <3> QED BY <2>1, <3>2, <3>3, <3>4 DEF Next
  <2> QED BY <2>1
<1> QED BY <1>1, <1>2, InvHolds, PTL DEF Spec

-----------------------------------------------------------------------------
(* Counting where a job is *)
QueuedAt(q, j) ==
  {<<"head", 0, k>> : k \in Positions(q.head, j)}
  \cup {<<"pending", 0, k>> : k \in Positions(q.pending, j)}
  \cup UNION {{<<"priv", i, k>> : k \in Positions(q.priv[i], j)} : i \in Ids}

BlockedAt(t, j) == UNION {{<<"blocked", v, k>> : k \in Positions(blocked[t][v], j)} : v \in Vids}

LEMMA PositionsAre ==
  ASSUME NEW s, NEW j
  PROVE  /\ Absent(s, j) => Positions(s, j) = {}
         /\ Once(s, j) => \E k : Positions(s, j) = {k}
<1>1. ASSUME Absent(s, j) PROVE Positions(s, j) = {}
  BY <1>1 DEF Absent, Positions
<1>2. ASSUME Once(s, j) PROVE \E k : Positions(s, j) = {k}
  <2>1. PICK k \in 1..Len(s) : s[k] = j /\ \A l \in 1..Len(s) : s[l] = j => l = k
    BY <1>2 DEF Once
  <2>2. Positions(s, j) = {k}
    BY <2>1 DEF Positions
  <2> QED BY <2>2
<1> QED BY <1>1, <1>2

LEMMA QueuedNowhere ==
  ASSUME NEW q, NEW j, NotQueued(q, j)
  PROVE  QueuedAt(q, j) = {}
<1>1. /\ Positions(q.head, j) = {} /\ Positions(q.pending, j) = {}
      /\ \A i \in Ids : Positions(q.priv[i], j) = {}
  BY PositionsAre DEF NotQueued
<1> QED BY <1>1 DEF QueuedAt

LEMMA QueuedSomewhere ==
  ASSUME NEW q, NEW j, OnceQueued(q, j)
  PROVE  \E x : QueuedAt(q, j) = {x}
<1>1. CASE Once(q.head, j) /\ Absent(q.pending, j) /\ \A i \in Ids : Absent(q.priv[i], j)
  <2>1. /\ Positions(q.pending, j) = {} /\ \A i \in Ids : Positions(q.priv[i], j) = {}
        /\ \E k : Positions(q.head, j) = {k}
    BY <1>1, PositionsAre
  <2>2. PICK k : Positions(q.head, j) = {k}
    BY <2>1
  <2>3. QueuedAt(q, j) = {<<"head", 0, k>>}
    BY <2>1, <2>2 DEF QueuedAt
  <2> QED BY <2>3
<1>2. CASE Absent(q.head, j) /\ Once(q.pending, j) /\ \A i \in Ids : Absent(q.priv[i], j)
  <2>1. /\ Positions(q.head, j) = {} /\ \A i \in Ids : Positions(q.priv[i], j) = {}
        /\ \E k : Positions(q.pending, j) = {k}
    BY <1>2, PositionsAre
  <2>2. PICK k : Positions(q.pending, j) = {k}
    BY <2>1
  <2>3. QueuedAt(q, j) = {<<"pending", 0, k>>}
    BY <2>1, <2>2 DEF QueuedAt
  <2> QED BY <2>3
<1>3. CASE /\ Absent(q.head, j) /\ Absent(q.pending, j)
           /\ \E i \in Ids : Once(q.priv[i], j) /\ \A k \in Ids : k # i => Absent(q.priv[k], j)
  <2>1. PICK i \in Ids : Once(q.priv[i], j) /\ \A k \in Ids : k # i => Absent(q.priv[k], j)
    BY <1>3
  <2>2. /\ Positions(q.head, j) = {} /\ Positions(q.pending, j) = {}
        /\ \A l \in Ids : l # i => Positions(q.priv[l], j) = {}
        /\ \E k : Positions(q.priv[i], j) = {k}
    BY <1>3, <2>1, PositionsAre
  <2>3. PICK k : Positions(q.priv[i], j) = {k}
    BY <2>2
  <2>4. QueuedAt(q, j) = {<<"priv", i, k>>}
    BY <2>2, <2>3 DEF QueuedAt
  <2> QED BY <2>4
<1> QED BY <1>1, <1>2, <1>3 DEF OnceQueued

LEMMA BlockedAre ==
  ASSUME NEW t, NEW j, NEW v \in Vids, \A u \in Vids : u # v => Absent(blocked[t][u], j)
  PROVE  /\ Absent(blocked[t][v], j) => BlockedAt(t, j) = {}
         /\ Once(blocked[t][v], j) => \E x : BlockedAt(t, j) = {x}
<1>1. \A u \in Vids : u # v => Positions(blocked[t][u], j) = {}
  BY PositionsAre
<1>2. ASSUME Absent(blocked[t][v], j) PROVE BlockedAt(t, j) = {}
  <2>1. \A u \in Vids : Positions(blocked[t][u], j) = {}
    BY <1>1, <1>2, PositionsAre
  <2> QED BY <2>1 DEF BlockedAt
<1>3. ASSUME Once(blocked[t][v], j) PROVE \E x : BlockedAt(t, j) = {x}
  <2>1. PICK k : Positions(blocked[t][v], j) = {k}
    BY <1>3, PositionsAre
  <2>2. BlockedAt(t, j) = {<<"blocked", v, k>>}
    BY <1>1, <2>1 DEF BlockedAt
  <2> QED BY <2>2
<1> QED BY <1>2, <1>3

LEMMA CopiesAre ==
  ASSUME NEW t, NEW j
  PROVE  CopiesAt(t, j) = QueuedAt(queue[t], j) \cup BlockedAt(t, j)
                            \cup (IF job[t] = j THEN {<<"held", 0, 0>>} ELSE {})
<1>1. PICK a, b, c, d, e :
        /\ a = {<<"head", 0, k>> : k \in Positions(queue[t].head, j)}
        /\ b = {<<"pending", 0, k>> : k \in Positions(queue[t].pending, j)}
        /\ c = UNION {{<<"priv", i, k>> : k \in Positions(queue[t].priv[i], j)} : i \in Ids}
        /\ d = UNION {{<<"blocked", v, k>> : k \in Positions(blocked[t][v], j)} : v \in Vids}
        /\ e = IF job[t] = j THEN {<<"held", 0, 0>>} ELSE {}
  OBVIOUS
<1>2. CopiesAt(t, j) = a \cup b \cup c \cup d \cup e
  BY <1>1, Zenon DEF CopiesAt
<1>3. QueuedAt(queue[t], j) = a \cup b \cup c /\ BlockedAt(t, j) = d
  BY <1>1, Zenon DEF QueuedAt, BlockedAt
<1> QED BY <1>1, <1>2, <1>3

LEMMA CopiesElsewhere ==
  ASSUME Inv, NEW j \in JobIds, Found(j), NEW t \in Workers, t # HomeOf(j)
  PROVE  CopiesAt(t, j) = {}
<1>1. /\ NotQueued(queue[t], j) /\ job[t] # j /\ jobs[j].vid \in Vids
      /\ \A v \in Vids : Absent(blocked[t][v], j)
  BY JobIs DEF Found, StaysHome
<1>2. QueuedAt(queue[t], j) = {}
  BY <1>1, QueuedNowhere
<1>3. BlockedAt(t, j) = {}
  BY <1>1, BlockedAre
<1> QED BY <1>1, <1>2, <1>3, CopiesAre

LEMMA OnePlace ==
  ASSUME Inv, NEW j \in JobIds, Found(j)
  PROVE  \/ EndsOf(j) = {} /\ \E x : CopiesAt(HomeOf(j), j) = {x}
         \/ CopiesAt(HomeOf(j), j) = {} /\ \E x : EndsOf(j) = {x}
<1>1. PICK h \in Homes : IsIn(j, h)
  BY DEF Found
<1>2. PICK t, v : t = HomeOf(j) /\ v = jobs[j].vid /\ t \in Workers /\ v \in Vids
  BY JobIs
<1>3. /\ IF h = "queue" THEN OnceQueued(queue[t], j) ELSE NotQueued(queue[t], j)
      /\ IF h = "blocked" THEN Once(blocked[t][v], j) ELSE Absent(blocked[t][v], j)
      /\ job[t] = j <=> h = "held"
      /\ j \in done <=> h = "done"
      /\ j \in lost <=> h = "lost"
      /\ j \in deleted <=> h = "deleted"
  BY <1>1, <1>2 DEF IsIn
<1>4. \A u \in Vids : u # v => Absent(blocked[t][u], j)
  BY <1>2 DEF Found, StaysHome
<1>5. IF h = "queue" THEN \E x : QueuedAt(queue[t], j) = {x} ELSE QueuedAt(queue[t], j) = {}
  BY <1>3, QueuedNowhere, QueuedSomewhere
<1>6. IF h = "blocked" THEN \E x : BlockedAt(t, j) = {x} ELSE BlockedAt(t, j) = {}
  BY <1>2, <1>3, <1>4, BlockedAre
<1>7. \A n \in 1..3 : n = 1 \/ n = 2 \/ n = 3
  OBVIOUS
<1>8. /\ j \in <<done, lost, deleted>>[1] <=> h = "done"
      /\ j \in <<done, lost, deleted>>[2] <=> h = "lost"
      /\ j \in <<done, lost, deleted>>[3] <=> h = "deleted"
  BY <1>3
<1>9. CASE h \in {"queue", "blocked", "held"}
  <2>1. EndsOf(j) = {}
    BY <1>7, <1>8, <1>9 DEF EndsOf
  <2>2. \E x : CopiesAt(t, j) = {x}
    <3>1. CASE h = "queue"
      <4>1. PICK x : QueuedAt(queue[t], j) = {x}
        BY <1>5, <3>1
      <4>2. CopiesAt(t, j) = {x}
        BY <1>3, <1>6, <3>1, <4>1, CopiesAre
      <4> QED BY <4>2
    <3>2. CASE h = "blocked"
      <4>1. PICK x : BlockedAt(t, j) = {x}
        BY <1>6, <3>2
      <4>2. CopiesAt(t, j) = {x}
        BY <1>3, <1>5, <3>2, <4>1, CopiesAre
      <4> QED BY <4>2
    <3>3. CASE h = "held"
      <4>1. CopiesAt(t, j) = {<<"held", 0, 0>>}
        BY <1>3, <1>5, <1>6, <3>3, CopiesAre
      <4> QED BY <4>1
    <3> QED BY <1>9, <3>1, <3>2, <3>3
  <2> QED BY <1>2, <2>1, <2>2
<1>10. CASE h \in {"done", "lost", "deleted"}
  <2>1. CopiesAt(t, j) = {}
    BY <1>3, <1>5, <1>6, <1>10, CopiesAre
  <2>2. h = "done" => EndsOf(j) = {1}
    BY <1>7, <1>8 DEF EndsOf
  <2>3. h = "lost" => EndsOf(j) = {2}
    BY <1>7, <1>8 DEF EndsOf
  <2>4. h = "deleted" => EndsOf(j) = {3}
    BY <1>7, <1>8 DEF EndsOf
  <2> QED BY <1>2, <1>10, <2>1, <2>2, <2>3, <2>4
<1> QED BY <1>1, <1>9, <1>10 DEF Homes

LEMMA TypesFollow ==
  ASSUME Inv, BoundsInv
  PROVE  TypeOK
<1>1. PICK m, e, c : /\ m = Len(jobs) /\ e = nctxs /\ c = Cardinality(Calls)
                     /\ m \in Nat /\ e \in Nat /\ c \in Nat
  BY CallsCounted DEF Inv, Typed
<1>2. MaxJobs \in Nat /\ MaxTimers \in Nat /\ NumWorkers \in Nat
  BY ThreadMgrAssumption
<1>3. m + c <= MaxJobs /\ e <= m
  BY <1>1 DEF BoundsInv, ContextInv
<1>4. m <= MaxJobs /\ e \in 0..MaxJobs
  BY <1>1, <1>2, <1>3
<1>5. ASSUME NEW j \in 1..Len(jobs) PROVE jobs[j] \in [vid : Vids, by : Ids, ctx : Jobs]
  <2>1. jobs[j] \in JobType
    BY DEF Inv, Typed
  <2>2. jobs[j].ctx \in 1..e
    BY <1>1 DEF BoundsInv, ContextInv, JobIds
  <2>3. jobs[j].ctx \in Jobs
    BY <1>2, <1>4, <2>2 DEF Jobs
  <2> QED BY <2>1, <2>3 DEF JobType
<1>6. ASSUME NEW t \in Workers
      PROVE  /\ job[t] \in 0..Len(jobs)
             /\ pc[t] = "run" => job[t] # 0
             /\ at[t] \in Workers
             /\ timers[t] \in 0..MaxTimers
             /\ wtime[t] \in 0..MaxTime
  <2>1. job[t] \in 0..Len(jobs)
    BY <1>1 DEF Inv, Typed, JobIds
  <2>2. PICK x, n : /\ x = timers[t] /\ n = started /\ x \in Nat /\ n \in 0..MaxTimers /\ x <= n
    BY DEF Inv, Typed, BoundsInv, TimeInv
  <2>3. timers[t] \in 0..MaxTimers
    BY <1>2, <2>2
  <2> QED BY <2>1, <2>3 DEF Inv, Typed, PhaseInv, BoundsInv, TimeInv
<1>7. \A v \in Vids : ctxs[v] \in 0..nctxs
  BY DEF Inv, Typed, BoundsInv, ContextInv
<1>8. mi \in Workers /\ midle \in 0..NumWorkers
  <2>1. mi \in 1..NumWorkers /\ midle \in 0..(mi - 1)
    BY DEF BoundsInv, CountsInv, Workers
  <2> QED BY <1>2, <2>1 DEF Workers
<1>9. /\ state \in {"RUN", "FINISH", "STOP", "KILL", "DEAD"} /\ terminate \in BOOLEAN
      /\ num_excpts \in Nat /\ global_time \in 0..MaxTime
  BY DEF Inv, Typed, BoundsInv, CountsInv, TimeInv
<1> QED BY <1>1, <1>4, <1>5, <1>6, <1>7, <1>8, <1>9 DEF TypeOK

(***************************************************************************)
(* No job is ever duplicated or leaked, by any interleaving of threads     *)
(* that schedule, yield, block and unblock jobs, fire timers of their own  *)
(* contexts, close their ends of the queues and delete what is left        *)
(* (JobsAccountedFor).                                                     *)
(***************************************************************************)
THEOREM EveryJobIsInOnePlace == Spec => []JobsAccountedFor
<1>1. Inv /\ JobsInv /\ BoundsInv => JobsAccountedFor
  <2> SUFFICES ASSUME Inv, JobsInv, BoundsInv PROVE JobsAccountedFor
    OBVIOUS
  <2>1. ASSUME NEW j \in JobIds
        PROVE  /\ \A t \in Workers \ {HomeOf(j)} : CopiesAt(t, j) = {}
               /\ Cardinality(CopiesAt(HomeOf(j), j)) + Cardinality(EndsOf(j)) = 1
    <3>1. Found(j)
      BY DEF JobsInv, Found
    <3>2. \A x : Cardinality({x}) = 1
      BY FS_Singleton
    <3>3. Cardinality({}) = 0
      BY FS_EmptySet
    <3>4. Cardinality(CopiesAt(HomeOf(j), j)) + Cardinality(EndsOf(j)) = 1
      <4>1. CASE EndsOf(j) = {} /\ \E x : CopiesAt(HomeOf(j), j) = {x}
        <5>1. PICK x : CopiesAt(HomeOf(j), j) = {x}
          BY <4>1
        <5> QED BY <3>2, <3>3, <4>1, <5>1
      <4>2. CASE CopiesAt(HomeOf(j), j) = {} /\ \E x : EndsOf(j) = {x}
        <5>1. PICK x : EndsOf(j) = {x}
          BY <4>2
        <5> QED BY <3>2, <3>3, <4>2, <5>1
      <4> QED BY <3>1, <4>1, <4>2, OnePlace
    <3> QED BY <3>1, <3>4, CopiesElsewhere
  <2>2. TypeOK /\ (lost # {} => state \in {"STOP", "DEAD"})
    BY TypesFollow DEF BoundsInv, ClosedInv
  <2> QED BY <2>1, <2>2 DEF JobsAccountedFor, JobIds, HomeOf
<1> QED BY <1>1, JobsHold, BoundsHold, PTL
=============================================================================
