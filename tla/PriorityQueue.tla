---------------------------- MODULE PriorityQueue ----------------------------
(***************************************************************************)
(* The binary heap of libhilti/3rdparty/libpqueue as timer.c uses it.  A   *)
(* queue q has the array q.d, the code's q->d[1 .. size-1], and the        *)
(* positions q.pos that the entries remember; pri gives each entry's       *)
(* priority, its expiration time.  The smallest comes first (cmppri sorts  *)
(* inversely).                                                             *)
(***************************************************************************)
EXTENDS Naturals, Sequences

Parent(i) == i \div 2

(* Fault: the right child is never looked at (pqueue.c:122). *)
MaxChild_Left(h, pri, i) == IF 2 * i > Len(h) THEN 0 ELSE 2 * i

(* The child that comes first, 0 if i is a leaf. *)
MaxChild(h, pri, i) ==
  IF 2 * i > Len(h) THEN 0
  ELSE IF 2 * i + 1 <= Len(h) /\ pri[h[2 * i]] > pri[h[2 * i + 1]]
         THEN 2 * i + 1 ELSE 2 * i

(* Fault: the entry is not told its position (pqueue.c:106). *)
Place_Untold(q, x, k) == [d |-> [q.d EXCEPT ![k] = x], pos |-> q.pos]

(* Entry x is put at position k, and is told so by setpos. *)
Place(q, x, k) == [d |-> [q.d EXCEPT ![k] = x], pos |-> [q.pos EXCEPT ![x] = k]]

(* bubble_up: the entry at i moves up to where it belongs, the entries it  *)
(* passes move down.  up[k] is the queue when the loop is at k.            *)
BubbleUp(q, pri, i) ==
  LET h == q.d
      up[k \in 1..Len(h)] ==
        IF k > 1 /\ pri[h[Parent(k)]] > pri[h[i]]
          THEN Place(up[Parent(k)], h[Parent(k)], k)
          ELSE Place(q, h[i], k)
  IN  up[i]

(* percolate_down: the entry at i moves down to where it belongs. *)
PercolateDown(q, pri, i) ==
  LET h == q.d
      down[k \in 1..Len(h)] ==
        LET c == MaxChild(h, pri, k)
        IN IF c # 0 /\ pri[h[i]] > pri[h[c]]
             THEN Place(down[c], h[c], k)
             ELSE Place(q, h[i], k)
  IN  down[i]

Insert(q, pri, x) == BubbleUp([d |-> Append(q.d, x), pos |-> q.pos], pri, Len(q.d) + 1)

(* The array without its last entry, which is put at position p instead. *)
Shrink(h) == SubSeq(h, 1, Len(h) - 1)
LastTo(q, p) == [d |-> [Shrink(q.d) EXCEPT ![p] = q.d[Len(q.d)]], pos |-> q.pos]

Pop(q, pri) ==
  IF Len(q.d) = 1 THEN [d |-> <<>>, pos |-> q.pos] ELSE PercolateDown(LastTo(q, 1), pri, 1)

(* priority_queue_remove of the entry x: the last entry takes its place    *)
(* and moves where it belongs.                                             *)
Remove(q, pri, x) ==
  LET p == q.pos[x]
      e == LastTo(q, p)
  IN IF p >= Len(q.d) THEN [d |-> Shrink(q.d), pos |-> q.pos]
     ELSE IF pri[x] > pri[e.d[p]] THEN BubbleUp(e, pri, p) ELSE PercolateDown(e, pri, p)

(* priority_queue_change_priority of the entry x, which has the priority   *)
(* `old` before the call: pri has the new one.                             *)
ChangePriority(q, pri, x, old) ==
  LET p == q.pos[x]
  IN IF old > pri[x] THEN BubbleUp(q, pri, p) ELSE PercolateDown(q, pri, p)
=============================================================================
