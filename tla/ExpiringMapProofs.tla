-------------------------- MODULE ExpiringMapProofs --------------------------
(***************************************************************************)
(* Proofs about maps whose entries expire: the entries and their timers    *)
(* match, no entry that is due stays behind, and none is expired early.    *)
(* They build on the lemmas of TimerProofs about the manager's steps.      *)
(***************************************************************************)
EXTENDS ExpiringMap, TimerProofs

-----------------------------------------------------------------------------
(* The loop of hlt_map_clear *)
ClearLoop(f, order, n) ==
  f = [k \in 0..n |-> IF k = 0 THEN Queue ELSE Remove(f[k - 1], at, order[k])]

LEMMA ClearLoopExists ==
  ASSUME NEW n \in Nat, NEW order
  PROVE  \E f : ClearLoop(f, order, n)
<1> DEFINE T == {m \in Nat : ~ \E f : ClearLoop(f, order, m)}
<1>1. T \subseteq Nat /\ \A m \in Nat : m \notin T <=> \E f : ClearLoop(f, order, m)
  OBVIOUS
<1> HIDE DEF T
<1>2. T = {}
  <2> SUFFICES ASSUME T # {} PROVE FALSE
    OBVIOUS
  <2>1. PICK m \in Nat : m \in T /\ \A k \in T : m <= k
    BY <1>1, LeastNat
  <2>2. m # 0
    <3> DEFINE f == [k \in 0..0 |-> Queue]
    <3>1. f = [k \in 0..0 |-> IF k = 0 THEN Queue ELSE Remove(f[k - 1], at, order[k])]
      OBVIOUS
    <3>2. ClearLoop(f, order, 0)
      BY <3>1 DEF ClearLoop
    <3> QED BY <1>1, <2>1, <3>2
  <2>3. PICK l \in Nat : m = l + 1 /\ l \notin T
    BY <2>1, <2>2
  <2>4. PICK g : ClearLoop(g, order, l)
    BY <1>1, <2>3
  <2>5. \A k \in 0..l : g[k] = IF k = 0 THEN Queue ELSE Remove(g[k - 1], at, order[k])
    BY <2>4 DEF ClearLoop
  <2> DEFINE f == [k \in 0..m |-> IF k <= l THEN g[k] ELSE Remove(g[l], at, order[m])]
  <2>6. \A k \in 0..m : f[k] = IF k <= l THEN g[k] ELSE Remove(g[l], at, order[m])
    OBVIOUS
  <2>7. f = [k \in 0..m |-> f[k]]
    OBVIOUS
  <2> HIDE DEF f
  <2>8. ASSUME NEW k \in 0..m
        PROVE  f[k] = IF k = 0 THEN Queue ELSE Remove(f[k - 1], at, order[k])
    <3>1. CASE k = 0
      <4>1. k <= l /\ k \in 0..l
        BY <2>3, <3>1
      <4> QED BY <2>5, <2>6, <3>1, <4>1
    <3>2. CASE k # 0 /\ k <= l
      <4>1. k \in 0..l /\ k - 1 \in 0..m /\ k - 1 <= l
        BY <2>3, <3>2
      <4>2. f[k - 1] = g[k - 1] /\ f[k] = g[k]
        BY <2>6, <3>2, <4>1
      <4> QED BY <2>5, <3>2, <4>1, <4>2
    <3>3. CASE k # 0 /\ ~ (k <= l)
      <4>1. k = m /\ k - 1 = l /\ l \in 0..m /\ l <= l
        BY <2>3, <3>3
      <4>2. f[l] = g[l] /\ f[k] = Remove(g[l], at, order[m])
        BY <2>6, <3>3, <4>1
      <4> QED BY <3>3, <4>1, <4>2
    <3> QED BY <3>1, <3>2, <3>3
  <2>9. ClearLoop(f, order, m)
    BY <2>7, <2>8 DEF ClearLoop
  <2> QED BY <1>1, <2>1, <2>9
<1> QED BY <1>1, <1>2

(* Whatever the order, exactly the timers of the entries are taken out.    *)
LEMMA UnqueueAllIs ==
  ASSUME at \in [Timers -> Nat], QueueInv, NEW S, S \subseteq Entries(heap),
         NEW n \in Nat, NEW order \in Bijection(1..n, S)
  PROVE  /\ Becomes(UnqueueAll(order), Entries(heap) \ S, Timers)
         /\ Sorted(heap, at) => Sorted(UnqueueAll(order).d, at)
<1>1. /\ order \in [1..n -> S] /\ \A i, j \in 1..n : order[i] = order[j] => i = j
      /\ \A x \in S : \E i \in 1..n : order[i] = x
  BY DEF Bijection, Injection, Surjection, IsInjective
<1>2. Len(order) = n
  BY <1>1, ArrayIsSeq
<1>3. PICK f : ClearLoop(f, order, n) /\ UnqueueAll(order) = f[n]
  <2> DEFINE f == CHOOSE g : ClearLoop(g, order, n)
  <2>1. ClearLoop(f, order, n)
    BY ClearLoopExists
  <2>2. UnqueueAll(order) = f[n]
    BY <1>2 DEF UnqueueAll, ClearLoop
  <2> QED BY <2>1, <2>2
<1>4. \A k \in 0..n : f[k] = IF k = 0 THEN Queue ELSE Remove(f[k - 1], at, order[k])
  BY <1>3 DEF ClearLoop
<1> DEFINE Gone(k) == {order[i] : i \in 1..k}
           Good(k) == /\ Becomes(f[k], Entries(heap) \ Gone(k), Timers)
                      /\ Sorted(heap, at) => Sorted(f[k].d, at)
           T == {k \in 0..n : ~ Good(k)}
<1>5. T \subseteq Nat /\ \A k \in 0..n : k \notin T <=> Good(k)
  OBVIOUS
<1> HIDE DEF T
<1>6. T = {}
  <2> SUFFICES ASSUME T # {} PROVE FALSE
    OBVIOUS
  <2>1. PICK m \in T : \A k \in T : m <= k
    BY <1>5, LeastNat
  <2>2. m \in 0..n
    BY <2>1 DEF T
  <2>3. m # 0
    <3>1. Good(0)
      <4>1. f[0] = Queue /\ Gone(0) = {}
        BY <1>4
      <4>2. f[0].d = heap /\ f[0].pos = queue_pos
        BY <4>1 DEF Queue
      <4> QED BY <4>1, <4>2 DEF Becomes, QueueInv
    <3> QED BY <1>5, <2>1, <2>2, <3>1
  <2>4. PICK l \in 0..n : m = l + 1 /\ l \notin T
    <3>1. m - 1 \in 0..n /\ m - 1 < m /\ m = (m - 1) + 1 /\ ~ (m <= m - 1)
      BY <2>2, <2>3
    <3> QED BY <2>1, <3>1
  <2>5. Good(l)
    BY <1>5, <2>4
  <2>6. PICK x \in S : x = order[m] /\ m \in 1..n
    BY <1>1, <2>2, <2>3
  <2>7. x \notin Gone(l) /\ Gone(m) = Gone(l) \cup {x}
    <3>1. ASSUME NEW i \in 1..l PROVE order[i] # x
      BY <1>1, <2>4, <2>6
    <3>2. \A i \in 1..m : i \in 1..l \/ i = m
      BY <2>4
    <3>3. \A i \in 1..l : i \in 1..m
      BY <2>4
    <3> QED BY <2>6, <3>1, <3>2, <3>3
  <2>8. PICK o, g : o = f[l] /\ g = f[m] /\ g = Remove(o, at, x)
    <3>1. m - 1 = l
      BY <2>4
    <3> QED BY <1>4, <2>2, <2>3, <2>6, <3>1
  <2>9. PICK h, pos : o.d = h /\ o.pos = pos
    OBVIOUS
  <2>10. /\ IsQueue(h, Timers) /\ Entries(h) = Entries(heap) \ Gone(l) /\ Placed(pos, h, Timers)
         /\ Sorted(heap, at) => Sorted(h, at)
    BY <2>5, <2>8, <2>9 DEF Becomes
  <2> HIDE DEF Gone
  <2>11. x \in Entries(h) /\ IsFiniteSet(Timers)
    BY <2>6, <2>7, <2>10, TimerAssumption
  <2>12. Becomes(g, Entries(h) \ {x}, Timers) /\ (Sorted(h, at) => Sorted(g.d, at))
    BY <2>8, <2>9, <2>10, <2>11, RemoveIs
  <2>13. Entries(h) \ {x} = Entries(heap) \ Gone(m)
    BY <2>7, <2>10
  <2>14. Good(m)
    BY <2>8, <2>10, <2>12, <2>13
  <2> QED BY <1>5, <2>1, <2>2, <2>14
<1>7. Good(n)
  <2> HIDE DEF Good
  <2>1. n \in 0..n
    OBVIOUS
  <2> QED BY <1>5, <1>6, <2>1
<1>8. Gone(n) = S
  BY <1>1
<1> QED BY <1>3, <1>7, <1>8
-----------------------------------------------------------------------------
(* The inductive invariant *)
Entry == [timer : EntryTimers \cup {None}, due : Nat \cup {None}]

MapTyped ==
  /\ entries \in [DOMAIN entries -> Entry]
  /\ timeout \in Nat
  /\ cookie \in [EntryTimers -> Keys \cup {None}]

(* The firing of an entry's timer runs no program code, so that it is the  *)
(* innermost call; the call that fires it covers the time it was due.      *)
OnTop ==
  \A x \in EntryTimers : Firing(x) =>
    stack # <<>> /\ Top.op = "fire" /\ Top.timer = x /\ Covered(at[x])

(* The timer of an entry is one the manager has, it finds the entry, and   *)
(* it is due when the entry is.                                            *)
Linked(k) ==
  entries[k].timer # None =>
    /\ Has(entries[k].timer) /\ cookie[entries[k].timer] = k
    /\ entries[k].due = at[entries[k].timer]

Wanted(x) == Has(x) => cookie[x] \in DOMAIN entries /\ entries[cookie[x]].timer = x

MatchInv ==
  /\ \A k \in DOMAIN entries : Linked(k)
  /\ \A x \in EntryTimers : Wanted(x)

MapInv == Inv /\ MapTyped /\ OnTop /\ MatchInv

(* What every step keeps *)
MapKept ==
  /\ MapInv'
  /\ ~ UpdatesEarlier /\ OrderInv /\ DueInv => OrderInv' /\ DueInv'

-----------------------------------------------------------------------------
LEMMA EntryTimersAre ==
  /\ EntryTimers \subseteq Timers /\ None \notin EntryTimers
  /\ \A x \in Funcs : x \in Timers /\ x \notin EntryTimers
BY MapAssumption DEF EntryTimers

(* While program code runs no entry is being expired. *)
LEMMA NoneExpiring ==
  ASSUME MapInv, CodeRuns
  PROVE  \A x \in EntryTimers : ~ Firing(x)
<1>1. OnTop
  BY DEF MapInv
<1>2. CASE stack = <<>>
  <2>1. Len(stack) = 0
    BY <1>2, EmptySeq
  <2> QED BY <2>1 DEF Firing
<1>3. CASE stack # <<>>
  <2>1. Top.timer \in Funcs
    BY <1>3 DEF CodeRuns
  <2> QED BY <1>1, <2>1, EntryTimersAre DEF OnTop
<1> QED BY <1>2, <1>3

LEMMA NotTheManager ==
  ASSUME MapInv, stack # <<>>, Top.op # "fire"
  PROVE  \A x \in EntryTimers : ~ Firing(x)
BY DEF MapInv, OnTop

LEMMA TimersUnmoved ==
  ASSUME Inv, UNCHANGED timerVars
  PROVE  /\ Kept /\ at' = at
         /\ \A y \in Timers : (Has(y)' <=> Has(y)) /\ (Firing(y)' <=> Firing(y))
<1>1. UNCHANGED vars
  BY DEF timerVars, vars
<1>2. Kept
  BY <1>1, NextKeeps
<1> QED BY <1>2 DEF timerVars, Has, Firing, Entries

(* A step of the manager that concerns no entry *)
LEMMA MapUnmoved ==
  ASSUME MapInv, Kept, OnTop', UNCHANGED <<entries, cookie>>, timeout' \in Nat,
         \A y \in EntryTimers : (Has(y)' <=> Has(y)) /\ (Has(y) => at'[y] = at[y])
  PROVE  MapKept
<1>1. MapTyped' /\ Inv'
  BY DEF MapInv, MapTyped, Kept
<1>2. ASSUME NEW k \in DOMAIN entries PROVE Linked(k)'
  <2>1. Linked(k) /\ entries[k].timer \in EntryTimers \cup {None}
    BY DEF MapInv, MatchInv, MapTyped, Entry
  <2> QED BY <2>1 DEF Linked
<1>3. ASSUME NEW x \in EntryTimers PROVE Wanted(x)'
  <2>1. Wanted(x)
    BY DEF MapInv, MatchInv
  <2> QED BY <2>1 DEF Wanted
<1>4. MatchInv'
  BY <1>2, <1>3 DEF MatchInv
<1> QED BY <1>1, <1>4 DEF MapKept, MapInv, Kept

LEMMA NoneFiring ==
  ASSUME \A x \in EntryTimers : ~ Firing(x)'
  PROVE  OnTop'
BY DEF OnTop

LEMMA MapTimeoutKeeps ==
  ASSUME MapInv, NEW s, NEW t \in Timeouts \cup {0}, MapTimeout(s, t)
  PROVE  MapKept
<1>1. /\ Kept /\ at' = at
      /\ \A y \in Timers : (Has(y)' <=> Has(y)) /\ (Firing(y)' <=> Firing(y))
  BY TimersUnmoved DEF MapInv, MapTimeout
<1>2. OnTop'
  BY <1>1, NoneExpiring, NoneFiring, EntryTimersAre DEF MapTimeout
<1>3. timeout' \in Nat
  BY MapAssumption DEF MapTimeout
<1> QED BY <1>1, <1>2, <1>3, MapUnmoved, EntryTimersAre DEF MapTimeout

LEMMA FuncStepKeeps ==
  ASSUME MapInv, CodeRuns, NEW x \in Funcs, UNCHANGED mapVars,
         (\E t \in Times : Schedule(x, t) \/ Update(x, t)) \/ Cancel(x)
  PROVE  MapKept
<1>1. x \in Timers /\ x \notin EntryTimers /\ Inv /\ at \in [Timers -> Times]
  BY EntryTimersAre DEF MapInv, Inv, Typed
<1>2. /\ Kept
      /\ \A y \in Timers : y # x => (Has(y)' <=> Has(y)) /\ (Firing(y)' => Firing(y))
      /\ \A y \in Timers : y # x => at'[y] = at[y]
  <2>1. ASSUME NEW t \in Times, Schedule(x, t)
        PROVE  /\ Kept /\ \A y \in Timers : Has(y)' <=> Has(y) \/ y = x
               /\ \A y \in Timers : Firing(y)' => Firing(y) \/ (y = x /\ t <= time)
               /\ \A y \in Timers : y # x => at'[y] = at[y]
    BY <1>1, <2>1, ScheduleKeeps DEF Schedule
  <2>2. ASSUME NEW t \in Times, Update(x, t)
        PROVE  /\ Kept /\ \A y \in Timers : Has(y)' <=> Has(y)
               /\ \A y \in Timers : Firing(y)' => Firing(y) \/ (y = x /\ ~ (t > time))
               /\ \A y \in Timers : y # x => at'[y] = at[y]
    BY <1>1, <2>2, UpdateKeeps DEF Update
  <2>3. ASSUME Cancel(x)
        PROVE  /\ Kept /\ \A y \in Timers : Has(y)' <=> Has(y) /\ y # x
               /\ \A y \in Timers : Firing(y)' <=> Firing(y)
               /\ \A y \in Timers : y # x => at'[y] = at[y]
    BY <1>1, <2>3, CancelKeeps DEF Cancel
  <2> QED BY <2>1, <2>2, <2>3
<1>3. OnTop'
  BY <1>1, <1>2, NoneExpiring, NoneFiring, EntryTimersAre
<1>4. timeout' \in Nat /\ UNCHANGED <<entries, cookie>>
  BY DEF MapInv, MapTyped, mapVars
<1> QED BY <1>1, <1>2, <1>3, <1>4, MapUnmoved, EntryTimersAre

(* The manager's calls begin and end. *)
LEMMA CallStepKeeps ==
  ASSUME MapInv, UNCHANGED mapVars,
         \/ CodeRuns /\ ((\E t \in Times : Advance(t)) \/ Expire)
         \/ AdvanceEnd \/ ExpireEnd
  PROVE  MapKept
<1>1. Inv
  BY DEF MapInv
<1>2. /\ Kept
      /\ \A y \in Timers : (Has(y)' <=> Has(y)) /\ (Firing(y)' <=> Firing(y))
      /\ at' = at
  BY <1>1, AdvanceKeeps, ExpireKeeps, AdvanceEndKeeps, ExpireEndKeeps
     DEF Advance, Expire, AdvanceEnd, ExpireEnd
<1>3. \A x \in EntryTimers : ~ Firing(x)
  BY NoneExpiring, NotTheManager DEF AdvanceEnd, ExpireEnd, Call
<1>4. OnTop'
  BY <1>2, <1>3, NoneFiring, EntryTimersAre
<1>5. timeout' \in Nat /\ UNCHANGED <<entries, cookie>>
  BY DEF MapInv, MapTyped, mapVars
<1> QED BY <1>2, <1>4, <1>5, MapUnmoved, EntryTimersAre

(* The manager fires a timer, of the program's or an entry's. *)
LEMMA FiresKeeps ==
  ASSUME MapInv, UNCHANGED mapVars, AdvanceFires \/ ExpireFires
  PROVE  MapKept
<1>1. Inv /\ StackInv /\ stack # <<>> /\ Top.op # "fire" /\ heap # <<>> /\ at' = at
  BY DEF MapInv, Inv, AdvanceFires, ExpireFires, Call, FirstIsDue
<1>2. /\ Kept /\ Fire(heap[1]) /\ heap[1] \in Timers
      /\ \A y \in Timers : (Has(y)' <=> Has(y)) /\ (Firing(y)' <=> Firing(y) \/ y = heap[1])
      /\ \A v : Covered(v)' <=> Covered(v)
  BY <1>1, FirstFired DEF AdvanceFires, ExpireFires
<1>3. \A x \in EntryTimers : ~ Firing(x)
  BY <1>1, NotTheManager
<1>4. PICK x : x = heap[1]
  OBVIOUS
<1>5. Covered(at[x])
  <2>1. Len(stack) \in 1..Len(stack)
    BY <1>1, EmptySeq DEF StackInv
  <2> QED BY <1>4, <2>1 DEF Covered, AdvanceFires, ExpireFires, Call, FirstIsDue, Top
<1>6. stack' # <<>> /\ Top'.op = "fire" /\ Top'.timer = x
  <2>1. PICK f : f = [op |-> "fire", time |-> 0, timer |-> x]
    OBVIOUS
  <2>2. stack' = Append(stack, f) /\ stack \in Seq(Frames) /\ f.op = "fire" /\ f.timer = x
    BY <1>1, <1>2, <1>4, <2>1 DEF Fire, Push, StackInv
  <2>3. PICK n \in Nat : n = Len(stack) /\ Len(stack') = n + 1 /\ stack'[n + 1] = f
    BY <2>2, Pushed
  <2>4. Top' = f /\ Len(stack') # 0
    BY <2>3 DEF Top
  <2> QED BY <2>2, <2>4, EmptySeq
<1>7. OnTop'
  <2> SUFFICES ASSUME NEW y \in EntryTimers, Firing(y)'
               PROVE  (stack # <<>> /\ Top.op = "fire" /\ Top.timer = y /\ Covered(at[y]))'
    BY DEF OnTop
  <2>1. y = x
    BY <1>2, <1>3, <1>4, EntryTimersAre
  <2> QED BY <1>1, <1>2, <1>5, <1>6, <2>1
<1>8. timeout' \in Nat /\ UNCHANGED <<entries, cookie>>
  BY DEF MapInv, MapTyped, mapVars
<1> QED BY <1>1, <1>2, <1>7, <1>8, MapUnmoved, EntryTimersAre

LEMMA FuncEndKeeps ==
  ASSUME MapInv, UNCHANGED mapVars, Call("fire"), Top.timer \in Funcs, FireEnd
  PROVE  MapKept
<1>1. /\ Kept /\ Top.timer \in Timers /\ at' = at
      /\ \A y \in Timers : /\ Has(y)' <=> Has(y) /\ y # Top.timer
                           /\ Firing(y)' <=> Firing(y) /\ y # Top.timer
  BY FireEndKeeps DEF MapInv, FireEnd
<1>2. \A y \in EntryTimers : y # Top.timer
  BY EntryTimersAre
<1>3. OnTop'
  BY <1>1, <1>2, NoneFiring, EntryTimersAre DEF MapInv, OnTop
<1>4. timeout' \in Nat /\ UNCHANGED <<entries, cookie>>
  BY DEF MapInv, MapTyped, mapVars
<1> QED BY <1>1, <1>2, <1>3, <1>4, MapUnmoved, EntryTimersAre

(* timer_mgr.expire False, while no entry has a timer *)
LEMMA CancelAllKeepsMap ==
  ASSUME MapInv, CodeRuns, UNCHANGED mapVars, Owned = {}, CancelAll
  PROVE  MapKept
<1>1. /\ Kept /\ at' = at
      /\ \A y \in Timers : (Has(y)' <=> Firing(y)) /\ (Firing(y)' <=> Firing(y))
  BY CancelAllKeeps DEF MapInv, CancelAll
<1>2. ASSUME NEW x \in EntryTimers PROVE ~ Has(x)
  <2>1. Wanted(x)
    BY DEF MapInv, MatchInv
  <2> QED BY <2>1, EntryTimersAre DEF Wanted, Owned
<1>3. OnTop' /\ \A y \in EntryTimers : (Has(y)' <=> Has(y))
  BY <1>1, <1>2, NoneExpiring, NoneFiring, EntryTimersAre
<1>4. timeout' \in Nat /\ UNCHANGED <<entries, cookie>>
  BY DEF MapInv, MapTyped, mapVars
<1> QED BY <1>1, <1>2, <1>3, <1>4, MapUnmoved

-----------------------------------------------------------------------------
(* The map's own steps *)
LEMMA EntryIs ==
  ASSUME MapInv, NEW k \in DOMAIN entries
  PROVE  /\ entries[k] \in Entry /\ entries[k].timer \in EntryTimers \cup {None}
         /\ entries[k].due \in Nat \cup {None} /\ Linked(k)
<1>1. entries[k] \in Entry /\ Linked(k)
  BY DEF MapInv, MapTyped, MatchInv
<1> QED BY <1>1 DEF Entry

LEMMA MapGetKeeps ==
  ASSUME MapInv, NEW k, MapGet(k)
  PROVE  MapKept
<1>1. k \in DOMAIN entries /\ Inv /\ MapTyped /\ CodeRuns /\ UNCHANGED <<timeout, cookie>>
  BY DEF MapInv, MapGet
<1>2. PICK x, d : x = entries[k].timer /\ d = DueAfterAccess(k)
  OBVIOUS
<1>3. /\ entries[k] \in Entry /\ x \in EntryTimers \cup {None} /\ Linked(k)
      /\ entries[k].due \in Nat \cup {None}
  BY <1>1, <1>2, EntryIs
<1>4. time \in Nat /\ timeout \in Nat /\ at \in [Timers -> Nat]
  BY <1>1, TimesAre DEF Inv, Typed, MapTyped
<1>5. /\ Kept
      /\ \A y \in EntryTimers : (Has(y)' <=> Has(y)) /\ ~ Firing(y)'
      /\ \A y \in EntryTimers : y # x => at'[y] = at[y]
      /\ d \in Nat \cup {None} /\ (x # None => d = at'[x])
  <2>1. CASE Restarts(k)
    <3>1. PICK t \in Times : t = time + timeout /\ Update(x, t)
      BY <1>2, <2>1 DEF MapGet, Access
    <3>2. t \in Nat /\ t > time /\ x \in EntryTimers /\ x \in Timers /\ d = t
      BY <1>2, <1>3, <1>4, <2>1, <3>1, EntryTimersAre DEF Restarts, DueAfterAccess
    <3>3. /\ Kept
          /\ \A y \in Timers : Has(y)' <=> Has(y)
          /\ \A y \in Timers : Firing(y)' => Firing(y) \/ (y = x /\ ~ (t > time))
      BY <1>1, <3>1, <3>2, UpdateKeeps
    <3>4. at' = [at EXCEPT ![x] = t]
      BY <3>1, <3>2 DEF Update
    <3> QED BY <1>1, <1>4, <3>2, <3>3, <3>4, NoneExpiring, EntryTimersAre
  <2>2. CASE ~ Restarts(k)
    <3>1. UNCHANGED timerVars /\ d = entries[k].due
      BY <1>2, <2>2 DEF MapGet, Access, Restarts, DueAfterAccess
    <3>2. /\ Kept /\ at' = at
          /\ \A y \in Timers : (Has(y)' <=> Has(y)) /\ (Firing(y)' <=> Firing(y))
      BY <1>1, <3>1, TimersUnmoved
    <3> QED BY <1>1, <1>2, <1>3, <3>1, <3>2, NoneExpiring, EntryTimersAre DEF Linked
  <2> QED BY <2>1, <2>2
<1>6. /\ DOMAIN entries' = DOMAIN entries
      /\ \A j \in DOMAIN entries : j # k => entries'[j] = entries[j]
      /\ entries'[k].timer = x /\ entries'[k].due = d /\ entries'[k] \in Entry
  <2>1. entries' = [entries EXCEPT ![k] = [entries[k] EXCEPT !.due = d]]
    BY <1>2 DEF MapGet
  <2>2. PICK e : e = [entries[k] EXCEPT !.due = d]
    OBVIOUS
  <2>3. e.timer = x /\ e.due = d /\ e \in Entry
    BY <1>2, <1>3, <1>5, <2>2 DEF Entry
  <2>4. entries \in [DOMAIN entries -> Entry]
    BY <1>1 DEF MapTyped
  <2> QED BY <1>1, <2>1, <2>2, <2>3, <2>4
<1>7. MapTyped'
  <2>1. entries' = [j \in DOMAIN entries |-> entries'[j]]
    BY <1>1 DEF MapGet, MapTyped
  <2>2. \A j \in DOMAIN entries : entries'[j] \in Entry
    BY <1>1, <1>6 DEF MapTyped
  <2>3. entries' \in [DOMAIN entries' -> Entry]
    BY <1>6, <2>1, <2>2
  <2> QED BY <1>1, <2>3 DEF MapTyped
<1>8. OnTop'
  BY <1>5, NoneFiring
<1>9. ASSUME NEW j \in DOMAIN entries PROVE Linked(j)'
  <2>1. Linked(j) /\ entries[j].timer \in EntryTimers \cup {None}
    BY EntryIs
  <2>2. CASE j = k
    BY <1>1, <1>2, <1>3, <1>5, <1>6, <2>2 DEF Linked
  <2>3. CASE j # k
    <3>1. entries[j].timer # None => entries[j].timer # x
      BY <1>2, <1>3, <2>1, <2>3 DEF Linked
    <3> QED BY <1>1, <1>5, <1>6, <2>1, <2>3, <3>1 DEF Linked
  <2> QED BY <2>2, <2>3
<1>10. ASSUME NEW y \in EntryTimers PROVE Wanted(y)'
  <2>1. Wanted(y)
    BY DEF MapInv, MatchInv
  <2> QED BY <1>1, <1>2, <1>5, <1>6, <2>1 DEF Wanted
<1>11. MatchInv'
  BY <1>6, <1>9, <1>10 DEF MatchInv
<1> QED BY <1>5, <1>7, <1>8, <1>11 DEF MapKept, MapInv, Kept

(* The entry of k goes, and with it its timer if it has one. *)
LEMMA EntryGone ==
  ASSUME MapInv, Kept, NEW k \in DOMAIN entries, NEW x, x = entries[k].timer,
         entries' = Drop(k), UNCHANGED <<timeout, cookie>>,
         \A y \in EntryTimers : (Has(y)' <=> Has(y) /\ y # x) /\ ~ Firing(y)',
         \A y \in EntryTimers : y # x => at'[y] = at[y]
  PROVE  MapKept
<1>1. /\ DOMAIN entries' = DOMAIN entries \ {k}
      /\ \A j \in DOMAIN entries' : entries'[j] = entries[j]
      /\ entries' = [j \in DOMAIN entries' |-> entries'[j]]
  BY DEF Drop
<1>2. MapTyped'
  <2>1. \A j \in DOMAIN entries' : entries'[j] \in Entry
    BY <1>1 DEF MapInv, MapTyped
  <2>2. entries' \in [DOMAIN entries' -> Entry]
    BY <1>1, <2>1
  <2> QED BY <2>2 DEF MapInv, MapTyped
<1>3. OnTop'
  BY NoneFiring
<1>4. ASSUME NEW j \in DOMAIN entries' PROVE Linked(j)'
  <2>1. /\ j \in DOMAIN entries /\ j # k /\ Linked(j) /\ Linked(k)
        /\ entries[j].timer \in EntryTimers \cup {None}
    BY <1>1, EntryIs
  <2>2. entries[j].timer # None => entries[j].timer # x
    BY <2>1 DEF Linked
  <2> QED BY <1>1, <2>1, <2>2 DEF Linked
<1>5. ASSUME NEW y \in EntryTimers PROVE Wanted(y)'
  <2>1. Wanted(y)
    BY DEF MapInv, MatchInv
  <2> QED BY <1>1, <2>1 DEF Wanted
<1>6. MatchInv'
  BY <1>4, <1>5 DEF MatchInv
<1> QED BY <1>2, <1>3, <1>6 DEF MapKept, MapInv, Kept

LEMMA MapRemoveKeeps ==
  ASSUME MapInv, NEW k, MapRemove(k)
  PROVE  MapKept
<1>1. /\ k \in DOMAIN entries /\ Inv /\ CodeRuns /\ UNCHANGED <<timeout, cookie>>
      /\ entries' = Drop(k) /\ at \in [Timers -> Times]
  BY DEF MapInv, MapRemove, Inv, Typed
<1>2. PICK x : x = entries[k].timer
  OBVIOUS
<1>3. x \in EntryTimers \cup {None}
  BY <1>1, <1>2, EntryIs
<1>4. /\ Kept
      /\ \A y \in EntryTimers : (Has(y)' <=> Has(y) /\ y # x) /\ ~ Firing(y)'
      /\ \A y \in EntryTimers : y # x => at'[y] = at[y]
  <2>1. CASE x # None
    <3>1. Cancel(x) /\ x \in Timers
      BY <1>2, <1>3, <2>1, EntryTimersAre DEF MapRemove
    <3>2. /\ Kept
          /\ \A y \in Timers : Has(y)' <=> Has(y) /\ y # x
          /\ \A y \in Timers : Firing(y)' <=> Firing(y)
      BY <1>1, <3>1, CancelKeeps
    <3>3. at' = [at EXCEPT ![x] = 0]
      BY <3>1 DEF Cancel
    <3> QED BY <1>1, <3>2, <3>3, NoneExpiring, EntryTimersAre
  <2>2. CASE x = None
    <3>1. UNCHANGED timerVars
      BY <1>2, <2>2 DEF MapRemove
    <3>2. /\ Kept /\ at' = at
          /\ \A y \in Timers : (Has(y)' <=> Has(y)) /\ (Firing(y)' <=> Firing(y))
      BY <1>1, <3>1, TimersUnmoved
    <3> QED BY <1>1, <2>2, <3>2, NoneExpiring, EntryTimersAre
  <2> QED BY <2>1, <2>2
<1> QED BY <1>1, <1>2, <1>4, EntryGone

LEMMA EntryExpiresKeeps ==
  ASSUME MapInv, EntryExpires
  PROVE  /\ MapKept
         /\ \E k \in DOMAIN entries : /\ DOMAIN entries' = DOMAIN entries \ {k}
                                      /\ Covered(entries[k].due)
<1>1. PICK x : x = Top.timer
  OBVIOUS
<1>2. /\ x \in EntryTimers /\ stack # <<>> /\ Top.op = "fire" /\ FireEnd /\ Inv
      /\ UNCHANGED <<timeout, cookie>> /\ at' = at
  BY <1>1 DEF EntryExpires, Call, MapInv, FireEnd
<1>3. /\ Kept
      /\ \A y \in Timers : /\ Has(y)' <=> Has(y) /\ y # x
                           /\ Firing(y)' <=> Firing(y) /\ y # x
  BY <1>1, <1>2, FireEndKeeps
<1>4. Firing(x)
  <2>1. Len(stack) \in 1..Len(stack)
    BY <1>2, EmptySeq DEF Inv, StackInv
  <2> QED BY <1>1, <1>2, <2>1 DEF Firing, Top
<1>5. PICK k : k = cookie[x]
  OBVIOUS
<1>6. k \in DOMAIN entries /\ entries[k].timer = x /\ entries' = Drop(k)
  <2>1. Wanted(x) /\ Has(x)
    BY <1>2, <1>4 DEF MapInv, MatchInv, Has
  <2> QED BY <1>1, <1>5, <2>1 DEF Wanted, EntryExpires
<1>7. \A y \in EntryTimers : ~ Firing(y)'
  BY <1>1, <1>3, EntryTimersAre DEF MapInv, OnTop
<1>8. MapKept
  BY <1>2, <1>3, <1>6, <1>7, EntryGone, EntryTimersAre
<1>9. Covered(at[x]) /\ entries[k].due = at[x]
  BY <1>2, <1>4, <1>6, EntryIs, EntryTimersAre DEF MapInv, OnTop, Linked
<1> QED BY <1>6, <1>8, <1>9 DEF Drop

(* A new entry, without a timer or with one that is new to the manager *)
LEMMA EntryAdded ==
  ASSUME MapInv, Kept, NEW k, k \notin DOMAIN entries, NEW x \in EntryTimers \cup {None},
         NEW d \in Nat \cup {None}, entries' = Put(k, x, d), timeout' = timeout,
         cookie' \in [EntryTimers -> Keys \cup {None}],
         \A y \in EntryTimers : (Has(y)' <=> Has(y) \/ y = x) /\ ~ Firing(y)',
         \A y \in EntryTimers : y # x => at'[y] = at[y] /\ cookie'[y] = cookie[y],
         x # None => ~ Has(x) /\ cookie'[x] = k /\ at'[x] = d
  PROVE  MapKept
<1>1. PICK e : e = [timer |-> x, due |-> d]
  OBVIOUS
<1>2. e \in Entry /\ e.timer = x /\ e.due = d
  BY <1>1 DEF Entry
<1>3. /\ DOMAIN entries' = DOMAIN entries \cup {k} /\ entries'[k] = e
      /\ \A j \in DOMAIN entries : entries'[j] = entries[j]
      /\ entries' = [j \in DOMAIN entries' |-> entries'[j]]
  BY <1>1 DEF Put
<1>4. MapTyped'
  <2>1. \A j \in DOMAIN entries' : entries'[j] \in Entry
    BY <1>2, <1>3 DEF MapInv, MapTyped
  <2>2. entries' \in [DOMAIN entries' -> Entry]
    BY <1>3, <2>1
  <2> QED BY <2>2 DEF MapInv, MapTyped
<1>5. OnTop'
  BY NoneFiring
<1>6. ASSUME NEW j \in DOMAIN entries' PROVE Linked(j)'
  <2>1. CASE j = k
    BY <1>2, <1>3, <2>1 DEF Linked
  <2>2. CASE j # k
    <3>1. j \in DOMAIN entries
      BY <1>3, <2>2
    <3>2. Linked(j) /\ entries[j].timer \in EntryTimers \cup {None} /\ entries'[j] = entries[j]
      BY <1>3, <3>1, EntryIs
    <3>3. entries[j].timer # None => entries[j].timer # x
      BY <3>2 DEF Linked
    <3> QED BY <3>2, <3>3 DEF Linked
  <2> QED BY <2>1, <2>2
<1>7. ASSUME NEW y \in EntryTimers PROVE Wanted(y)'
  <2>1. CASE y = x
    BY <1>2, <1>3, <2>1, EntryTimersAre DEF Wanted
  <2>2. CASE y # x
    <3>1. Wanted(y)
      BY DEF MapInv, MatchInv
    <3> QED BY <1>3, <2>2, <3>1 DEF Wanted
  <2> QED BY <2>1, <2>2
<1>8. MatchInv'
  BY <1>6, <1>7 DEF MatchInv
<1> QED BY <1>4, <1>5, <1>8 DEF MapKept, MapInv, Kept

LEMMA MapInsertKeeps ==
  ASSUME MapInv, NEW k \in Keys, MapInsert(k)
  PROVE  MapKept
<1>1. /\ k \notin DOMAIN entries /\ Inv /\ CodeRuns /\ timeout' = timeout
      /\ timeout \in Nat /\ time \in Nat /\ at \in [Timers -> Times]
      /\ cookie \in [EntryTimers -> Keys \cup {None}]
  BY TimesAre DEF MapInv, MapTyped, MapInsert, Inv, Typed
<1>2. CASE timeout # 0
  <2>1. PICK x \in EntryTimers, t \in Times :
          /\ t = time + timeout /\ refs[x] = 0 /\ cookie' = [cookie EXCEPT ![x] = k]
          /\ Schedule(x, t) /\ entries' = Put(k, x, t)
    BY <1>2 DEF MapInsert
  <2>2. t \in Nat /\ ~ (t <= time) /\ x \in Timers
    BY <1>1, <1>2, <2>1, TimesAre, EntryTimersAre
  <2>3. ~ Has(x)
    BY <1>1, <2>1, <2>2 DEF Inv, RefsInv, Has
  <2>4. /\ Kept
        /\ \A y \in Timers : Has(y)' <=> Has(y) \/ y = x
        /\ \A y \in Timers : Firing(y)' => Firing(y) \/ (y = x /\ t <= time)
    BY <1>1, <2>1, <2>2, ScheduleKeeps
  <2>5. /\ at'[x] = t /\ \A y \in EntryTimers : y # x => at'[y] = at[y]
        /\ cookie' \in [EntryTimers -> Keys \cup {None}] /\ cookie'[x] = k
        /\ \A y \in EntryTimers : y # x => cookie'[y] = cookie[y]
    BY <1>1, <2>1, <2>2, EntryTimersAre DEF Schedule
  <2>6. \A y \in EntryTimers : (Has(y)' <=> Has(y) \/ y = x) /\ ~ Firing(y)'
    BY <1>1, <2>2, <2>4, NoneExpiring, EntryTimersAre
  <2> QED BY <1>1, <2>1, <2>2, <2>3, <2>4, <2>5, <2>6, EntryAdded
<1>3. CASE timeout = 0
  <2>1. UNCHANGED <<cookie, timerVars>> /\ entries' = Put(k, None, None)
    BY <1>3 DEF MapInsert
  <2>2. /\ Kept /\ at' = at
        /\ \A y \in Timers : (Has(y)' <=> Has(y)) /\ (Firing(y)' <=> Firing(y))
    BY <1>1, <2>1, TimersUnmoved
  <2>3. \A y \in EntryTimers : (Has(y)' <=> Has(y) \/ y = None) /\ ~ Firing(y)'
    BY <1>1, <2>2, NoneExpiring, EntryTimersAre
  <2> QED BY <1>1, <2>1, <2>2, <2>3, EntryAdded
<1> QED BY <1>1, <1>2, <1>3

(* hlt_map_clear cancels the timers of all entries. *)
LEMMA OwnedAre ==
  ASSUME MapInv, CodeRuns
  PROVE  Owned = {x \in EntryTimers : Has(x)} /\ Owned \subseteq Entries(heap)
<1>1. ASSUME NEW x \in Owned PROVE x \in EntryTimers /\ Has(x)
  <2>1. PICK k \in DOMAIN entries : entries[k].timer = x /\ x # None
    BY DEF Owned
  <2> QED BY <2>1, EntryIs DEF Linked
<1>2. ASSUME NEW x \in EntryTimers, Has(x) PROVE x \in Owned
  BY <1>2, EntryTimersAre DEF MapInv, MatchInv, Wanted, Owned
<1>3. ASSUME NEW x \in EntryTimers, Has(x) PROVE x \in Entries(heap)
  BY <1>3, NoneExpiring DEF Has
<1> QED BY <1>1, <1>2, <1>3

LEMMA MapClearKeeps ==
  ASSUME MapInv, MapClear
  PROVE  MapKept
<1>1. /\ StackInv /\ Typed /\ QueueInv /\ RefsInv /\ IsQueue(heap, Timers) /\ CodeRuns
      /\ at \in [Timers -> Nat] /\ time' = time /\ stack' = stack
      /\ UNCHANGED <<timeout, cookie>> /\ MapTyped
  BY TimesAre DEF MapInv, Inv, QueueInv, Typed, MapClear
<1>2. PICK S : S = Owned /\ S = {x \in EntryTimers : Has(x)} /\ S \subseteq Entries(heap)
  BY <1>1, OwnedAre
<1>3. Entries(heap) \subseteq Timers
  BY <1>1 DEF IsQueue, Entries
<1>4. PICK n \in Nat : n = Cardinality(S)
  BY <1>2, <1>3, TimerAssumption, FS_Subset, FS_CardinalityType
<1>5. PICK order \in Bijection(1..n, S) : SetQueue(UnqueueAll(order))
  BY <1>2, <1>4 DEF MapClear
<1>6. /\ Becomes(UnqueueAll(order), Entries(heap) \ S, Timers)
      /\ Sorted(heap, at) => Sorted(UnqueueAll(order).d, at)
  BY <1>1, <1>2, UnqueueAllIs
<1>7. /\ QueueInv' /\ Entries(heap') = Entries(heap) \ S
      /\ Sorted(heap, at) => Sorted(heap', at)
  BY <1>1, <1>5, <1>6, QueueSet
<1>8. StackInv' /\ (\A y : Firing(y)' <=> Firing(y)) /\ (\A v : Covered(v)' <=> Covered(v))
  BY <1>1 DEF StackInv, Firing, Covered
<1>9. /\ refs' = [x \in Timers |-> IF x \in S THEN refs[x] - 1 ELSE refs[x]]
      /\ scheduled' = [x \in Timers |-> scheduled[x] /\ x \notin S]
      /\ at' = [x \in Timers |-> IF x \in S THEN 0 ELSE at[x]]
  BY <1>2 DEF MapClear
<1>10. \A x \in Timers : IF x \in S THEN refs[x] = 1 /\ refs'[x] = 0 /\ at'[x] = 0
                         ELSE refs'[x] = refs[x] /\ scheduled'[x] = scheduled[x] /\ at'[x] = at[x]
  BY <1>1, <1>2, <1>3, <1>9 DEF Typed, RefsInv
<1>11. Typed'
  <2>1. \A x \in Timers : refs'[x] \in 0..1 /\ at'[x] \in Times
    BY <1>1, <1>10, TimesAre DEF Typed
  <2>2. refs' \in [Timers -> 0..1] /\ at' \in [Timers -> Times]
    BY <1>9, <2>1
  <2>3. scheduled' \in [Timers -> BOOLEAN]
    BY <1>9
  <2> QED BY <1>1, <2>2, <2>3 DEF Typed
<1>12. RefsInv'
  <2> SUFFICES ASSUME NEW x \in Timers
               PROVE  /\ ~ (x \in Entries(heap') /\ Firing(x)')
                      /\ x \in Entries(heap') \/ Firing(x)' => refs'[x] = 1 /\ scheduled'[x]
                      /\ ~ (x \in Entries(heap') \/ Firing(x)') => refs'[x] = 0
    BY DEF RefsInv
  <2>1. /\ ~ (x \in Entries(heap) /\ Firing(x))
        /\ x \in Entries(heap) \/ Firing(x) => refs[x] = 1 /\ scheduled[x]
        /\ ~ (x \in Entries(heap) \/ Firing(x)) => refs[x] = 0
    BY <1>1 DEF RefsInv
  <2> QED BY <1>2, <1>7, <1>8, <1>10, <2>1
<1>13. ASSUME OrderInv, DueInv PROVE OrderInv' /\ DueInv'
  <2>1. \A y \in Entries(heap') : at'[y] = at[y] /\ y \in Entries(heap)
    BY <1>3, <1>7, <1>10
  <2>2. IsQueue(heap', Timers) /\ Sorted(heap', at)
    BY <1>7, <1>13 DEF QueueInv, OrderInv
  <2>3. OrderInv'
    BY <2>1, <2>2, SortedSame DEF OrderInv
  <2>4. DueInv'
    BY <1>1, <1>8, <1>13, <2>1 DEF DueInv
  <2> QED BY <2>3, <2>4
<1>14. \A y \in EntryTimers : ~ Has(y)' /\ ~ Firing(y)'
  BY <1>1, <1>2, <1>7, <1>8, NoneExpiring DEF Has
<1>15. DOMAIN entries' = {} /\ entries' \in [DOMAIN entries' -> Entry]
  BY DEF MapClear
<1>16. MapTyped' /\ OnTop' /\ MatchInv'
  BY <1>1, <1>14, <1>15, NoneFiring DEF MapTyped, MatchInv, Wanted
<1> QED BY <1>7, <1>8, <1>11, <1>12, <1>13, <1>16 DEF MapKept, MapInv, Inv

-----------------------------------------------------------------------------
LEMMA MapInitHolds ==
  ASSUME MapInit
  PROVE  MapInv /\ OrderInv /\ DueInv
<1>1. Inv /\ OrderInv /\ DueInv
  BY InitHolds DEF MapInit
<1>2. heap = <<>> /\ stack = <<>> /\ Len(heap) = 0 /\ Len(stack) = 0
  BY EmptySeq DEF MapInit, Init, MgrNew
<1>3. \A x \in EntryTimers : ~ Has(x) /\ ~ Firing(x)
  BY <1>2 DEF Has, Firing, Entries
<1>4. DOMAIN entries = {} /\ entries \in [DOMAIN entries -> Entry]
  BY DEF MapInit, MapNew
<1>5. MapTyped
  BY <1>4 DEF MapInit, MapNew, MapTyped
<1> QED BY <1>1, <1>3, <1>4, <1>5 DEF MapInv, OnTop, MatchInv, Wanted

LEMMA MapNextKeeps ==
  ASSUME MapInv, [MapNext]_<<vars, mapVars>>
  PROVE  MapKept
<1>1. CASE UNCHANGED <<vars, mapVars>>
  <2>1. UNCHANGED timerVars /\ UNCHANGED <<entries, cookie, timeout>> /\ Inv
    BY <1>1 DEF vars, timerVars, mapVars, MapInv
  <2>2. /\ Kept /\ at' = at
        /\ \A y \in Timers : (Has(y)' <=> Has(y)) /\ (Firing(y)' <=> Firing(y))
    BY <2>1, TimersUnmoved
  <2>3. OnTop'
    BY <2>1 DEF MapInv, OnTop, Firing, Covered, Top, timerVars
  <2>4. timeout' \in Nat
    BY <2>1 DEF MapInv, MapTyped
  <2> QED BY <2>1, <2>2, <2>3, <2>4, MapUnmoved, EntryTimersAre
<1>2. CASE TimerStep
  <2>1. UNCHANGED mapVars
    BY <1>2 DEF TimerStep
  <2>2. ASSUME CodeRuns, NEW x \in Funcs,
               (\E t \in Times : Schedule(x, t) \/ Update(x, t)) \/ Cancel(x)
        PROVE  MapKept
    BY <2>1, <2>2, FuncStepKeeps
  <2>3. CASE \/ CodeRuns /\ ((\E t \in Times : Advance(t)) \/ Expire)
             \/ AdvanceEnd \/ ExpireEnd
    BY <2>1, <2>3, CallStepKeeps
  <2>4. CASE CodeRuns /\ Owned = {} /\ CancelAll
    BY <2>1, <2>4, CancelAllKeepsMap
  <2>5. CASE Call("fire") /\ Top.timer \in Funcs /\ FireEnd
    BY <2>1, <2>5, FuncEndKeeps
  <2>6. CASE AdvanceFires \/ ExpireFires
    BY <2>1, <2>6, FiresKeeps
  <2> QED BY <1>2, <2>2, <2>3, <2>4, <2>5, <2>6 DEF TimerStep
<1>3. ASSUME NEW k \in Keys, MapGet(k) \/ MapInsert(k) \/ MapRemove(k) PROVE MapKept
  BY <1>3, MapGetKeeps, MapInsertKeeps, MapRemoveKeeps
<1>4. ASSUME NEW s, NEW t \in Timeouts \cup {0}, MapTimeout(s, t) PROVE MapKept
  BY <1>4, MapTimeoutKeeps
<1>5. CASE MapClear \/ EntryExpires
  BY <1>5, MapClearKeeps, EntryExpiresKeeps
<1> QED BY <1>1, <1>2, <1>3, <1>4, <1>5 DEF MapNext, MapStep

LEMMA MapInvHolds == MapSpec => []MapInv
<1>1. MapInit => MapInv
  BY MapInitHolds
<1>2. MapInv /\ [MapNext]_<<vars, mapVars>> => MapInv'
  BY MapNextKeeps DEF MapKept
<1> QED BY <1>1, <1>2, PTL DEF MapSpec

(***************************************************************************)
(* In every state the entries and the timers match, whatever the callbacks *)
(* of the program do to the map in the middle of an advance, and also if   *)
(* timeouts are shortened (EntriesMatchTimers).                            *)
(***************************************************************************)
THEOREM EntriesAndTimersMatch == MapSpec => []EntriesMatchTimers
<1>1. MapInv => EntriesMatchTimers
  <2> SUFFICES ASSUME MapInv PROVE EntriesMatchTimers
    OBVIOUS
  <2>1. \A x \in EntryTimers : Queued(x) \/ Firing(x) <=> Has(x)
    BY EntriesAre DEF Queued, Has
  <2>2. ASSUME NEW k \in DOMAIN entries, entries[k].timer # None
        PROVE  LET x == entries[k].timer
               IN  /\ x \in EntryTimers /\ cookie[x] = k
                   /\ scheduled[x] /\ (Queued(x) \/ Firing(x))
    <3>1. PICK x : x = entries[k].timer
      OBVIOUS
    <3>2. x \in EntryTimers /\ x \in Timers /\ Has(x) /\ cookie[x] = k
      BY <2>2, <3>1, EntryIs, EntryTimersAre DEF Linked
    <3>3. scheduled[x]
      BY <3>2 DEF MapInv, Inv, RefsInv, Has
    <3> QED BY <2>1, <3>1, <3>2, <3>3
  <2>3. ASSUME NEW x \in EntryTimers, Has(x)
        PROVE  cookie[x] \in DOMAIN entries /\ entries[cookie[x]].timer = x
    BY <2>3 DEF MapInv, MatchInv, Wanted
  <2> QED BY <2>1, <2>2, <2>3 DEF EntriesMatchTimers
<1> QED BY <1>1, MapInvHolds, PTL

(***************************************************************************)
(* If no timer is updated to an earlier time that is still ahead, no entry *)
(* that is due stays in the map once the calls in progress have ended      *)
(* (EntriesExpire).                                                        *)
(***************************************************************************)
THEOREM DueEntriesAreGone ==
  ASSUME ~ UpdatesEarlier
  PROVE  MapSpec => []EntriesExpire
<1>1. MapInit => MapInv /\ OrderInv /\ DueInv
  BY MapInitHolds
<1>2. MapInv /\ OrderInv /\ DueInv /\ [MapNext]_<<vars, mapVars>> => (MapInv /\ OrderInv /\ DueInv)'
  BY MapNextKeeps DEF MapKept
<1>3. MapInv /\ DueInv => EntriesExpire
  <2> SUFFICES ASSUME MapInv, DueInv, stack = <<>>, NEW k \in DOMAIN entries,
                      entries[k].timer # None
               PROVE  entries[k].due > time
    BY DEF EntriesExpire
  <2>1. PICK x : x = entries[k].timer
    OBVIOUS
  <2>2. x \in EntryTimers /\ Has(x) /\ entries[k].due = at[x]
    BY <2>1, EntryIs DEF Linked
  <2>3. Len(stack) = 0
    BY EmptySeq
  <2>4. x \in Entries(heap) /\ ~ Covered(at[x])
    BY <2>2, <2>3 DEF Has, Firing, Covered
  <2> QED BY <2>2, <2>4 DEF DueInv
<1> QED BY <1>1, <1>2, <1>3, PTL DEF MapSpec

(***************************************************************************)
(* Each entry that expires is due by the time of an advance in progress,   *)
(* or the manager is being expired: accesses and replacements made by the  *)
(* callbacks of that advance count at once (NotExpiredEarly).              *)
(***************************************************************************)
THEOREM NoneExpiresEarly == MapSpec => NotExpiredEarly
<1>1. ASSUME MapInv, EntryExpires, NEW k \in DOMAIN entries, k \notin DOMAIN entries'
      PROVE  DueBy(k)
  <2>1. PICK j \in DOMAIN entries : DOMAIN entries' = DOMAIN entries \ {j} /\ Covered(entries[j].due)
    BY <1>1, EntryExpiresKeeps
  <2>2. k = j
    BY <1>1, <2>1
  <2> QED BY <2>1, <2>2 DEF DueBy, Covered
<1>2. MapInv /\ [MapNext]_<<vars, mapVars>> =>
        [\A k \in DOMAIN entries : EntryExpires /\ k \notin DOMAIN entries' => DueBy(k)]_<<vars, mapVars>>
  BY <1>1
<1> QED BY <1>2, MapInvHolds, PTL DEF MapSpec, NotExpiredEarly

(***************************************************************************)
(* The manager's references are exact with a map on top of it (RefsMatch). *)
(***************************************************************************)
THEOREM MapReferencesAreExact == MapSpec => []RefsMatch
<1>1. MapInv => RefsMatch
  BY InvGivesRefs DEF MapInv
<1> QED BY <1>1, MapInvHolds, PTL
=============================================================================
