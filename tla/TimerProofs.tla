----------------------------- MODULE TimerProofs -----------------------------
(***************************************************************************)
(* Proofs about the timer manager: the binary heap is correct for every    *)
(* size, references are exact, and no timer that is due stays behind.      *)
(*                                                                         *)
(* The first part is about the two loops of the heap, as functions on      *)
(* arrays: they lose no entry (Permuted), tell each entry they move its    *)
(* position (AllPlaced), and restore the order that is disturbed at one    *)
(* position (MayRise, MayFall).  From it follow the operations InsertIs,   *)
(* PopIs, RemoveIs and ChangePriorityIs, which the second part uses for    *)
(* the steps of the manager.  Properties of a loop for every size are      *)
(* shown by looking at a least counterexample.                             *)
(***************************************************************************)
EXTENDS Timer, SequenceTheorems, FiniteSetTheorems, NaturalsInduction,
        WellFoundedInduction, TLAPS

(* Every non-empty set of naturals has a least element. *)
LEMMA LeastNat ==
  ASSUME NEW T, T \subseteq Nat, T # {}
  PROVE  \E m \in T : \A k \in T : m <= k
<1> DEFINE R == {ss \in Nat \X Nat : ss[1] < ss[2]}
<1>1. PICK m \in T : \A k \in T : ~ (<<k, m>> \in R)
  <2>1. IsWellFoundedOn(R, Nat)
    BY NatLessThanWellFounded DEF OpToRel
  <2> HIDE DEF R
  <2> QED BY <2>1, WFMin
<1>2. \A k \in T : ~ (k < m)
  BY <1>1
<1> QED BY <1>2

(* An array is a sequence. *)
LEMMA ArrayIsSeq ==
  ASSUME NEW S, NEW n \in Nat, NEW h \in [1..n -> S]
  PROVE  h \in Seq(S) /\ Len(h) = n
OBVIOUS

-----------------------------------------------------------------------------
(* The loops of the heap.  Both start at i and go from position k in B to  *)
(* q[k], whose entry they move to k; where they stop they put the entry    *)
(* that was at i.  The position gets closer to the end r counts to.  Walk  *)
(* is what they do to the array, PosWalk what setpos does on the way.      *)
With(g, k, x) == [g EXCEPT ![k] = x]

Loop(f, o, n, i, B, q) ==
  f = [k \in 1..n |-> IF k \in B THEN Place(f[q[k]], o.d[q[k]], k) ELSE Place(o, o.d[i], k)]

PosWalk(f, pos, h, n, i, B, q) ==
  f = [k \in 1..n |-> IF k \in B THEN With(f[q[k]], h[q[k]], k) ELSE With(pos, h[i], k)]

Walk(f, h, n, i, B, q) ==
  f = [k \in 1..n |-> IF k \in B THEN With(f[q[k]], k, h[q[k]]) ELSE With(h, k, h[i])]

Ranked(n, B, q, r) ==
  /\ r \in [1..n -> 0..n]
  /\ B \subseteq 1..n
  /\ \A k \in B : q[k] \in 1..n /\ r[q[k]] < r[k]

LEMMA LoopExists ==
  ASSUME NEW n \in Nat, NEW o, NEW i, NEW B, NEW q, NEW r, Ranked(n, B, q, r)
  PROVE  \E f : Loop(f, o, n, i, B, q)
<1> DEFINE Step(g, k) == IF k \in B THEN Place(g[q[k]], o.d[q[k]], k) ELSE Place(o, o.d[i], k)
           Is(g, m) == \A k \in 1..n : r[k] < m => g[k] = Step(g, k)
           T == {m \in Nat : ~ \E g : Is(g, m)}
<1>0. \A k \in 1..n : r[k] \in 0..n
  BY DEF Ranked
<1>1. T \subseteq Nat /\ \A m \in Nat : m \notin T <=> \E g : Is(g, m)
  OBVIOUS
<1> HIDE DEF T
<1>2. T = {}
  <2> SUFFICES ASSUME T # {} PROVE FALSE
    OBVIOUS
  <2>1. PICK m \in Nat : m \in T /\ \A k \in T : m <= k
    BY <1>1, LeastNat
  <2>2. m # 0
    <3>1. \A k \in 1..n : ~ (r[k] < 0)
      BY <1>0
    <3>2. Is(o, 0)
      BY <3>1
    <3> QED BY <1>1, <2>1, <3>2
  <2>3. m - 1 \in Nat /\ m - 1 \notin T
    <3> HIDE DEF Is
    <3> QED BY <2>1, <2>2
  <2>4. PICK g : Is(g, m - 1)
    BY <1>1, <2>3
  <2> DEFINE f == [k \in 1..n |-> IF r[k] < m - 1 THEN g[k] ELSE Step(g, k)]
  <2>5. \A k \in 1..n : f[k] = IF r[k] < m - 1 THEN g[k] ELSE Step(g, k)
    OBVIOUS
  <2>51. \A k \in 1..n : r[k] < m - 1 => g[k] = Step(g, k)
    BY <2>4
  <2> HIDE DEF f, Step
  <2>6. \A k \in 1..n : f[k] = Step(g, k)
    BY <2>5, <2>51
  <2>7. Is(f, m)
    <3> SUFFICES ASSUME NEW k \in 1..n, r[k] < m PROVE f[k] = Step(f, k)
      OBVIOUS
    <3>1. k \in B => q[k] \in 1..n /\ r[q[k]] < m - 1
      BY <1>0, <2>1, <2>3 DEF Ranked
    <3>2. k \in B => f[q[k]] = g[q[k]]
      BY <2>5, <3>1
    <3>3. Step(f, k) = Step(g, k)
      BY <3>2 DEF Step
    <3> QED BY <2>6, <3>3
  <2> QED BY <1>1, <2>1, <2>7
<1>3. PICK m \in Nat : \A k \in 1..n : r[k] < m
  <2>1. n + 1 \in Nat /\ \A k \in 1..n : r[k] < n + 1
    BY <1>0
  <2> QED BY <2>1
<1>4. PICK g : Is(g, m)
  BY <1>1, <1>2, <1>3
<1> DEFINE f == [k \in 1..n |-> g[k]]
<1>5. \A k \in 1..n : f[k] = Step(f, k)
  <2> SUFFICES ASSUME NEW k \in 1..n PROVE f[k] = Step(f, k)
    OBVIOUS
  <2>1. k \in B => f[q[k]] = g[q[k]]
    BY DEF Ranked
  <2> QED BY <1>3, <1>4, <2>1
<1>6. f = [k \in 1..n |-> Step(f, k)]
  BY <1>5
<1> QED BY <1>6 DEF Loop

Parts(f, g, p, n) == \A k \in 1..n : f[k].d = g[k] /\ f[k].pos = p[k]

LEMMA LoopParts ==
  ASSUME NEW n \in Nat, NEW h, NEW pos, NEW o, o.d = h, o.pos = pos, NEW i,
         NEW B, NEW q, NEW r, Ranked(n, B, q, r), NEW f, Loop(f, o, n, i, B, q)
  PROVE  \E g, p : /\ Walk(g, h, n, i, B, q) /\ PosWalk(p, pos, h, n, i, B, q)
                   /\ Parts(f, g, p, n)
<1> DEFINE g == [k \in 1..n |-> f[k].d]
           p == [k \in 1..n |-> f[k].pos]
<1>1. o.d = h /\ o.pos = pos
  OBVIOUS
<1>2. \A k \in 1..n : f[k] = IF k \in B THEN Place(f[q[k]], h[q[k]], k) ELSE Place(o, h[i], k)
  BY <1>1 DEF Loop
<1>3. \A e, x, k : /\ Place(e, x, k).d = With(e.d, k, x)
                   /\ Place(e, x, k).pos = With(e.pos, x, k)
  BY DEF Place, With
<1>4. ASSUME NEW k \in 1..n
      PROVE  /\ f[k].d = IF k \in B THEN With(f[q[k]].d, k, h[q[k]]) ELSE With(h, k, h[i])
             /\ f[k].pos = IF k \in B THEN With(f[q[k]].pos, h[q[k]], k) ELSE With(pos, h[i], k)
  <2>1. CASE k \in B
    <3>1. f[k] = Place(f[q[k]], h[q[k]], k)
      BY <1>2, <2>1
    <3> QED BY <1>3, <2>1, <3>1
  <2>2. CASE k \notin B
    <3>1. f[k] = Place(o, h[i], k)
      BY <1>2, <2>2
    <3> QED BY <1>1, <1>3, <2>2, <3>1
  <2> QED BY <2>1, <2>2
<1>5. \A k \in 1..n : g[k] = f[k].d /\ p[k] = f[k].pos
  OBVIOUS
<1>6. \A k \in B : q[k] \in 1..n
  BY DEF Ranked
<1>7. g = [k \in 1..n |-> g[k]] /\ p = [k \in 1..n |-> p[k]]
  OBVIOUS
<1> HIDE DEF g, p
<1>8. ASSUME NEW k \in 1..n
      PROVE  /\ g[k] = IF k \in B THEN With(g[q[k]], k, h[q[k]]) ELSE With(h, k, h[i])
             /\ p[k] = IF k \in B THEN With(p[q[k]], h[q[k]], k) ELSE With(pos, h[i], k)
  BY <1>4, <1>5, <1>6
<1>9. Walk(g, h, n, i, B, q)
  BY <1>7, <1>8 DEF Walk
<1>10. PosWalk(p, pos, h, n, i, B, q)
  BY <1>7, <1>8 DEF PosWalk
<1> QED BY <1>5, <1>9, <1>10 DEF Parts

LEMMA WalkIs ==
  ASSUME NEW n \in Nat, NEW h, NEW i, NEW B, NEW q, NEW f, Walk(f, h, n, i, B, q),
         NEW k \in 1..n
  PROVE  /\ k \in B => f[k] = With(f[q[k]], k, h[q[k]])
         /\ k \notin B => f[k] = With(h, k, h[i])
BY DEF Walk

-----------------------------------------------------------------------------
(* The loops lose no entry and duplicate none. *)
Distinct(h, n) == \A k, m \in 1..n : h[k] = h[m] => k = m

SameEntries(g, h, n) ==
  /\ \A k \in 1..n : \E m \in 1..n : g[k] = h[m]
  /\ \A m \in 1..n : \E k \in 1..n : g[k] = h[m]

(* g is h without the entry of k; the entry of i is there twice, and the   *)
(* positions that the loop has yet to write to are as they were.           *)
Hole(g, h, n, S, i, k, r) ==
  /\ g \in [1..n -> S]
  /\ \A m \in 1..n : r[m] > r[k] => g[m] = h[m]
  /\ \A m \in 1..n : g[m] # h[k]
  /\ \A m, p \in 1..n : m # i /\ p # i /\ g[m] = g[p] => m = p
  /\ \A m \in 1..n : \E p \in 1..n : g[m] = h[p]
  /\ \A m \in 1..n : m # k => \E p \in 1..n : p # i /\ g[p] = h[m]

LEMMA HoleStart ==
  ASSUME NEW n \in Nat, NEW S, NEW h \in [1..n -> S], Distinct(h, n),
         NEW i \in 1..n, NEW k \in 1..n, i # k, NEW r \in [1..n -> 0..n]
  PROVE  Hole(With(h, k, h[i]), h, n, S, i, k, r)
<1> DEFINE g == With(h, k, h[i])
<1>1. g \in [1..n -> S] /\ \A m \in 1..n : g[m] = IF m = k THEN h[i] ELSE h[m]
  BY DEF With
<1>2. \A m \in 1..n : r[m] > r[k] => m # k
  OBVIOUS
<1> HIDE DEF g
<1>3. \A m \in 1..n : r[m] > r[k] => g[m] = h[m]
  BY <1>1, <1>2
<1>4. \A m \in 1..n : g[m] # h[k]
  BY <1>1 DEF Distinct
<1>5. \A m, p \in 1..n : m # i /\ p # i /\ g[m] = g[p] => m = p
  BY <1>1 DEF Distinct
<1>6. \A m \in 1..n : \E p \in 1..n : g[m] = h[p]
  BY <1>1
<1>7. \A m \in 1..n : m # k => \E p \in 1..n : p # i /\ g[p] = h[m]
  <2> SUFFICES ASSUME NEW m \in 1..n, m # k PROVE \E p \in 1..n : p # i /\ g[p] = h[m]
    OBVIOUS
  <2>1. CASE m = i
    <3>1. k # i /\ g[k] = h[m]
      BY <1>1, <2>1
    <3> QED BY <3>1
  <2>2. CASE m # i
    BY <1>1, <2>2
  <2> QED BY <2>1, <2>2
<1>8. Hole(g, h, n, S, i, k, r)
  BY <1>1, <1>3, <1>4, <1>5, <1>6, <1>7 DEF Hole
<1> QED BY <1>8 DEF g

LEMMA HoleMoves ==
  ASSUME NEW n \in Nat, NEW S, NEW h \in [1..n -> S], Distinct(h, n),
         NEW i \in 1..n, NEW j \in 1..n, NEW k \in 1..n, NEW r \in [1..n -> 0..n],
         NEW e, Hole(e, h, n, S, i, j, r), r[j] < r[k], r[k] < r[i]
  PROVE  Hole(With(e, k, h[j]), h, n, S, i, k, r)
<1> DEFINE g == With(e, k, h[j])
<1>1. g \in [1..n -> S] /\ \A m \in 1..n : g[m] = IF m = k THEN h[j] ELSE e[m]
  BY DEF Hole, With
<1>2. \A m \in 1..n : r[m] > r[k] => m # k /\ r[m] > r[j]
  OBVIOUS
<1>3. k # i /\ j # k /\ e[k] = h[k] /\ e[i] = h[i]
  <2>1. r[i] > r[j] /\ r[k] > r[j] /\ r[k] # r[i] /\ r[j] # r[k]
    OBVIOUS
  <2>2. \A m \in 1..n : r[m] > r[j] => e[m] = h[m]
    BY DEF Hole
  <2> QED BY <2>1, <2>2
<1> HIDE DEF g
<1>4. \A m \in 1..n : r[m] > r[k] => g[m] = h[m]
  BY <1>1, <1>2 DEF Hole
<1>5. \A m \in 1..n : g[m] # h[k]
  BY <1>1, <1>3 DEF Distinct, Hole
<1>6. \A m, p \in 1..n : m # i /\ p # i /\ g[m] = g[p] => m = p
  BY <1>1, <1>3 DEF Hole
<1>7. \A m \in 1..n : \E p \in 1..n : g[m] = h[p]
  BY <1>1 DEF Hole
<1>8. \A m \in 1..n : m # k => \E p \in 1..n : p # i /\ g[p] = h[m]
  <2> SUFFICES ASSUME NEW m \in 1..n, m # k PROVE \E p \in 1..n : p # i /\ g[p] = h[m]
    OBVIOUS
  <2>1. CASE m = j
    BY <1>1, <1>3, <2>1
  <2>2. CASE m # j
    <3>1. PICK p \in 1..n : p # i /\ e[p] = h[m]
      BY <2>2 DEF Hole
    <3>2. p # k
      BY <1>3, <3>1 DEF Distinct
    <3> QED BY <1>1, <3>1, <3>2
  <2> QED BY <2>1, <2>2
<1>9. Hole(g, h, n, S, i, k, r)
  BY <1>1, <1>4, <1>5, <1>6, <1>7, <1>8 DEF Hole
<1> QED BY <1>9 DEF g

LEMMA HoleCloses ==
  ASSUME NEW n \in Nat, NEW S, NEW h \in [1..n -> S], Distinct(h, n),
         NEW i \in 1..n, NEW j \in 1..n, NEW r \in [1..n -> 0..n],
         NEW e, Hole(e, h, n, S, i, j, r), r[j] < r[i],
         NEW g, g = With(e, i, h[j])
  PROVE  g \in [1..n -> S] /\ Distinct(g, n) /\ SameEntries(g, h, n)
<1>1. g \in [1..n -> S] /\ \A m \in 1..n : g[m] = IF m = i THEN h[j] ELSE e[m]
  BY DEF Hole, With
<1>3. j # i /\ e[i] = h[i]
  BY DEF Hole
<1>4. Distinct(g, n)
  BY <1>1 DEF Hole, Distinct
<1>5. \A m \in 1..n : \E p \in 1..n : g[m] = h[p]
  BY <1>1 DEF Hole
<1>6. ASSUME NEW m \in 1..n PROVE \E p \in 1..n : g[p] = h[m]
  <2>1. CASE m = j
    BY <1>1, <2>1
  <2>2. CASE m # j
    <3>1. PICK p \in 1..n : p # i /\ e[p] = h[m]
      BY <2>2 DEF Hole
    <3> QED BY <1>1, <3>1
  <2> QED BY <2>1, <2>2
<1> QED BY <1>1, <1>4, <1>5, <1>6 DEF SameEntries

LEMMA WalkHoles ==
  ASSUME NEW n \in Nat, NEW S, NEW h \in [1..n -> S], Distinct(h, n),
         NEW i \in 1..n, NEW B, NEW q, NEW r, Ranked(n, B, q, r),
         NEW f, Walk(f, h, n, i, B, q)
  PROVE  \A k \in 1..n : r[k] < r[i] => Hole(f[k], h, n, S, i, k, r)
<1>0. r \in [1..n -> 0..n] /\ \A k \in B : k \in 1..n /\ q[k] \in 1..n /\ r[q[k]] < r[k]
  BY DEF Ranked
<1> DEFINE Wrong(k) == r[k] < r[i] /\ ~ Hole(f[k], h, n, S, i, k, r)
           T == {m \in 0..n : \E k \in 1..n : r[k] = m /\ Wrong(k)}
<1>1. T = {}
  <2> SUFFICES ASSUME T # {} PROVE FALSE
    OBVIOUS
  <2>1. T \subseteq Nat
    OBVIOUS
  <2>2. PICK m \in T : \A p \in T : m <= p
    <3> HIDE DEF T
    <3> QED BY <2>1, LeastNat
  <2>3. PICK k \in 1..n : r[k] = m /\ Wrong(k)
    BY <2>2
  <2>4. \A j \in 1..n : r[j] \in 0..n /\ (Wrong(j) => r[j] \in T)
    BY <1>0
  <2> HIDE DEF T
  <2>5. CASE k \notin B
    <3>1. f[k] = With(h, k, h[i])
      BY <2>5, WalkIs
    <3>2. k # i
      BY <1>0, <2>3
    <3> QED BY <1>0, <2>3, <3>1, <3>2, HoleStart
  <2>6. CASE k \in B
    <3>1. PICK j \in 1..n : j = q[k] /\ r[j] < r[k] /\ r[j] < r[i]
      BY <1>0, <2>3, <2>6
    <3>2. Hole(f[j], h, n, S, i, j, r)
      <4>1. ~ (r[k] <= r[j])
        BY <1>0, <3>1
      <4> QED BY <2>2, <2>3, <2>4, <3>1, <4>1
    <3>3. f[k] = With(f[j], k, h[j])
      BY <2>6, <3>1, WalkIs
    <3> QED BY <1>0, <2>3, <3>1, <3>2, <3>3, HoleMoves
  <2> QED BY <2>5, <2>6
<1>2. \A k \in 1..n : r[k] \in 0..n
  BY <1>0
<1> QED BY <1>1, <1>2

LEMMA WalkMoves ==
  ASSUME NEW n \in Nat, NEW S, NEW h \in [1..n -> S], Distinct(h, n),
         NEW i \in 1..n, NEW B, NEW q, NEW r, Ranked(n, B, q, r),
         NEW f, Walk(f, h, n, i, B, q)
  PROVE  f[i] \in [1..n -> S] /\ Distinct(f[i], n) /\ SameEntries(f[i], h, n)
<1>0. r \in [1..n -> 0..n] /\ \A k \in B : k \in 1..n /\ q[k] \in 1..n /\ r[q[k]] < r[k]
  BY DEF Ranked
<1>2. CASE i \notin B
  <2>1. f[i] = With(h, i, h[i])
    BY <1>2, WalkIs
  <2>2. f[i] = h
    BY <2>1 DEF With
  <2> QED BY <2>2 DEF SameEntries
<1>3. CASE i \in B
  <2>1. PICK j \in 1..n : j = q[i] /\ r[j] < r[i]
    BY <1>0, <1>3
  <2>2. f[i] = With(f[j], i, h[j])
    BY <1>3, <2>1, WalkIs
  <2>3. Hole(f[j], h, n, S, i, j, r)
    BY <2>1, WalkHoles
  <2>4. PICK e, g : e = f[j] /\ g = f[i]
    OBVIOUS
  <2>5. Hole(e, h, n, S, i, j, r) /\ g = With(e, i, h[j])
    BY <2>2, <2>3, <2>4
  <2>6. g \in [1..n -> S] /\ Distinct(g, n) /\ SameEntries(g, h, n)
    BY <1>0, <2>1, <2>5, HoleCloses
  <2> QED BY <2>4, <2>6
<1> QED BY <1>2, <1>3

(* Before a loop every entry but the one at i knows its position; the ones *)
(* that it moves are told theirs.                                          *)
Room(n, N) == 1..n \subseteq N

PlacedBut(pos, h, n, N, i, S) ==
  pos \in [S -> N] /\ \A m \in 1..n : m # i => pos[h[m]] = m

AllPlaced(pos, h, n, N, S) ==
  pos \in [S -> N] /\ \A m \in 1..n : pos[h[m]] = m

LEMMA PosIs ==
  ASSUME NEW n \in Nat, NEW pos, NEW h, NEW i, NEW B, NEW q, NEW p,
         PosWalk(p, pos, h, n, i, B, q), NEW k \in 1..n
  PROVE  /\ k \in B => p[k] = With(p[q[k]], h[q[k]], k)
         /\ k \notin B => p[k] = With(pos, h[i], k)
BY DEF PosWalk

LEMMA WalkPlaces ==
  ASSUME NEW n \in Nat, NEW S, NEW h \in [1..n -> S], Distinct(h, n),
         NEW i \in 1..n, NEW B, NEW q, NEW r, Ranked(n, B, q, r),
         NEW f, Walk(f, h, n, i, B, q), NEW N, Room(n, N),
         NEW pos, PlacedBut(pos, h, n, N, i, S),
         NEW p, PosWalk(p, pos, h, n, i, B, q)
  PROVE  AllPlaced(p[i], f[i], n, N, S)
<1>0. r \in [1..n -> 0..n] /\ \A k \in B : k \in 1..n /\ q[k] \in 1..n /\ r[q[k]] < r[k]
  BY DEF Ranked
<1>1. \A k \in 1..n : r[k] < r[i] => Hole(f[k], h, n, S, i, k, r)
  BY WalkHoles
(* The loop takes over from j and puts the entry of j at k. *)
<1>2. ASSUME NEW j \in 1..n, NEW k \in 1..n, r[j] < r[k], r[j] < r[i],
             NEW e, Hole(e, h, n, S, i, j, r), NEW g, g = With(e, k, h[j]),
             NEW u, PlacedBut(u, e, n, N, i, S), NEW v, v = With(u, h[j], k)
      PROVE  PlacedBut(v, g, n, N, i, S) /\ (k = i => v[g[i]] = i)
  <2>1. e \in [1..n -> S] /\ u \in [S -> N] /\ h[j] \in S /\ k \in N
    BY <1>2 DEF Hole, PlacedBut, Room
  <2>2. \A m \in 1..n : g[m] = IF m = k THEN h[j] ELSE e[m]
    BY <1>2, <2>1 DEF With
  <2>3. v \in [S -> N] /\ \A x \in S : v[x] = IF x = h[j] THEN k ELSE u[x]
    BY <1>2, <2>1 DEF With
  <2>4. \A m \in 1..n : e[m] \in S /\ e[m] # h[j]
    BY <1>2, <2>1 DEF Hole
  <2>5. \A m \in 1..n : m # i => v[g[m]] = m
    BY <1>2, <2>1, <2>2, <2>3, <2>4 DEF PlacedBut
  <2>6. v[g[k]] = k
    BY <2>1, <2>2, <2>3
  <2> QED BY <2>3, <2>5, <2>6 DEF PlacedBut
(* The loop stops at k and puts the moving entry there. *)
<1>3. ASSUME NEW k \in 1..n, NEW g, g = With(h, k, h[i]), NEW v, v = With(pos, h[i], k)
      PROVE  PlacedBut(v, g, n, N, i, S) /\ (k = i => v[g[i]] = i)
  <2>1. pos \in [S -> N] /\ h[i] \in S /\ k \in N
    BY DEF PlacedBut, Room
  <2>2. \A m \in 1..n : g[m] = IF m = k THEN h[i] ELSE h[m]
    BY <1>3 DEF With
  <2>3. v \in [S -> N] /\ \A x \in S : v[x] = IF x = h[i] THEN k ELSE pos[x]
    BY <1>3, <2>1 DEF With
  <2>4. \A m \in 1..n : h[m] \in S /\ (h[m] = h[i] => m = i)
    BY DEF Distinct
  <2>5. \A m \in 1..n : m # i => v[g[m]] = m
    BY <2>1, <2>2, <2>3, <2>4 DEF PlacedBut
  <2>6. v[g[k]] = k
    BY <2>1, <2>2, <2>3
  <2> QED BY <2>3, <2>5, <2>6 DEF PlacedBut
<1> DEFINE Wrong(k) == r[k] < r[i] /\ ~ PlacedBut(p[k], f[k], n, N, i, S)
           T == {m \in 0..n : \E k \in 1..n : r[k] = m /\ Wrong(k)}
<1>4. T = {}
  <2> SUFFICES ASSUME T # {} PROVE FALSE
    OBVIOUS
  <2>1. T \subseteq Nat
    OBVIOUS
  <2>2. PICK m \in T : \A l \in T : m <= l
    <3> HIDE DEF T
    <3> QED BY <2>1, LeastNat
  <2>3. PICK k \in 1..n : r[k] = m /\ Wrong(k)
    BY <2>2
  <2>4. \A j \in 1..n : r[j] \in 0..n /\ (Wrong(j) => r[j] \in T)
    BY <1>0
  <2> HIDE DEF T
  <2>5. CASE k \notin B
    <3>1. f[k] = With(h, k, h[i]) /\ p[k] = With(pos, h[i], k)
      BY <2>5, WalkIs, PosIs
    <3> QED BY <1>3, <2>3, <3>1
  <2>6. CASE k \in B
    <3>1. PICK j \in 1..n : j = q[k] /\ r[j] < r[k] /\ r[j] < r[i]
      BY <1>0, <2>3, <2>6
    <3>2. PlacedBut(p[j], f[j], n, N, i, S)
      <4>1. ~ (r[k] <= r[j])
        BY <1>0, <3>1
      <4> QED BY <2>2, <2>3, <2>4, <3>1, <4>1
    <3>3. f[k] = With(f[j], k, h[j]) /\ p[k] = With(p[j], h[j], k)
      BY <2>6, <3>1, WalkIs, PosIs
    <3>4. Hole(f[j], h, n, S, i, j, r)
      BY <1>1, <3>1
    <3> QED BY <1>2, <2>3, <3>1, <3>2, <3>3, <3>4
  <2> QED BY <2>5, <2>6
<1>5. PlacedBut(p[i], f[i], n, N, i, S) /\ p[i][f[i][i]] = i
  <2>1. CASE i \notin B
    <3>1. f[i] = With(h, i, h[i]) /\ p[i] = With(pos, h[i], i)
      BY <2>1, WalkIs, PosIs
    <3> QED BY <1>3, <3>1
  <2>2. CASE i \in B
    <3>1. PICK j \in 1..n : j = q[i] /\ r[j] < r[i]
      BY <1>0, <2>2
    <3>2. f[i] = With(f[j], i, h[j]) /\ p[i] = With(p[j], h[j], i)
      BY <2>2, <3>1, WalkIs, PosIs
    <3>3. Hole(f[j], h, n, S, i, j, r)
      BY <1>1, <3>1
    <3>4. PlacedBut(p[j], f[j], n, N, i, S)
      <4>1. r[j] \in 0..n
        BY <1>0
      <4> QED BY <1>4, <3>1, <4>1
    <3> QED BY <1>2, <3>1, <3>2, <3>3, <3>4
  <2> QED BY <2>1, <2>2
<1> QED BY <1>5 DEF PlacedBut, AllPlaced

-----------------------------------------------------------------------------
(* The loops restore the order of the heap.  These lemmas are about the    *)
(* arrays of the entries' priorities.                                      *)
LEMMA ParentIs ==
  ASSUME NEW k \in Nat
  PROVE  /\ k >= 2 => Parent(k) \in Nat /\ Parent(k) >= 1 /\ Parent(k) < k
         /\ Parent(2 * k) = k /\ Parent(2 * k + 1) = k
         /\ \A m \in Nat : Parent(k) = m => k = 2 * m \/ k = 2 * m + 1
BY DEF Parent

LEMMA ParentPosition ==
  ASSUME NEW n \in Nat, NEW m \in 1..n, m > 1
  PROVE  \E p \in 1..n : p = Parent(m) /\ p < m
<1>1. m \in Nat /\ m >= 2 /\ m <= n
  OBVIOUS
<1>2. Parent(m) \in Nat /\ Parent(m) >= 1 /\ Parent(m) < m
  BY <1>1, ParentIs
<1>3. PICK p \in Nat : p = Parent(m)
  BY <1>2
<1>4. p \in 1..n
  BY <1>1, <1>2, <1>3
<1> QED BY <1>2, <1>3, <1>4

(* b is a with the value v at k. *)
Changed(b, a, n, k, v) ==
  b \in [1..n -> Nat] /\ \A m \in 1..n : b[m] = IF m = k THEN v ELSE a[m]

Ordered(a, n) == \A m \in 2..n : a[Parent(m)] <= a[m]

(* bubble_up from i has reached k.  All pairs but that of i are in order.  *)
Rising(b, a, n, i, k) ==
  /\ b \in [1..n -> Nat]
  /\ \A m \in 1..n : b[m] <= a[m]
  /\ \A m \in 1..n : m > k => b[m] = a[m]
  /\ \A m \in 2..n : m # i => b[Parent(m)] <= b[m]

(* Where bubble_up may start *)
MayRise(a, n, i) ==
  /\ \A m \in 2..n : m # i => a[Parent(m)] <= a[m]
  /\ \A m \in 2..n : Parent(m) = i /\ i > 1 => a[Parent(i)] <= a[m]

LEMMA RisingStart ==
  ASSUME NEW n \in Nat, NEW a \in [1..n -> Nat], NEW i \in 1..n, NEW k \in 1..n,
         MayRise(a, n, i), k < i, a[k] > a[i],
         k > 1 => a[Parent(k)] <= a[i],
         NEW b, Changed(b, a, n, k, a[i])
  PROVE  Rising(b, a, n, i, k)
<1>0. b \in [1..n -> Nat] /\ \A m \in 1..n : b[m] = IF m = k THEN a[i] ELSE a[m]
  BY DEF Changed
<1>1. \A m \in 1..n : b[m] <= a[m]
  BY <1>0
<1>2. \A m \in 1..n : m > k => b[m] = a[m]
  BY <1>0
<1>3. ASSUME NEW m \in 2..n, m # i PROVE b[Parent(m)] <= b[m]
  <2>1. PICK p \in 1..n : p = Parent(m) /\ p < m
    <3>1. m \in 1..n /\ m > 1
      OBVIOUS
    <3> QED BY <3>1, ParentPosition
  <2> SUFFICES b[p] <= b[m]
    BY <2>1
  <2>2. a[p] <= a[m]
    BY <1>3, <2>1 DEF MayRise
  <2> QED BY <1>0, <1>3, <2>1, <2>2
<1> QED BY <1>0, <1>1, <1>2, <1>3 DEF Rising

LEMMA RisingMoves ==
  ASSUME NEW n \in Nat, NEW a \in [1..n -> Nat], NEW i \in 1..n, NEW k \in 1..n,
         MayRise(a, n, i), 1 < k, k < i,
         NEW e, Rising(e, a, n, i, Parent(k)),
         NEW b, Changed(b, e, n, k, a[Parent(k)])
  PROVE  Rising(b, a, n, i, k)
<1>0. b \in [1..n -> Nat] /\ \A m \in 1..n : b[m] = IF m = k THEN a[Parent(k)] ELSE e[m]
  BY DEF Changed
<1>1. PICK j \in 1..n : j = Parent(k) /\ j < k
  BY ParentPosition
<1>2. a[j] <= a[k]
  BY <1>1 DEF MayRise
<1>3. /\ e \in [1..n -> Nat]
      /\ \A m \in 1..n : e[m] <= a[m]
      /\ \A m \in 1..n : m > j => e[m] = a[m]
      /\ \A m \in 2..n : m # i => e[Parent(m)] <= e[m]
  BY <1>1 DEF Rising
<1>4. \A m \in 1..n : b[m] <= a[m]
  BY <1>0, <1>1, <1>2, <1>3
<1>5. \A m \in 1..n : m > k => b[m] = a[m]
  BY <1>0, <1>1, <1>3
<1>6. ASSUME NEW m \in 2..n, m # i PROVE b[Parent(m)] <= b[m]
  <2>1. PICK p \in 1..n : p = Parent(m) /\ p < m
    <3>1. m \in 1..n /\ m > 1
      OBVIOUS
    <3> QED BY <3>1, ParentPosition
  <2> SUFFICES b[p] <= b[m]
    BY <2>1
  <2>2. a[p] <= a[m] /\ e[p] <= e[m]
    BY <1>3, <1>6, <2>1 DEF MayRise
  <2> QED BY <1>0, <1>1, <1>2, <1>3, <2>1, <2>2
<1> QED BY <1>0, <1>4, <1>5, <1>6 DEF Rising

LEMMA RisingEnds ==
  ASSUME NEW n \in Nat, NEW a \in [1..n -> Nat], NEW i \in 1..n,
         MayRise(a, n, i), 1 < i,
         NEW e, Rising(e, a, n, i, Parent(i)),
         NEW b, Changed(b, e, n, i, a[Parent(i)])
  PROVE  Ordered(b, n)
<1>0. b \in [1..n -> Nat] /\ \A m \in 1..n : b[m] = IF m = i THEN a[Parent(i)] ELSE e[m]
  BY DEF Changed
<1>1. PICK j \in 1..n : j = Parent(i) /\ j < i
  BY ParentPosition
<1>3. /\ e \in [1..n -> Nat]
      /\ \A m \in 1..n : e[m] <= a[m]
      /\ \A m \in 1..n : m > j => e[m] = a[m]
      /\ \A m \in 2..n : m # i => e[Parent(m)] <= e[m]
  BY <1>1 DEF Rising
<1>6. ASSUME NEW m \in 2..n PROVE b[Parent(m)] <= b[m]
  <2>1. PICK p \in 1..n : p = Parent(m) /\ p < m
    <3>1. m \in 1..n /\ m > 1
      OBVIOUS
    <3> QED BY <3>1, ParentPosition
  <2> SUFFICES b[p] <= b[m]
    BY <2>1
  <2>2. CASE m = i
    BY <1>0, <1>1, <1>3, <2>1, <2>2
  <2>3. CASE m # i /\ p = i
    <3>1. a[j] <= a[m]
      BY <1>1, <2>1, <2>3 DEF MayRise
    <3>2. b[p] = a[j] /\ b[m] = e[m]
      BY <1>0, <1>1, <2>3
    <3>3. e[m] = a[m]
      BY <1>1, <1>3, <2>1, <2>3
    <3> QED BY <1>0, <3>1, <3>2, <3>3
  <2>4. CASE m # i /\ p # i
    <3>1. e[p] <= e[m]
      BY <1>3, <2>1, <2>4
    <3> QED BY <1>0, <1>3, <2>1, <2>4, <3>1
  <2> QED BY <2>2, <2>3, <2>4
<1> QED BY <1>0, <1>6 DEF Ordered

(* percolate_down from i has reached k.  All pairs but those below i are   *)
(* in order.                                                               *)
Falling(b, a, n, i, k) ==
  /\ b \in [1..n -> Nat]
  /\ \A m \in 1..n : a[m] <= b[m]
  /\ \A m \in 1..n : m < k => b[m] = a[m]
  /\ \A m \in 2..n : Parent(m) # i => b[Parent(m)] <= b[m]

(* Where percolate_down may start *)
MayFall(a, n, i) ==
  /\ \A m \in 2..n : Parent(m) # i => a[Parent(m)] <= a[m]
  /\ \A m \in 2..n : Parent(m) = i /\ i > 1 => a[Parent(i)] <= a[m]

LeastChild(a, n, k, c) ==
  /\ c \in 1..n /\ c > 1 /\ Parent(c) = k
  /\ \A m \in 2..n : Parent(m) = k => a[c] <= a[m]

LEMMA ChildPosition ==
  ASSUME NEW n \in Nat, NEW a, NEW k \in 1..n, NEW c \in 1..n, LeastChild(a, n, k, c)
  PROVE  k < c /\ c \in 2..n /\ Parent(c) = k
<1>1. c > 1 /\ Parent(c) = k
  BY DEF LeastChild
<1>2. PICK p \in 1..n : p = Parent(c) /\ p < c
  BY <1>1, ParentPosition
<1> QED BY <1>1, <1>2

LEMMA FallingStart ==
  ASSUME NEW n \in Nat, NEW a \in [1..n -> Nat], NEW i \in 1..n, NEW k \in 1..n,
         MayFall(a, n, i), k > i, a[k] < a[i],
         \A m \in 2..n : Parent(m) = k => a[i] <= a[m],
         NEW b, Changed(b, a, n, k, a[i])
  PROVE  Falling(b, a, n, i, k)
<1>0. b \in [1..n -> Nat] /\ \A m \in 1..n : b[m] = IF m = k THEN a[i] ELSE a[m]
  BY DEF Changed
<1>1. \A m \in 1..n : a[m] <= b[m]
  BY <1>0
<1>2. \A m \in 1..n : m < k => b[m] = a[m]
  BY <1>0
<1>3. ASSUME NEW m \in 2..n, Parent(m) # i PROVE b[Parent(m)] <= b[m]
  <2>1. PICK p \in 1..n : p = Parent(m) /\ p < m
    <3>1. m \in 1..n /\ m > 1
      OBVIOUS
    <3> QED BY <3>1, ParentPosition
  <2> SUFFICES b[p] <= b[m]
    BY <2>1
  <2>2. a[p] <= a[m]
    BY <1>3, <2>1 DEF MayFall
  <2>3. CASE p = k
    <3>1. a[i] <= a[m]
      BY <2>1, <2>3
    <3> QED BY <1>0, <2>1, <2>3, <3>1
  <2>4. CASE p # k
    BY <1>0, <2>1, <2>2, <2>4
  <2> QED BY <1>0, <2>3, <2>4
<1> QED BY <1>0, <1>1, <1>2, <1>3 DEF Falling

LEMMA FallingMoves ==
  ASSUME NEW n \in Nat, NEW a \in [1..n -> Nat], NEW i \in 1..n, NEW k \in 1..n,
         NEW c \in 1..n, MayFall(a, n, i), k > i, LeastChild(a, n, k, c),
         NEW e, Falling(e, a, n, i, c),
         NEW b, Changed(b, e, n, k, a[c])
  PROVE  Falling(b, a, n, i, k)
<1>0. b \in [1..n -> Nat] /\ \A m \in 1..n : b[m] = IF m = k THEN a[c] ELSE e[m]
  BY DEF Changed
<1>1. k < c /\ c \in 2..n /\ Parent(c) = k
  BY ChildPosition
<1>2. a[k] <= a[c]
  <2>1. Parent(c) # i
    BY <1>1
  <2> QED BY <1>1, <2>1 DEF MayFall
<1>3. /\ e \in [1..n -> Nat]
      /\ \A m \in 1..n : a[m] <= e[m]
      /\ \A m \in 1..n : m < c => e[m] = a[m]
      /\ \A m \in 2..n : Parent(m) # i => e[Parent(m)] <= e[m]
  BY DEF Falling
<1>4. \A m \in 1..n : a[m] <= b[m]
  BY <1>0, <1>2, <1>3
<1>5. \A m \in 1..n : m < k => b[m] = a[m]
  BY <1>0, <1>1, <1>3
<1>6. ASSUME NEW m \in 2..n, Parent(m) # i PROVE b[Parent(m)] <= b[m]
  <2>1. PICK p \in 1..n : p = Parent(m) /\ p < m
    <3>1. m \in 1..n /\ m > 1
      OBVIOUS
    <3> QED BY <3>1, ParentPosition
  <2> SUFFICES b[p] <= b[m]
    BY <2>1
  <2>2. a[p] <= a[m] /\ e[p] <= e[m]
    BY <1>3, <1>6, <2>1 DEF MayFall
  <2>3. CASE p = k
    <3>1. a[c] <= a[m]
      BY <2>1, <2>3 DEF LeastChild
    <3> QED BY <1>0, <1>3, <2>1, <2>3, <3>1
  <2>4. CASE p # k /\ m = k
    BY <1>0, <1>1, <1>2, <1>3, <2>1, <2>2, <2>4
  <2>5. CASE p # k /\ m # k
    <3>1. b[p] = e[p] /\ b[m] = e[m]
      BY <1>0, <2>5
    <3> QED BY <1>0, <2>2, <3>1
  <2> QED BY <2>3, <2>4, <2>5
<1> QED BY <1>0, <1>4, <1>5, <1>6 DEF Falling

LEMMA FallingEnds ==
  ASSUME NEW n \in Nat, NEW a \in [1..n -> Nat], NEW i \in 1..n,
         NEW c \in 1..n, MayFall(a, n, i), LeastChild(a, n, i, c),
         NEW e, Falling(e, a, n, i, c),
         NEW b, Changed(b, e, n, i, a[c])
  PROVE  Ordered(b, n)
<1>0. b \in [1..n -> Nat] /\ \A m \in 1..n : b[m] = IF m = i THEN a[c] ELSE e[m]
  BY DEF Changed
<1>1. i < c /\ c \in 2..n /\ Parent(c) = i
  BY ChildPosition
<1>3. /\ e \in [1..n -> Nat]
      /\ \A m \in 1..n : a[m] <= e[m]
      /\ \A m \in 1..n : m < c => e[m] = a[m]
      /\ \A m \in 2..n : Parent(m) # i => e[Parent(m)] <= e[m]
  BY DEF Falling
<1>6. ASSUME NEW m \in 2..n PROVE b[Parent(m)] <= b[m]
  <2>1. PICK p \in 1..n : p = Parent(m) /\ p < m
    <3>1. m \in 1..n /\ m > 1
      OBVIOUS
    <3> QED BY <3>1, ParentPosition
  <2> SUFFICES b[p] <= b[m]
    BY <2>1
  <2>3. CASE p = i
    <3>1. a[c] <= a[m]
      BY <2>1, <2>3 DEF LeastChild
    <3>2. m \in 1..n /\ m # i
      BY <2>1, <2>3
    <3>3. b[p] = a[c] /\ b[m] = e[m] /\ a[m] <= e[m]
      BY <1>0, <1>3, <2>3, <3>2
    <3>4. a[c] \in Nat /\ a[m] \in Nat /\ e[m] \in Nat
      BY <1>3, <3>2
    <3> QED BY <3>1, <3>3, <3>4
  <2>4. CASE p # i /\ m = i
    <3>1. a[p] <= a[c]
      BY <1>1, <2>1, <2>4 DEF MayFall
    <3>2. b[m] = a[c] /\ b[p] = e[p] /\ e[p] = a[p]
      BY <1>0, <1>1, <1>3, <2>1, <2>4
    <3> QED BY <3>1, <3>2
  <2>5. CASE p # i /\ m # i
    <3>1. e[p] <= e[m]
      BY <1>3, <2>1, <2>5
    <3>2. m \in 1..n
      OBVIOUS
    <3>3. b[p] = e[p] /\ b[m] = e[m]
      BY <1>0, <2>5, <3>2
    <3> QED BY <3>1, <3>3
  <2> QED BY <2>3, <2>4, <2>5
<1> QED BY <1>0, <1>6 DEF Ordered

-----------------------------------------------------------------------------
(* The loops of PriorityQueue *)
UpLoop(f, o, pri, i) ==
  f = [k \in 1..Len(o.d) |-> IF k > 1 /\ pri[o.d[Parent(k)]] > pri[o.d[i]]
                               THEN Place(f[Parent(k)], o.d[Parent(k)], k)
                               ELSE Place(o, o.d[i], k)]

DownLoop(f, o, pri, i) ==
  f = [k \in 1..Len(o.d) |-> LET c == MaxChild(o.d, pri, k)
                             IN IF c # 0 /\ pri[o.d[i]] > pri[o.d[c]]
                                  THEN Place(f[c], o.d[c], k)
                                  ELSE Place(o, o.d[i], k)]

(* What bubble_up goes through *)
UpFrom(h, pri, n, i) == {k \in 1..n : k > 1 /\ pri[h[Parent(k)]] > pri[h[i]]}
UpTo(n) == [k \in 1..n |-> Parent(k)]
UpRank(n) == [k \in 1..n |-> k]

(* What percolate_down goes through *)
DownFrom(h, pri, n, i) ==
  {k \in 1..n : MaxChild(h, pri, k) # 0 /\ pri[h[i]] > pri[h[MaxChild(h, pri, k)]]}
DownTo(h, pri, n) == [k \in 1..n |-> MaxChild(h, pri, k)]
DownRank(n) == [k \in 1..n |-> n - k]

LEMMA UpRanked ==
  ASSUME NEW n \in Nat, NEW h, NEW pri, NEW i
  PROVE  Ranked(n, UpFrom(h, pri, n, i), UpTo(n), UpRank(n))
<1>1. UpRank(n) \in [1..n -> 0..n] /\ \A k \in 1..n : UpRank(n)[k] = k /\ UpTo(n)[k] = Parent(k)
  BY DEF UpRank, UpTo
<1>2. ASSUME NEW k \in UpFrom(h, pri, n, i)
      PROVE  UpTo(n)[k] \in 1..n /\ UpRank(n)[UpTo(n)[k]] < UpRank(n)[k]
  <2>1. k \in 1..n /\ k > 1
    BY DEF UpFrom
  <2>2. PICK p \in 1..n : p = Parent(k) /\ p < k
    BY <2>1, ParentPosition
  <2> QED BY <1>1, <2>1, <2>2
<1>3. UpFrom(h, pri, n, i) \subseteq 1..n
  BY DEF UpFrom
<1> QED BY <1>1, <1>2, <1>3 DEF Ranked

LEMMA UpIsLoop ==
  ASSUME NEW n \in Nat, NEW o, NEW h, o.d = h, Len(h) = n, NEW pri, NEW i, NEW f
  PROVE  UpLoop(f, o, pri, i) <=> Loop(f, o, n, i, UpFrom(h, pri, n, i), UpTo(n))
<1> DEFINE U(k) == IF k > 1 /\ pri[h[Parent(k)]] > pri[h[i]]
                     THEN Place(f[Parent(k)], h[Parent(k)], k)
                     ELSE Place(o, h[i], k)
           B == UpFrom(h, pri, n, i)
           q == UpTo(n)
           V(k) == IF k \in B THEN Place(f[q[k]], h[q[k]], k) ELSE Place(o, h[i], k)
<1>1. ASSUME NEW k \in 1..n PROVE U(k) = V(k)
  <2>1. k \in B <=> k > 1 /\ pri[h[Parent(k)]] > pri[h[i]]
    BY DEF UpFrom
  <2>2. q[k] = Parent(k)
    BY DEF UpTo
  <2> HIDE DEF B, q
  <2> QED BY <2>1, <2>2
<1> HIDE DEF B, q
<1>2. UpLoop(f, o, pri, i) <=> f = [k \in 1..n |-> U(k)]
  BY DEF UpLoop
<1>3. Loop(f, o, n, i, B, q) <=> f = [k \in 1..n |-> V(k)]
  BY DEF Loop
<1> HIDE DEF U, V
<1>4. [k \in 1..n |-> U(k)] = [k \in 1..n |-> V(k)]
  BY <1>1
<1> QED BY <1>2, <1>3, <1>4 DEF B, q

LEMMA BubbleUpWalks ==
  ASSUME NEW n \in Nat, NEW h, Len(h) = n, NEW pos, NEW o, o.d = h, o.pos = pos,
         NEW pri, NEW i \in 1..n
  PROVE  \E f, p : /\ Walk(f, h, n, i, UpFrom(h, pri, n, i), UpTo(n))
                   /\ PosWalk(p, pos, h, n, i, UpFrom(h, pri, n, i), UpTo(n))
                   /\ BubbleUp(o, pri, i).d = f[i] /\ BubbleUp(o, pri, i).pos = p[i]
<1>0. o.d = h
  OBVIOUS
<1>1. \E f : UpLoop(f, o, pri, i)
  <2>1. \E f : Loop(f, o, n, i, UpFrom(h, pri, n, i), UpTo(n))
    BY UpRanked, LoopExists
  <2> QED BY <1>0, <2>1, UpIsLoop
<1> DEFINE f == CHOOSE g : UpLoop(g, o, pri, i)
<1>2. UpLoop(f, o, pri, i)
  BY <1>1
<1>3. BubbleUp(o, pri, i) = f[i]
  BY DEF BubbleUp, UpLoop
<1> HIDE DEF f
<1>4. Loop(f, o, n, i, UpFrom(h, pri, n, i), UpTo(n))
  BY <1>0, <1>2, UpIsLoop
<1>5. PICK B, q, r : B = UpFrom(h, pri, n, i) /\ q = UpTo(n) /\ r = UpRank(n)
  OBVIOUS
<1>6. Ranked(n, B, q, r) /\ Loop(f, o, n, i, B, q)
  BY <1>4, <1>5, UpRanked
<1>7. PICK g, p : Walk(g, h, n, i, B, q) /\ PosWalk(p, pos, h, n, i, B, q) /\ Parts(f, g, p, n)
  BY <1>6, LoopParts
<1>8. BubbleUp(o, pri, i).d = g[i] /\ BubbleUp(o, pri, i).pos = p[i]
  BY <1>3, <1>7 DEF Parts
<1> QED BY <1>5, <1>7, <1>8

LEMMA MaxChildBelow ==
  ASSUME NEW n \in Nat, NEW h, Len(h) = n, NEW pri, NEW k \in 1..n, MaxChild(h, pri, k) # 0
  PROVE  \E c \in 1..n : c = MaxChild(h, pri, k) /\ c > k
<1>1. 2 * k <= n
  BY DEF MaxChild
<1>2. CASE MaxChild(h, pri, k) = 2 * k
  <2>1. 2 * k \in 1..n /\ 2 * k > k
    BY <1>1
  <2> QED BY <1>2, <2>1
<1>3. CASE MaxChild(h, pri, k) = 2 * k + 1 /\ 2 * k + 1 <= n
  <2>1. 2 * k + 1 \in 1..n /\ 2 * k + 1 > k
    BY <1>3
  <2> QED BY <1>3, <2>1
<1> QED BY <1>1, <1>2, <1>3 DEF MaxChild

LEMMA MaxChildIs ==
  ASSUME NEW n \in Nat, NEW h, Len(h) = n, NEW pri, NEW a \in [1..n -> Nat],
         \A m \in 1..n : a[m] = pri[h[m]], NEW k \in 1..n
  PROVE  /\ MaxChild(h, pri, k) = 0 => \A m \in 2..n : Parent(m) # k
         /\ MaxChild(h, pri, k) # 0 => LeastChild(a, n, k, MaxChild(h, pri, k))
<1>1. PICK l \in Nat : l = 2 * k /\ l > 1
  OBVIOUS
<1>2. Parent(l) = k /\ Parent(l + 1) = k
  <2>1. k \in Nat
    OBVIOUS
  <2>2. Parent(2 * k) = k /\ Parent(2 * k + 1) = k
    BY <2>1, ParentIs
  <2> QED BY <1>1, <2>2
<1>3. ASSUME NEW m \in 2..n, Parent(m) = k PROVE m = l \/ m = l + 1
  BY <1>1, <1>3, ParentIs
<1>4. MaxChild(h, pri, k) = IF l > n THEN 0
                            ELSE IF l + 1 <= n /\ pri[h[l]] > pri[h[l + 1]] THEN l + 1 ELSE l
  BY <1>1 DEF MaxChild
<1>5. CASE l > n
  BY <1>1, <1>3, <1>4, <1>5
<1>6. CASE l <= n /\ l + 1 <= n
  <2>1. l \in 1..n /\ l + 1 \in 1..n
    BY <1>1, <1>6
  <2>2. a[l] = pri[h[l]] /\ a[l + 1] = pri[h[l + 1]] /\ a[l] \in Nat /\ a[l + 1] \in Nat
    BY <2>1
  <2>3. MaxChild(h, pri, k) = IF a[l] > a[l + 1] THEN l + 1 ELSE l
    BY <1>1, <1>4, <1>6, <2>2
  <2>4. CASE a[l] > a[l + 1]
    <3>1. \A m \in 2..n : Parent(m) = k => a[l + 1] <= a[m]
      BY <1>3, <2>2, <2>4
    <3> QED BY <1>1, <1>2, <2>1, <2>3, <2>4, <3>1 DEF LeastChild
  <2>5. CASE ~ (a[l] > a[l + 1])
    <3>1. \A m \in 2..n : Parent(m) = k => a[l] <= a[m]
      BY <1>3, <2>2, <2>5
    <3> QED BY <1>1, <1>2, <2>1, <2>3, <2>5, <3>1 DEF LeastChild
  <2> QED BY <2>4, <2>5
<1>7. CASE l <= n /\ ~ (l + 1 <= n)
  <2>1. l \in 1..n /\ MaxChild(h, pri, k) = l
    BY <1>1, <1>4, <1>7
  <2>2. \A m \in 2..n : Parent(m) = k => m = l
    BY <1>1, <1>3, <1>7
  <2>3. \A m \in 2..n : Parent(m) = k => a[l] <= a[m]
    BY <2>1, <2>2
  <2> QED BY <1>1, <1>2, <2>1, <2>3 DEF LeastChild
<1> QED BY <1>1, <1>5, <1>6, <1>7

LEMMA DownRanked ==
  ASSUME NEW n \in Nat, NEW h, Len(h) = n, NEW pri, NEW i
  PROVE  Ranked(n, DownFrom(h, pri, n, i), DownTo(h, pri, n), DownRank(n))
<1>1. /\ DownRank(n) \in [1..n -> 0..n]
      /\ \A k \in 1..n : DownRank(n)[k] = n - k /\ DownTo(h, pri, n)[k] = MaxChild(h, pri, k)
  BY DEF DownRank, DownTo
<1>2. ASSUME NEW k \in DownFrom(h, pri, n, i)
      PROVE  /\ DownTo(h, pri, n)[k] \in 1..n
             /\ DownRank(n)[DownTo(h, pri, n)[k]] < DownRank(n)[k]
  <2>1. k \in 1..n /\ MaxChild(h, pri, k) # 0
    BY DEF DownFrom
  <2>2. PICK c \in 1..n : c = MaxChild(h, pri, k) /\ c > k
    BY <2>1, MaxChildBelow
  <2> QED BY <1>1, <2>1, <2>2
<1>3. DownFrom(h, pri, n, i) \subseteq 1..n
  BY DEF DownFrom
<1> QED BY <1>1, <1>2, <1>3 DEF Ranked

LEMMA DownIsLoop ==
  ASSUME NEW n \in Nat, NEW o, NEW h, o.d = h, Len(h) = n, NEW pri, NEW i, NEW f
  PROVE  DownLoop(f, o, pri, i)
           <=> Loop(f, o, n, i, DownFrom(h, pri, n, i), DownTo(h, pri, n))
<1> DEFINE U(k) == IF MaxChild(h, pri, k) # 0 /\ pri[h[i]] > pri[h[MaxChild(h, pri, k)]]
                     THEN Place(f[MaxChild(h, pri, k)], h[MaxChild(h, pri, k)], k)
                     ELSE Place(o, h[i], k)
           B == DownFrom(h, pri, n, i)
           q == DownTo(h, pri, n)
           V(k) == IF k \in B THEN Place(f[q[k]], h[q[k]], k) ELSE Place(o, h[i], k)
<1>1. ASSUME NEW k \in 1..n PROVE U(k) = V(k)
  <2>1. k \in B <=> MaxChild(h, pri, k) # 0 /\ pri[h[i]] > pri[h[MaxChild(h, pri, k)]]
    BY DEF DownFrom
  <2>2. q[k] = MaxChild(h, pri, k)
    BY DEF DownTo
  <2> HIDE DEF B, q
  <2> QED BY <2>1, <2>2
<1> HIDE DEF B, q
<1>2. DownLoop(f, o, pri, i) <=> f = [k \in 1..n |-> U(k)]
  BY DEF DownLoop
<1>3. Loop(f, o, n, i, B, q) <=> f = [k \in 1..n |-> V(k)]
  BY DEF Loop
<1> HIDE DEF U, V
<1>4. [k \in 1..n |-> U(k)] = [k \in 1..n |-> V(k)]
  BY <1>1
<1> QED BY <1>2, <1>3, <1>4 DEF B, q

LEMMA PercolateDownWalks ==
  ASSUME NEW n \in Nat, NEW h, Len(h) = n, NEW pos, NEW o, o.d = h, o.pos = pos,
         NEW pri, NEW i \in 1..n
  PROVE  \E f, p : /\ Walk(f, h, n, i, DownFrom(h, pri, n, i), DownTo(h, pri, n))
                   /\ PosWalk(p, pos, h, n, i, DownFrom(h, pri, n, i), DownTo(h, pri, n))
                   /\ PercolateDown(o, pri, i).d = f[i] /\ PercolateDown(o, pri, i).pos = p[i]
<1>0. o.d = h
  OBVIOUS
<1>1. \E f : DownLoop(f, o, pri, i)
  <2>1. \E f : Loop(f, o, n, i, DownFrom(h, pri, n, i), DownTo(h, pri, n))
    BY DownRanked, LoopExists
  <2> QED BY <1>0, <2>1, DownIsLoop
<1> DEFINE f == CHOOSE g : DownLoop(g, o, pri, i)
<1>2. DownLoop(f, o, pri, i)
  BY <1>1
<1>3. PercolateDown(o, pri, i) = f[i]
  BY DEF PercolateDown, DownLoop
<1> HIDE DEF f
<1>4. Loop(f, o, n, i, DownFrom(h, pri, n, i), DownTo(h, pri, n))
  BY <1>0, <1>2, DownIsLoop
<1>5. PICK B, q, r : B = DownFrom(h, pri, n, i) /\ q = DownTo(h, pri, n) /\ r = DownRank(n)
  OBVIOUS
<1>6. Ranked(n, B, q, r) /\ Loop(f, o, n, i, B, q)
  BY <1>4, <1>5, DownRanked
<1>7. PICK g, p : Walk(g, h, n, i, B, q) /\ PosWalk(p, pos, h, n, i, B, q) /\ Parts(f, g, p, n)
  BY <1>6, LoopParts
<1>8. PercolateDown(o, pri, i).d = g[i] /\ PercolateDown(o, pri, i).pos = p[i]
  BY <1>3, <1>7 DEF Parts
<1> QED BY <1>5, <1>7, <1>8

PriOf(g, pri, n) == [m \in 1..n |-> pri[g[m]]]

LEMMA PriOfIs ==
  ASSUME NEW n \in Nat, NEW S, NEW pri \in [S -> Nat], NEW g \in [1..n -> S],
         NEW a, a = PriOf(g, pri, n)
  PROVE  a \in [1..n -> Nat] /\ \A m \in 1..n : a[m] = pri[g[m]]
BY DEF PriOf

Priorities(a, g, pri, n) ==
  a \in [1..n -> Nat] /\ a = PriOf(g, pri, n) /\ \A m \in 1..n : a[m] = pri[g[m]]

LEMMA PriOfExists ==
  ASSUME NEW n \in Nat, NEW S, NEW pri \in [S -> Nat], NEW g \in [1..n -> S]
  PROVE  \E a : Priorities(a, g, pri, n)
<1>1. PICK a : a = PriOf(g, pri, n)
  OBVIOUS
<1>2. a \in [1..n -> Nat] /\ \A m \in 1..n : a[m] = pri[g[m]]
  BY <1>1, PriOfIs
<1> QED BY <1>1, <1>2 DEF Priorities

LEMMA PriOfWith ==
  ASSUME NEW n \in Nat, NEW S, NEW pri \in [S -> Nat], NEW g \in [1..n -> S],
         NEW k \in 1..n, NEW x \in S
  PROVE  /\ With(g, k, x) \in [1..n -> S]
         /\ Changed(PriOf(With(g, k, x), pri, n), PriOf(g, pri, n), n, k, pri[x])
<1>0. PICK w, a, b : w = With(g, k, x) /\ a = PriOf(g, pri, n) /\ b = PriOf(w, pri, n)
  OBVIOUS
<1>1. w \in [1..n -> S] /\ \A m \in 1..n : w[m] = IF m = k THEN x ELSE g[m]
  BY <1>0 DEF With
<1>2. b \in [1..n -> Nat] /\ \A m \in 1..n : b[m] = pri[w[m]]
  BY <1>0, <1>1, PriOfIs
<1>3. \A m \in 1..n : a[m] = pri[g[m]]
  BY <1>0, PriOfIs
<1>4. Changed(b, a, n, k, pri[x])
  BY <1>1, <1>2, <1>3 DEF Changed
<1> QED BY <1>0, <1>1, <1>4

(* Every step of bubble_up's loop leaves the array in order but at i. *)
LEMMA UpRises ==
  ASSUME NEW n \in Nat, NEW S, NEW h \in [1..n -> S], NEW pri \in [S -> Nat],
         NEW i \in 1..n, MayRise(PriOf(h, pri, n), n, i),
         NEW f, Walk(f, h, n, i, UpFrom(h, pri, n, i), UpTo(n)),
         NEW k \in 1..n, k < i, pri[h[k]] > pri[h[i]]
  PROVE  f[k] \in [1..n -> S] /\ Rising(PriOf(f[k], pri, n), PriOf(h, pri, n), n, i, k)
<1> DEFINE B == UpFrom(h, pri, n, i)
           q == UpTo(n)
           a == PriOf(h, pri, n)
           Good(j) == f[j] \in [1..n -> S] /\ Rising(PriOf(f[j], pri, n), a, n, i, j)
           Due(j) == j < i /\ a[j] > a[i]
           T == {j \in 1..n : Due(j) /\ ~ Good(j)}
<1>0. a \in [1..n -> Nat] /\ \A m \in 1..n : a[m] = pri[h[m]]
  BY PriOfIs
<1>00. a = PriOf(h, pri, n) /\ MayRise(a, n, i)
  OBVIOUS
<1> HIDE DEF a
<1>1. T = {}
  <2> SUFFICES ASSUME T # {} PROVE FALSE
    OBVIOUS
  <2>1. PICK j \in T : \A m \in T : j <= m
    <3>1. T \subseteq Nat
      OBVIOUS
    <3> HIDE DEF T
    <3> QED BY <3>1, LeastNat
  <2>2. j \in 1..n /\ Due(j) /\ ~ Good(j) /\ \A m \in 1..n : m < j /\ Due(m) => Good(m)
    BY <2>1
  <2> HIDE DEF T, Good
  <2>3. j \in B <=> j > 1 /\ a[Parent(j)] > a[i]
    <3>1. j > 1 => Parent(j) \in 1..n
      BY <2>2, ParentPosition
    <3> QED BY <1>0, <2>2, <3>1 DEF UpFrom
  <2>4. CASE j \notin B
    <3>1. f[j] = With(h, j, h[i])
      BY <2>2, <2>4, WalkIs
    <3>2. PICK b, w : b = PriOf(w, pri, n) /\ w = f[j]
      OBVIOUS
    <3>3. w \in [1..n -> S] /\ Changed(b, a, n, j, a[i])
      <4>1. PICK x \in S : pri[x] = a[i] /\ w = With(h, j, x)
        BY <1>0, <3>1, <3>2
      <4>2. w \in [1..n -> S] /\ Changed(b, a, n, j, pri[x])
        <5>1. j \in 1..n
          BY <2>2
        <5>2. /\ With(h, j, x) \in [1..n -> S]
              /\ Changed(PriOf(With(h, j, x), pri, n), PriOf(h, pri, n), n, j, pri[x])
          BY <5>1, PriOfWith
        <5> QED BY <1>00, <3>2, <4>1, <5>2
      <4> QED BY <4>1, <4>2
    <3>4. j > 1 => a[Parent(j)] <= a[i]
      <4>1. j > 1 => Parent(j) \in 1..n
        BY <2>2, ParentPosition
      <4> QED BY <1>0, <2>3, <2>4, <4>1
    <3>5. Rising(b, a, n, i, j)
      <4> QED BY <1>0, <1>00, <2>2, <3>3, <3>4, RisingStart
    <3> QED BY <2>2, <3>2, <3>3, <3>5 DEF Good
  <2>5. CASE j \in B
    <3>1. PICK p \in 1..n : p = Parent(j) /\ p < j
      BY <2>2, <2>3, <2>5, ParentPosition
    <3>2. f[j] = With(f[p], j, h[p])
      <4>1. q[j] = p
        BY <2>2, <3>1 DEF UpTo
      <4> QED BY <2>2, <2>5, <4>1, WalkIs
    <3>3. Good(p)
      BY <2>2, <2>3, <2>5, <3>1
    <3>4. PICK b, e, w, v : b = PriOf(w, pri, n) /\ e = PriOf(v, pri, n) /\ w = f[j] /\ v = f[p]
      OBVIOUS
    <3>5. w \in [1..n -> S] /\ Changed(b, e, n, j, a[p])
      <4>1. PICK x \in S : pri[x] = a[p] /\ w = With(v, j, x) /\ v \in [1..n -> S]
        BY <1>0, <3>2, <3>3, <3>4 DEF Good
      <4>2. w \in [1..n -> S] /\ Changed(b, e, n, j, pri[x])
        <5>1. j \in 1..n
          BY <2>2
        <5>2. /\ With(v, j, x) \in [1..n -> S]
              /\ Changed(PriOf(With(v, j, x), pri, n), PriOf(v, pri, n), n, j, pri[x])
          BY <4>1, <5>1, PriOfWith
        <5> QED BY <3>4, <4>1, <5>2
      <4> QED BY <4>1, <4>2
    <3>6. Rising(e, a, n, i, Parent(j)) /\ Changed(b, e, n, j, a[Parent(j)])
      BY <3>1, <3>3, <3>4, <3>5 DEF Good
    <3>7. Rising(b, a, n, i, j)
      <4>1. j > 1
        BY <2>3, <2>5
      <4> QED BY <1>0, <1>00, <2>2, <3>5, <3>6, <4>1, RisingMoves
    <3> QED BY <2>2, <3>4, <3>5, <3>7 DEF Good
  <2> QED BY <2>4, <2>5
<1> QED BY <1>0, <1>1 DEF a

(* What an operation of the heap returns: the same entries. *)
Permuted(g, h, n, S) ==
  g \in [1..n -> S] /\ Distinct(g, n) /\ SameEntries(g, h, n)

LEMMA BubbleUpIs ==
  ASSUME NEW n \in Nat, NEW S, NEW h \in [1..n -> S], Distinct(h, n),
         NEW pri \in [S -> Nat], NEW i \in 1..n,
         NEW N, Room(n, N), NEW pos, PlacedBut(pos, h, n, N, i, S),
         NEW o, o.d = h, o.pos = pos, NEW g, g = BubbleUp(o, pri, i)
  PROVE  /\ Permuted(g.d, h, n, S)
         /\ AllPlaced(g.pos, g.d, n, N, S)
         /\ MayRise(PriOf(h, pri, n), n, i) => Ordered(PriOf(g.d, pri, n), n)
<1>1. Len(h) = n
  BY ArrayIsSeq
<1>2. PICK f, u : /\ Walk(f, h, n, i, UpFrom(h, pri, n, i), UpTo(n))
                  /\ PosWalk(u, pos, h, n, i, UpFrom(h, pri, n, i), UpTo(n))
                  /\ g.d = f[i] /\ g.pos = u[i]
  BY <1>1, BubbleUpWalks
<1>3. Permuted(f[i], h, n, S)
  BY <1>2, UpRanked, WalkMoves DEF Permuted
<1>5. AllPlaced(u[i], f[i], n, N, S)
  <2>1. PICK B, q, r : B = UpFrom(h, pri, n, i) /\ q = UpTo(n) /\ r = UpRank(n)
    OBVIOUS
  <2>2. Ranked(n, B, q, r)
    BY <2>1, UpRanked
  <2>3. Walk(f, h, n, i, B, q) /\ PosWalk(u, pos, h, n, i, B, q)
    BY <1>2, <2>1
  <2> QED BY <2>2, <2>3, WalkPlaces
<1>4. ASSUME MayRise(PriOf(h, pri, n), n, i) PROVE Ordered(PriOf(f[i], pri, n), n)
  <2>0. PICK a : a = PriOf(h, pri, n)
    OBVIOUS
  <2>1. a \in [1..n -> Nat] /\ \A m \in 1..n : a[m] = pri[h[m]]
    BY <2>0, PriOfIs
  <2>2. CASE i \notin UpFrom(h, pri, n, i)
    <3>1. f[i] = With(h, i, h[i])
      <4>1. PICK B, q : B = UpFrom(h, pri, n, i) /\ q = UpTo(n)
        OBVIOUS
      <4>2. Walk(f, h, n, i, B, q) /\ i \notin B
        BY <1>2, <2>2, <4>1
      <4> QED BY <4>2, WalkIs
    <3>2. f[i] = h
      BY <3>1 DEF With
    <3>3. ASSUME NEW m \in 2..n PROVE a[Parent(m)] <= a[m]
      <4>1. PICK p \in 1..n : p = Parent(m) /\ p < m
        <5>1. m \in 1..n /\ m > 1
          OBVIOUS
        <5> QED BY <5>1, ParentPosition
      <4>2. CASE m # i
        BY <1>4, <2>0, <4>2 DEF MayRise
      <4>3. CASE m = i
        <5>1. ~ (pri[h[p]] > pri[h[i]])
          BY <2>2, <4>1, <4>3 DEF UpFrom
        <5> QED BY <2>1, <4>1, <4>3, <5>1
      <4> QED BY <4>2, <4>3
    <3> QED BY <2>0, <3>2, <3>3 DEF Ordered
  <2>3. CASE i \in UpFrom(h, pri, n, i)
    <3>1. i > 1 /\ pri[h[Parent(i)]] > pri[h[i]]
      BY <2>3 DEF UpFrom
    <3>2. PICK p \in 1..n : p = Parent(i) /\ p < i
      BY <3>1, ParentPosition
    <3>3. PICK v, w, e, b : v = f[p] /\ w = f[i] /\ e = PriOf(v, pri, n) /\ b = PriOf(w, pri, n)
      OBVIOUS
    <3>4. v \in [1..n -> S] /\ Rising(e, a, n, i, p)
      BY <1>2, <1>4, <2>0, <3>1, <3>2, <3>3, UpRises
    <3>5. w = With(v, i, h[p])
      <4>1. UpTo(n)[i] = p
        BY <3>2 DEF UpTo
      <4> QED BY <1>2, <2>3, <3>3, <4>1, WalkIs
    <3>6. PICK x \in S : x = h[p] /\ pri[x] = a[p]
      BY <2>1
    <3>7. Changed(b, e, n, i, a[p])
      <4>1. Changed(PriOf(With(v, i, x), pri, n), PriOf(v, pri, n), n, i, pri[x])
        BY <3>4, PriOfWith
      <4> QED BY <3>3, <3>5, <3>6, <4>1
    <3>8. Changed(b, e, n, i, a[Parent(i)])
      BY <3>2, <3>7
    <3>9. Rising(e, a, n, i, Parent(i)) /\ MayRise(a, n, i)
      BY <1>4, <2>0, <3>2, <3>4
    <3>10. Ordered(b, n)
      BY <2>1, <3>1, <3>8, <3>9, RisingEnds
    <3> QED BY <3>3, <3>10
  <2> QED BY <2>2, <2>3
<1> QED BY <1>2, <1>3, <1>4, <1>5

(* The child that percolate_down looks at *)
NextBelow(a, n, k, c) ==
  /\ c = 0 => \A m \in 2..n : Parent(m) # k
  /\ c # 0 => c \in 1..n /\ c > k /\ LeastChild(a, n, k, c)

LEMMA MaxChildOf ==
  ASSUME NEW n \in Nat, NEW S, NEW h \in [1..n -> S], NEW pri \in [S -> Nat], NEW k \in 1..n
  PROVE  NextBelow(PriOf(h, pri, n), n, k, MaxChild(h, pri, k))
<1>1. PICK a \in [1..n -> Nat] : a = PriOf(h, pri, n) /\ \A m \in 1..n : a[m] = pri[h[m]]
  BY PriOfIs
<1>2. Len(h) = n
  BY ArrayIsSeq
<1>3. /\ MaxChild(h, pri, k) = 0 => \A m \in 2..n : Parent(m) # k
      /\ MaxChild(h, pri, k) # 0 => LeastChild(a, n, k, MaxChild(h, pri, k))
  BY <1>1, <1>2, MaxChildIs
<1>4. MaxChild(h, pri, k) # 0 => \E x \in 1..n : x = MaxChild(h, pri, k) /\ x > k
  BY <1>2, MaxChildBelow
<1> QED BY <1>1, <1>3, <1>4 DEF NextBelow

(* Every step of percolate_down's loop leaves the array in order but below *)
(* i.                                                                      *)
LEMMA DownFalls ==
  ASSUME NEW n \in Nat, NEW S, NEW h \in [1..n -> S], NEW pri \in [S -> Nat],
         NEW i \in 1..n, MayFall(PriOf(h, pri, n), n, i),
         NEW f, Walk(f, h, n, i, DownFrom(h, pri, n, i), DownTo(h, pri, n)),
         NEW k \in 1..n, k > i, pri[h[k]] < pri[h[i]]
  PROVE  f[k] \in [1..n -> S] /\ Falling(PriOf(f[k], pri, n), PriOf(h, pri, n), n, i, k)
<1> DEFINE B == DownFrom(h, pri, n, i)
           q == DownTo(h, pri, n)
           a == PriOf(h, pri, n)
           Good(j) == f[j] \in [1..n -> S] /\ Falling(PriOf(f[j], pri, n), a, n, i, j)
           Due(j) == j > i /\ a[j] < a[i]
           T == {d \in 0..n : \E j \in 1..n : d = n - j /\ Due(j) /\ ~ Good(j)}
<1>0. a \in [1..n -> Nat] /\ \A m \in 1..n : a[m] = pri[h[m]]
  BY PriOfIs
<1>00. a = PriOf(h, pri, n) /\ MayFall(a, n, i) /\ Len(h) = n
  BY ArrayIsSeq
<1> HIDE DEF a
<1>1. \A j \in 1..n : Due(j) => Good(j)
  <2> SUFFICES ASSUME NEW z \in 1..n, Due(z), ~ Good(z) PROVE FALSE
    OBVIOUS
  <2>1. T \subseteq Nat /\ n - z \in T
    <3> HIDE DEF Due, Good
    <3> QED OBVIOUS
  <2>2. PICK d \in T : \A m \in T : d <= m
    <3> HIDE DEF T
    <3> QED BY <2>1, LeastNat
  <2>3. PICK j \in 1..n : d = n - j /\ Due(j) /\ ~ Good(j)
    BY <2>2
  <2>4. ASSUME NEW m \in 1..n, m > j, Due(m) PROVE Good(m)
    <3> HIDE DEF Due, Good
    <3>1. n - m \in 0..n /\ ~ (d <= n - m)
      BY <2>3, <2>4
    <3> QED BY <2>2, <2>4, <3>1
  <2> HIDE DEF T, Good
  <2>5. PICK c : c = MaxChild(h, pri, j)
    OBVIOUS
  <2>6. /\ c = 0 => \A m \in 2..n : Parent(m) # j
        /\ c # 0 => c \in 1..n /\ c > j /\ LeastChild(a, n, j, c)
    <3>1. NextBelow(PriOf(h, pri, n), n, j, MaxChild(h, pri, j))
      BY MaxChildOf
    <3>2. NextBelow(a, n, j, c)
      BY <1>00, <2>5, <3>1
    <3> QED BY <3>2 DEF NextBelow
  <2>7. j \in B <=> c # 0 /\ a[i] > a[c]
    BY <1>0, <2>5, <2>6 DEF DownFrom
  <2>8. CASE j \notin B
    <3>1. f[j] = With(h, j, h[i])
      BY <2>8, WalkIs
    <3>2. PICK b, w : b = PriOf(w, pri, n) /\ w = f[j]
      OBVIOUS
    <3>3. w \in [1..n -> S] /\ Changed(b, a, n, j, a[i])
      <4>1. PICK x \in S : pri[x] = a[i] /\ w = With(h, j, x)
        BY <1>0, <3>1, <3>2
      <4>2. /\ With(h, j, x) \in [1..n -> S]
            /\ Changed(PriOf(With(h, j, x), pri, n), PriOf(h, pri, n), n, j, pri[x])
        BY PriOfWith
      <4> QED BY <1>00, <3>2, <4>1, <4>2
    <3>4. \A m \in 2..n : Parent(m) = j => a[i] <= a[m]
      <4>1. CASE c = 0
        BY <2>6, <4>1
      <4>2. CASE c # 0
        <5>1. a[i] <= a[c]
          BY <1>0, <2>6, <2>7, <2>8, <4>2
        <5>2. \A m \in 2..n : Parent(m) = j => a[c] <= a[m]
          BY <2>6, <4>2 DEF LeastChild
        <5> QED BY <1>0, <2>6, <4>2, <5>1, <5>2
      <4> QED BY <4>1, <4>2
    <3>6. Falling(b, a, n, i, j)
      BY <1>0, <1>00, <2>3, <3>3, <3>4, FallingStart
    <3> QED BY <2>3, <3>2, <3>3, <3>6 DEF Good
  <2>9. CASE j \in B
    <3>1. c \in 1..n /\ c > j /\ LeastChild(a, n, j, c) /\ a[i] > a[c]
      BY <2>6, <2>7, <2>9
    <3>2. f[j] = With(f[c], j, h[c])
      <4>1. q[j] = c
        BY <2>5 DEF DownTo
      <4> QED BY <2>9, <4>1, WalkIs
    <3>3. Good(c)
      BY <1>0, <2>3, <2>4, <3>1
    <3>4. PICK b, e, w, v : b = PriOf(w, pri, n) /\ e = PriOf(v, pri, n) /\ w = f[j] /\ v = f[c]
      OBVIOUS
    <3>5. w \in [1..n -> S] /\ Changed(b, e, n, j, a[c])
      <4>1. PICK x \in S : pri[x] = a[c] /\ w = With(v, j, x) /\ v \in [1..n -> S]
        BY <1>0, <3>1, <3>2, <3>3, <3>4 DEF Good
      <4>2. /\ With(v, j, x) \in [1..n -> S]
            /\ Changed(PriOf(With(v, j, x), pri, n), PriOf(v, pri, n), n, j, pri[x])
        BY <4>1, PriOfWith
      <4> QED BY <3>4, <4>1, <4>2
    <3>7. Falling(e, a, n, i, c)
      BY <3>3, <3>4 DEF Good
    <3>8. Falling(b, a, n, i, j)
      BY <1>0, <1>00, <2>3, <3>1, <3>5, <3>7, FallingMoves
    <3> QED BY <2>3, <3>4, <3>5, <3>8 DEF Good
  <2> QED BY <2>8, <2>9
<1> QED BY <1>0, <1>1 DEF a

LEMMA PercolateDownIs ==
  ASSUME NEW n \in Nat, NEW S, NEW h \in [1..n -> S], Distinct(h, n),
         NEW pri \in [S -> Nat], NEW i \in 1..n,
         NEW N, Room(n, N), NEW pos, PlacedBut(pos, h, n, N, i, S),
         NEW o, o.d = h, o.pos = pos, NEW g, g = PercolateDown(o, pri, i)
  PROVE  /\ Permuted(g.d, h, n, S)
         /\ AllPlaced(g.pos, g.d, n, N, S)
         /\ MayFall(PriOf(h, pri, n), n, i) => Ordered(PriOf(g.d, pri, n), n)
<1>1. Len(h) = n
  BY ArrayIsSeq
<1>2. PICK f, u : /\ Walk(f, h, n, i, DownFrom(h, pri, n, i), DownTo(h, pri, n))
                  /\ PosWalk(u, pos, h, n, i, DownFrom(h, pri, n, i), DownTo(h, pri, n))
                  /\ g.d = f[i] /\ g.pos = u[i]
  BY <1>1, PercolateDownWalks
<1>3. Permuted(f[i], h, n, S)
  BY <1>1, <1>2, DownRanked, WalkMoves DEF Permuted
<1>5. AllPlaced(u[i], f[i], n, N, S)
  <2>1. PICK B, q, r : B = DownFrom(h, pri, n, i) /\ q = DownTo(h, pri, n) /\ r = DownRank(n)
    OBVIOUS
  <2>2. Ranked(n, B, q, r)
    BY <1>1, <2>1, DownRanked
  <2>3. Walk(f, h, n, i, B, q) /\ PosWalk(u, pos, h, n, i, B, q)
    BY <1>2, <2>1
  <2> QED BY <2>2, <2>3, WalkPlaces
<1>4. ASSUME MayFall(PriOf(h, pri, n), n, i) PROVE Ordered(PriOf(f[i], pri, n), n)
  <2>0. PICK a : a = PriOf(h, pri, n)
    OBVIOUS
  <2>1. a \in [1..n -> Nat] /\ \A m \in 1..n : a[m] = pri[h[m]]
    BY <2>0, PriOfIs
  <2>01. PICK c : c = MaxChild(h, pri, i)
    OBVIOUS
  <2>02. /\ c = 0 => \A m \in 2..n : Parent(m) # i
         /\ c # 0 => c \in 1..n /\ c > i /\ LeastChild(a, n, i, c)
    <3>1. NextBelow(PriOf(h, pri, n), n, i, MaxChild(h, pri, i))
      BY MaxChildOf
    <3>2. NextBelow(a, n, i, c)
      BY <2>0, <2>01, <3>1
    <3> QED BY <3>2 DEF NextBelow
  <2>03. i \in DownFrom(h, pri, n, i) <=> c # 0 /\ a[i] > a[c]
    BY <2>1, <2>01, <2>02 DEF DownFrom
  <2>2. CASE i \notin DownFrom(h, pri, n, i)
    <3>1. f[i] = With(h, i, h[i])
      <4>1. PICK B, q : B = DownFrom(h, pri, n, i) /\ q = DownTo(h, pri, n)
        OBVIOUS
      <4>2. Walk(f, h, n, i, B, q) /\ i \notin B
        BY <1>2, <2>2, <4>1
      <4> QED BY <4>2, WalkIs
    <3>2. f[i] = h
      BY <3>1 DEF With
    <3>3. ASSUME NEW m \in 2..n PROVE a[Parent(m)] <= a[m]
      <4>1. CASE Parent(m) # i
        BY <1>4, <2>0, <4>1 DEF MayFall
      <4>2. CASE Parent(m) = i
        <5>1. c # 0 /\ c \in 1..n /\ a[i] <= a[c]
          BY <2>02, <2>03, <2>1, <2>2, <4>2
        <5>2. a[c] <= a[m]
          BY <2>02, <4>2, <5>1 DEF LeastChild
        <5> QED BY <2>1, <4>2, <5>1, <5>2
      <4> QED BY <4>1, <4>2
    <3> QED BY <2>0, <3>2, <3>3 DEF Ordered
  <2>3. CASE i \in DownFrom(h, pri, n, i)
    <3>1. c \in 1..n /\ c > i /\ LeastChild(a, n, i, c) /\ a[i] > a[c]
      BY <2>02, <2>03, <2>3
    <3>3. PICK v, w, e, b : v = f[c] /\ w = f[i] /\ e = PriOf(v, pri, n) /\ b = PriOf(w, pri, n)
      OBVIOUS
    <3>4. v \in [1..n -> S] /\ Falling(e, a, n, i, c)
      <4>1. pri[h[c]] < pri[h[i]]
        BY <2>1, <3>1
      <4> QED BY <1>2, <1>4, <2>0, <3>1, <3>3, <4>1, DownFalls
    <3>5. w = With(v, i, h[c])
      <4>1. DownTo(h, pri, n)[i] = c
        BY <2>01 DEF DownTo
      <4> QED BY <1>2, <2>3, <3>3, <4>1, WalkIs
    <3>6. PICK x \in S : x = h[c] /\ pri[x] = a[c]
      BY <2>1, <3>1
    <3>7. Changed(b, e, n, i, a[c])
      <4>1. Changed(PriOf(With(v, i, x), pri, n), PriOf(v, pri, n), n, i, pri[x])
        BY <3>4, PriOfWith
      <4> QED BY <3>3, <3>5, <3>6, <4>1
    <3>9. MayFall(a, n, i)
      BY <1>4, <2>0
    <3>10. Ordered(b, n)
      BY <2>1, <3>1, <3>4, <3>7, <3>9, FallingEnds
    <3> QED BY <3>3, <3>10
  <2> QED BY <2>2, <2>3
<1> QED BY <1>2, <1>3, <1>4, <1>5

-----------------------------------------------------------------------------
(* The operations of the priority queue *)
Entries(h) == {h[k] : k \in 1..Len(h)}
IsQueue(h, S) == h \in Seq(S) /\ Distinct(h, Len(h))
Sorted(h, pri) == \A m \in 2..Len(h) : pri[h[Parent(m)]] <= pri[h[m]]

(* Every entry knows its position. *)
Placed(pos, h, S) ==
  pos \in [S -> 0..Cardinality(S)] /\ \A k \in 1..Len(h) : pos[h[k]] = k

(* The queue g that an operation makes has the entries E. *)
Becomes(g, E, S) == IsQueue(g.d, S) /\ Entries(g.d) = E /\ Placed(g.pos, g.d, S)

(* A queue of distinct timers has no more entries than there are timers. *)
LEMMA QueueFits ==
  ASSUME NEW S, IsFiniteSet(S), NEW h, IsQueue(h, S)
  PROVE  Len(h) \in Nat /\ Cardinality(S) \in Nat /\ Len(h) <= Cardinality(S)
<1>1. h \in Seq(S) /\ Len(h) \in Nat /\ h \in [1..Len(h) -> S]
  BY DEF IsQueue
<1>2. PICK n \in Nat : n = Len(h)
  BY <1>1
<1>3. h \in Injection(1..n, S)
  BY <1>1, <1>2 DEF Injection, IsInjective, IsQueue, Distinct
<1>4. Cardinality(1..n) = n
  <2>1. 1 \in Int /\ n \in Int
    OBVIOUS
  <2>2. Cardinality(1..n) = IF 1 > n THEN 0 ELSE n - 1 + 1
    BY <2>1, FS_Interval
  <2> QED BY <2>2
<1>5. Cardinality(1..n) <= Cardinality(S) /\ Cardinality(S) \in Nat
  BY <1>3, FS_Injection, FS_CardinalityType
<1> QED BY <1>2, <1>4, <1>5

LEMMA SortedIs ==
  ASSUME NEW S, NEW pri \in [S -> Nat], NEW n \in Nat, NEW h \in [1..n -> S]
  PROVE  Ordered(PriOf(h, pri, n), n) <=> Sorted(h, pri)
<1>1. PICK a \in [1..n -> Nat] : a = PriOf(h, pri, n) /\ \A m \in 1..n : a[m] = pri[h[m]]
  BY PriOfIs
<1>2. Len(h) = n
  BY ArrayIsSeq
<1>3. \A m \in 2..n : m \in 1..n /\ Parent(m) \in 1..n
  <2> TAKE m \in 2..n
  <2>1. m \in 1..n /\ m > 1
    OBVIOUS
  <2> QED BY <2>1, ParentPosition
<1>4. \A m \in 2..n : a[m] = pri[h[m]] /\ a[Parent(m)] = pri[h[Parent(m)]]
  BY <1>1, <1>3
<1>5. Ordered(a, n) <=> Sorted(h, pri)
  BY <1>2, <1>4 DEF Ordered, Sorted
<1> QED BY <1>1, <1>5

LEMMA PermutedIs ==
  ASSUME NEW S, NEW n \in Nat, NEW h \in [1..n -> S], NEW g, Permuted(g, h, n, S)
  PROVE  IsQueue(g, S) /\ Entries(g) = Entries(h) /\ Len(g) = n
<1>1. g \in [1..n -> S] /\ Distinct(g, n) /\ SameEntries(g, h, n)
  BY DEF Permuted
<1>2. g \in Seq(S) /\ Len(g) = n /\ Len(h) = n
  BY <1>1, ArrayIsSeq
<1>3. Entries(g) = Entries(h)
  <2>1. ASSUME NEW x \in Entries(g) PROVE x \in Entries(h)
    <3>1. PICK k \in 1..n : x = g[k]
      BY <1>2 DEF Entries
    <3>2. PICK m \in 1..n : g[k] = h[m]
      BY <1>1 DEF SameEntries
    <3> QED BY <1>2, <3>1, <3>2 DEF Entries
  <2>2. ASSUME NEW x \in Entries(h) PROVE x \in Entries(g)
    <3>1. PICK k \in 1..n : x = h[k]
      BY <1>2 DEF Entries
    <3>2. PICK m \in 1..n : g[m] = h[k]
      BY <1>1 DEF SameEntries
    <3> QED BY <1>2, <3>1, <3>2 DEF Entries
  <2> QED BY <2>1, <2>2
<1> QED BY <1>1, <1>2, <1>3 DEF IsQueue

LEMMA Rises ==
  ASSUME NEW S, IsFiniteSet(S), NEW pri \in [S -> Nat], NEW n \in Nat, NEW h \in [1..n -> S],
         Distinct(h, n), NEW i \in 1..n,
         NEW pos, PlacedBut(pos, h, n, 0..Cardinality(S), i, S),
         NEW o, o.d = h, o.pos = pos, NEW g, g = BubbleUp(o, pri, i)
  PROVE  /\ Becomes(g, Entries(h), S)
         /\ MayRise(PriOf(h, pri, n), n, i) => Sorted(g.d, pri)
<1>1. 1..n \subseteq 0..Cardinality(S)
  <2>1. IsQueue(h, S) /\ Len(h) = n
    BY ArrayIsSeq DEF IsQueue
  <2>2. n <= Cardinality(S) /\ Cardinality(S) \in Nat
    BY <2>1, QueueFits
  <2> QED BY <2>2
<1>2. /\ Permuted(g.d, h, n, S)
      /\ g.pos \in [S -> 0..Cardinality(S)] /\ \A m \in 1..n : g.pos[g.d[m]] = m
      /\ MayRise(PriOf(h, pri, n), n, i) => Ordered(PriOf(g.d, pri, n), n)
  <2>1. PICK N : N = 0..Cardinality(S)
    OBVIOUS
  <2>2. Room(n, N) /\ PlacedBut(pos, h, n, N, i, S)
    BY <1>1, <2>1 DEF Room
  <2>3. /\ Permuted(g.d, h, n, S)
        /\ AllPlaced(g.pos, g.d, n, N, S)
        /\ MayRise(PriOf(h, pri, n), n, i) => Ordered(PriOf(g.d, pri, n), n)
    BY <2>2, BubbleUpIs
  <2> QED BY <2>1, <2>3 DEF AllPlaced
<1>3. PICK e : e = g.d
  OBVIOUS
<1>4. Permuted(e, h, n, S) /\ e \in [1..n -> S]
  BY <1>2, <1>3 DEF Permuted
<1>5. IsQueue(e, S) /\ Entries(e) = Entries(h) /\ Len(e) = n
  BY <1>4, PermutedIs
<1>6. Ordered(PriOf(e, pri, n), n) <=> Sorted(e, pri)
  BY <1>4, SortedIs
<1>7. Becomes(g, Entries(h), S)
  BY <1>2, <1>3, <1>5 DEF Becomes, Placed
<1> QED BY <1>2, <1>3, <1>6, <1>7

LEMMA Falls ==
  ASSUME NEW S, IsFiniteSet(S), NEW pri \in [S -> Nat], NEW n \in Nat, NEW h \in [1..n -> S],
         Distinct(h, n), NEW i \in 1..n,
         NEW pos, PlacedBut(pos, h, n, 0..Cardinality(S), i, S),
         NEW o, o.d = h, o.pos = pos, NEW g, g = PercolateDown(o, pri, i)
  PROVE  /\ Becomes(g, Entries(h), S)
         /\ MayFall(PriOf(h, pri, n), n, i) => Sorted(g.d, pri)
<1>1. 1..n \subseteq 0..Cardinality(S)
  <2>1. IsQueue(h, S) /\ Len(h) = n
    BY ArrayIsSeq DEF IsQueue
  <2>2. n <= Cardinality(S) /\ Cardinality(S) \in Nat
    BY <2>1, QueueFits
  <2> QED BY <2>2
<1>2. /\ Permuted(g.d, h, n, S)
      /\ g.pos \in [S -> 0..Cardinality(S)] /\ \A m \in 1..n : g.pos[g.d[m]] = m
      /\ MayFall(PriOf(h, pri, n), n, i) => Ordered(PriOf(g.d, pri, n), n)
  <2>1. PICK N : N = 0..Cardinality(S)
    OBVIOUS
  <2>2. Room(n, N) /\ PlacedBut(pos, h, n, N, i, S)
    BY <1>1, <2>1 DEF Room
  <2>3. /\ Permuted(g.d, h, n, S)
        /\ AllPlaced(g.pos, g.d, n, N, S)
        /\ MayFall(PriOf(h, pri, n), n, i) => Ordered(PriOf(g.d, pri, n), n)
    BY <2>2, PercolateDownIs
  <2> QED BY <2>1, <2>3 DEF AllPlaced
<1>3. PICK e : e = g.d
  OBVIOUS
<1>4. Permuted(e, h, n, S) /\ e \in [1..n -> S]
  BY <1>2, <1>3 DEF Permuted
<1>5. IsQueue(e, S) /\ Entries(e) = Entries(h) /\ Len(e) = n
  BY <1>4, PermutedIs
<1>6. Ordered(PriOf(e, pri, n), n) <=> Sorted(e, pri)
  BY <1>4, SortedIs
<1>7. Becomes(g, Entries(h), S)
  BY <1>2, <1>3, <1>5 DEF Becomes, Placed
<1> QED BY <1>2, <1>3, <1>6, <1>7

LEMMA InsertIs ==
  ASSUME NEW S, IsFiniteSet(S), NEW pri \in [S -> Nat], NEW h, IsQueue(h, S),
         NEW pos, Placed(pos, h, S), NEW o, o.d = h, o.pos = pos,
         NEW x \in S, x \notin Entries(h), NEW g, g = Insert(o, pri, x)
  PROVE  /\ Becomes(g, Entries(h) \cup {x}, S)
         /\ Sorted(h, pri) => Sorted(g.d, pri)
<1>1. h \in Seq(S) /\ Distinct(h, Len(h))
  BY DEF IsQueue
<1>2. PICK n \in Nat : n = Len(h) + 1
  BY <1>1
<1>3. PICK e : e = Append(h, x)
  OBVIOUS
<1>4. e \in [1..n -> S] /\ Len(e) = n /\ n \in 1..n /\ e[n] = x /\ \A k \in 1..n : k # n => e[k] = h[k]
  <2>1. Len(h) \in Nat /\ e \in Seq(S) /\ Len(e) = Len(h) + 1
    BY <1>1, <1>3
  <2>2. e \in [1..n -> S] /\ Len(e) = n
    BY <1>2, <2>1
  <2>3. e[n] = x /\ \A k \in 1..Len(h) : e[k] = h[k]
    BY <1>1, <1>2, <1>3, AppendProperties
  <2>4. \A k \in 1..n : k # n => k \in 1..Len(h)
    BY <1>2, <2>1
  <2> QED BY <1>2, <2>1, <2>2, <2>3, <2>4
<1>40. \A k \in 1..n : k = n \/ k \in 1..Len(h)
  BY <1>1, <1>2
<1>41. \A k \in 1..Len(h) : k \in 1..n /\ k # n /\ h[k] \in Entries(h)
  BY <1>1, <1>2 DEF Entries
<1>5. Distinct(e, n) /\ Entries(e) = Entries(h) \cup {x}
  <2>1. Distinct(e, n)
    <3> SUFFICES ASSUME NEW k \in 1..n, NEW m \in 1..n, e[k] = e[m] PROVE k = m
      BY DEF Distinct
    <3>1. CASE k = n \/ m = n
      BY <1>4, <1>40, <1>41, <3>1
    <3>2. CASE k # n /\ m # n
      BY <1>1, <1>4, <1>40, <3>2 DEF Distinct
    <3> QED BY <3>1, <3>2
  <2>2. ASSUME NEW y \in Entries(e) PROVE y \in Entries(h) \cup {x}
    <3>1. PICK k \in 1..n : y = e[k]
      BY <1>4 DEF Entries
    <3> QED BY <1>4, <1>40, <1>41, <3>1
  <2>3. ASSUME NEW y \in Entries(h) PROVE y \in Entries(e)
    <3>1. PICK k \in 1..Len(h) : y = h[k]
      BY DEF Entries
    <3>2. k \in 1..Len(e) /\ e[k] = y
      BY <1>4, <1>41, <3>1
    <3> QED BY <3>2 DEF Entries
  <2>4. x \in Entries(e)
    BY <1>4 DEF Entries
  <2> QED BY <2>1, <2>2, <2>3, <2>4
<1>6. ASSUME Sorted(h, pri) PROVE MayRise(PriOf(e, pri, n), n, n)
  <2>1. PICK a \in [1..n -> Nat] : a = PriOf(e, pri, n) /\ \A m \in 1..n : a[m] = pri[e[m]]
    BY <1>4, PriOfIs
  <2>2. ASSUME NEW m \in 2..n PROVE Parent(m) # n /\ (m # n => a[Parent(m)] <= a[m])
    <3>1. PICK p \in 1..n : p = Parent(m) /\ p < m
      <4>1. m \in 1..n /\ m > 1
        OBVIOUS
      <4> QED BY <4>1, ParentPosition
    <3>2. CASE m # n
      <4>1. m \in 2..Len(h) /\ p # n /\ a[m] = pri[h[m]] /\ a[p] = pri[h[p]]
        BY <1>1, <1>2, <1>4, <2>1, <3>1, <3>2
      <4>2. pri[h[p]] <= pri[h[m]]
        BY <1>6, <3>1, <4>1 DEF Sorted
      <4> QED BY <3>1, <4>1, <4>2
    <3> QED BY <3>1, <3>2
  <2>3. MayRise(a, n, n)
    BY <2>2 DEF MayRise
  <2> QED BY <2>1, <2>3
<1>7. PICK c : c.d = e /\ c.pos = pos /\ g = BubbleUp(c, pri, n)
  BY <1>2, <1>3 DEF Insert
<1>8. /\ Becomes(g, Entries(e), S)
      /\ MayRise(PriOf(e, pri, n), n, n) => Sorted(g.d, pri)
  <2>1. e \in [1..n -> S] /\ Distinct(e, n) /\ n \in 1..n
    BY <1>4, <1>5
  <2>2. PlacedBut(pos, e, n, 0..Cardinality(S), n, S)
    BY <1>4, <1>40 DEF PlacedBut, Placed
  <2> QED BY <1>7, <2>1, <2>2, Rises
<1> QED BY <1>5, <1>6, <1>8

(* The array h without its last entry, which is put at p *)
Dropped(h, p) == [Shrink(h) EXCEPT ![p] = h[Len(h)]]

LEMMA ShrinkIs ==
  ASSUME NEW S, NEW h, IsQueue(h, S), Len(h) > 0, NEW n, n = Len(h) - 1
  PROVE  /\ n \in Nat /\ Shrink(h) \in [1..n -> S] /\ \A k \in 1..n : Shrink(h)[k] = h[k]
         /\ IsQueue(Shrink(h), S) /\ Entries(Shrink(h)) = Entries(h) \ {h[Len(h)]}
         /\ Len(Shrink(h)) = n
<1>1. h \in Seq(S) /\ Distinct(h, Len(h)) /\ Len(h) \in Nat
  BY DEF IsQueue
<1>2. n \in Nat /\ n + 1 = Len(h)
  BY <1>1
<1>3. PICK e : e = Shrink(h)
  OBVIOUS
<1>4. e = [k \in 1..n |-> h[k]]
  <2>1. e = SubSeq(h, 1, n)
    BY <1>3 DEF Shrink
  <2> QED BY <1>1, <1>2, <2>1
<1>5. \A k \in 1..n : h[k] \in S /\ k \in 1..Len(h) /\ k # Len(h)
  BY <1>1, <1>2
<1>6. e \in [1..n -> S] /\ \A k \in 1..n : e[k] = h[k]
  BY <1>4, <1>5
<1>7. e \in Seq(S) /\ Len(e) = n
  BY <1>2, <1>6, ArrayIsSeq
<1>8. Distinct(e, Len(e))
  BY <1>1, <1>5, <1>6, <1>7 DEF Distinct
<1>9. Entries(e) = Entries(h) \ {h[Len(h)]}
  <2>1. ASSUME NEW y \in Entries(e) PROVE y \in Entries(h) /\ y # h[Len(h)]
    <3>1. PICK k \in 1..n : y = h[k]
      BY <1>6, <1>7 DEF Entries
    <3>2. Len(h) \in 1..Len(h)
      BY <1>1
    <3> QED BY <1>1, <1>5, <3>1, <3>2 DEF Entries, Distinct
  <2>2. ASSUME NEW y \in Entries(h), y # h[Len(h)] PROVE y \in Entries(e)
    <3>1. PICK k \in 1..Len(h) : y = h[k]
      BY DEF Entries
    <3>2. k \in 1..n
      BY <1>2, <2>2, <3>1
    <3> QED BY <1>6, <1>7, <3>1, <3>2 DEF Entries
  <2> QED BY <2>1, <2>2
<1> QED BY <1>2, <1>3, <1>6, <1>7, <1>8, <1>9 DEF IsQueue

LEMMA ShrinkKeeps ==
  ASSUME NEW S, NEW pri, NEW h, IsQueue(h, S), Len(h) > 0, NEW pos, Placed(pos, h, S),
         NEW e, e = Shrink(h)
  PROVE  /\ IsQueue(e, S) /\ Entries(e) = Entries(h) \ {h[Len(h)]} /\ Placed(pos, e, S)
         /\ Sorted(h, pri) => Sorted(e, pri)
<1>1. PICK n : n = Len(h) - 1
  OBVIOUS
<1>2. /\ n \in Nat /\ \A k \in 1..n : e[k] = h[k]
      /\ IsQueue(e, S) /\ Entries(e) = Entries(h) \ {h[Len(h)]} /\ Len(e) = n
  BY <1>1, ShrinkIs
<1>3. \A k \in 1..n : k \in 1..Len(h)
  BY <1>1 DEF IsQueue
<1>4. Placed(pos, e, S)
  BY <1>2, <1>3 DEF Placed
<1>5. ASSUME Sorted(h, pri) PROVE Sorted(e, pri)
  <2> SUFFICES ASSUME NEW m \in 2..n PROVE pri[e[Parent(m)]] <= pri[e[m]]
    BY <1>2 DEF Sorted
  <2>1. m \in 1..n /\ m > 1 /\ m \in 2..Len(h)
    BY <1>1, <1>2
  <2>2. PICK c \in 1..n : c = Parent(m)
    BY <1>2, <2>1, ParentPosition
  <2>3. pri[h[c]] <= pri[h[m]]
    BY <1>5, <2>1, <2>2 DEF Sorted
  <2> QED BY <1>2, <2>1, <2>2, <2>3
<1> QED BY <1>2, <1>4, <1>5

LEMMA DroppedIs ==
  ASSUME NEW S, NEW h, IsQueue(h, S), NEW p \in 1..Len(h), p < Len(h), NEW n, n = Len(h) - 1
  PROVE  /\ n \in Nat /\ p \in 1..n /\ Dropped(h, p) \in [1..n -> S]
         /\ \A k \in 1..n : Dropped(h, p)[k] = IF k = p THEN h[Len(h)] ELSE h[k]
         /\ Distinct(Dropped(h, p), n) /\ Entries(Dropped(h, p)) = Entries(h) \ {h[p]}
<1>1. h \in Seq(S) /\ Distinct(h, Len(h)) /\ Len(h) \in Nat /\ Len(h) > 0
  BY DEF IsQueue
<1>2. PICK l \in Nat : l = Len(h) /\ l = n + 1 /\ n \in Nat /\ p \in 1..n /\ l \in 1..l
  BY <1>1
<1>3. PICK e, d : e = Shrink(h) /\ d = Dropped(h, p)
  OBVIOUS
<1>4. e \in [1..n -> S] /\ \A k \in 1..n : e[k] = h[k]
  BY <1>1, <1>3, ShrinkIs
<1>5. h[l] \in S
  BY <1>1, <1>2
<1>6. d \in [1..n -> S] /\ \A k \in 1..n : d[k] = IF k = p THEN h[l] ELSE h[k]
  BY <1>2, <1>3, <1>4, <1>5 DEF Dropped
<1>7. \A k \in 1..n : k \in 1..l /\ k # l
  BY <1>2
<1>8. Distinct(d, n)
  <2> SUFFICES ASSUME NEW k \in 1..n, NEW m \in 1..n, d[k] = d[m] PROVE k = m
    BY DEF Distinct
  <2>1. \A x, y \in 1..l : h[x] = h[y] => x = y
    BY <1>1, <1>2 DEF Distinct
  <2>2. k \in 1..l /\ k # l /\ m \in 1..l /\ m # l
    BY <1>7
  <2> QED BY <1>2, <1>6, <2>1, <2>2
<1>9. Len(d) = n
  BY <1>2, <1>6, ArrayIsSeq
<1>10. Entries(d) = Entries(h) \ {h[p]}
  <2>1. ASSUME NEW y \in Entries(d) PROVE y \in Entries(h) /\ y # h[p]
    <3>1. PICK k \in 1..n : y = d[k]
      BY <1>9 DEF Entries
    <3>2. CASE k = p
      BY <1>1, <1>2, <1>6, <1>7, <3>1, <3>2 DEF Entries, Distinct
    <3>3. CASE k # p
      BY <1>1, <1>2, <1>6, <1>7, <3>1, <3>3 DEF Entries, Distinct
    <3> QED BY <3>2, <3>3
  <2>2. ASSUME NEW y \in Entries(h), y # h[p] PROVE y \in Entries(d)
    <3>1. PICK k \in 1..l : y = h[k]
      BY <1>2 DEF Entries
    <3>2. CASE k = l
      BY <1>2, <1>6, <1>9, <3>1, <3>2 DEF Entries
    <3>3. CASE k # l
      <4>1. k \in 1..n /\ k # p
        BY <1>2, <2>2, <3>1, <3>3
      <4> QED BY <1>6, <1>9, <3>1, <4>1 DEF Entries
    <3> QED BY <3>2, <3>3
  <2> QED BY <2>1, <2>2
<1> QED BY <1>2, <1>3, <1>6, <1>8, <1>10

(* After a removal the order is disturbed only at p, in one direction. *)
LEMMA DroppedOrder ==
  ASSUME NEW S, NEW pri \in [S -> Nat], NEW h, IsQueue(h, S), Sorted(h, pri),
         NEW p \in 1..Len(h), p < Len(h), NEW n, n = Len(h) - 1
  PROVE  /\ pri[h[p]] > pri[h[Len(h)]] => MayRise(PriOf(Dropped(h, p), pri, n), n, p)
         /\ ~ (pri[h[p]] > pri[h[Len(h)]]) \/ p = 1 => MayFall(PriOf(Dropped(h, p), pri, n), n, p)
<1>1. h \in Seq(S) /\ Len(h) \in Nat /\ Len(h) > 0
  BY DEF IsQueue
<1>2. PICK l \in Nat : l = Len(h) /\ l = n + 1 /\ n \in Nat /\ p \in 1..n /\ l \in 1..l
  <2>1. n \in Nat /\ p \in 1..n
    BY DroppedIs
  <2>2. Len(h) = n + 1 /\ Len(h) \in 1..Len(h)
    BY <1>1
  <2> QED BY <1>1, <2>1, <2>2
<1>3. PICK A \in [1..l -> Nat] : \A m \in 1..l : A[m] = pri[h[m]]
  <2> DEFINE A == [m \in 1..l |-> pri[h[m]]]
  <2>1. \A m \in 1..l : h[m] \in S
    BY <1>1, <1>2
  <2>2. A \in [1..l -> Nat] /\ \A m \in 1..l : A[m] = pri[h[m]]
    BY <2>1
  <2> QED BY <2>2
<1>4. PICK d : d = Dropped(h, p)
  OBVIOUS
<1>5. d \in [1..n -> S] /\ \A k \in 1..n : d[k] = IF k = p THEN h[l] ELSE h[k]
  BY <1>2, <1>4, DroppedIs
<1>6a. PICK a : Priorities(a, d, pri, n)
  <2>1. n \in Nat /\ d \in [1..n -> S]
    BY <1>2, <1>5
  <2> QED BY <2>1, PriOfExists
<1>6. a \in [1..n -> Nat] /\ a = PriOf(d, pri, n) /\ \A m \in 1..n : a[m] = pri[d[m]]
  BY <1>6a DEF Priorities
<1>7. \A k \in 1..n : k \in 1..l /\ a[k] = IF k = p THEN A[l] ELSE A[k]
  <2> SUFFICES ASSUME NEW k \in 1..n PROVE k \in 1..l /\ a[k] = IF k = p THEN A[l] ELSE A[k]
    OBVIOUS
  <2>1. k \in 1..l
    BY <1>2
  <2>2. a[k] = pri[d[k]] /\ A[l] = pri[h[l]] /\ A[k] = pri[h[k]]
    BY <1>2, <1>3, <1>6, <2>1
  <2>3. d[k] = IF k = p THEN h[l] ELSE h[k]
    BY <1>5
  <2> QED BY <2>1, <2>2, <2>3
<1>8. ASSUME NEW m \in 2..n
      PROVE  \E c \in 1..n : c = Parent(m) /\ c < m /\ A[c] <= A[m]
  <2>1. m \in 1..n /\ m > 1 /\ m \in 2..Len(h)
    BY <1>2
  <2>2. PICK c \in 1..n : c = Parent(m) /\ c < m
    BY <1>2, <2>1, ParentPosition
  <2>3. pri[h[c]] <= pri[h[m]]
    BY <2>1, <2>2 DEF Sorted
  <2> QED BY <1>3, <1>7, <2>1, <2>2, <2>3
<1>9. ASSUME NEW m \in 2..n, Parent(m) = p, p > 1 PROVE a[Parent(p)] <= a[m]
  <2>1. A[p] <= A[m] /\ p < m
    BY <1>8, <1>9
  <2>2. p \in 2..n
    BY <1>2, <1>9
  <2>3. PICK c \in 1..n : c = Parent(p) /\ c < p /\ A[c] <= A[p]
    BY <1>8, <2>2
  <2>4. a[c] = A[c] /\ a[m] = A[m]
    BY <1>2, <1>7, <2>1, <2>3
  <2> QED BY <1>3, <1>7, <2>1, <2>3, <2>4
<1>10. ASSUME A[p] > A[l] PROVE MayRise(a, n, p)
  <2>1. ASSUME NEW m \in 2..n, m # p PROVE a[Parent(m)] <= a[m]
    <3>1. PICK c \in 1..n : c = Parent(m) /\ c < m /\ A[c] <= A[m]
      BY <1>8
    <3>2. a[m] = A[m] /\ a[c] = IF c = p THEN A[l] ELSE A[c]
      <4>1. m \in 1..n /\ m # p
        BY <2>1
      <4> QED BY <1>7, <4>1
    <3>3. m \in 1..l /\ c \in 1..l
      BY <1>2, <1>7
    <3>4. A[l] \in Nat /\ A[m] \in Nat /\ A[c] \in Nat /\ A[p] \in Nat
      BY <1>2, <1>3, <1>7, <3>3
    <3>5. a[c] <= a[m]
      BY <1>10, <3>1, <3>2, <3>4
    <3> QED BY <3>1, <3>5
  <2> QED BY <1>9, <2>1 DEF MayRise
<1>11. ASSUME ~ (A[p] > A[l]) \/ p = 1 PROVE MayFall(a, n, p)
  <2>1. ASSUME NEW m \in 2..n, Parent(m) # p PROVE a[Parent(m)] <= a[m]
    <3>1. PICK c \in 1..n : c = Parent(m) /\ c < m /\ A[c] <= A[m]
      BY <1>8
    <3>2. a[c] = A[c] /\ a[m] = IF m = p THEN A[l] ELSE A[m]
      <4>1. m \in 1..n /\ c # p
        BY <2>1, <3>1
      <4> QED BY <1>7, <4>1
    <3>3. m \in 1..n /\ m \in 1..l /\ c \in 1..l
      BY <1>2, <1>7
    <3>4. A[l] \in Nat /\ A[m] \in Nat /\ A[c] \in Nat /\ A[p] \in Nat
      BY <1>2, <1>3, <1>7, <3>3
    <3>5. m = p => p # 1
      BY <2>1
    <3>6. a[c] <= a[m]
      BY <1>11, <3>1, <3>2, <3>4, <3>5
    <3> QED BY <3>1, <3>6
  <2> QED BY <1>9, <2>1 DEF MayFall
<1>12. A[p] = pri[h[p]] /\ A[l] = pri[h[Len(h)]]
  BY <1>2, <1>3
<1> QED BY <1>4, <1>6, <1>10, <1>11, <1>12

LEMMA DroppedPlaces ==
  ASSUME NEW S, NEW h, IsQueue(h, S), NEW pos, Placed(pos, h, S),
         NEW p \in 1..Len(h), p < Len(h), NEW n, n = Len(h) - 1
  PROVE  PlacedBut(pos, Dropped(h, p), n, 0..Cardinality(S), p, S)
<1>1. PICK e : e = Dropped(h, p)
  OBVIOUS
<1>2. \A k \in 1..n : e[k] = IF k = p THEN h[Len(h)] ELSE h[k]
  BY <1>1, DroppedIs
<1>3. \A k \in 1..n : k \in 1..Len(h)
  BY DEF IsQueue
<1>4. PlacedBut(pos, e, n, 0..Cardinality(S), p, S)
  BY <1>2, <1>3 DEF PlacedBut, Placed
<1> QED BY <1>1, <1>4

LEMMA PopIs ==
  ASSUME NEW S, IsFiniteSet(S), NEW pri \in [S -> Nat], NEW h, IsQueue(h, S), h # <<>>,
         NEW pos, Placed(pos, h, S), NEW o, o.d = h, o.pos = pos, NEW g, g = Pop(o, pri)
  PROVE  /\ Becomes(g, Entries(h) \ {h[1]}, S)
         /\ Sorted(h, pri) => Sorted(g.d, pri)
<1>1. h \in Seq(S) /\ Len(h) \in Nat /\ Len(h) > 0
  BY EmptySeq DEF IsQueue
<1>2. PICK l \in Nat : l = Len(h) /\ l > 0
  BY <1>1
<1>3. CASE l = 1
  <2>1. g.d = <<>> /\ g.pos = pos /\ Len(<<>>) = 0
    BY <1>2, <1>3 DEF Pop
  <2>2. Entries(h) = {h[1]}
    BY <1>2, <1>3 DEF Entries
  <2>3. IsQueue(<<>>, S) /\ Entries(<<>>) = {} /\ Placed(pos, <<>>, S)
    BY DEF IsQueue, Distinct, Entries, Placed
  <2>4. Sorted(<<>>, pri)
    BY DEF Sorted
  <2> QED BY <2>1, <2>2, <2>3, <2>4 DEF Becomes
<1>4. CASE l > 1
  <2>1. PICK n, e : n = Len(h) - 1 /\ e = Dropped(h, 1)
    OBVIOUS
  <2>2. 1 \in 1..Len(h) /\ 1 < Len(h) /\ Len(h) # 1
    BY <1>2, <1>4
  <2>3. /\ n \in Nat /\ 1 \in 1..n /\ e \in [1..n -> S] /\ Distinct(e, n)
        /\ Entries(e) = Entries(h) \ {h[1]}
    BY <2>1, <2>2, DroppedIs
  <2>4. PICK c : c.d = e /\ c.pos = pos /\ g = PercolateDown(c, pri, 1)
    BY <2>1, <2>2 DEF Pop, LastTo, Dropped
  <2>5. PlacedBut(pos, e, n, 0..Cardinality(S), 1, S)
    BY <2>1, <2>2, DroppedPlaces
  <2>6. /\ Becomes(g, Entries(e), S)
        /\ MayFall(PriOf(e, pri, n), n, 1) => Sorted(g.d, pri)
    BY <2>3, <2>4, <2>5, Falls
  <2>7. Sorted(h, pri) => MayFall(PriOf(e, pri, n), n, 1)
    BY <2>1, <2>2, DroppedOrder
  <2> QED BY <2>3, <2>6, <2>7
<1> QED BY <1>2, <1>3, <1>4

LEMMA RemoveIs ==
  ASSUME NEW S, IsFiniteSet(S), NEW pri \in [S -> Nat], NEW h, IsQueue(h, S),
         NEW pos, Placed(pos, h, S), NEW o, o.d = h, o.pos = pos,
         NEW x \in Entries(h), NEW g, g = Remove(o, pri, x)
  PROVE  /\ Becomes(g, Entries(h) \ {x}, S)
         /\ Sorted(h, pri) => Sorted(g.d, pri)
<1>1. h \in Seq(S) /\ Len(h) \in Nat /\ Len(h) > 0
  BY DEF IsQueue, Entries
<1>2. PICK n : n = Len(h) - 1
  OBVIOUS
<1>0. PICK p \in 1..Len(h) : h[p] = x
  BY DEF Entries
<1>5. pos[x] = p /\ o.pos[x] = p /\ o.d = h
  BY <1>0 DEF Placed
<1>3. CASE p = Len(h)
  <2>1. g = [d |-> Shrink(h), pos |-> pos]
    BY <1>1, <1>3, <1>5 DEF Remove
  <2>2. PICK e : e = Shrink(h)
    OBVIOUS
  <2>3. /\ IsQueue(e, S) /\ Entries(e) = Entries(h) \ {h[Len(h)]} /\ Placed(pos, e, S)
        /\ Sorted(h, pri) => Sorted(e, pri)
    BY <1>1, <2>2, ShrinkKeeps
  <2> QED BY <1>0, <1>3, <2>1, <2>2, <2>3 DEF Becomes
<1>4. CASE p < Len(h)
  <2>1. PICK e : e = Dropped(h, p)
    OBVIOUS
  <2>2. /\ n \in Nat /\ p \in 1..n /\ e \in [1..n -> S] /\ Distinct(e, n)
        /\ Entries(e) = Entries(h) \ {x} /\ e[p] = h[Len(h)]
    BY <1>0, <1>2, <1>4, <2>1, DroppedIs
  <2>3. PICK c : c = LastTo(o, p)
    OBVIOUS
  <2>4. c.d = e /\ c.pos = pos
    BY <1>5, <2>1, <2>3 DEF LastTo, Dropped
  <2>5. g = IF pri[x] > pri[e[p]] THEN BubbleUp(c, pri, p) ELSE PercolateDown(c, pri, p)
    <3>1. ~ (p >= Len(h))
      BY <1>1, <1>4
    <3> QED BY <1>5, <2>3, <2>4, <3>1 DEF Remove
  <2>6. PlacedBut(pos, e, n, 0..Cardinality(S), p, S)
    BY <1>2, <1>4, <2>1, DroppedPlaces
  <2>7. CASE pri[x] > pri[e[p]]
    <3>1. g = BubbleUp(c, pri, p)
      BY <2>5, <2>7
    <3>2. /\ Becomes(g, Entries(e), S)
          /\ MayRise(PriOf(e, pri, n), n, p) => Sorted(g.d, pri)
      BY <2>2, <2>4, <2>6, <3>1, Rises
    <3>3. Sorted(h, pri) => MayRise(PriOf(e, pri, n), n, p)
      BY <1>0, <1>2, <1>4, <2>1, <2>2, <2>7, DroppedOrder
    <3> QED BY <2>2, <3>2, <3>3
  <2>8. CASE ~ (pri[x] > pri[e[p]])
    <3>1. g = PercolateDown(c, pri, p)
      BY <2>5, <2>8
    <3>2. /\ Becomes(g, Entries(e), S)
          /\ MayFall(PriOf(e, pri, n), n, p) => Sorted(g.d, pri)
      BY <2>2, <2>4, <2>6, <3>1, Falls
    <3>3. Sorted(h, pri) => MayFall(PriOf(e, pri, n), n, p)
      BY <1>0, <1>2, <1>4, <2>1, <2>2, <2>8, DroppedOrder
    <3> QED BY <2>2, <3>2, <3>3
  <2> QED BY <2>7, <2>8
<1> QED BY <1>1, <1>3, <1>4

SameBut(new, pri, x, S) == \A y \in S : y # x => new[y] = pri[y]

(* Moving an entry to a later time, as hlt_timer_update does: to the queue *)
(* the priority does not seem to change.                                   *)
LEMMA ChangePriorityIs ==
  ASSUME NEW S, IsFiniteSet(S), NEW pri \in [S -> Nat], NEW new \in [S -> Nat],
         NEW h, IsQueue(h, S), NEW pos, Placed(pos, h, S), NEW o, o.d = h, o.pos = pos,
         NEW x \in Entries(h), SameBut(new, pri, x, S),
         NEW g, g = ChangePriority(o, new, x, new[x])
  PROVE  /\ Becomes(g, Entries(h), S)
         /\ Sorted(h, pri) /\ pri[x] <= new[x] => Sorted(g.d, new)
<1>0. PICK p \in 1..Len(h) : h[p] = x
  BY DEF Entries
<1>1. h \in Seq(S) /\ Len(h) \in Nat /\ Distinct(h, Len(h))
  BY DEF IsQueue
<1>2. PICK n \in Nat : n = Len(h) /\ h \in [1..n -> S] /\ Distinct(h, n) /\ p \in 1..n
  BY <1>1
<1>3. \A k \in 1..n : h[k] \in S /\ new[h[k]] \in Nat /\ pri[h[k]] \in Nat
  BY <1>2
<1>4. g = PercolateDown(o, new, p)
  <2>1. o.pos[x] = p /\ ~ (new[x] > new[x])
    BY <1>0, <1>2, <1>3 DEF Placed
  <2> QED BY <2>1 DEF ChangePriority
<1>5. /\ Becomes(g, Entries(h), S)
      /\ MayFall(PriOf(h, new, n), n, p) => Sorted(g.d, new)
  <2>1. h \in [1..n -> S] /\ Distinct(h, n) /\ p \in 1..n
    BY <1>2
  <2>2. PlacedBut(pos, h, n, 0..Cardinality(S), p, S)
    BY <1>2 DEF PlacedBut, Placed
  <2> QED BY <1>4, <2>1, <2>2, Falls
<1>6. ASSUME Sorted(h, pri), pri[x] <= new[x] PROVE MayFall(PriOf(h, new, n), n, p)
  <2>1a. PICK a : Priorities(a, h, new, n)
    <3>1. h \in [1..n -> S]
      BY <1>2
    <3> QED BY <3>1, PriOfExists
  <2>2a. PICK A : Priorities(A, h, pri, n)
    <3>1. h \in [1..n -> S]
      BY <1>2
    <3> QED BY <3>1, PriOfExists
  <2>1. a \in [1..n -> Nat] /\ a = PriOf(h, new, n) /\ \A m \in 1..n : a[m] = new[h[m]]
    BY <2>1a DEF Priorities
  <2>2. A \in [1..n -> Nat] /\ A = PriOf(h, pri, n) /\ \A m \in 1..n : A[m] = pri[h[m]]
    BY <2>2a DEF Priorities
  <2>3. \A m \in 1..n : m # p => a[m] = A[m]
    BY <1>0, <1>1, <1>2, <1>3, <2>1, <2>2 DEF Distinct, SameBut
  <2>4. A[p] <= a[p]
    BY <1>0, <1>2, <1>6, <2>1, <2>2
  <2>0. a \in [1..n -> Nat] /\ A \in [1..n -> Nat] /\ p \in 1..n
    BY <1>2, <2>1, <2>2
  <2>5. ASSUME NEW m \in 2..n PROVE \E c \in 1..n : c = Parent(m) /\ c < m /\ A[c] <= A[m]
    <3>1. m \in 1..n /\ m > 1 /\ m \in 2..Len(h)
      BY <1>2
    <3>2. PICK c \in 1..n : c = Parent(m) /\ c < m
      BY <1>2, <3>1, ParentPosition
    <3>3. pri[h[c]] <= pri[h[m]]
      BY <1>6, <3>1, <3>2 DEF Sorted
    <3> QED BY <2>2, <3>1, <3>2, <3>3
  <2>6. ASSUME NEW m \in 2..n, Parent(m) # p PROVE a[Parent(m)] <= a[m]
    <3>1. PICK c \in 1..n : c = Parent(m) /\ c < m /\ A[c] <= A[m]
      BY <2>5
    <3>2. a[c] = A[c] /\ A[m] <= a[m] /\ a[m] \in Nat /\ A[c] \in Nat /\ A[m] \in Nat
      <4>1. c \in 1..n /\ m \in 1..n /\ c # p
        BY <2>6, <3>1
      <4>2. a[c] = A[c] /\ a[m] \in Nat /\ A[c] \in Nat /\ A[m] \in Nat
        BY <2>0, <2>3, <4>1
      <4>3. CASE m = p
        BY <2>4, <4>2, <4>3
      <4>4. CASE m # p
        BY <2>3, <4>1, <4>2, <4>4
      <4> QED BY <4>2, <4>3, <4>4
    <3> QED BY <3>1, <3>2
  <2>7. ASSUME NEW m \in 2..n, Parent(m) = p, p > 1 PROVE a[Parent(p)] <= a[m]
    <3>1. p < m /\ A[p] <= A[m]
      BY <2>5, <2>7
    <3>2. p \in 2..n
      BY <1>2, <2>7
    <3>3. PICK c \in 1..n : c = Parent(p) /\ c < p /\ A[c] <= A[p]
      BY <2>5, <3>2
    <3>4. a[c] = A[c] /\ a[m] = A[m] /\ A[c] \in Nat /\ A[m] \in Nat /\ A[p] \in Nat
      <4>1. c \in 1..n /\ m \in 1..n /\ c # p /\ m # p
        BY <2>0, <3>1, <3>3
      <4> QED BY <2>0, <2>3, <4>1
    <3> QED BY <3>1, <3>3, <3>4
  <2>8. MayFall(a, n, p)
    BY <2>6, <2>7 DEF MayFall
  <2> QED BY <2>1, <2>8
<1> QED BY <1>2, <1>4, <1>5, <1>6
-----------------------------------------------------------------------------
(* The order does not depend on the times of the timers that are not queued. *)
LEMMA SortedSame ==
  ASSUME NEW S, NEW h, IsQueue(h, S), NEW pri, NEW new, Sorted(h, pri),
         \A x \in Entries(h) : new[x] = pri[x]
  PROVE  Sorted(h, new)
<1> SUFFICES ASSUME NEW m \in 2..Len(h) PROVE new[h[Parent(m)]] <= new[h[m]]
  BY DEF Sorted
<1>1. PICK n \in Nat : n = Len(h)
  BY DEF IsQueue
<1>2. m \in 1..n /\ m > 1
  BY <1>1
<1>3. PICK c \in 1..n : c = Parent(m)
  BY <1>1, <1>2, ParentPosition
<1>4. h[c] \in Entries(h) /\ h[m] \in Entries(h)
  BY <1>1, <1>2, <1>3 DEF Entries
<1>5. new[h[c]] = pri[h[c]] /\ new[h[m]] = pri[h[m]]
  BY <1>4
<1>6. pri[h[c]] <= pri[h[m]]
  BY <1>3 DEF Sorted
<1> QED BY <1>3, <1>5, <1>6

(* The first entry of a sorted queue is the earliest. *)
LEMMA FirstIsLeast ==
  ASSUME NEW S, NEW pri \in [S -> Nat], NEW h, IsQueue(h, S), Sorted(h, pri),
         NEW k \in 1..Len(h)
  PROVE  pri[h[1]] <= pri[h[k]]
<1>1. PICK n \in Nat : n = Len(h) /\ h \in [1..n -> S] /\ k \in 1..n
  BY DEF IsQueue
<1>2. PICK a : Priorities(a, h, pri, n)
  <2>1. h \in [1..n -> S]
    BY <1>1
  <2> QED BY <2>1, PriOfExists
<1>3. a \in [1..n -> Nat] /\ a = PriOf(h, pri, n) /\ \A m \in 1..n : a[m] = pri[h[m]]
  BY <1>2 DEF Priorities
<1>4. Ordered(a, n)
  BY <1>1, <1>3, SortedIs
<1>5. 1 \in 1..n
  BY <1>1
<1> DEFINE T == {m \in 1..n : ~ (a[1] <= a[m])}
<1>6. T = {}
  <2> SUFFICES ASSUME T # {} PROVE FALSE
    OBVIOUS
  <2>1. T \subseteq Nat
    OBVIOUS
  <2>2. PICK m \in T : \A j \in T : m <= j
    <3> HIDE DEF T
    <3> QED BY <2>1, LeastNat
  <2>3. m \in 1..n /\ ~ (a[1] <= a[m])
    OBVIOUS
  <2>4. m > 1 /\ m \in 2..n
    BY <1>3, <1>5, <2>3
  <2>5. PICK c \in 1..n : c = Parent(m) /\ c < m
    BY <2>3, <2>4, ParentPosition
  <2>6. a[1] <= a[c]
    BY <2>2, <2>3, <2>5
  <2>7. a[c] <= a[m]
    BY <1>4, <2>4, <2>5 DEF Ordered
  <2> QED BY <1>3, <1>5, <2>3, <2>5, <2>6, <2>7
<1>7. a[1] <= a[k]
  BY <1>1, <1>6
<1> QED BY <1>1, <1>3, <1>5, <1>7
-----------------------------------------------------------------------------
(* The inductive invariant *)

Frames == [op : {"fire", "advance", "expire"}, time : Times, timer : Timers \cup {0}]

(* The calls in progress.  A timer is fired by at most one of them, and    *)
(* the manager's own calls leave room for the firing of a timer.           *)
StackInv ==
  /\ stack \in Seq(Frames)
  /\ Len(stack) <= MaxDepth + 1
  /\ \A i \in 1..Len(stack) :
       IF stack[i].op = "fire" THEN stack[i].timer \in Timers ELSE i <= MaxDepth
  /\ \A i, j \in 1..Len(stack) :
       stack[i].op = "fire" /\ stack[j].op = "fire" /\ stack[i].timer = stack[j].timer => i = j

Typed ==
  /\ time \in Times
  /\ scheduled \in [Timers -> BOOLEAN]
  /\ at \in [Timers -> Times]
  /\ refs \in [Timers -> 0..1]

QueueInv == IsQueue(heap, Timers) /\ Placed(queue_pos, heap, Timers)

(* The manager has a timer either in its queue or in a call that fires it. *)
RefsInv ==
  \A x \in Timers :
    /\ ~ (x \in Entries(heap) /\ Firing(x))
    /\ x \in Entries(heap) \/ Firing(x) => refs[x] = 1 /\ scheduled[x]
    /\ ~ (x \in Entries(heap) \/ Firing(x)) => refs[x] = 0

Inv == StackInv /\ Typed /\ QueueInv /\ RefsInv

(* A call is in progress that will not end before a timer that is due at t *)
(* has fired.                                                              *)
Covered(t) ==
  \E i \in 1..Len(stack) :
    \/ stack[i].op = "expire"
    \/ stack[i].op = "advance" /\ t <= stack[i].time

OrderInv == Sorted(heap, at)
DueInv == \A x \in Entries(heap) : at[x] > time \/ Covered(at[x])

-----------------------------------------------------------------------------
(* What pushing and removing a call does *)
LEMMA Pushed ==
  ASSUME stack \in Seq(Frames), NEW f, stack' = Append(stack, f)
  PROVE  \E n \in Nat : /\ n = Len(stack) /\ Len(stack') = n + 1 /\ stack'[n + 1] = f
                        /\ \A i \in 1..n : stack'[i] = stack[i]
                        /\ \A i \in 1..(n + 1) : i \in 1..n \/ i = n + 1
                        /\ f \in Frames => stack' \in Seq(Frames)
OBVIOUS

LEMMA Popped ==
  ASSUME stack \in Seq(Frames), stack # <<>>, Return
  PROVE  \E n \in Nat : /\ Len(stack) = n + 1 /\ Len(stack') = n /\ stack' \in Seq(Frames)
                        /\ \A i \in 1..n : stack'[i] = stack[i]
                        /\ \A i \in 1..(n + 1) : i \in 1..n \/ i = n + 1
<1>1. PICK l \in Nat : l = Len(stack) /\ l > 0
  BY EmptySeq
<1>2. PICK n \in Nat : l = n + 1 /\ n = l - 1
  BY <1>1
<1>3. stack' = SubSeq(stack, 1, n)
  BY <1>1, <1>2 DEF Return
<1>4. stack' \in Seq(Frames) /\ Len(stack') = n /\ \A i \in 1..n : stack'[i] = stack[i]
  <2>1. PICK g : g = [i \in 1..n |-> stack[i]]
    OBVIOUS
  <2>2. stack' = g
    BY <1>1, <1>2, <1>3, <2>1
  <2>3. ASSUME NEW i \in 1..n PROVE stack[i] \in Frames
    <3>1. i \in 1..Len(stack)
      BY <1>1, <1>2
    <3> QED BY <3>1, ElementOfSeq
  <2>4. g \in [1..n -> Frames] /\ \A i \in 1..n : g[i] = stack[i]
    BY <2>1, <2>3
  <2>5. g \in Seq(Frames) /\ Len(g) = n
    BY <2>4, ArrayIsSeq
  <2> QED BY <2>2, <2>4, <2>5
<1> QED BY <1>1, <1>2, <1>4

(* A call that fires x, for which there is none so far *)
LEMMA FirePushed ==
  ASSUME StackInv, NEW x \in Timers, ~ Firing(x), Fire(x), Len(stack) <= MaxDepth
  PROVE  /\ StackInv' /\ \A y \in Timers : Firing(y)' <=> Firing(y) \/ y = x
         /\ \A t : Covered(t)' <=> Covered(t)
<1>1. PICK f : f = [op |-> "fire", time |-> 0, timer |-> x]
  OBVIOUS
<1>2. f.op = "fire" /\ f.timer = x /\ f \in Frames
  BY <1>1, TimerAssumption DEF Frames, Times
<1>3. stack' = Append(stack, f)
  BY <1>1 DEF Fire, Push
<1>4. PICK n \in Nat : /\ n = Len(stack) /\ Len(stack') = n + 1 /\ stack'[n + 1] = f
                       /\ \A i \in 1..n : stack'[i] = stack[i]
                       /\ \A i \in 1..(n + 1) : i \in 1..n \/ i = n + 1
                       /\ stack' \in Seq(Frames)
  BY <1>2, <1>3, Pushed DEF StackInv
<1>5. MaxDepth \in Nat /\ n <= MaxDepth /\ n + 1 \in 1..(n + 1)
  BY <1>4, TimerAssumption
<1>6. \A i \in 1..n : i \in 1..(n + 1) /\ (stack[i].op = "fire" => stack[i].timer # x)
  BY <1>4 DEF Firing
<1>7. StackInv'
  <2>1. Len(stack') <= MaxDepth + 1
    BY <1>4, <1>5
  <2>2. ASSUME NEW i \in 1..(n + 1)
        PROVE IF stack'[i].op = "fire" THEN stack'[i].timer \in Timers ELSE i <= MaxDepth
    BY <1>2, <1>4 DEF StackInv
  <2>3. ASSUME NEW i \in 1..(n + 1), NEW j \in 1..(n + 1),
               stack'[i].op = "fire", stack'[j].op = "fire", stack'[i].timer = stack'[j].timer
        PROVE i = j
    <3>1. CASE i \in 1..n /\ j \in 1..n
      BY <1>4, <2>3, <3>1 DEF StackInv
    <3>2. CASE i = n + 1 /\ j \in 1..n
      BY <1>2, <1>4, <1>6, <2>3, <3>2
    <3>3. CASE i \in 1..n /\ j = n + 1
      BY <1>2, <1>4, <1>6, <2>3, <3>3
    <3> QED BY <1>4, <3>1, <3>2, <3>3
  <2> QED BY <1>4, <2>1, <2>2, <2>3 DEF StackInv
<1>8. ASSUME NEW y \in Timers PROVE Firing(y)' <=> Firing(y) \/ y = x
  BY <1>2, <1>4, <1>5, <1>6 DEF Firing
<1>9. ASSUME NEW t PROVE Covered(t)' <=> Covered(t)
  BY <1>2, <1>4, <1>5, <1>6 DEF Covered
<1> QED BY <1>7, <1>8, <1>9

(* A call of advance or expire *)
LEMMA CallPushed ==
  ASSUME StackInv, NEW f \in Frames, f.op # "fire", stack' = Append(stack, f),
         Len(stack) < MaxDepth
  PROVE  /\ StackInv' /\ \A y \in Timers : Firing(y)' <=> Firing(y)
         /\ \A t : Covered(t) => Covered(t)'
         /\ f.op = "advance" => \A t : t <= f.time => Covered(t)'
<1>4. PICK n \in Nat : /\ n = Len(stack) /\ Len(stack') = n + 1 /\ stack'[n + 1] = f
                       /\ \A i \in 1..n : stack'[i] = stack[i]
                       /\ \A i \in 1..(n + 1) : i \in 1..n \/ i = n + 1
                       /\ stack' \in Seq(Frames)
  BY Pushed DEF StackInv
<1>5. MaxDepth \in Nat /\ n < MaxDepth /\ n + 1 \in 1..(n + 1)
  BY <1>4, TimerAssumption
<1>6. \A i \in 1..n : i \in 1..(n + 1)
  OBVIOUS
<1>7. StackInv'
  <2>1. Len(stack') <= MaxDepth + 1 /\ n + 1 <= MaxDepth
    BY <1>4, <1>5
  <2>2. ASSUME NEW i \in 1..(n + 1)
        PROVE IF stack'[i].op = "fire" THEN stack'[i].timer \in Timers ELSE i <= MaxDepth
    BY <1>4, <2>1 DEF StackInv
  <2>3. ASSUME NEW i \in 1..(n + 1), NEW j \in 1..(n + 1),
               stack'[i].op = "fire", stack'[j].op = "fire", stack'[i].timer = stack'[j].timer
        PROVE i = j
    BY <1>4, <2>3 DEF StackInv
  <2> QED BY <1>4, <2>1, <2>2, <2>3 DEF StackInv
<1>8. ASSUME NEW y \in Timers PROVE Firing(y)' <=> Firing(y)
  BY <1>4, <1>5, <1>6 DEF Firing
<1>9. ASSUME NEW t PROVE Covered(t) => Covered(t)'
  BY <1>4, <1>5, <1>6 DEF Covered
<1>10. ASSUME f.op = "advance", NEW t, t <= f.time PROVE Covered(t)'
  BY <1>4, <1>5, <1>10 DEF Covered
<1> QED BY <1>7, <1>8, <1>9, <1>10

(* A call that ends *)
LEMMA CallPopped ==
  ASSUME StackInv, stack # <<>>, Return
  PROVE  /\ StackInv'
         /\ Top.op # "fire" => \A y \in Timers : Firing(y)' <=> Firing(y)
         /\ Top.op = "fire" => /\ Top.timer \in Timers /\ Firing(Top.timer)
                               /\ \A y \in Timers : Firing(y)' <=> Firing(y) /\ y # Top.timer
                               /\ \A t : Covered(t)' <=> Covered(t)
         /\ Top.op = "advance" => \A t : Covered(t) => Covered(t)' \/ t <= Top.time
<1>1. PICK n \in Nat : /\ Len(stack) = n + 1 /\ Len(stack') = n /\ stack' \in Seq(Frames)
                       /\ \A i \in 1..n : stack'[i] = stack[i]
                       /\ \A i \in 1..(n + 1) : i \in 1..n \/ i = n + 1
  BY Popped DEF StackInv
<1>2. MaxDepth \in Nat /\ n + 1 \in 1..(n + 1) /\ \A i \in 1..n : i \in 1..(n + 1) /\ i # n + 1
  BY TimerAssumption
<1>3. PICK f : f = stack[n + 1] /\ f = Top
  BY <1>1 DEF Top
<1>4. StackInv'
  <2>1. Len(stack') <= MaxDepth + 1
    BY <1>1, <1>2 DEF StackInv
  <2>2. ASSUME NEW i \in 1..n
        PROVE IF stack'[i].op = "fire" THEN stack'[i].timer \in Timers ELSE i <= MaxDepth
    BY <1>1, <1>2 DEF StackInv
  <2>3. ASSUME NEW i \in 1..n, NEW j \in 1..n,
               stack'[i].op = "fire", stack'[j].op = "fire", stack'[i].timer = stack'[j].timer
        PROVE i = j
    BY <1>1, <1>2, <2>3 DEF StackInv
  <2> QED BY <1>1, <2>1, <2>2, <2>3 DEF StackInv
<1>5. ASSUME f.op # "fire", NEW y \in Timers PROVE Firing(y)' <=> Firing(y)
  BY <1>1, <1>2, <1>3, <1>5 DEF Firing
<1>6. ASSUME f.op = "fire"
      PROVE  /\ f.timer \in Timers /\ Firing(f.timer)
             /\ \A y \in Timers : Firing(y)' <=> Firing(y) /\ y # f.timer
  <2>1. f.timer \in Timers /\ Firing(f.timer)
    BY <1>1, <1>2, <1>3, <1>6 DEF StackInv, Firing
  <2>2. \A i \in 1..n : stack[i].op = "fire" => stack[i].timer # f.timer
    BY <1>1, <1>2, <1>3, <1>6 DEF StackInv
  <2>3. ASSUME NEW y \in Timers PROVE Firing(y)' <=> Firing(y) /\ y # f.timer
    BY <1>1, <1>2, <1>3, <1>6, <2>2 DEF Firing
  <2> QED BY <2>1, <2>3
<1>7. ASSUME f.op = "fire", NEW t PROVE Covered(t)' <=> Covered(t)
  BY <1>1, <1>2, <1>3, <1>7 DEF Covered
<1>8. ASSUME f.op = "advance", NEW t, Covered(t) PROVE Covered(t)' \/ t <= f.time
  BY <1>1, <1>2, <1>3, <1>8 DEF Covered
<1> QED BY <1>3, <1>4, <1>5, <1>6, <1>7, <1>8
-----------------------------------------------------------------------------
(* What a step does to the queue *)
LEMMA EntriesAre ==
  ASSUME NEW h, NEW x
  PROVE  x \in Entries(h) <=> \E k \in 1..Len(h) : h[k] = x
BY DEF Entries

LEMMA QueueSet ==
  ASSUME NEW g, NEW E, Becomes(g, E, Timers), SetQueue(g)
  PROVE  QueueInv' /\ heap' = g.d /\ Entries(heap') = E
BY DEF Becomes, SetQueue, QueueInv

LEMMA TimesAre == Times \subseteq Nat /\ 0 \in Times
BY TimerAssumption DEF Times

(* The manager has x, in its queue or in a call that fires it. *)
Has(x) == x \in Entries(heap) \/ Firing(x)

(* What every step of the manager keeps; the order only if no timer is     *)
(* updated to an earlier time that is still ahead.                         *)
Kept ==
  /\ Inv'
  /\ ~ UpdatesEarlier /\ OrderInv /\ DueInv => OrderInv' /\ DueInv'

LEMMA ScheduleKeeps ==
  ASSUME Inv, NEW x \in Timers, NEW t \in Times, Schedule(x, t)
  PROVE  /\ Kept
         /\ \A y \in Timers : Has(y)' <=> Has(y) \/ y = x
         /\ \A y \in Timers : Firing(y)' => Firing(y) \/ (y = x /\ t <= time)
<1>1. StackInv /\ Typed /\ QueueInv /\ RefsInv /\ IsQueue(heap, Timers)
  BY DEF Inv, QueueInv
<1>2. x \notin Entries(heap) /\ ~ Firing(x) /\ refs[x] = 0
  BY <1>1 DEF Schedule, MaySchedule, RefsInv
<1>3. Typed'
  BY <1>1, <1>2 DEF Typed, Schedule
<1>4. /\ \A y \in Timers : y # x => at'[y] = at[y] /\ refs'[y] = refs[y] /\ scheduled'[y] = scheduled[y]
      /\ at'[x] = t /\ refs'[x] = 1 /\ scheduled'[x] /\ time' = time
  BY <1>1, <1>2 DEF Typed, Schedule
<1>5. Entries(heap) \subseteq Timers
  BY <1>1 DEF IsQueue, Entries
<1>6. CASE DueNow(t)
  <2>1. Fire(x) /\ heap' = heap /\ queue_pos' = queue_pos /\ Len(stack) <= MaxDepth
    <3>1. Len(stack) < MaxDepth /\ Len(stack) \in Nat /\ MaxDepth \in Nat
      BY <1>1, TimerAssumption DEF Schedule, ProgramRuns, StackInv
    <3> QED BY <1>6, <3>1 DEF Schedule
  <2>2. /\ StackInv' /\ \A y \in Timers : Firing(y)' <=> Firing(y) \/ y = x
        /\ \A v : Covered(v)' <=> Covered(v)
    BY <1>1, <1>2, <2>1, FirePushed
  <2>3. QueueInv'
    BY <1>1, <2>1 DEF QueueInv
  <2>4. RefsInv'
    BY <1>1, <1>2, <1>4, <2>1, <2>2 DEF RefsInv
  <2>5. ASSUME OrderInv, DueInv PROVE OrderInv' /\ DueInv'
    <3>1. \A y \in Entries(heap) : at'[y] = at[y]
      BY <1>2, <1>4, <1>5
    <3>2. OrderInv'
      BY <1>1, <2>1, <2>5, <3>1, SortedSame DEF OrderInv
    <3>3. DueInv'
      BY <1>4, <2>1, <2>2, <2>5, <3>1 DEF DueInv
    <3> QED BY <3>2, <3>3
  <2>6. Kept
    BY <1>3, <2>2, <2>3, <2>4, <2>5 DEF Kept, Inv
  <2> QED BY <1>6, <2>1, <2>2, <2>6 DEF Has, DueNow
<1>7. CASE ~ DueNow(t)
  <2>1. PICK o, g : o = Queue /\ g = Insert(o, at', x) /\ SetQueue(g) /\ stack' = stack
    BY <1>7 DEF Schedule
  <2>2. at' \in [Timers -> Nat]
    BY <1>3, TimesAre DEF Typed
  <2>3. Becomes(g, Entries(heap) \cup {x}, Timers) /\ (Sorted(heap, at') => Sorted(g.d, at'))
    <3>1. o.d = heap /\ o.pos = queue_pos /\ Placed(queue_pos, heap, Timers)
      BY <1>1, <2>1 DEF Queue, QueueInv
    <3> QED BY <1>1, <1>2, <2>1, <2>2, <3>1, InsertIs, TimerAssumption
  <2>4. QueueInv' /\ heap' = g.d /\ Entries(heap') = Entries(heap) \cup {x}
    BY <2>1, <2>3, QueueSet
  <2>5. StackInv' /\ (\A y : Firing(y)' <=> Firing(y)) /\ (\A v : Covered(v)' <=> Covered(v))
    BY <1>1, <2>1 DEF StackInv, Firing, Covered
  <2>6. RefsInv'
    BY <1>1, <1>2, <1>4, <2>4, <2>5 DEF RefsInv
  <2>7. ASSUME OrderInv, DueInv PROVE OrderInv' /\ DueInv'
    <3>1. \A y \in Entries(heap) : at'[y] = at[y]
      BY <1>2, <1>4, <1>5
    <3>2. OrderInv'
      BY <1>1, <2>3, <2>4, <2>7, <3>1, SortedSame DEF OrderInv
    <3>3. at'[x] > time'
      BY <1>1, <1>4, <1>7, TimesAre DEF DueNow, Typed
    <3>4. DueInv'
      BY <1>4, <2>4, <2>5, <2>7, <3>1, <3>3 DEF DueInv
    <3> QED BY <3>2, <3>4
  <2>8. Kept
    BY <1>3, <2>4, <2>5, <2>6, <2>7 DEF Kept, Inv
  <2> QED BY <2>4, <2>5, <2>8 DEF Has
<1> QED BY <1>6, <1>7

(* Taking x out of the queue, and the first *)
LEMMA Unqueued ==
  ASSUME Inv, NEW x \in Entries(heap), SetQueue(Remove(Queue, at, x))
  PROVE  /\ QueueInv' /\ Entries(heap') = Entries(heap) \ {x}
         /\ OrderInv => Sorted(heap', at)
<1>1. IsQueue(heap, Timers) /\ Placed(queue_pos, heap, Timers) /\ at \in [Timers -> Nat]
  BY TimesAre DEF Inv, QueueInv, Typed
<1>2. PICK o, g : o = Queue /\ g = Remove(o, at, x) /\ SetQueue(g)
  OBVIOUS
<1>3. o.d = heap /\ o.pos = queue_pos
  BY <1>2 DEF Queue
<1>4. Becomes(g, Entries(heap) \ {x}, Timers) /\ (Sorted(heap, at) => Sorted(g.d, at))
  BY <1>1, <1>2, <1>3, RemoveIs, TimerAssumption
<1>5. QueueInv' /\ heap' = g.d /\ Entries(heap') = Entries(heap) \ {x}
  BY <1>2, <1>4, QueueSet
<1> QED BY <1>4, <1>5 DEF OrderInv

LEMMA FirstTaken ==
  ASSUME Inv, heap # <<>>, SetQueue(Pop(Queue, at))
  PROVE  /\ QueueInv' /\ heap[1] \in Entries(heap) /\ Entries(heap') = Entries(heap) \ {heap[1]}
         /\ OrderInv => Sorted(heap', at)
<1>1. IsQueue(heap, Timers) /\ Placed(queue_pos, heap, Timers) /\ at \in [Timers -> Nat]
  BY TimesAre DEF Inv, QueueInv, Typed
<1>2. PICK o, g : o = Queue /\ g = Pop(o, at) /\ SetQueue(g)
  OBVIOUS
<1>3. o.d = heap /\ o.pos = queue_pos
  BY <1>2 DEF Queue
<1>4. Becomes(g, Entries(heap) \ {heap[1]}, Timers) /\ (Sorted(heap, at) => Sorted(g.d, at))
  BY <1>1, <1>2, <1>3, PopIs, TimerAssumption
<1>5. QueueInv' /\ heap' = g.d /\ Entries(heap') = Entries(heap) \ {heap[1]}
  BY <1>2, <1>4, QueueSet
<1>6. Len(heap) \in Nat \ {0}
  BY <1>1, EmptySeq DEF IsQueue
<1>7. heap[1] \in Entries(heap)
  BY <1>6 DEF Entries
<1> QED BY <1>4, <1>5, <1>7 DEF OrderInv

(* A timer is taken out of the queue and fired. *)
LEMMA TakenAndFired ==
  ASSUME Inv, NEW x \in Entries(heap), QueueInv', Entries(heap') = Entries(heap) \ {x},
         OrderInv => Sorted(heap', at), Fire(x), Len(stack) <= MaxDepth,
         UNCHANGED <<time, scheduled, at, refs>>
  PROVE  /\ Kept
         /\ \A y \in Timers : Has(y)' <=> Has(y)
         /\ \A y \in Timers : Firing(y)' <=> Firing(y) \/ y = x
         /\ \A v : Covered(v)' <=> Covered(v)
<1>1. StackInv /\ Typed /\ RefsInv /\ x \in Timers
  BY DEF Inv, QueueInv, IsQueue, Entries
<1>2. ~ Firing(x)
  BY <1>1 DEF RefsInv
<1>3. /\ StackInv' /\ \A y \in Timers : Firing(y)' <=> Firing(y) \/ y = x
      /\ \A v : Covered(v)' <=> Covered(v)
  BY <1>1, <1>2, FirePushed
<1>4. Typed'
  BY <1>1 DEF Typed
<1>5. RefsInv'
  BY <1>1, <1>2, <1>3 DEF RefsInv
<1>6. ASSUME OrderInv, DueInv PROVE OrderInv' /\ DueInv'
  BY <1>3, <1>6 DEF OrderInv, DueInv
<1>7. Kept
  BY <1>3, <1>4, <1>5, <1>6 DEF Kept, Inv
<1> QED BY <1>3, <1>7 DEF Has

LEMMA UpdateKeeps ==
  ASSUME Inv, NEW x \in Timers, NEW t \in Times, Update(x, t)
  PROVE  /\ Kept
         /\ \A y \in Timers : Has(y)' <=> Has(y)
         /\ \A y \in Timers : Firing(y)' => Firing(y) \/ (y = x /\ ~ (t > time))
<1>1. StackInv /\ Typed /\ QueueInv /\ RefsInv /\ IsQueue(heap, Timers)
  BY DEF Inv, QueueInv
<1>2. x \in Entries(heap)
  BY EntriesAre DEF Update, Queued
<1>3. CASE t > time
  <2>3. at' = [at EXCEPT ![x] = t] /\ stack' = stack /\ UNCHANGED <<time, scheduled, refs>>
    BY <1>3 DEF Update
  <2>4. /\ at \in [Timers -> Nat] /\ at' \in [Timers -> Nat] /\ at' \in [Timers -> Times]
        /\ at'[x] = t /\ \A y \in Timers : y # x => at'[y] = at[y]
    BY <1>1, <2>3, TimesAre DEF Typed
  <2>5. PICK o, g : o = Queue /\ g = ChangePriority(o, at', x, at'[x]) /\ SetQueue(g)
    BY <1>3 DEF Update
  <2>6. Becomes(g, Entries(heap), Timers) /\ (Sorted(heap, at) /\ at[x] <= t => Sorted(g.d, at'))
    <3>1. o.d = heap /\ o.pos = queue_pos /\ Placed(queue_pos, heap, Timers)
      BY <1>1, <2>5 DEF Queue, QueueInv
    <3>2. PICK new : new = at'
      OBVIOUS
    <3>3. new \in [Timers -> Nat] /\ new[x] = t /\ SameBut(new, at, x, Timers)
      BY <2>4, <3>2 DEF SameBut
    <3>4. g = ChangePriority(o, new, x, new[x])
      BY <2>5, <3>2
    <3>5. /\ Becomes(g, Entries(heap), Timers)
          /\ Sorted(heap, at) /\ at[x] <= new[x] => Sorted(g.d, new)
      <4>1. IsFiniteSet(Timers) /\ IsQueue(heap, Timers) /\ at \in [Timers -> Nat]
        BY <1>1, <2>4, TimerAssumption
      <4> QED BY <1>2, <3>1, <3>3, <3>4, <4>1, ChangePriorityIs
    <3> QED BY <3>2, <3>3, <3>5
  <2>7. QueueInv' /\ heap' = g.d /\ Entries(heap') = Entries(heap)
    BY <2>5, <2>6, QueueSet
  <2>8. StackInv' /\ (\A y : Firing(y)' <=> Firing(y)) /\ (\A v : Covered(v)' <=> Covered(v))
    BY <1>1, <2>3 DEF StackInv, Firing, Covered
  <2>9. Typed' /\ RefsInv'
    BY <1>1, <2>3, <2>4, <2>7, <2>8 DEF Typed, RefsInv
  <2>10. ASSUME ~ UpdatesEarlier, OrderInv, DueInv PROVE OrderInv' /\ DueInv'
    <3>1. at[x] <= t
      <4>1. t \in Nat /\ at[x] \in Nat /\ ~ (t <= time)
        BY <1>1, <1>3, <2>4, TimesAre DEF Typed
      <4>2. t >= at[x]
        BY <2>10, <4>1 DEF Update
      <4> QED BY <4>1, <4>2
    <3>2. OrderInv'
      BY <2>6, <2>7, <2>10, <3>1 DEF OrderInv
    <3>3. Entries(heap) \subseteq Timers
      BY <1>1 DEF IsQueue, Entries
    <3>4. DueInv'
      <4> SUFFICES ASSUME NEW y \in Entries(heap) PROVE (at[y] > time \/ Covered(at[y]))'
        BY <2>7 DEF DueInv
      <4>1. CASE y = x
        BY <1>3, <2>3, <2>4, <4>1
      <4>2. CASE y # x
        BY <2>3, <2>4, <2>8, <2>10, <3>3, <4>2 DEF DueInv
      <4> QED BY <4>1, <4>2
    <3> QED BY <3>2, <3>4
  <2>11. Kept
    BY <2>7, <2>8, <2>9, <2>10 DEF Kept, Inv
  <2> QED BY <2>7, <2>8, <2>11 DEF Has
<1>4. CASE ~ (t > time)
  <2>1. /\ SetQueue(Remove(Queue, at, x)) /\ Fire(x)
        /\ UNCHANGED <<time, scheduled, at, refs>>
    BY <1>4 DEF Update
  <2>2. Len(stack) <= MaxDepth
    <3>1. Len(stack) < MaxDepth /\ Len(stack) \in Nat /\ MaxDepth \in Nat
      BY <1>1, TimerAssumption DEF Update, ProgramRuns, StackInv
    <3> QED BY <3>1
  <2>3. QueueInv' /\ Entries(heap') = Entries(heap) \ {x} /\ (OrderInv => Sorted(heap', at))
    BY <1>2, <2>1, Unqueued
  <2>4. /\ Kept
        /\ \A y \in Timers : Has(y)' <=> Has(y)
        /\ \A y \in Timers : Firing(y)' <=> Firing(y) \/ y = x
    BY <1>2, <2>1, <2>2, <2>3, TakenAndFired
  <2> QED BY <1>4, <2>4
<1> QED BY <1>3, <1>4

LEMMA CancelKeeps ==
  ASSUME Inv, NEW x \in Timers, Cancel(x)
  PROVE  /\ Kept
         /\ \A y \in Timers : Has(y)' <=> Has(y) /\ y # x
         /\ \A y \in Timers : Firing(y)' <=> Firing(y)
<1>1. StackInv /\ Typed /\ QueueInv /\ RefsInv /\ IsQueue(heap, Timers)
  BY DEF Inv, QueueInv
<1>2. x \in Entries(heap)
  BY EntriesAre DEF Cancel, Queued
<1>3. QueueInv' /\ Entries(heap') = Entries(heap) \ {x} /\ (OrderInv => Sorted(heap', at))
  BY <1>2, Unqueued DEF Cancel
<1>4. StackInv' /\ (\A y : Firing(y)' <=> Firing(y)) /\ (\A v : Covered(v)' <=> Covered(v))
  BY <1>1 DEF StackInv, Firing, Covered, Cancel
<1>5. refs[x] = 1 /\ ~ Firing(x)
  BY <1>1, <1>2 DEF RefsInv
<1>6. /\ \A y \in Timers : y # x => at'[y] = at[y] /\ refs'[y] = refs[y] /\ scheduled'[y] = scheduled[y]
      /\ refs'[x] = 0 /\ time' = time /\ Typed'
  BY <1>1, <1>5, TimesAre DEF Typed, Cancel
<1>7. RefsInv'
  BY <1>1, <1>3, <1>4, <1>5, <1>6 DEF RefsInv
<1>8. ASSUME OrderInv, DueInv PROVE OrderInv' /\ DueInv'
  <2>1. Entries(heap) \subseteq Timers
    BY <1>1 DEF IsQueue, Entries
  <2>2. \A y \in Entries(heap') : at'[y] = at[y]
    BY <1>3, <1>6, <2>1
  <2>3. IsQueue(heap', Timers) /\ Sorted(heap', at)
    BY <1>3, <1>8 DEF QueueInv
  <2>4. OrderInv'
    BY <2>2, <2>3, SortedSame DEF OrderInv
  <2>5. DueInv'
    BY <1>3, <1>4, <1>6, <1>8, <2>2 DEF DueInv
  <2> QED BY <2>4, <2>5
<1>9. Kept
  BY <1>3, <1>4, <1>6, <1>7, <1>8 DEF Kept, Inv
<1> QED BY <1>3, <1>4, <1>5, <1>9 DEF Has

(* Nothing but the stack and the time changes. *)
LEMMA Unmoved ==
  ASSUME Inv, StackInv', time' \in Times, UNCHANGED <<heap, scheduled, at, queue_pos, refs>>,
         \A y \in Timers : Firing(y)' <=> Firing(y),
         \A y \in Entries(heap) : ~ UpdatesEarlier /\ OrderInv /\ DueInv => (at[y] > time \/ Covered(at[y]))'
  PROVE  Kept /\ \A y \in Timers : Has(y)' <=> Has(y)
<1>1. Typed' /\ QueueInv' /\ RefsInv'
  BY DEF Inv, Typed, QueueInv, RefsInv
<1>2. OrderInv => OrderInv'
  BY DEF OrderInv
<1>3. ASSUME ~ UpdatesEarlier, OrderInv, DueInv PROVE DueInv'
  BY <1>3 DEF DueInv
<1>4. Kept
  BY <1>1, <1>2, <1>3 DEF Kept, Inv
<1> QED BY <1>4 DEF Has

LEMMA AdvanceKeeps ==
  ASSUME Inv, NEW t \in Times, Advance(t)
  PROVE  /\ Kept
         /\ \A y \in Timers : (Has(y)' <=> Has(y)) /\ (Firing(y)' <=> Firing(y))
<1>1. PICK f : f = [op |-> "advance", time |-> t, timer |-> 0]
  OBVIOUS
<1>2. f.op = "advance" /\ f.time = t /\ f \in Frames
  BY <1>1 DEF Frames
<1>3. StackInv /\ Typed /\ stack' = Append(stack, f) /\ Len(stack) < MaxDepth /\ time' = t
  BY <1>1 DEF Inv, Advance, ProgramRuns
<1>4. /\ StackInv' /\ \A y \in Timers : Firing(y)' <=> Firing(y)
      /\ \A v : v <= t => Covered(v)'
  BY <1>2, <1>3, CallPushed
<1>5. ASSUME NEW y \in Entries(heap) PROVE (at[y] > time \/ Covered(at[y]))'
  <2>0. y \in Timers
    BY DEF Inv, QueueInv, IsQueue, Entries
  <2>1. at'[y] \in Nat /\ t \in Nat
    BY <1>3, <2>0, TimesAre DEF Typed, Advance
  <2> QED BY <1>3, <1>4, <2>1
<1> QED BY <1>3, <1>4, <1>5, Unmoved DEF Advance

LEMMA ExpireKeeps ==
  ASSUME Inv, Expire
  PROVE  /\ Kept
         /\ \A y \in Timers : (Has(y)' <=> Has(y)) /\ (Firing(y)' <=> Firing(y))
<1>1. PICK f : f = [op |-> "expire", time |-> 0, timer |-> 0]
  OBVIOUS
<1>2. f.op = "expire" /\ f \in Frames
  BY <1>1, TimesAre DEF Frames
<1>3. StackInv /\ Typed /\ stack' = Append(stack, f) /\ Len(stack) < MaxDepth /\ time' = time
  BY <1>1 DEF Inv, Expire, ProgramRuns
<1>4. /\ StackInv' /\ \A y \in Timers : Firing(y)' <=> Firing(y)
      /\ \A v : Covered(v) => Covered(v)'
  BY <1>2, <1>3, CallPushed
<1>5. ASSUME NEW y \in Entries(heap), DueInv PROVE (at[y] > time \/ Covered(at[y]))'
  BY <1>3, <1>4, <1>5 DEF DueInv, Expire
<1>6. time' \in Times
  BY <1>3 DEF Typed
<1> QED BY <1>3, <1>4, <1>5, <1>6, Unmoved DEF Expire

(* The end of an advance, for which nothing in the queue is due *)
LEMMA AdvanceEndKeeps ==
  ASSUME Inv, AdvanceEnd
  PROVE  /\ Kept
         /\ \A y \in Timers : (Has(y)' <=> Has(y)) /\ (Firing(y)' <=> Firing(y))
<1>1. StackInv /\ Typed /\ stack # <<>> /\ Top.op = "advance" /\ Return /\ time' = time /\ at' = at
  BY DEF Inv, AdvanceEnd, Call
<1>2. /\ StackInv' /\ \A y \in Timers : Firing(y)' <=> Firing(y)
      /\ \A t : Covered(t) => Covered(t)' \/ t <= Top.time
  BY <1>1, CallPopped
<1>3. IsQueue(heap, Timers) /\ at \in [Timers -> Nat]
  BY TimesAre DEF Inv, QueueInv, Typed
<1>4. Top.time \in Nat
  <2>1. Len(stack) \in 1..Len(stack) /\ stack \in Seq(Frames)
    BY <1>1, EmptySeq DEF StackInv
  <2>2. Top \in Frames
    BY <2>1, ElementOfSeq DEF Top
  <2> QED BY <2>2, TimesAre DEF Frames
<1>5. ASSUME NEW y \in Entries(heap), OrderInv, DueInv PROVE (at[y] > time \/ Covered(at[y]))'
  <2>1. PICK k \in 1..Len(heap) : heap[k] = y
    BY DEF Entries
  <2>2. heap # <<>> /\ 1 \in 1..Len(heap)
    <3>1. PICK n \in Nat : n = Len(heap)
      BY <1>3 DEF IsQueue
    <3>2. k \in 1..n
      BY <3>1
    <3>3. n # 0 /\ 1 \in 1..n
      BY <3>2
    <3> QED BY <3>1, <3>3, EmptySeq
  <2>3. at[heap[1]] <= at[y]
    BY <1>3, <1>5, <2>1, FirstIsLeast DEF OrderInv
  <2>4. ~ (at[heap[1]] <= Top.time)
    BY <2>2 DEF AdvanceEnd, FirstIsDue
  <2>5. at[heap[1]] \in Nat /\ at[y] \in Nat
    BY <1>3, <2>1, <2>2 DEF IsQueue
  <2>6. ~ (at[y] <= Top.time)
    BY <1>4, <2>3, <2>4, <2>5
  <2> QED BY <1>1, <1>2, <1>5, <2>6 DEF DueInv
<1>6. time' \in Times
  BY <1>1 DEF Typed
<1> QED BY <1>2, <1>5, <1>6, Unmoved DEF AdvanceEnd

LEMMA ExpireEndKeeps ==
  ASSUME Inv, ExpireEnd
  PROVE  /\ Kept
         /\ \A y \in Timers : (Has(y)' <=> Has(y)) /\ (Firing(y)' <=> Firing(y))
<1>1. StackInv /\ Typed /\ stack # <<>> /\ Top.op = "expire" /\ Return /\ time' = time
  BY DEF Inv, ExpireEnd, Call
<1>2. StackInv' /\ \A y \in Timers : Firing(y)' <=> Firing(y)
  BY <1>1, CallPopped
<1>3. Entries(heap) = {}
  BY EmptySeq DEF ExpireEnd, Entries
<1>4. time' \in Times
  BY <1>1 DEF Typed
<1> QED BY <1>2, <1>3, <1>4, Unmoved DEF ExpireEnd

(* A call of the manager fires the first timer of the queue. *)
LEMMA FirstFired ==
  ASSUME Inv, stack # <<>>, Top.op # "fire", heap # <<>>, SetQueue(Pop(Queue, at)),
         IF scheduled[heap[1]] THEN Fire(heap[1]) ELSE UNCHANGED stack,
         UNCHANGED <<time, scheduled, at, refs>>
  PROVE  /\ Kept /\ Fire(heap[1]) /\ heap[1] \in Timers
         /\ \A y \in Timers : (Has(y)' <=> Has(y)) /\ (Firing(y)' <=> Firing(y) \/ y = heap[1])
         /\ \A v : Covered(v)' <=> Covered(v)
<1>1. /\ QueueInv' /\ heap[1] \in Entries(heap) /\ Entries(heap') = Entries(heap) \ {heap[1]}
      /\ OrderInv => Sorted(heap', at)
  BY FirstTaken
<1>2. heap[1] \in Timers
  BY <1>1 DEF Inv, QueueInv, IsQueue, Entries
<1>3. scheduled[heap[1]]
  BY <1>1, <1>2 DEF Inv, RefsInv
<1>4. Len(stack) <= MaxDepth
  <2>1. Len(stack) \in 1..Len(stack)
    BY EmptySeq DEF Inv, StackInv
  <2> QED BY <2>1 DEF Inv, StackInv, Top
<1>5. /\ Kept
      /\ \A y \in Timers : Has(y)' <=> Has(y)
      /\ \A y \in Timers : Firing(y)' <=> Firing(y) \/ y = heap[1]
      /\ \A v : Covered(v)' <=> Covered(v)
  BY <1>1, <1>3, <1>4, TakenAndFired
<1> QED BY <1>2, <1>3, <1>5

LEMMA CancelAllKeeps ==
  ASSUME Inv, CancelAll
  PROVE  /\ Kept
         /\ \A y \in Timers : (Has(y)' <=> Firing(y)) /\ (Firing(y)' <=> Firing(y))
<1>1. StackInv /\ Typed /\ QueueInv /\ RefsInv
  BY DEF Inv
<1>5. \A x \in Timers : Queued(x) <=> x \in Entries(heap)
  BY EntriesAre DEF Queued
<1>2. queue_pos' \in [Timers -> 0..Cardinality(Timers)]
  <2>1. PICK n \in Nat : n = Len(heap) /\ n <= Cardinality(Timers) /\ Cardinality(Timers) \in Nat
    BY <1>1, QueueFits, TimerAssumption DEF QueueInv
  <2>2. ASSUME NEW x \in Timers, Queued(x) PROVE 1 \in 0..Cardinality(Timers)
    BY <2>1, <2>2 DEF Queued
  <2>3. queue_pos \in [Timers -> 0..Cardinality(Timers)]
    BY <1>1 DEF QueueInv, Placed
  <2>4. \A x \in Timers : (IF Queued(x) THEN 1 ELSE queue_pos[x]) \in 0..Cardinality(Timers)
    BY <2>2, <2>3
  <2> QED BY <2>4 DEF CancelAll
<1>3. QueueInv' /\ heap' = <<>> /\ Entries(heap') = {}
  <2>1. IsQueue(<<>>, Timers) /\ Entries(<<>>) = {} /\ Len(<<>>) = 0
    BY DEF IsQueue, Distinct, Entries
  <2> QED BY <1>2, <2>1 DEF QueueInv, Placed, CancelAll
<1>4. StackInv' /\ (\A y : Firing(y)' <=> Firing(y))
  BY <1>1 DEF StackInv, Firing, CancelAll
<1>6. \A x \in Timers : refs'[x] = IF x \in Entries(heap) THEN refs[x] - 1 ELSE refs[x]
  BY <1>5 DEF CancelAll
<1>7. refs' = [x \in Timers |-> refs'[x]]
  BY DEF CancelAll
<1>8. \A x \in Timers : refs'[x] = IF Firing(x) THEN 1 ELSE 0
  BY <1>1, <1>6 DEF RefsInv
<1>9. refs' \in [Timers -> 0..1]
  BY <1>7, <1>8
<1>10. Typed' /\ RefsInv'
  BY <1>1, <1>3, <1>4, <1>8, <1>9 DEF Typed, RefsInv, CancelAll
<1>11. OrderInv' /\ DueInv'
  BY <1>3 DEF OrderInv, Sorted, DueInv
<1>12. Kept
  BY <1>3, <1>4, <1>10, <1>11 DEF Kept, Inv
<1> QED BY <1>3, <1>4, <1>12 DEF Has

LEMMA FireEndKeeps ==
  ASSUME Inv, FireEnd
  PROVE  /\ Kept /\ Top.timer \in Timers
         /\ \A y \in Timers : /\ Has(y)' <=> Has(y) /\ y # Top.timer
                              /\ Firing(y)' <=> Firing(y) /\ y # Top.timer
<1>1. StackInv /\ Typed /\ QueueInv /\ RefsInv /\ stack # <<>> /\ Top.op = "fire" /\ Return
  BY DEF Inv, FireEnd, Call
<1>2. PICK x : x = Top.timer
  OBVIOUS
<1>3. /\ StackInv' /\ x \in Timers /\ Firing(x)
      /\ \A y \in Timers : Firing(y)' <=> Firing(y) /\ y # x
      /\ \A t : Covered(t)' <=> Covered(t)
  BY <1>1, <1>2, CallPopped
<1>4. x \notin Entries(heap) /\ refs[x] = 1
  BY <1>1, <1>3 DEF RefsInv
<1>5. /\ \A y \in Timers : y # x => refs'[y] = refs[y] /\ scheduled'[y] = scheduled[y]
      /\ refs'[x] = 0 /\ Typed' /\ UNCHANGED <<time, heap, at, queue_pos>>
  BY <1>1, <1>2, <1>3, <1>4 DEF Typed, FireEnd
<1>6. QueueInv'
  BY <1>1, <1>5 DEF QueueInv
<1>7. RefsInv'
  BY <1>1, <1>3, <1>4, <1>5 DEF RefsInv
<1>8. ASSUME OrderInv, DueInv PROVE OrderInv' /\ DueInv'
  BY <1>3, <1>5, <1>8 DEF OrderInv, DueInv
<1>9. Kept
  BY <1>3, <1>5, <1>6, <1>7, <1>8 DEF Kept, Inv
<1> QED BY <1>2, <1>3, <1>4, <1>5, <1>9 DEF Has

-----------------------------------------------------------------------------
LEMMA InitHolds ==
  ASSUME Init
  PROVE  Inv /\ OrderInv /\ DueInv
<1>1. heap = <<>> /\ stack = <<>> /\ Entries(heap) = {} /\ Len(heap) = 0 /\ Len(stack) = 0
  BY EmptySeq DEF Init, MgrNew, Entries
<1>2. StackInv
  BY <1>1, EmptySeq, TimerAssumption DEF StackInv
<1>3. Typed
  BY TimesAre DEF Init, MgrNew, TimersNew, Typed
<1>4. QueueInv
  <2>1. IsQueue(heap, Timers)
    BY <1>1, EmptySeq DEF IsQueue, Distinct
  <2>2. Cardinality(Timers) \in Nat
    BY TimerAssumption, FS_CardinalityType
  <2> QED BY <1>1, <2>1, <2>2 DEF QueueInv, Placed, Init, TimersNew
<1>5. RefsInv
  BY <1>1 DEF RefsInv, Firing, Init, TimersNew
<1>6. OrderInv /\ DueInv
  BY <1>1 DEF OrderInv, Sorted, DueInv
<1> QED BY <1>2, <1>3, <1>4, <1>5, <1>6 DEF Inv

LEMMA NextKeeps ==
  ASSUME Inv, [Next]_vars
  PROVE  Kept
<1>1. CASE UNCHANGED vars
  <2>1. StackInv' /\ time' \in Times
    BY <1>1 DEF Inv, StackInv, Typed, vars
  <2>2. \A y \in Timers : Firing(y)' <=> Firing(y)
    BY <1>1 DEF Firing, vars
  <2>3. ASSUME NEW y \in Entries(heap), DueInv PROVE (at[y] > time \/ Covered(at[y]))'
    BY <1>1, <2>3 DEF DueInv, Covered, vars
  <2> QED BY <1>1, <2>1, <2>2, <2>3, Unmoved DEF vars
<1>2. ASSUME NEW x \in Timers, NEW t \in Times, Schedule(x, t) \/ Update(x, t) PROVE Kept
  BY <1>2, ScheduleKeeps, UpdateKeeps
<1>3. ASSUME NEW x \in Timers, Cancel(x) PROVE Kept
  BY <1>3, CancelKeeps
<1>4. ASSUME NEW t \in Times, Advance(t) PROVE Kept
  BY <1>4, AdvanceKeeps
<1>5. CASE AdvanceFires
  BY <1>5, FirstFired DEF AdvanceFires, Call, FirstIsDue
<1>6. CASE ExpireFires
  BY <1>6, FirstFired DEF ExpireFires, Call
<1>7. CASE Expire \/ CancelAll \/ FireEnd \/ AdvanceEnd \/ ExpireEnd
  BY <1>7, ExpireKeeps, CancelAllKeeps, FireEndKeeps, AdvanceEndKeeps, ExpireEndKeeps
<1> QED BY <1>1, <1>2, <1>3, <1>4, <1>5, <1>6, <1>7 DEF Next

LEMMA InvGivesRefs ==
  ASSUME Inv
  PROVE  RefsMatch
<1>1. StackInv /\ Typed /\ QueueInv /\ RefsInv /\ IsQueue(heap, Timers)
  BY DEF Inv, QueueInv
<1>2. Len(heap) <= Cardinality(Timers) /\ \A k \in 1..Len(heap) : heap[k] \in Timers
  BY <1>1, QueueFits, TimerAssumption DEF IsQueue
<1>3. TypeOK
  BY <1>1, <1>2 DEF TypeOK, Typed, QueueInv, Placed, StackInv
<1>4. \A x \in Timers : Queued(x) <=> x \in Entries(heap)
  BY EntriesAre DEF Queued
<1> QED BY <1>1, <1>3, <1>4 DEF RefsMatch, RefsInv

(***************************************************************************)
(* The manager's references are exact, for any use of it (RefsMatch).      *)
(***************************************************************************)
THEOREM ReferencesAreExact == Spec => []RefsMatch
<1>1. Inv => RefsMatch
  BY InvGivesRefs
<1>2. Init => Inv
  BY InitHolds
<1>3. Inv /\ [Next]_vars => Inv'
  BY NextKeeps DEF Kept
<1> QED BY <1>1, <1>2, <1>3, PTL DEF Spec

LEMMA OrderHolds ==
  ASSUME ~ UpdatesEarlier
  PROVE  Spec => [](Inv /\ OrderInv /\ DueInv)
<1>1. Init => Inv /\ OrderInv /\ DueInv
  BY InitHolds
<1>2. Inv /\ OrderInv /\ DueInv /\ [Next]_vars => (Inv /\ OrderInv /\ DueInv)'
  BY NextKeeps DEF Kept
<1> QED BY <1>1, <1>2, PTL DEF Spec

(***************************************************************************)
(* If no timer is updated to an earlier time that is still ahead, the      *)
(* queue is a heap whose entries know their positions in every state, also *)
(* in the middle of an advance (HeapOrdered).                              *)
(***************************************************************************)
THEOREM HeapIsOrdered ==
  ASSUME ~ UpdatesEarlier
  PROVE  Spec => []HeapOrdered
<1>1. Inv /\ OrderInv => HeapOrdered
  BY DEF Inv, QueueInv, Placed, OrderInv, Sorted, HeapOrdered
<1> QED BY <1>1, OrderHolds, PTL

(***************************************************************************)
(* Then no timer that is due is left behind by any nesting of advances,    *)
(* expirations and callbacks (DueTimersFire).                              *)
(***************************************************************************)
THEOREM NoneIsLeftBehind ==
  ASSUME ~ UpdatesEarlier
  PROVE  Spec => []DueTimersFire
<1>1. Inv /\ DueInv => DueTimersFire
  <2> SUFFICES ASSUME Inv, DueInv, stack = <<>>, NEW k \in 1..Len(heap)
               PROVE  at[heap[k]] > time
    BY DEF DueTimersFire
  <2>1. heap[k] \in Entries(heap) /\ ~ Covered(at[heap[k]])
    BY DEF Entries, Covered
  <2> QED BY <2>1 DEF DueInv
<1> QED BY <1>1, OrderHolds, PTL
=============================================================================
