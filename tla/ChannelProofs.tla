---------------------------- MODULE ChannelProofs ----------------------------
(***************************************************************************)
(* Proofs about the channel, for any number of threads, any items,         *)
(* capacities and chunk sizes.  What is said of the items needs that       *)
(* bounded channels are written to with hlt_channel_write_try only, as     *)
(* compiled programs do; what is said of the threads does not.             *)
(***************************************************************************)
EXTENDS Channel, TLAPS, FiniteSetTheorems, SequenceTheorems, WellFoundedInduction

Woken == {t \in Threads : pc[t] = "woken"}

(* The threads and the count.  As long as a reader sleeps there are as     *)
(* many readers on their way as there are items.                           *)
ThreadInv ==
  /\ size \in Nat
  /\ ref_cnt \in Nat
  /\ state \in {"none", "live", "freed"}
  /\ holders \subseteq Threads
  /\ pc \in [Threads -> {"idle", "waiting", "woken", "teardown"}]
  /\ HoldersKeepItAlive
  /\ \A t, u \in Threads : pc[t] = "teardown" /\ pc[u] = "teardown" => t = u
  /\ Waiting # {} => size <= Cardinality(Woken)

ChunkType == [capacity : Nat, wcnt : Nat, rcnt : Nat, data : Seq(Items)]

(* Chunk i holds the items that were sent after the first base[i].  The    *)
(* chunks follow one another, the reader is in the first and the writer in *)
(* the last.                                                               *)
Layout(base) ==
  /\ base[1] + rc.rcnt = Len(received)
  /\ base[Len(chunks)] + wc.wcnt = Len(sent)
  /\ \A i \in 1..Len(chunks) :
       /\ i < Len(chunks) => base[i + 1] = base[i] + chunks[i].wcnt
       /\ base[i] + chunks[i].wcnt <= Len(sent)
       /\ \A j \in 1..chunks[i].wcnt : chunks[i].data[j] = sent[base[i] + j]

(* A chunk has room for an item at least, and the writer goes on to a new  *)
(* one only with an item for it.                                           *)
ChunksInv ==
  \A i \in 1..Len(chunks) :
    /\ chunks[i].capacity >= 1
    /\ Len(chunks[i].data) = chunks[i].wcnt
    /\ i > 1 => chunks[i].rcnt = 0 /\ chunks[i].wcnt >= 1

ContentInv ==
  /\ capacity \in Nat
  /\ chunk_cap \in Nat \ {0}
  /\ chunks \in Seq(ChunkType)
  /\ sent \in Seq(Items) /\ received \in Seq(Items)
  /\ size = Len(sent) - Len(received) /\ size \in Nat
  /\ capacity # 0 => size <= capacity
  /\ StoredInChunk
  /\ ChunksInv
  /\ state # "live" => chunks = <<>> /\ size = 0
  /\ state = "live" => /\ chunks # <<>>
                       /\ \E base \in [1..Len(chunks) -> 0..Len(sent)] : Layout(base)

-----------------------------------------------------------------------------
(* Every non-empty set of naturals has a least element: the form in which  *)
(* induction over the naturals is used below.                              *)
LEMMA LeastNat ==
  ASSUME NEW T, T \subseteq Nat, T # {}
  PROVE  \E m \in T : \A k \in T : m <= k
<1> DEFINE R == {ss \in Nat \X Nat : ss[1] < ss[2]}
<1>1. PICK m \in T : \A k \in T : ~ (<<k, m>> \in R)
  <2>1. IsWellFoundedOn(R, Nat)
    BY NatLessThanWellFounded DEF OpToRel
  <2> HIDE DEF R
  <2> QED BY <2>1, WFMin
<1>2. \A k \in T : ~ (k < m)
  BY <1>1
<1> QED BY <1>2

-----------------------------------------------------------------------------
(* The size of a new chunk *)

(* The halving loop ends, for every size it may start from. *)
LEMMA HalvingEnds ==
  ASSUME NEW n \in Nat, NEW room \in Int
  PROVE  \E f : f = [k \in 0..n |-> IF Fits(k, room) THEN k ELSE f[k \div 2]]
<1> DEFINE Is(g, m) == \A k \in 0..m : g[k] = IF Fits(k, room) THEN k ELSE g[k \div 2]
           T == {m \in 0..n : ~ \E g : g = [k \in 0..m |-> g[k]] /\ Is(g, m)}
<1>1. T = {}
  <2> SUFFICES ASSUME T # {} PROVE FALSE
    OBVIOUS
  <2>1. PICK m \in T : \A k \in T : m <= k
    <3>1. T \subseteq Nat
      OBVIOUS
    <3> HIDE DEF T
    <3> QED BY <3>1, LeastNat
  <2>2. CASE m = 0
    <3> DEFINE g == [k \in 0..0 |-> 0]
    <3>1. g = [k \in 0..0 |-> g[k]] /\ Is(g, 0)
      BY DEF Fits
    <3> QED BY <2>1, <2>2, <3>1
  <2>3. CASE m # 0
    <3>1. m - 1 \in 0..n /\ m - 1 \notin T
      BY <2>1, <2>3
    <3>2. PICK g : g = [k \in 0..(m - 1) |-> g[k]] /\ Is(g, m - 1)
      BY <3>1
    <3> DEFINE h == [k \in 0..m |->
                       IF k < m THEN g[k] ELSE IF Fits(m, room) THEN m ELSE g[m \div 2]]
    <3>3. \A k \in 0..m : k # 0 => k \div 2 \in 0..(m - 1)
      <4> TAKE k \in 0..m
      <4>1. k # 0 => k \div 2 < k /\ k \div 2 >= 0
        BY <2>1
      <4> QED BY <4>1, <2>1
    <3>4. \A k \in 0..m : h[k] = IF Fits(k, room) THEN k ELSE h[k \div 2]
      <4> TAKE k \in 0..m
      <4>1. Fits(0, room)
        BY DEF Fits
      <4>2. k # 0 => h[k \div 2] = g[k \div 2]
        BY <3>3, <2>1
      <4>3. CASE k < m
        <5>1. h[k] = g[k] /\ g[k] = IF Fits(k, room) THEN k ELSE g[k \div 2]
          <6>1. h[k] = g[k]
            BY <4>3
          <6>2. k \in 0..(m - 1)
            BY <4>3, <2>1
          <6>3. \A i \in 0..(m - 1) : g[i] = IF Fits(i, room) THEN i ELSE g[i \div 2]
            BY <3>2
          <6> HIDE DEF h
          <6> QED BY <6>1, <6>2, <6>3
        <5> HIDE DEF h
        <5>2. CASE Fits(k, room)
          BY <5>1, <5>2
        <5>3. CASE ~ Fits(k, room)
          BY <5>1, <5>3, <4>1, <4>2
        <5> QED BY <5>2, <5>3
      <4>4. CASE k = m
        <5>1. h[k] = IF Fits(k, room) THEN k ELSE g[k \div 2]
          BY <4>4, <2>1
        <5> HIDE DEF h
        <5> QED BY <5>1, <4>1, <4>2
      <4> QED BY <4>3, <4>4, <2>1
    <3>5. h = [k \in 0..m |-> h[k]]
      OBVIOUS
    <3> HIDE DEF h
    <3> QED BY <2>1, <3>4, <3>5
  <2> QED BY <2>2, <2>3
<1>2. PICK f : f = [k \in 0..n |-> f[k]] /\ Is(f, n)
  BY <1>1
<1> QED
  BY <1>2

(* A chunk for a channel that is not full holds at least one item and is   *)
(* not larger than the last one.                                           *)
LEMMA HalvedType ==
  ASSUME NEW n \in Nat \ {0}, NEW room \in Nat \ {0}
  PROVE  Halved(n, room) \in 1..n
<1> DEFINE Is(g) == g = [k \in 0..n |-> IF Fits(k, room) THEN k ELSE g[k \div 2]]
           f == CHOOSE g : Is(g)
<1>1. Is(f)
  <2>1. \E g : Is(g)
    BY HalvingEnds
  <2> HIDE DEF Is
  <2> QED BY <2>1
<1>2. Halved(n, room) = f[n]
  BY DEF Halved
<1> HIDE DEF f
<1> DEFINE T == {k \in 1..n : f[k] \notin 1..k}
<1>3. ASSUME T # {} PROVE FALSE
  <2>1. PICK k \in T : \A j \in T : k <= j
    <3>1. T \subseteq Nat
      OBVIOUS
    <3> HIDE DEF T
    <3> QED BY <1>3, <3>1, LeastNat
  <2>2. ~ Fits(k, room) /\ f[k] = f[k \div 2]
    BY <1>1, <2>1
  <2>3. k > 1
    BY <2>1, <2>2 DEF Fits
  <2>4. k \div 2 \in 1..n /\ k \div 2 < k
    BY <2>1, <2>3
  <2>5. f[k \div 2] \in 1..(k \div 2)
    BY <2>1, <2>4
  <2> QED BY <2>1, <2>2, <2>4, <2>5
<1> QED BY <1>2, <1>3

-----------------------------------------------------------------------------
(* The threads *)

(* Both sets of readers are finite, so they can be counted. *)
LEMMA ReadersFinite ==
  /\ IsFiniteSet(Woken) /\ Cardinality(Woken) \in Nat
  /\ \A S \in SUBSET Threads : IsFiniteSet(S) /\ Cardinality(S) \in Nat
<1>1. \A S \in SUBSET Threads : IsFiniteSet(S) /\ Cardinality(S) \in Nat
  BY FS_Subset, FS_CardinalityType, ChannelAssumption
<1>2. Woken \in SUBSET Threads
  BY DEF Woken
<1> QED BY <1>1, <1>2

(* Waking a reader adds it to those that are on their way. *)
LEMMA WakeOne ==
  ASSUME pc \in [Threads -> {"idle", "waiting", "woken", "teardown"}],
         NEW t \in Threads, pc[t] = "waiting",
         pc' = [pc EXCEPT ![t] = "woken"]
  PROVE  Cardinality(Woken') = Cardinality(Woken) + 1
<1>1. Woken' = Woken \cup {t} /\ t \notin Woken
  BY DEF Woken
<1> HIDE DEF Woken
<1> QED BY <1>1, ReadersFinite, FS_AddElement

(* A step that changes what thread t does takes at most t from those that  *)
(* are on their way.                                                       *)
LEMMA LoseOne ==
  ASSUME pc \in [Threads -> {"idle", "waiting", "woken", "teardown"}],
         NEW t \in Threads, NEW s, s # "woken",
         pc' = [pc EXCEPT ![t] = s]
  PROVE  Cardinality(Woken') = IF pc[t] = "woken" THEN Cardinality(Woken) - 1
                               ELSE Cardinality(Woken)
<1>1. Woken' = Woken \ {t}
  BY DEF Woken
<1>2. t \in Woken <=> pc[t] = "woken"
  BY DEF Woken
<1> HIDE DEF Woken
<1> QED BY <1>1, <1>2, ReadersFinite, FS_RemoveElement

(* Nobody holds the channel, or waits for it, before it is created. *)
LEMMA InitThread == Init => ThreadInv
<1> SUFFICES ASSUME Init PROVE ThreadInv
  OBVIOUS
<1>1. Cardinality({}) = 0
  BY FS_EmptySet
<1>2. Waiting = {}
  BY DEF Init, Waiting
<1> QED BY <1>1, <1>2 DEF Init, ThreadInv, HoldersKeepItAlive

(* A write wakes a reader for its item, whatever the channel's capacity. *)
LEMMA WriteThread ==
  ASSUME ThreadInv, NEW t \in Threads, Calls(t), size' = size + 1, Signal, UNCHANGED refs
  PROVE  ThreadInv'
<1> USE DEF ThreadInv, HoldersKeepItAlive, refs
<1>1. CASE Waiting = {}
  <2>1. pc' = pc
    BY <1>1 DEF Signal
  <2>2. Waiting' = {}
    BY <1>1, <2>1 DEF Waiting
  <2> QED BY <2>1, <2>2
<1>2. CASE Waiting # {}
  <2>1. PICK u \in Waiting : pc' = [pc EXCEPT ![u] = "woken"]
    BY <1>2 DEF Signal
  <2>2. u \in Threads /\ pc[u] = "waiting"
    BY DEF Waiting
  <2>3. Cardinality(Woken') = Cardinality(Woken) + 1
    BY <2>1, <2>2, WakeOne
  <2>4. size' <= Cardinality(Woken')
    BY <1>2, <2>3, ReadersFinite
  <2> QED BY <2>1, <2>2, <2>4
<1> QED BY <1>1, <1>2

(* A read that takes an item leaves as many readers on their way as there  *)
(* are items; one that finds none goes to sleep.                           *)
LEMMA ReadThread ==
  ASSUME ThreadInv, NEW t \in Threads, UNCHANGED refs,
         \/ /\ t \in holders /\ pc[t] \in {"idle", "waiting", "woken"}
            /\ size = 0 /\ UNCHANGED size
            /\ pc' = [pc EXCEPT ![t] = "waiting"]
         \/ /\ size > 0 /\ size' = size - 1
            /\ pc' = pc
         \/ /\ size > 0 /\ size' = size - 1
            /\ pc[t] \in {"waiting", "woken"}
            /\ pc' = [pc EXCEPT ![t] = "idle"]
  PROVE  ThreadInv'
<1> USE DEF ThreadInv, HoldersKeepItAlive, refs
<1>1. CASE /\ t \in holders /\ pc[t] \in {"idle", "waiting", "woken"}
           /\ size = 0 /\ UNCHANGED size
           /\ pc' = [pc EXCEPT ![t] = "waiting"]
  <2>1. Cardinality(Woken') \in Nat
    <3>1. Woken' \in SUBSET Threads
      BY DEF Woken
    <3> QED BY <3>1, ReadersFinite
  <2>2. size' <= Cardinality(Woken')
    BY <1>1, <2>1
  <2> QED BY <1>1, <2>2
<1>2. CASE size > 0 /\ size' = size - 1 /\ pc' = pc
  <2>1. Waiting' = Waiting /\ Woken' = Woken
    BY <1>2 DEF Waiting, Woken
  <2>2. Waiting' # {} => size' <= Cardinality(Woken')
    BY <1>2, <2>1, ReadersFinite
  <2> QED BY <1>2, <2>2
<1>3. CASE /\ size > 0 /\ size' = size - 1
           /\ pc[t] \in {"waiting", "woken"}
           /\ pc' = [pc EXCEPT ![t] = "idle"]
  <2>1. Waiting' \subseteq Waiting
    BY <1>3 DEF Waiting
  <2>2. Cardinality(Woken') >= Cardinality(Woken) - 1 /\ Cardinality(Woken') \in Int
    <3>1. Cardinality(Woken') = IF pc[t] = "woken" THEN Cardinality(Woken) - 1
                                ELSE Cardinality(Woken)
      BY <1>3, LoseOne
    <3> QED BY <3>1, ReadersFinite
  <2>3. Waiting' # {} => size' <= Cardinality(Woken')
    BY <1>3, <2>1, <2>2, ReadersFinite
  <2> QED BY <1>3, <2>3
<1> QED BY <1>1, <1>2, <1>3

(* Whatever a thread does, with or without a bound on what is written. *)
LEMMA NextThread == ThreadInv /\ [Next]_vars => ThreadInv'
<1> SUFFICES ASSUME ThreadInv, [Next]_vars PROVE ThreadInv'
  OBVIOUS
<1>0. CASE UNCHANGED vars
  BY <1>0 DEF vars, shared, refs, ThreadInv, HoldersKeepItAlive, Waiting, Woken
<1> SUFFICES ASSUME NEW t \in Threads,
                    \/ New(t)
                    \/ \E v \in Items : Write(t, v)
                    \/ \E v \in Items : WriteTry(t, v)
                    \/ Read(t)
                    \/ ReadOn(t)
                    \/ ReadTry(t)
                    \/ \E u \in Threads : CloneInit(t, u)
                    \/ Dtor(t)
                    \/ Drain(t)
                    \/ Free(t)
             PROVE  ThreadInv'
  BY <1>0 DEF Next
<1>1. CASE New(t)
  <2>1. Cardinality({t}) = 1
    BY FS_Singleton
  <2>2. Waiting = {} /\ Waiting' = {} /\ holders = {}
    BY <1>1 DEF New, Waiting, ThreadInv, HoldersKeepItAlive
  <2> QED BY <1>1, <2>1, <2>2 DEF New, ThreadInv, HoldersKeepItAlive
<1>2. ASSUME NEW v \in Items, Write(t, v) \/ WriteTry(t, v) PROVE ThreadInv'
  BY <1>2, WriteThread DEF Write, WriteTry, WriteItem
<1>3. CASE Read(t) \/ ReadOn(t) \/ ReadTry(t)
  <2>1. UNCHANGED refs /\ size \in Nat /\ (pc[t] \in {"waiting", "woken"} => t \in holders)
    BY <1>3 DEF Read, ReadOn, ReadTry, ThreadInv, HoldersKeepItAlive
  <2>2. \/ /\ t \in holders /\ pc[t] \in {"idle", "waiting", "woken"}
           /\ size = 0 /\ UNCHANGED size
           /\ pc' = [pc EXCEPT ![t] = "waiting"]
        \/ /\ size > 0 /\ size' = size - 1
           /\ pc' = pc
        \/ /\ size > 0 /\ size' = size - 1
           /\ pc[t] \in {"waiting", "woken"}
           /\ pc' = [pc EXCEPT ![t] = "idle"]
    BY <1>3, <2>1 DEF Read, ReadOn, ReadTry, ReadItem, Calls
  <2> QED BY <2>1, <2>2, ReadThread
<1>4. ASSUME NEW u \in Threads, CloneInit(t, u) PROVE ThreadInv'
  <2>1. Cardinality(holders \cup {u}) = Cardinality(holders) + 1
    BY <1>4, ReadersFinite, FS_AddElement DEF CloneInit, ThreadInv
  <2>2. Waiting' = Waiting /\ Woken' = Woken
    BY <1>4 DEF CloneInit, Waiting, Woken
  <2> QED BY <1>4, <2>1, <2>2 DEF CloneInit, Calls, shared, ThreadInv, HoldersKeepItAlive
<1>5. CASE Dtor(t)
  <2>1. /\ Cardinality(holders \ {t}) = Cardinality(holders) - 1
        /\ Cardinality(holders \ {t}) \in Nat
        /\ Cardinality(holders \ {t}) = 0 <=> holders \ {t} = {}
    BY <1>5, ReadersFinite, FS_RemoveElement, FS_EmptySet DEF Dtor, Calls, ThreadInv
  <2>2. Waiting' = Waiting /\ Woken' = Woken
    BY <1>5 DEF Dtor, Calls, Waiting, Woken, ThreadInv
  <2>3. \A u \in Threads : u # t => pc'[u] = pc[u]
    BY <1>5 DEF Dtor, ThreadInv
  <2>4. pc'[t] \in {"idle", "teardown"}
        /\ (pc'[t] = "teardown" => holders' = {})
        /\ pc' \in [Threads -> {"idle", "waiting", "woken", "teardown"}]
    BY <1>5, <2>1 DEF Dtor, Calls, ThreadInv, HoldersKeepItAlive
  <2>5. \A u \in Threads : pc[u] # "teardown"
    BY <1>5 DEF Dtor, Calls, ThreadInv, HoldersKeepItAlive
  <2> QED
    BY <1>5, <2>1, <2>2, <2>3, <2>4, <2>5
    DEF Dtor, Calls, shared, ThreadInv, HoldersKeepItAlive
<1>6. CASE Drain(t)
  BY <1>6, ReadThread DEF Drain, ReadItem
<1>7. CASE Free(t)
  <2>1. holders = {} /\ Waiting = {} /\ Waiting' = {}
    BY <1>7 DEF Free, Waiting, ThreadInv, HoldersKeepItAlive
  <2> QED BY <1>7, <2>1 DEF Free, ThreadInv, HoldersKeepItAlive
<1> QED BY <1>1, <1>2, <1>3, <1>4, <1>5, <1>6, <1>7

(* The threads' part of the invariant holds in every behaviour. *)
LEMMA ThreadInvariant == Spec => []ThreadInv
BY InitThread, NextThread, PTL DEF Spec

-----------------------------------------------------------------------------
(* The items *)

(* What is known of a chunk. *)
LEMMA ChunkFacts ==
  ASSUME ContentInv
  PROVE  /\ Len(chunks) \in Nat
         /\ DOMAIN chunks = 1..Len(chunks)
         /\ \A i \in 1..Len(chunks) :
              /\ chunks[i] \in ChunkType
              /\ chunks[i].capacity \in Nat /\ chunks[i].capacity >= 1
              /\ chunks[i].wcnt \in Nat /\ chunks[i].wcnt <= chunks[i].capacity
              /\ chunks[i].rcnt \in Nat /\ chunks[i].rcnt <= chunks[i].wcnt
              /\ i < Len(chunks) => chunks[i].wcnt = chunks[i].capacity
              /\ i > 1 => chunks[i].rcnt = 0 /\ chunks[i].wcnt >= 1
              /\ chunks[i].data \in Seq(Items)
              /\ Len(chunks[i].data) = chunks[i].wcnt
<1>1. chunks \in Seq(ChunkType) /\ StoredInChunk /\ ChunksInv
  BY DEF ContentInv
<1>2. Len(chunks) \in Nat /\ DOMAIN chunks = 1..Len(chunks)
  BY <1>1, LenProperties
<1>3. \A i \in 1..Len(chunks) : chunks[i] \in ChunkType
  BY <1>1, ElementOfSeq
<1>4. \A i \in 1..Len(chunks) : /\ chunks[i].capacity \in Nat /\ chunks[i].rcnt \in Nat
                                /\ chunks[i].wcnt \in Nat /\ chunks[i].data \in Seq(Items)
  BY <1>3 DEF ChunkType
<1> QED BY <1>1, <1>2, <1>3, <1>4 DEF StoredInChunk, ChunksInv

(* What writing an item to a chunk changes. *)
LEMMA PutProperties ==
  ASSUME NEW k \in ChunkType, NEW v \in Items
  PROVE  /\ Put(k, v) \in ChunkType
         /\ Put(k, v).capacity = k.capacity
         /\ Put(k, v).rcnt = k.rcnt
         /\ Put(k, v).wcnt = k.wcnt + 1
         /\ Put(k, v).data = Append(k.data, v)
<1>1. k.data \in Seq(Items) /\ k.wcnt \in Nat /\ k.capacity \in Nat /\ k.rcnt \in Nat
  BY DEF ChunkType
<1>2. Append(k.data, v) \in Seq(Items)
  BY <1>1, AppendProperties
<1> QED BY <1>1, <1>2 DEF Put, ChunkType

(* A chunk that was just created for an item. *)
LEMMA NewChunkProperties ==
  ASSUME NEW cap \in Nat
  PROVE  /\ NewChunk(cap) \in ChunkType
         /\ NewChunk(cap).capacity = cap
         /\ NewChunk(cap).rcnt = 0
         /\ NewChunk(cap).wcnt = 0
         /\ NewChunk(cap).data = <<>>
BY DEF NewChunk, ChunkType

(* The next chunk of a channel that is not full has room for the item. *)
LEMMA NextChunkCapType ==
  ASSUME ContentInv, ~ IsFull
  PROVE  NextChunkCap(chunk_cap, size) \in Nat \ {0}
<1>1. CASE capacity # 0
  <2>1. capacity - size \in Nat \ {0}
    BY <1>1 DEF ContentInv, IsFull
  <2>2. Halved(chunk_cap, capacity - size) \in 1..chunk_cap
    BY <2>1, HalvedType DEF ContentInv
  <2> QED BY <1>1, <2>2 DEF NextChunkCap, ContentInv
<1>2. CASE capacity = 0
  BY <1>2, ChannelAssumption DEF NextChunkCap, ContentInv
<1> QED BY <1>1, <1>2

(* Arithmetic that the provers do not find among records. *)
LEMMA AddOne ==
  \A b, w, n \in Nat : b + w = n => b + (w + 1) = n + 1
OBVIOUS

(* A write to a chunk that has room leaves the layout as it is. *)
LEMMA WriteInPlace ==
  ASSUME ContentInv, state = "live", ~ IsFull, NEW v \in Items,
         WriteItem(v), wc.wcnt # wc.capacity,
         UNCHANGED <<capacity, state, received>>
  PROVE  ContentInv'
<1> DEFINE L == Len(chunks)
<1>1. /\ chunks \in Seq(ChunkType) /\ L \in Nat \ {0}
      /\ \A i \in 1..L : chunks[i] \in ChunkType
  BY ElementOfSeq, EmptySeq, LenProperties DEF ContentInv
<1>2. /\ chunks' = [chunks EXCEPT ![L] = Put(wc, v)]
      /\ chunk_cap' = chunk_cap /\ size' = size + 1 /\ sent' = Append(sent, v)
  BY DEF WriteItem, wc
<1>3. /\ Put(wc, v) \in ChunkType
      /\ Put(wc, v).capacity = wc.capacity
      /\ Put(wc, v).rcnt = wc.rcnt
      /\ Put(wc, v).wcnt = wc.wcnt + 1
      /\ Put(wc, v).data = Append(wc.data, v)
  BY <1>1, PutProperties DEF wc
<1>4. /\ chunks' \in Seq(ChunkType)
      /\ Len(chunks') = L
      /\ chunks'[L] = Put(wc, v)
      /\ \A i \in 1..L : i # L => chunks'[i] = chunks[i]
  BY <1>1, <1>2, <1>3, ExceptSeq
<1>5. /\ sent' \in Seq(Items) /\ Len(sent') = Len(sent) + 1
      /\ \A i \in 1..Len(sent) : sent'[i] = sent[i]
      /\ sent'[Len(sent) + 1] = v
  BY <1>2, AppendProperties DEF ContentInv
<1>6. \A i \in 1..L :
        /\ chunks'[i].capacity = chunks[i].capacity
        /\ chunks'[i].rcnt = chunks[i].rcnt
        /\ chunks'[i].wcnt = IF i = L THEN chunks[i].wcnt + 1 ELSE chunks[i].wcnt
        /\ chunks'[i].data = IF i = L THEN Append(chunks[i].data, v) ELSE chunks[i].data
  BY <1>1, <1>3, <1>4 DEF wc
<1>7. \A i \in 1..L :
        /\ chunks[i].capacity \in Nat /\ chunks[i].capacity >= 1
        /\ chunks[i].wcnt \in Nat /\ chunks[i].wcnt <= chunks[i].capacity
        /\ chunks[i].rcnt \in Nat /\ chunks[i].rcnt <= chunks[i].wcnt
        /\ i < L => chunks[i].wcnt = chunks[i].capacity
        /\ i > 1 => chunks[i].rcnt = 0 /\ chunks[i].wcnt >= 1
        /\ chunks[i].data \in Seq(Items)
        /\ Len(chunks[i].data) = chunks[i].wcnt
  BY ChunkFacts
<1>8. StoredInChunk'
  <2>1. DOMAIN chunks = 1..L /\ DOMAIN chunks' = 1..L
    BY <1>1, <1>4, LenProperties
  <2>2. wc.wcnt < wc.capacity
    BY <1>1, <1>7 DEF wc
  <2>3. ASSUME NEW i \in 1..L
        PROVE  /\ chunks'[i].wcnt <= chunks'[i].capacity
               /\ chunks'[i].rcnt <= chunks'[i].wcnt
               /\ i < L => chunks'[i].wcnt = chunks'[i].capacity
    BY <1>1, <1>6, <1>7, <2>2 DEF wc
  <2> QED BY <2>1, <2>3, <1>4 DEF StoredInChunk
<1>9. ChunksInv'
  <2>1. Len(Append(wc.data, v)) = Len(wc.data) + 1
    BY <1>1, <1>7, AppendProperties DEF wc
  <2> SUFFICES ASSUME NEW i \in 1..L
               PROVE  /\ chunks'[i].capacity >= 1
                      /\ Len(chunks'[i].data) = chunks'[i].wcnt
                      /\ i > 1 => chunks'[i].rcnt = 0 /\ chunks'[i].wcnt >= 1
    BY <1>4 DEF ChunksInv
  <2>2. CASE i = L
    <3>1. Len(chunks'[i].data) = chunks[i].wcnt + 1
      BY <2>1, <2>2, <1>1, <1>6, <1>7 DEF wc
    <3>2. /\ chunks'[i].capacity = chunks[i].capacity /\ chunks'[i].rcnt = chunks[i].rcnt
          /\ chunks'[i].wcnt = chunks[i].wcnt + 1
      BY <2>2, <1>6
    <3> QED BY <3>1, <3>2, <1>7
  <2>3. CASE i # L
    <3>1. chunks'[i] = chunks[i]
      BY <2>3, <1>4
    <3> QED BY <3>1, <1>7
  <2> QED BY <2>2, <2>3
<1>10. \E base \in [1..Len(chunks') -> 0..Len(sent')] : Layout(base)'
  <2>1. PICK base \in [1..L -> 0..Len(sent)] : Layout(base)
    BY DEF ContentInv
  <2>2. Len(sent) \in Nat /\ Len(received) \in Nat
    BY LenProperties DEF ContentInv
  <2>3. base \in [1..Len(chunks') -> 0..Len(sent')]
    BY <2>1, <2>2, <1>4, <1>5
  <2>4. /\ base[1] + chunks'[1].rcnt = Len(received')
        /\ base[L] + chunks'[L].wcnt = Len(sent')
    <3>1. /\ base[1] + chunks[1].rcnt = Len(received) /\ base[L] + chunks[L].wcnt = Len(sent)
          /\ base[L] \in Nat /\ chunks[L].wcnt \in Nat
      BY <2>1, <2>2, <1>1, <1>7 DEF Layout, rc, wc
    <3>2. chunks'[1].rcnt = chunks[1].rcnt /\ chunks'[L].wcnt = chunks[L].wcnt + 1
      BY <1>1, <1>6
    <3>3. base[L] + (chunks[L].wcnt + 1) = Len(sent) + 1
      BY <3>1, <2>2, AddOne
    <3> QED BY <3>1, <3>2, <3>3, <1>5
  <2>5. ASSUME NEW i \in 1..L
        PROVE  /\ i < L => base[i + 1] = base[i] + chunks'[i].wcnt
               /\ base[i] + chunks'[i].wcnt <= Len(sent')
               /\ \A j \in 1..chunks'[i].wcnt : chunks'[i].data[j] = sent'[base[i] + j]
    <3>1. base[i] \in Nat /\ base[i] + chunks[i].wcnt <= Len(sent) /\ chunks[i].wcnt \in Nat
      BY <2>1, <2>2, <1>7 DEF Layout
    <3>a. /\ i < L => base[i + 1] = base[i] + chunks[i].wcnt
          /\ \A j \in 1..chunks[i].wcnt : chunks[i].data[j] = sent[base[i] + j]
      BY <2>1 DEF Layout
    <3>2. CASE i # L
      <4>1. \A j \in 1..chunks[i].wcnt : base[i] + j \in 1..Len(sent)
        BY <3>1, <2>2
      <4>2. chunks'[i].wcnt = chunks[i].wcnt /\ chunks'[i].data = chunks[i].data
        BY <1>6, <3>2
      <4>3. base[i] + chunks'[i].wcnt <= Len(sent')
        BY <4>2, <3>1, <2>2, <1>5
      <4>4. \A j \in 1..chunks'[i].wcnt : chunks'[i].data[j] = sent'[base[i] + j]
        BY <4>1, <4>2, <3>a, <1>5
      <4> QED BY <4>2, <4>3, <4>4, <3>a
    <3>3. CASE i = L
      <4>1. base[i] + chunks[i].wcnt = Len(sent)
        BY <3>3, <2>1 DEF Layout, wc
      <4>a. base[i] + (chunks[i].wcnt + 1) = Len(sent) + 1
        BY <4>1, <3>1, <2>2, AddOne
      <4>2. Len(chunks[i].data) = chunks[i].wcnt
        BY <1>7
      <4>3. ASSUME NEW j \in 1..(chunks[i].wcnt + 1)
            PROVE  Append(chunks[i].data, v)[j] = sent'[base[i] + j]
        <5>1. CASE j = chunks[i].wcnt + 1
          <6>1. Append(chunks[i].data, v)[j] = v
            BY <5>1, <4>2, <1>7, AppendProperties
          <6>2. base[i] + j = Len(sent) + 1
            BY <4>a, <5>1
          <6> QED BY <6>1, <6>2, <1>5
        <5>2. CASE j # chunks[i].wcnt + 1
          <6>1. j \in 1..chunks[i].wcnt
            BY <5>2, <3>1
          <6>2. Append(chunks[i].data, v)[j] = chunks[i].data[j]
            BY <6>1, <4>2, <1>7, AppendProperties
          <6>3. base[i] + j \in 1..Len(sent)
            BY <6>1, <3>1, <2>2
          <6> QED BY <6>1, <6>2, <6>3, <3>a, <1>5
        <5> QED BY <5>1, <5>2
      <4>4. chunks'[i].wcnt = chunks[i].wcnt + 1 /\ chunks'[i].data = Append(chunks[i].data, v)
        BY <1>6, <3>3
      <4>5. base[i] + chunks'[i].wcnt <= Len(sent')
        BY <4>1, <4>4, <3>1, <2>2, <1>5
      <4>6. ~ (i < L)
        BY <3>3, <1>1
      <4> QED BY <4>3, <4>4, <4>5, <4>6
    <3> QED BY <3>2, <3>3
  <2> QED BY <2>3, <2>4, <2>5, <1>4 DEF Layout, rc, wc
<1>11. capacity' # 0 => size' <= capacity'
  <2>1. capacity \in Nat /\ size \in Nat /\ (capacity # 0 => size <= capacity /\ size # capacity)
    BY DEF ContentInv, IsFull
  <2>2. size' = size + 1 /\ capacity' = capacity
    BY <1>2
  <2> QED BY <2>1, <2>2
<1>12. size' = Len(sent') - Len(received') /\ size' \in Nat
  BY <1>2, <1>5, LenProperties DEF ContentInv
<1>13. chunks' # <<>>
  BY <1>1, <1>4, EmptySeq
<1> QED
  BY <1>2, <1>4, <1>5, <1>8, <1>9, <1>10, <1>11, <1>12, <1>13 DEF ContentInv

(* A write to a full chunk links a new one, with the item in it. *)
LEMMA WriteNewChunk ==
  ASSUME ContentInv, state = "live", ~ IsFull, NEW v \in Items,
         WriteItem(v), wc.wcnt = wc.capacity,
         UNCHANGED <<capacity, state, received>>
  PROVE  ContentInv'
<1> DEFINE L == Len(chunks)
           cap == NextChunkCap(chunk_cap, size)
           new == Put(NewChunk(cap), v)
<1>1. /\ chunks \in Seq(ChunkType) /\ L \in Nat \ {0}
  BY EmptySeq DEF ContentInv
<1>2. /\ chunks' = Append(chunks, new)
      /\ chunk_cap' = cap /\ size' = size + 1 /\ sent' = Append(sent, v)
  BY DEF WriteItem
<1>3. cap \in Nat \ {0}
  BY NextChunkCapType
<1>4. /\ new \in ChunkType
      /\ new.capacity = cap
      /\ new.rcnt = 0
      /\ new.wcnt = 1
      /\ new.data = Append(<<>>, v)
  <2> HIDE DEF cap
  <2>1. /\ NewChunk(cap) \in ChunkType
        /\ NewChunk(cap).capacity = cap
        /\ NewChunk(cap).rcnt = 0
        /\ NewChunk(cap).wcnt = 0
        /\ NewChunk(cap).data = <<>>
    BY <1>3, NewChunkProperties
  <2>2. /\ new \in ChunkType
        /\ new.capacity = NewChunk(cap).capacity
        /\ new.rcnt = NewChunk(cap).rcnt
        /\ new.wcnt = NewChunk(cap).wcnt + 1
        /\ new.data = Append(NewChunk(cap).data, v)
    BY <2>1, PutProperties
  <2> HIDE DEF new
  <2> QED BY <2>1, <2>2
<1> HIDE DEF cap, new
<1>5. /\ chunks' \in Seq(ChunkType)
      /\ Len(chunks') = L + 1
      /\ chunks'[L + 1] = new
      /\ \A i \in 1..L : chunks'[i] = chunks[i]
      /\ chunks' # <<>>
  BY <1>1, <1>2, <1>4, AppendProperties
<1>6. /\ sent' \in Seq(Items) /\ Len(sent') = Len(sent) + 1
      /\ \A i \in 1..Len(sent) : sent'[i] = sent[i]
      /\ sent'[Len(sent) + 1] = v
      /\ Len(sent) \in Nat
  BY <1>2, AppendProperties, LenProperties DEF ContentInv
<1>7. \A i \in 1..(L + 1) : i \in 1..L \/ i = L + 1
  BY <1>1
<1>8. Len(new.data) = 1 /\ new.data[1] = v
  <2>1. <<>> \in Seq(Items) /\ Len(<<>>) = 0
    BY EmptySeq
  <2>2. Len(Append(<<>>, v)) = 0 + 1 /\ Append(<<>>, v)[0 + 1] = v
    BY <2>1, AppendProperties
  <2> QED BY <2>2, <1>4
<1>9. /\ \A i \in 1..L : chunks[i].wcnt = chunks[i].capacity
      /\ \A i \in 1..L : chunks[i].wcnt \in Nat
  <2>1. \A i \in 1..L : /\ i < L => chunks[i].wcnt = chunks[i].capacity
                        /\ chunks[i].wcnt \in Nat
    BY ChunkFacts
  <2>2. chunks[L].wcnt = chunks[L].capacity
    BY DEF wc
  <2>3. \A i \in 1..L : i < L \/ i = L
    BY <1>1
  <2> QED BY <2>1, <2>2, <2>3
<1>10. StoredInChunk'
  <2>1. DOMAIN chunks' = 1..(L + 1)
    BY <1>5, LenProperties
  <2>2. ASSUME NEW i \in 1..(L + 1)
        PROVE  /\ chunks'[i].wcnt <= chunks'[i].capacity
               /\ chunks'[i].rcnt <= chunks'[i].wcnt
               /\ i < L + 1 => chunks'[i].wcnt = chunks'[i].capacity
    <3>1. CASE i \in 1..L
      <4>1. chunks'[i] = chunks[i]
        BY <3>1, <1>5
      <4> QED BY <3>1, <4>1, <1>9, ChunkFacts
    <3>2. CASE i = L + 1
      <4>1. chunks'[i] = new /\ ~ (i < L + 1)
        BY <3>2, <1>1, <1>5
      <4> QED BY <4>1, <1>3, <1>4
    <3> QED BY <3>1, <3>2, <1>7
  <2> QED BY <2>1, <2>2, <1>5 DEF StoredInChunk
<1>11. ChunksInv'
  <2> SUFFICES ASSUME NEW i \in 1..(L + 1)
               PROVE  /\ chunks'[i].capacity >= 1
                      /\ Len(chunks'[i].data) = chunks'[i].wcnt
                      /\ i > 1 => chunks'[i].rcnt = 0 /\ chunks'[i].wcnt >= 1
    BY <1>5 DEF ChunksInv
  <2>1. CASE i \in 1..L
    <3>1. chunks'[i] = chunks[i]
      BY <2>1, <1>5
    <3> QED BY <2>1, <3>1, ChunkFacts
  <2>2. CASE i = L + 1
    <3>1. chunks'[i] = new
      BY <2>2, <1>5
    <3> QED BY <3>1, <1>3, <1>4, <1>8
  <2> QED BY <2>1, <2>2, <1>7
<1>12. \E base \in [1..Len(chunks') -> 0..Len(sent')] : Layout(base)'
  <2>1. PICK base \in [1..L -> 0..Len(sent)] : Layout(base)
    BY DEF ContentInv
  <2> DEFINE nbase == [i \in 1..(L + 1) |-> IF i = L + 1 THEN Len(sent) ELSE base[i]]
  <2>a. /\ \A i \in 1..L : i \in 1..(L + 1) /\ i # L + 1
        /\ L + 1 \in 1..(L + 1)
    <3> HIDE DEF L
    <3> QED BY <1>1
  <2>b. \A i \in 1..L : base[i] \in Nat /\ base[i] \in 0..(Len(sent) + 1)
    <3>1. \A n \in 0..Len(sent) : n \in Nat /\ n \in 0..(Len(sent) + 1)
      BY <1>6
    <3> QED BY <2>1, <3>1
  <2>2. /\ \A i \in 1..L : nbase[i] = base[i] /\ base[i] \in Nat
        /\ nbase[L + 1] = Len(sent)
    BY <2>a, <2>b
  <2>3. nbase \in [1..Len(chunks') -> 0..Len(sent')]
    <3>1. \A i \in 1..(L + 1) : nbase[i] \in 0..(Len(sent) + 1)
      <4> TAKE i \in 1..(L + 1)
      <4>1. CASE i \in 1..L
        BY <4>1, <2>2, <2>b
      <4>2. CASE i = L + 1
        BY <4>2, <2>2, <1>6
      <4> QED BY <4>1, <4>2, <1>7
    <3> QED BY <3>1, <1>5, <1>6
  <2> HIDE DEF nbase
  <2>4. /\ nbase[1] + chunks'[1].rcnt = Len(received')
        /\ nbase[L + 1] + chunks'[L + 1].wcnt = Len(sent')
    <3>1. 1 \in 1..L /\ base[1] + chunks[1].rcnt = Len(received)
      BY <2>1, <1>1 DEF Layout, rc
    <3> QED BY <3>1, <2>2, <1>4, <1>5, <1>6
  <2>5. ASSUME NEW i \in 1..(L + 1)
        PROVE  /\ i < L + 1 => nbase[i + 1] = nbase[i] + chunks'[i].wcnt
               /\ nbase[i] + chunks'[i].wcnt <= Len(sent')
               /\ \A j \in 1..chunks'[i].wcnt : chunks'[i].data[j] = sent'[nbase[i] + j]
    <3>1. CASE i \in 1..L
      <4>1. chunks'[i] = chunks[i] /\ nbase[i] = base[i]
        BY <3>1, <1>5, <2>2
      <4>2. /\ base[i] \in Nat /\ chunks[i].wcnt \in Nat
            /\ base[i] + chunks[i].wcnt <= Len(sent)
        BY <3>1, <1>9, <2>1, <2>2 DEF Layout
      <4>3. nbase[i + 1] = base[i] + chunks[i].wcnt
        <5>1. CASE i = L
          BY <5>1, <2>1, <2>2 DEF Layout, wc
        <5>2. CASE i # L
          <6>1. i + 1 \in 1..L /\ i < L
            BY <5>2, <3>1, <1>1
          <6> QED BY <6>1, <3>1, <2>1, <2>2 DEF Layout
        <5> QED BY <5>1, <5>2
      <4>4. base[i] + chunks[i].wcnt <= Len(sent')
        BY <4>2, <1>6
      <4>5. ASSUME NEW j \in 1..chunks[i].wcnt
            PROVE  chunks[i].data[j] = sent'[base[i] + j]
        <5>1. base[i] + j \in 1..Len(sent)
          BY <4>2, <1>6
        <5> QED BY <5>1, <3>1, <2>1, <1>6 DEF Layout
      <4> QED BY <4>1, <4>3, <4>4, <4>5
    <3>2. CASE i = L + 1
      <4>1. chunks'[i] = new /\ nbase[i] = Len(sent) /\ ~ (i < L + 1)
        BY <3>2, <1>1, <1>5, <2>2
      <4>2. \A j \in 1..new.wcnt : j = 1
        BY <1>4
      <4> QED BY <4>1, <4>2, <1>4, <1>6, <1>8
    <3> QED BY <3>1, <3>2, <1>7
  <2> QED BY <2>3, <2>4, <2>5, <1>5 DEF Layout, rc, wc
<1>13. capacity' # 0 => size' <= capacity'
  <2>1. capacity \in Nat /\ size \in Nat /\ (capacity # 0 => size <= capacity /\ size # capacity)
    BY DEF ContentInv, IsFull
  <2>2. size' = size + 1 /\ capacity' = capacity
    BY <1>2
  <2> QED BY <2>1, <2>2
<1>14. size' = Len(sent') - Len(received') /\ size' \in Nat
  BY <1>2, <1>6, LenProperties DEF ContentInv
<1> QED
  BY <1>2, <1>3, <1>5, <1>6, <1>10, <1>11, <1>12, <1>13, <1>14 DEF ContentInv

(* The reader finds the next item, and it is the oldest one that was sent  *)
(* and not received.                                                       *)
LEMMA NextItem ==
  ASSUME ContentInv, size > 0
  PROVE  /\ NextItemThere
         /\ Len(chunks) \in Nat \ {0}
         /\ ReadChunks \in Seq(ChunkType)
         /\ ReadChunks # <<>>
         /\ ReadChunks[1].rcnt < ReadChunks[1].wcnt
         /\ ReadChunks[1].data[ReadChunks[1].rcnt + 1] = sent[Len(received) + 1]
<1> DEFINE L == Len(chunks)
<1>1. state = "live" /\ chunks # <<>> /\ chunks \in Seq(ChunkType)
  BY DEF ContentInv
<1>2. L \in Nat \ {0}
  BY <1>1, EmptySeq
<1>3. PICK base \in [1..L -> 0..Len(sent)] : Layout(base)
  BY <1>1 DEF ContentInv
<1>4. Len(sent) \in Nat /\ Len(received) \in Nat /\ Len(sent) > Len(received)
  BY LenProperties DEF ContentInv
<1>5. /\ rc.capacity \in Nat /\ rc.wcnt \in Nat /\ rc.rcnt \in Nat
      /\ rc.wcnt <= rc.capacity /\ rc.rcnt <= rc.wcnt
      /\ 1 < L => rc.wcnt = rc.capacity
  <2>1. 1 \in 1..L
    BY <1>2
  <2> QED BY <2>1, ChunkFacts DEF rc
<1>6. /\ base[1] \in Nat
      /\ base[1] + rc.rcnt = Len(received)
      /\ L = 1 => base[1] + rc.wcnt = Len(sent)
      /\ \A j \in 1..rc.wcnt : rc.data[j] = sent[base[1] + j]
  BY <1>2, <1>3 DEF Layout, rc, wc
<1>7. CASE rc.rcnt # rc.capacity
  <2>1. ReadChunks = chunks
    BY <1>7 DEF ReadChunks
  <2>2. rc.rcnt < rc.capacity /\ rc.rcnt < rc.wcnt
    <3>1. CASE L = 1
      BY <3>1, <1>4, <1>5, <1>6, <1>7
    <3>2. CASE L # 1
      <4>1. rc.wcnt = rc.capacity
        <5> HIDE DEF L
        <5>1. 1 < L
          BY <3>2, <1>2
        <5> QED BY <5>1, <1>5
      <4> QED BY <4>1, <1>5, <1>7
    <3> QED BY <3>1, <3>2
  <2>3. rc.data[rc.rcnt + 1] = sent[Len(received) + 1]
    <3>1. rc.rcnt + 1 \in 1..rc.wcnt
      BY <2>2, <1>5
    <3>2. base[1] + (rc.rcnt + 1) = Len(received) + 1
      BY <1>4, <1>5, <1>6, AddOne
    <3> QED BY <3>1, <3>2, <1>6
  <2> QED BY <1>1, <1>2, <2>1, <2>2, <2>3 DEF NextItemThere, rc
<1>8. CASE rc.rcnt = rc.capacity
  <2>1. rc.rcnt = rc.wcnt
    BY <1>5, <1>8
  <2>2. L > 1 /\ 2 \in 1..L /\ 1 \in 1..L
    <3>1. L # 1
      <4>1. L = 1 => Len(sent) = Len(received)
        BY <2>1, <1>6
      <4> QED BY <4>1, <1>4
    <3> HIDE DEF L
    <3> QED BY <3>1, <1>2
  <2>3. ReadChunks = Tail(chunks)
    BY <1>8 DEF ReadChunks
  <2>4. ReadChunks \in Seq(ChunkType) /\ Len(ReadChunks) = L - 1
        /\ \A i \in 1..Len(ReadChunks) : ReadChunks[i] = chunks[i + 1]
    BY <1>1, <2>3, HeadTailProperties
  <2>5. Len(ReadChunks) \in Nat \ {0} /\ ReadChunks[1] = chunks[2]
    <3>1. 1 \in 1..Len(ReadChunks)
      BY <2>2, <2>4, <1>2
    <3>2. ReadChunks[1] = chunks[1 + 1]
      BY <3>1, <2>4
    <3> QED BY <3>2, <2>2, <2>4, <1>2
  <2>6. chunks[2].rcnt = 0 /\ chunks[2].wcnt \in Nat /\ chunks[2].wcnt >= 1
    BY <2>2, ChunkFacts
  <2>7. base[2] = Len(received)
    <3>1. base[1 + 1] = base[1] + chunks[1].wcnt
      BY <2>2, <1>3 DEF Layout
    <3> QED BY <3>1, <2>1, <1>6 DEF rc
  <2>8. chunks[2].data[1] = sent[base[2] + 1]
    BY <2>2, <2>6, <1>3 DEF Layout
  <2>9. ReadChunks # <<>>
    BY <2>4, <2>5, EmptySeq
  <2>10. NextItemThere
    BY <1>8, <2>2, <2>6 DEF NextItemThere
  <2> QED BY <1>2, <2>4, <2>5, <2>6, <2>7, <2>8, <2>9, <2>10
<1> QED BY <1>7, <1>8

(* The reader looks at the chunk where the oldest item is: the first one,  *)
(* or the second if it is through with the first.                          *)
LEMMA ReadShift ==
  ASSUME ContentInv, size > 0,
         NEW base \in [1..Len(chunks) -> 0..Len(sent)], Layout(base)
  PROVE  \E d \in {0, 1} :
           /\ Len(ReadChunks) = Len(chunks) - d
           /\ Len(chunks) > d
           /\ \A i \in 1..Len(ReadChunks) : ReadChunks[i] = chunks[i + d]
           /\ base[1 + d] + ReadChunks[1].rcnt = Len(received)
<1> DEFINE L == Len(chunks)
<1>1. L \in Nat \ {0} /\ chunks \in Seq(ChunkType) /\ chunks # <<>>
  BY NextItem, EmptySeq DEF ContentInv
<1>2. base[1] + rc.rcnt = Len(received)
  BY DEF Layout
<1>3. CASE rc.rcnt # rc.capacity
  <2>1. ReadChunks = chunks
    BY <1>3 DEF ReadChunks
  <2>2. \A i \in 1..L : i + 0 = i
    BY <1>1
  <2>3. L - 0 = L /\ L > 0
    BY <1>1
  <2>4. base[1 + 0] + ReadChunks[1].rcnt = Len(received)
    BY <2>1, <1>2 DEF rc
  <2> QED BY <2>1, <2>2, <2>3, <2>4
<1>4. CASE rc.rcnt = rc.capacity
  <2>1. L > 1 /\ 1 \in 1..L /\ 2 \in 1..L /\ 1 \in 1..(L - 1)
    <3>1. L > 1
      <4>1. rc.capacity \in Nat /\ 1 \in 1..L
        BY <1>1, ChunkFacts DEF rc
      <4> QED BY <1>4, <4>1, NextItem DEF NextItemThere
    <3> HIDE DEF L
    <3> QED BY <3>1, <1>1
  <2>2. ReadChunks = Tail(chunks)
    BY <1>4 DEF ReadChunks
  <2>3. Len(ReadChunks) = L - 1 /\ \A i \in 1..Len(ReadChunks) : ReadChunks[i] = chunks[i + 1]
    BY <1>1, <2>2, HeadTailProperties
  <2>4. ReadChunks[1] = chunks[2] /\ chunks[2].rcnt = 0
    <3>1. ReadChunks[1] = chunks[1 + 1]
      BY <2>1, <2>3
    <3>2. chunks[2].rcnt = 0
      BY <2>1, ChunkFacts
    <3> QED BY <3>1, <3>2
  <2>5. base[2] = Len(received)
    <3>1. base[1 + 1] = base[1] + chunks[1].wcnt /\ chunks[1].wcnt = chunks[1].capacity
      BY <2>1, ChunkFacts DEF Layout
    <3> QED BY <3>1, <1>2, <1>4 DEF rc
  <2>6. base[2] + 0 = Len(received)
    <3>1. Len(received) \in Nat
      BY LenProperties DEF ContentInv
    <3> QED BY <2>5, <3>1
  <2> QED BY <2>1, <2>3, <2>4, <2>6
<1> QED BY <1>3, <1>4

(* Taking the oldest item out leaves the others where they are. *)
LEMMA ReadItemContent ==
  ASSUME ContentInv, size > 0, ReadItem,
         UNCHANGED <<capacity, chunk_cap, state, sent>>
  PROVE  /\ ContentInv'
         /\ received' = Append(received, sent[Len(received) + 1])
<1> DEFINE L == Len(chunks)
           ks == ReadChunks
           K == Len(ks)
<1>1. state = "live"
  BY DEF ContentInv
<1>2. PICK base \in [1..L -> 0..Len(sent)] : Layout(base)
  BY <1>1 DEF ContentInv
<1>3. PICK d \in {0, 1} : /\ K = L - d
                          /\ L > d
                          /\ \A i \in 1..K : ks[i] = chunks[i + d]
                          /\ base[1 + d] + ks[1].rcnt = Len(received)
  BY <1>2, ReadShift
<1>4. /\ L \in Nat \ {0} /\ ks \in Seq(ChunkType)
      /\ ks[1].rcnt < ks[1].wcnt
      /\ ks[1].data[ks[1].rcnt + 1] = sent[Len(received) + 1]
  BY NextItem
<1>5. /\ chunks' = [ks EXCEPT ![1] = [ks[1] EXCEPT !.rcnt = ks[1].rcnt + 1]]
      /\ size' = size - 1
      /\ received' = Append(received, ks[1].data[ks[1].rcnt + 1])
  BY DEF ReadItem
<1> HIDE DEF ks
<1>6. /\ K \in Nat \ {0} /\ 1 \in 1..K
      /\ \A i \in 1..K : i + d \in 1..L /\ (i < K => i + d < L) /\ (i > 1 => i + d > 1)
  BY <1>3, <1>4
<1>7. ks[1] \in ChunkType
  BY <1>4, <1>6, ElementOfSeq
<1> DEFINE first == [ks[1] EXCEPT !.rcnt = ks[1].rcnt + 1]
<1>8. /\ first \in ChunkType
      /\ first.rcnt = ks[1].rcnt + 1
      /\ first.wcnt = ks[1].wcnt
      /\ first.capacity = ks[1].capacity
      /\ first.data = ks[1].data
  <2>1. \A k \in ChunkType :
          /\ k.rcnt \in Nat
          /\ [k EXCEPT !.rcnt = k.rcnt + 1].rcnt = k.rcnt + 1
          /\ [k EXCEPT !.rcnt = k.rcnt + 1].wcnt = k.wcnt
          /\ [k EXCEPT !.rcnt = k.rcnt + 1].capacity = k.capacity
          /\ [k EXCEPT !.rcnt = k.rcnt + 1].data = k.data
    BY DEF ChunkType
  <2>2. \A k \in ChunkType : [k EXCEPT !.rcnt = k.rcnt + 1] \in ChunkType
    BY DEF ChunkType
  <2> QED BY <2>1, <2>2, <1>7
<1> HIDE DEF first
<1>9. /\ chunks' \in Seq(ChunkType)
      /\ Len(chunks') = K
      /\ chunks'[1] = first
      /\ \A i \in 1..K : i # 1 => chunks'[i] = ks[i]
  BY <1>4, <1>5, <1>6, <1>8, ExceptSeq DEF first
<1>10. \A i \in 1..K :
         /\ chunks'[i].capacity = chunks[i + d].capacity
         /\ chunks'[i].wcnt = chunks[i + d].wcnt
         /\ chunks'[i].data = chunks[i + d].data
         /\ i # 1 => chunks'[i].rcnt = chunks[i + d].rcnt
  <2> TAKE i \in 1..K
  <2>1. CASE i = 1
    BY <2>1, <1>3, <1>6, <1>8, <1>9
  <2>2. CASE i # 1
    BY <2>2, <1>3, <1>9
  <2> QED BY <2>1, <2>2
<1>11. /\ chunks'[1].rcnt = ks[1].rcnt + 1 /\ ks[1].rcnt \in Nat
       /\ chunks'[1].wcnt = ks[1].wcnt /\ ks[1].wcnt \in Nat
  BY <1>7, <1>8, <1>9 DEF ChunkType
<1>12. StoredInChunk'
  <2>1. DOMAIN chunks' = 1..K
    BY <1>9, LenProperties
  <2>2. ASSUME NEW i \in 1..K
        PROVE  /\ chunks'[i].wcnt <= chunks'[i].capacity
               /\ i < K => chunks'[i].wcnt = chunks'[i].capacity
    <3>1. i + d \in 1..L /\ (i < K => i + d < L)
      BY <1>6
    <3>2. /\ chunks[i + d].wcnt <= chunks[i + d].capacity
          /\ i + d < L => chunks[i + d].wcnt = chunks[i + d].capacity
      BY <3>1, ChunkFacts
    <3>3. chunks'[i].wcnt = chunks[i + d].wcnt /\ chunks'[i].capacity = chunks[i + d].capacity
      BY <1>10
    <3> QED BY <3>1, <3>2, <3>3
  <2>3. ASSUME NEW i \in 1..K
        PROVE  chunks'[i].rcnt <= chunks'[i].wcnt
    <3>1. CASE i = 1
      <4>1. ks[1].rcnt + 1 <= ks[1].wcnt
        BY <1>4, <1>11
      <4> QED BY <3>1, <4>1, <1>11
    <3>2. CASE i # 1
      <4>1. i + d \in 1..L
        BY <1>6
      <4>2. chunks[i + d].rcnt <= chunks[i + d].wcnt
        BY <4>1, ChunkFacts
      <4>3. chunks'[i].rcnt = chunks[i + d].rcnt /\ chunks'[i].wcnt = chunks[i + d].wcnt
        BY <3>2, <1>10
      <4> QED BY <4>2, <4>3
    <3> QED BY <3>1, <3>2
  <2> QED BY <2>1, <2>2, <2>3, <1>9 DEF StoredInChunk
<1>13. ChunksInv'
  <2> SUFFICES ASSUME NEW i \in 1..K
               PROVE  /\ chunks'[i].capacity >= 1
                      /\ Len(chunks'[i].data) = chunks'[i].wcnt
                      /\ i > 1 => chunks'[i].rcnt = 0 /\ chunks'[i].wcnt >= 1
    BY <1>9 DEF ChunksInv
  <2>1. i + d \in 1..L /\ (i > 1 => i + d > 1) /\ (i > 1 => i # 1)
    BY <1>6
  <2>2. /\ chunks[i + d].capacity >= 1
        /\ Len(chunks[i + d].data) = chunks[i + d].wcnt
        /\ i + d > 1 => chunks[i + d].rcnt = 0 /\ chunks[i + d].wcnt >= 1
    BY <2>1, ChunkFacts
  <2>3. /\ chunks'[i].capacity = chunks[i + d].capacity
        /\ chunks'[i].wcnt = chunks[i + d].wcnt
        /\ chunks'[i].data = chunks[i + d].data
        /\ i # 1 => chunks'[i].rcnt = chunks[i + d].rcnt
    BY <1>10
  <2> QED BY <2>1, <2>2, <2>3
<1>14. /\ received' = Append(received, sent[Len(received) + 1])
       /\ received' \in Seq(Items) /\ Len(received') = Len(received) + 1
       /\ Len(received) \in Nat /\ Len(sent) \in Nat
  <2>1. /\ sent \in Seq(Items) /\ received \in Seq(Items) /\ size = Len(sent) - Len(received)
        /\ Len(received) \in Nat /\ Len(sent) \in Nat
    BY LenProperties DEF ContentInv
  <2>2. sent[Len(received) + 1] \in Items
    <3>1. Len(received) + 1 \in 1..Len(sent)
      BY <2>1
    <3> QED BY <2>1, <3>1, ElementOfSeq
  <2>3. received' = Append(received, sent[Len(received) + 1])
    BY <1>4, <1>5
  <2> QED BY <2>1, <2>2, <2>3, AppendProperties
<1>15. \E b \in [1..Len(chunks') -> 0..Len(sent')] : Layout(b)'
  <2>1. \A i \in 1..K : base[i + d] \in 0..Len(sent)
    BY <1>2, <1>6
  <2>a. PICK b \in [1..K -> 0..Len(sent)] : \A i \in 1..K : b[i] = base[i + d]
    <3>1. [i \in 1..K |-> base[i + d]] \in [1..K -> 0..Len(sent)]
      BY <2>1
    <3> QED BY <3>1
  <2>2. \A i \in 1..K : b[i] = base[i + d] /\ base[i + d] \in Nat
    BY <2>1, <2>a, <1>14
  <2>3. b[1] + chunks'[1].rcnt = Len(received')
    <3>1. b[1] \in Nat /\ b[1] + ks[1].rcnt = Len(received)
      BY <2>2, <1>3, <1>6
    <3>2. b[1] + (ks[1].rcnt + 1) = Len(received) + 1
      BY <3>1, <1>11, <1>14, AddOne
    <3> QED BY <3>2, <1>11, <1>14
  <2>4. b[K] + chunks'[K].wcnt = Len(sent')
    <3>1. K + d = L /\ K \in 1..K
      BY <1>3, <1>4, <1>6
    <3>2. b[K] = base[L] /\ chunks'[K].wcnt = chunks[L].wcnt
      BY <3>1, <2>2, <1>10
    <3> QED BY <3>2, <1>2 DEF Layout, wc
  <2>5. ASSUME NEW i \in 1..K
        PROVE  /\ i < K => b[i + 1] = b[i] + chunks'[i].wcnt
               /\ b[i] + chunks'[i].wcnt <= Len(sent')
               /\ \A j \in 1..chunks'[i].wcnt : chunks'[i].data[j] = sent'[b[i] + j]
    <3>1. i + d \in 1..L /\ (i < K => i + d < L /\ i + 1 \in 1..K /\ (i + 1) + d = (i + d) + 1)
      BY <1>3, <1>6
    <3>2. /\ i + d < L => base[(i + d) + 1] = base[i + d] + chunks[i + d].wcnt
          /\ base[i + d] + chunks[i + d].wcnt <= Len(sent)
          /\ \A j \in 1..chunks[i + d].wcnt : chunks[i + d].data[j] = sent[base[i + d] + j]
      BY <3>1, <1>2 DEF Layout
    <3>3. /\ chunks'[i].wcnt = chunks[i + d].wcnt /\ chunks'[i].data = chunks[i + d].data
          /\ b[i] = base[i + d] /\ (i < K => b[i + 1] = base[(i + d) + 1])
      BY <3>1, <2>2, <1>10
    <3> QED BY <3>1, <3>2, <3>3
  <2>6. Layout(b)'
    BY <2>3, <2>4, <2>5, <1>9 DEF Layout, rc, wc
  <2> QED BY <2>a, <2>6, <1>9
<1>16. /\ size' = Len(sent') - Len(received') /\ size' \in Nat
       /\ capacity' # 0 => size' <= capacity'
  <2>1. /\ size = Len(sent) - Len(received) /\ size \in Nat /\ capacity \in Nat
        /\ capacity # 0 => size <= capacity
    BY DEF ContentInv
  <2>2. size' = size - 1 /\ capacity' = capacity /\ sent' = sent
    BY <1>5
  <2> QED BY <2>1, <2>2, <1>14
<1>17. chunks' # <<>>
  BY <1>6, <1>9, EmptySeq
<1>18. ContentInv'
  BY <1>1, <1>9, <1>12, <1>13, <1>14, <1>15, <1>16, <1>17 DEF ContentInv
<1> QED BY <1>14, <1>18

-----------------------------------------------------------------------------
(* The invariant, and what follows from it *)

Inv == ThreadInv /\ ContentInv

(* A channel that does not exist yet has no chunks. *)
LEMMA InitContent == Init => ContentInv
<1> SUFFICES ASSUME Init PROVE ContentInv
  OBVIOUS
<1>1. capacity \in Nat /\ chunk_cap \in Nat \ {0} /\ size = 0 /\ state = "none"
      /\ chunks = <<>> /\ sent = <<>> /\ received = <<>>
  BY ChannelAssumption DEF Init
<1>2. /\ chunks \in Seq(ChunkType) /\ sent \in Seq(Items) /\ received \in Seq(Items)
      /\ Len(chunks) = 0 /\ Len(sent) = 0 /\ Len(received) = 0
  BY <1>1, EmptySeq
<1>3. StoredInChunk /\ ChunksInv
  BY <1>1, <1>2 DEF StoredInChunk, ChunksInv
<1> QED BY <1>1, <1>2, <1>3 DEF ContentInv

(* The first chunk of a new channel holds none of its items. *)
LEMMA NewContent ==
  ASSUME ContentInv, NEW t \in Threads, New(t)
  PROVE  ContentInv'
<1> DEFINE new == NewChunk(chunk_cap)
<1>1. /\ state = "none" /\ state' = "live" /\ chunks' = <<new>>
      /\ UNCHANGED <<capacity, size, chunk_cap, sent, received>>
  BY DEF New, history
<1>2. /\ capacity \in Nat /\ chunk_cap \in Nat \ {0} /\ size = 0
      /\ sent \in Seq(Items) /\ received \in Seq(Items)
      /\ size = Len(sent) - Len(received)
  BY <1>1 DEF ContentInv
<1>3. /\ new \in ChunkType /\ new.capacity = chunk_cap
      /\ new.rcnt = 0 /\ new.wcnt = 0 /\ new.data = <<>>
  BY <1>2, NewChunkProperties
<1> HIDE DEF new
<1>4. /\ chunks' \in Seq(ChunkType) /\ Len(chunks') = 1 /\ chunks'[1] = new
      /\ chunks' # <<>> /\ DOMAIN chunks' = 1..1
  BY <1>1, <1>3
<1>5. StoredInChunk'
  BY <1>2, <1>3, <1>4 DEF StoredInChunk
<1>6. ChunksInv'
  BY <1>2, <1>3, <1>4, EmptySeq DEF ChunksInv
<1>7. \E base \in [1..Len(chunks') -> 0..Len(sent')] : Layout(base)'
  <2>1. Len(sent) \in Nat /\ Len(received) = Len(sent) /\ Len(sent) + 0 = Len(sent)
    <3>1. Len(sent) \in Nat /\ Len(received) \in Nat
      BY <1>2, LenProperties
    <3> QED BY <3>1, <1>2
  <2>2. PICK base \in [1..1 -> 0..Len(sent)] : base[1] = Len(sent)
    <3> DEFINE b == [i \in 1..1 |-> Len(sent)]
    <3>1. b \in [1..1 -> 0..Len(sent)] /\ b[1] = Len(sent)
      BY <2>1
    <3> HIDE DEF b
    <3> QED BY <3>1
  <2>3. Layout(base)'
    <3>1. chunks'[1].rcnt = 0 /\ chunks'[1].wcnt = 0
      BY <1>3, <1>4
    <3>2. \A i \in 1..Len(chunks') : i = 1 /\ ~ (i < Len(chunks'))
      BY <1>4
    <3> QED BY <1>1, <1>4, <2>1, <2>2, <3>1, <3>2 DEF Layout, rc, wc
  <2> QED BY <1>1, <1>4, <2>2, <2>3
<1>8. capacity' # 0 => size' <= capacity'
  BY <1>1, <1>2
<1> QED BY <1>1, <1>2, <1>4, <1>5, <1>6, <1>7, <1>8 DEF ContentInv

(* A step that leaves the items and the chunks alone. *)
LEMMA SameContent ==
  ASSUME ContentInv, UNCHANGED <<shared, state, history>>
  PROVE  ContentInv'
BY DEF ContentInv, StoredInChunk, ChunksInv, Layout, rc, wc, shared, history

(* Every step of a thread sends an item, receives the oldest one, or does  *)
(* neither; none is lost, and a full channel takes none.                   *)
LEMMA NextContent ==
  ASSUME ~ UncheckedWrites, Inv, [Next]_vars
  PROVE  /\ ContentInv'
         /\ \/ \E v \in Items : ~ IsFull /\ sent' = Append(sent, v) /\ UNCHANGED <<capacity, received>>
            \/ /\ size > 0 /\ received' = Append(received, sent[Len(received) + 1])
               /\ UNCHANGED <<capacity, sent>>
            \/ UNCHANGED <<capacity, sent, received>>
<1> DEFINE Sends == \E v \in Items : /\ ~ IsFull /\ sent' = Append(sent, v)
                                     /\ UNCHANGED <<capacity, received>>
           Receives == /\ size > 0 /\ received' = Append(received, sent[Len(received) + 1])
                       /\ UNCHANGED <<capacity, sent>>
           Neither == UNCHANGED <<capacity, sent, received>>
<1> SUFFICES ContentInv' /\ (Sends \/ Receives \/ Neither)
  OBVIOUS
<1> USE DEF Inv
<1>0. CASE UNCHANGED vars
  BY <1>0, SameContent DEF vars, shared, refs, history
<1>a. ASSUME NEW v \in Items, ~ IsFull, state = "live", WriteItem(v),
             UNCHANGED <<capacity, refs, received>>
      PROVE  ContentInv' /\ Sends
  <2>1. UNCHANGED <<capacity, state, received>>
    BY <1>a DEF refs
  <2>2. ContentInv'
    BY <1>a, <2>1, WriteInPlace, WriteNewChunk
  <2>3. Sends
    BY <1>a DEF WriteItem
  <2> QED BY <2>2, <2>3
<1>b. ASSUME size > 0, ReadItem, UNCHANGED <<capacity, chunk_cap, refs, sent>>
      PROVE  ContentInv' /\ Receives
  BY <1>b, ReadItemContent DEF refs
<1>c. ASSUME UNCHANGED <<shared, state, history>>
      PROVE  ContentInv' /\ Neither
  BY <1>c, SameContent DEF shared, history
<1>d. size \in Nat /\ (\A t \in Threads : t \in holders => state = "live")
  BY DEF ContentInv, ThreadInv, HoldersKeepItAlive
<1> SUFFICES ASSUME NEW t \in Threads,
                    \/ New(t)
                    \/ \E v \in Items : Write(t, v)
                    \/ \E v \in Items : WriteTry(t, v)
                    \/ Read(t)
                    \/ ReadOn(t)
                    \/ ReadTry(t)
                    \/ \E u \in Threads : CloneInit(t, u)
                    \/ Dtor(t)
                    \/ Drain(t)
                    \/ Free(t)
             PROVE  ContentInv' /\ (Sends \/ Receives \/ Neither)
  BY <1>0 DEF Next
<1> HIDE DEF Inv, Sends, Receives
<1>1. CASE New(t)
  <2>1. ContentInv'
    BY <1>1, NewContent DEF Inv
  <2> QED BY <1>1, <2>1 DEF New, history
<1>2. ASSUME NEW v \in Items, Write(t, v) PROVE ContentInv' /\ Sends
  BY <1>2, <1>a, <1>d DEF Write, Calls, IsFull
<1>3. ASSUME NEW v \in Items, WriteTry(t, v) PROVE ContentInv' /\ Sends
  BY <1>3, <1>a, <1>d DEF WriteTry, Calls
<1>4. CASE Read(t) \/ ReadOn(t) \/ ReadTry(t)
  <2>1. CASE size = 0
    BY <1>4, <2>1, <1>c DEF Read, ReadOn, ReadTry, shared, refs, history
  <2>2. CASE size > 0
    BY <1>4, <2>2, <1>b DEF Read, ReadOn, ReadTry
  <2> QED BY <2>1, <2>2, <1>d
<1>5. ASSUME NEW u \in Threads, CloneInit(t, u) PROVE ContentInv' /\ Neither
  BY <1>5, <1>c DEF CloneInit
<1>6. CASE Dtor(t)
  BY <1>6, <1>c DEF Dtor
<1>7. CASE Drain(t)
  BY <1>7, <1>b DEF Drain
<1>8. CASE Free(t)
  <2>1. /\ size = 0 /\ state' = "freed" /\ chunks' = <<>>
        /\ UNCHANGED <<capacity, size, chunk_cap, sent, received>>
    BY <1>8 DEF Free, history
  <2>2. chunks' \in Seq(ChunkType) /\ Len(chunks') = 0
    BY <2>1, EmptySeq
  <2>3. StoredInChunk' /\ ChunksInv'
    BY <2>1, <2>2 DEF StoredInChunk, ChunksInv
  <2> QED BY <2>1, <2>2, <2>3 DEF ContentInv, Inv
<1> QED BY <1>1, <1>2, <1>3, <1>4, <1>5, <1>6, <1>7, <1>8

(* The whole invariant is inductive, if bounded channels are written to    *)
(* with hlt_channel_write_try only.                                        *)
LEMMA Invariant ==
  ASSUME ~ UncheckedWrites
  PROVE  Spec => []Inv
<1>1. Init => Inv
  BY InitThread, InitContent DEF Inv
<1>2. Inv /\ [Next]_vars => Inv'
  BY NextThread, NextContent DEF Inv
<1> QED BY <1>1, <1>2, PTL DEF Spec

(* The types of the variables, and that no item is stored outside of its   *)
(* chunk, in every channel whose bound the writers respect.                *)
THEOREM TypeCorrect ==
  ASSUME ~ UncheckedWrites
  PROVE  Spec => []TypeOK
<1>1. Inv => TypeOK
  BY DEF Inv, ThreadInv, ContentInv, TypeOK, ChunkType
<1> QED BY <1>1, Invariant, PTL

(* The assert at channel.c:126 never fails, and a reader of a channel that *)
(* is not empty finds an item where it looks.                              *)
THEOREM ReaderFindsItem ==
  ASSUME ~ UncheckedWrites
  PROVE  Spec => []NextItemThere
<1>1. Inv => NextItemThere
  BY NextItem DEF Inv, NextItemThere
<1> QED BY <1>1, Invariant, PTL

(* A signal per write is enough: no reader sleeps while there is an item   *)
(* that nobody was woken for, with any number of readers and writers, and  *)
(* also for writes past the bound.                                         *)
THEOREM WakeupsKept == Spec => []NoLostWakeup
<1>1. ThreadInv => NoLostWakeup
  <2> SUFFICES ASSUME ThreadInv, size > 0, Waiting # {}
               PROVE  \E t \in Threads : pc[t] = "woken"
    BY DEF NoLostWakeup
  <2>1. Cardinality(Woken) # 0
    BY ReadersFinite DEF ThreadInv
  <2>2. Woken # {}
    BY <2>1, FS_EmptySet
  <2> QED BY <2>2 DEF Woken
<1> QED BY <1>1, ThreadInvariant, PTL

(* The last thread that has the channel tears it down, and only when no    *)
(* other one has it or waits in it.                                        *)
THEOREM TeardownIsLast == Spec => []HoldersKeepItAlive
<1>1. ThreadInv => HoldersKeepItAlive
  BY DEF ThreadInv
<1> QED BY <1>1, ThreadInvariant, PTL

(* Chunks, mutex, condition variable and reference count together are a    *)
(* bounded FIFO queue, as channel.h promises.                              *)
THEOREM ChannelIsFifo ==
  ASSUME ~ UncheckedWrites
  PROVE  Spec => ImplementsFifo
<1>1. Init => Fifo!Init
  BY ChannelAssumption DEF Init, Fifo!Init
<1>2. Inv /\ [Next]_vars => [Fifo!Next]_(Fifo!vars)
  <2> SUFFICES ASSUME Inv, [Next]_vars PROVE [Fifo!Next]_(Fifo!vars)
    OBVIOUS
  <2>1. Len(sent) - Len(received) = size /\ size \in Nat /\ capacity \in Nat
        /\ (capacity # 0 => size <= capacity)
    BY DEF Inv, ContentInv
  <2>2. ASSUME NEW v \in Items, ~ IsFull, sent' = Append(sent, v),
               UNCHANGED <<capacity, received>>
        PROVE  Fifo!Send(v)
    <3>1. capacity = 0 \/ size < capacity
      BY <2>1, <2>2 DEF IsFull
    <3> QED BY <2>1, <2>2, <3>1 DEF Fifo!Send, Fifo!Held
  <2>3. ASSUME size > 0, received' = Append(received, sent[Len(received) + 1]),
               UNCHANGED <<capacity, sent>>
        PROVE  Fifo!Receive
    BY <2>1, <2>3 DEF Fifo!Receive, Fifo!Held
  <2>4. CASE UNCHANGED <<capacity, sent, received>>
    BY <2>4 DEF Fifo!vars
  <2> QED BY <2>2, <2>3, <2>4, NextContent DEF Fifo!Next
<1> QED
  BY <1>1, <1>2, Invariant, PTL DEF Spec, ImplementsFifo, Fifo!Spec
=============================================================================
