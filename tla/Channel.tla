------------------------------- MODULE Channel -------------------------------
(***************************************************************************)
(* A HILTI channel, libhilti/channel.c: a FIFO queue that threads share,   *)
(* stored in a list of chunks.  Every operation runs under the channel's   *)
(* mutex and is one action; a blocking read that finds the channel empty   *)
(* waits for a signal and then competes for the mutex again.  The last     *)
(* thread to release the channel tears it down without the mutex.          *)
(*                                                                         *)
(* Left out: running out of memory, and what the items are (they are       *)
(* copied deeply on their way in, and are never modified in the channel).  *)
(***************************************************************************)
EXTENDS Integers, Sequences, FiniteSets

CONSTANTS
  Threads,             \* threads that may hold the channel
  Items,               \* items to write
  Capacities,          \* capacities that a program gives a channel
  INITIAL_CHUNK_SIZE,
  MAX_CHUNK_SIZE,
  MaxWrites,           \* bound on the items written
  UncheckedWrites      \* host code calls hlt_channel_write on bounded channels

ASSUME ChannelAssumption ==
  /\ IsFiniteSet(Threads)
  /\ Capacities \subseteq Nat
  /\ INITIAL_CHUNK_SIZE \in Nat \ {0} /\ MAX_CHUNK_SIZE \in Nat
  /\ MaxWrites \in Nat
  /\ UncheckedWrites \in BOOLEAN

VARIABLES
  capacity,   \* most items in the channel, zero if unbounded
  size,       \* items in the channel
  chunk_cap,  \* capacity of the next chunk
  chunks,     \* the chunks from rc to wc
  ref_cnt,    \* references to the shared state
  state,      \* "none" before hlt_channel_new, "live", "freed"
  holders,    \* threads that have an instance of the channel
  pc,         \* thread -> "idle", "waiting", "woken" or "teardown"
  sent,       \* history: the items written
  received    \* history: the items read

shared == <<capacity, size, chunk_cap, chunks>>
refs == <<ref_cnt, state, holders>>
history == <<sent, received>>
vars == <<shared, refs, pc, history>>

(* _hlt_chunk_create; data holds what was written to the chunk. *)
NewChunk(cap) == [capacity |-> cap, wcnt |-> 0, rcnt |-> 0, data |-> <<>>]

Init ==
  /\ capacity \in Capacities
  /\ size = 0
  /\ chunk_cap = INITIAL_CHUNK_SIZE
  /\ chunks = <<>>
  /\ ref_cnt = 0
  /\ state = "none"
  /\ holders = {}
  /\ pc = [t \in Threads |-> "idle"]
  /\ sent = <<>>
  /\ received = <<>>

(* hlt_channel_new and _hlt_channel_init *)
New(t) ==
  /\ state = "none"
  /\ state' = "live"
  /\ ref_cnt' = 1
  /\ holders' = {t}
  /\ chunks' = <<NewChunk(chunk_cap)>>
  /\ UNCHANGED <<capacity, size, chunk_cap, pc, history>>

(* Thread t may call an operation of the channel. *)
Calls(t) == t \in holders /\ pc[t] = "idle"

-----------------------------------------------------------------------------
wc == chunks[Len(chunks)]
rc == chunks[1]

(* Halve a size until it fits in what is left; zero when nothing is left.  *)
(* The code compares unsigned: a negative rest is larger than any size.    *)
Fits(n, room) == room < 0 \/ n <= room
Halved(n, room) ==
  LET halve[k \in 0..n] == IF Fits(k, room) THEN k ELSE halve[k \div 2]
  IN  halve[n]

(* The size of the next chunk, if n items are in the channel. *)
NextChunkCap(c, n) ==
  IF capacity # 0 THEN Halved(c, capacity - n)
  ELSE IF c < MAX_CHUNK_SIZE THEN 2 * c ELSE c

Put(k, v) ==
  [capacity |-> k.capacity, wcnt |-> k.wcnt + 1, rcnt |-> k.rcnt, data |-> Append(k.data, v)]

(* Fault: no new chunk is linked when the last one is full. *)
WriteItem_SameChunk(v) ==
  /\ chunks' = [chunks EXCEPT ![Len(chunks)] = Put(@, v)]
  /\ UNCHANGED chunk_cap
  /\ size' = size + 1
  /\ sent' = Append(sent, v)

(* _hlt_channel_write_item *)
WriteItem(v) ==
  /\ IF wc.wcnt = wc.capacity
       THEN LET cap == NextChunkCap(chunk_cap, size)
            IN  /\ chunk_cap' = cap
                /\ chunks' = Append(chunks, Put(NewChunk(cap), v))
       ELSE /\ chunks' = [chunks EXCEPT ![Len(chunks)] = Put(@, v)]
            /\ UNCHANGED chunk_cap
  /\ size' = size + 1
  /\ sent' = Append(sent, v)

(* The chunks that are left once the reader has moved on to the next one.  *)
(* The one before it is not freed.                                         *)
ReadChunks == IF rc.rcnt = rc.capacity THEN Tail(chunks) ELSE chunks

(* Fault: the position in the chunk does not advance. *)
ReadItem_Again ==
  LET ks == ReadChunks
  IN  /\ chunks' = ks
      /\ size' = size - 1
      /\ received' = Append(received, ks[1].data[ks[1].rcnt + 1])

(* _hlt_channel_read_item *)
ReadItem ==
  LET ks == ReadChunks
  IN  /\ chunks' = [ks EXCEPT ![1].rcnt = @ + 1]
      /\ size' = size - 1
      /\ received' = Append(received, ks[1].data[ks[1].rcnt + 1])

Waiting == {t \in Threads : pc[t] = "waiting"}

(* Fault: only a write to an empty channel signals. *)
Signal_WhenEmpty ==
  IF Waiting = {} \/ size > 0 THEN UNCHANGED pc
  ELSE \E t \in Waiting : pc' = [pc EXCEPT ![t] = "woken"]

(* pthread_cond_signal on empty_cv.  Nobody ever waits for full_cv. *)
Signal ==
  IF Waiting = {} THEN UNCHANGED pc
  ELSE \E t \in Waiting : pc' = [pc EXCEPT ![t] = "woken"]

-----------------------------------------------------------------------------
(* hlt_channel_write: it does not look at the capacity. *)
Write(t, v) ==
  /\ Calls(t) /\ Len(sent) < MaxWrites
  /\ UncheckedWrites \/ capacity = 0
  /\ WriteItem(v)
  /\ Signal
  /\ UNCHANGED <<capacity, refs, received>>

(* Fault: one item more than the capacity is let in. *)
IsFull_Late == capacity # 0 /\ size > capacity

IsFull == capacity # 0 /\ size = capacity

(* hlt_channel_write_try; on a full channel it throws WouldBlock. *)
WriteTry(t, v) ==
  /\ Calls(t) /\ Len(sent) < MaxWrites
  /\ ~IsFull
  /\ WriteItem(v)
  /\ Signal
  /\ UNCHANGED <<capacity, refs, received>>

(* hlt_channel_read *)
Read(t) ==
  /\ Calls(t)
  /\ IF size = 0
       THEN pc' = [pc EXCEPT ![t] = "waiting"] /\ UNCHANGED <<size, chunks, received>>
       ELSE ReadItem /\ UNCHANGED pc
  /\ UNCHANGED <<capacity, chunk_cap, refs, sent>>

(* pthread_cond_wait returns, also without a signal: the condition is      *)
(* tested again.                                                           *)
ReadOn(t) ==
  /\ pc[t] \in {"waiting", "woken"}
  /\ IF size = 0
       THEN pc' = [pc EXCEPT ![t] = "waiting"] /\ UNCHANGED <<size, chunks, received>>
       ELSE ReadItem /\ pc' = [pc EXCEPT ![t] = "idle"]
  /\ UNCHANGED <<capacity, chunk_cap, refs, sent>>

(* hlt_channel_read_try; on an empty channel it throws WouldBlock. *)
ReadTry(t) ==
  /\ Calls(t)
  /\ size > 0
  /\ ReadItem
  /\ UNCHANGED <<capacity, chunk_cap, refs, pc, sent>>

-----------------------------------------------------------------------------
(* Fault: an instance that another thread gets is not counted. *)
CloneInit_NotCounted(t, u) ==
  /\ Calls(t) /\ u \notin holders
  /\ holders' = holders \cup {u}
  /\ UNCHANGED <<shared, ref_cnt, state, pc, history>>

(* hlt_channel_clone_init: thread u gets an instance of its own. *)
CloneInit(t, u) ==
  /\ Calls(t) /\ u \notin holders
  /\ ref_cnt' = ref_cnt + 1
  /\ holders' = holders \cup {u}
  /\ UNCHANGED <<shared, state, pc, history>>

(* hlt_channel_dtor: under the mutex *)
Dtor(t) ==
  /\ Calls(t)
  /\ holders' = holders \ {t}
  /\ ref_cnt' = ref_cnt - 1
  /\ pc' = IF ref_cnt - 1 > 0 THEN pc ELSE [pc EXCEPT ![t] = "teardown"]
  /\ UNCHANGED <<shared, state, history>>

(* ... and without it, for the last reference: the items that are left are *)
(* read and dropped, one by one ...                                        *)
Drain(t) ==
  /\ pc[t] = "teardown" /\ size > 0
  /\ ReadItem
  /\ UNCHANGED <<capacity, chunk_cap, refs, pc, sent>>

(* ... and everything is freed. *)
Free(t) ==
  /\ pc[t] = "teardown" /\ size = 0
  /\ state' = "freed"
  /\ chunks' = <<>>
  /\ pc' = [pc EXCEPT ![t] = "idle"]
  /\ UNCHANGED <<capacity, size, chunk_cap, ref_cnt, holders, history>>

-----------------------------------------------------------------------------
Next ==
  \E t \in Threads :
    \/ New(t)
    \/ \E v \in Items : Write(t, v)
    \/ \E v \in Items : WriteTry(t, v)
    \/ Read(t)
    \/ ReadOn(t)
    \/ ReadTry(t)
    \/ \E u \in Threads : CloneInit(t, u)
    \/ Dtor(t)
    \/ Drain(t)
    \/ Free(t)

Spec == Init /\ [][Next]_vars

-----------------------------------------------------------------------------
(* No item is ever stored outside of its chunk, whatever sequence of chunk *)
(* sizes the fill level has led to (channel.c:149-176).                    *)
StoredInChunk ==
  \A i \in DOMAIN chunks :
    /\ chunks[i].wcnt <= chunks[i].capacity
    /\ chunks[i].rcnt <= chunks[i].wcnt
    /\ i < Len(chunks) => chunks[i].wcnt = chunks[i].capacity

(* The types of the variables; the chunks are well-formed. *)
TypeOK ==
  /\ StoredInChunk
  /\ capacity \in Nat /\ size \in Nat /\ chunk_cap \in Nat
  /\ chunks \in Seq([capacity : Nat, wcnt : Nat, rcnt : Nat, data : Seq(Items)])
  /\ ref_cnt \in Nat
  /\ state \in {"none", "live", "freed"}
  /\ holders \subseteq Threads
  /\ pc \in [Threads -> {"idle", "waiting", "woken", "teardown"}]
  /\ sent \in Seq(Items) /\ received \in Seq(Items)

(* A reader that is through with its chunk finds the next one (the assert  *)
(* at channel.c:126), and the next item is in the chunk it looks at.       *)
NextItemThere ==
  size > 0 =>
    \/ rc.rcnt < rc.capacity /\ rc.rcnt < rc.wcnt
    \/ rc.rcnt = rc.capacity /\ Len(chunks) > 1 /\ chunks[2].rcnt < chunks[2].wcnt

(* No reader sleeps on while there is something to read, unless another    *)
(* one was woken for it: a signal per write is enough (channel.c:270).     *)
NoLostWakeup ==
  size > 0 /\ Waiting # {} => \E t \in Threads : pc[t] = "woken"

(* The count is that of the instances, and nobody still uses the channel,  *)
(* or waits in it, when it is torn down without the mutex (channel.c:69).  *)
HoldersKeepItAlive ==
  /\ ref_cnt = Cardinality(holders)
  /\ holders # {} => state = "live"
  /\ \A t \in Threads : pc[t] \in {"waiting", "woken"} => t \in holders
  /\ \A t \in Threads : pc[t] = "teardown" => holders = {} /\ state = "live"

(* The channel is a bounded FIFO queue: this is what channel.h promises.   *)
Fifo == INSTANCE BoundedFifo WITH limit <- capacity
ImplementsFifo == Fifo!Spec
=============================================================================
