----------------------------- MODULE SinkProofs -----------------------------
(***************************************************************************)
(* Proofs about the sink, for programs that give it only the input it can  *)
(* handle: the streams that the parsers get are ordered and have no holes, *)
(* buffered data keeps its content, and the sink does not get stuck.       *)
(***************************************************************************)
EXTENDS Sink, SequenceTheorems, NaturalsInduction, WellFoundedInduction, TLAPS

ChunkType == [rseq : Nat, rupper : Nat, data : Seq(Byte)]

(* A chunk has a byte at least, and its data is that of its range. *)
DataExact(k) ==
  k.data # Gap => k.data = [i \in 1..(k.rupper - k.rseq) |->
                              [off |-> k.rseq + i - 1, ver |-> k.data[i].ver]]
Exact(k) == k.rseq < k.rupper /\ DataExact(k)

Apart(k, n) == n.rupper <= k.rseq \/ k.rupper <= n.rseq

(* The chunks cs are well-formed, and none is from before trim altogether. *)
WellFormed(cs, trim) ==
  /\ cs \subseteq ChunkType
  /\ \A k \in cs : Exact(k) /\ trim < k.rupper
  /\ \A k, n \in cs : k = n \/ Apart(k, n)

Covers(cs, o) == \E k \in cs : k.rseq <= o /\ o < k.rupper

(* Everything before position r is trimmed or in the buffer. *)
Reached(cs, trim, r) == \A o \in Nat : trim <= o /\ o < r => Covers(cs, o)

PositionInv ==
  pc # "deliver" =>
    last_reassem_rseq <= cur_rseq /\ Reached(chunks, trim_rseq, last_reassem_rseq)

(* The loop over the chunks is at a chunk. *)
TryInv == pc = "try" /\ c # None => \E k \in chunks : k.rseq = c

(* The stream waits for a skip, or what was delivered ends at its position *)
(* and between two chunks, and the loop is not past the data that is next; *)
(* between two calls that data is not in the buffer.                       *)
WaitInv ==
  pc # "deliver" =>
    \/ stopped = Position
    \/ /\ trim_rseq <= cur_rseq /\ last_reassem_rseq = cur_rseq
       /\ \A k \in chunks : last_reassem_rseq <= k.rseq \/ k.rupper <= last_reassem_rseq
       /\ \/ pc = "try" /\ c # None /\ c <= last_reassem_rseq
          \/ \A k \in chunks : k.rseq # last_reassem_rseq

(* What is being delivered is the chunk that the loop is at, or new data   *)
(* for the end of the stream while nothing is buffered.                    *)
DeliverInv ==
  pc = "deliver" =>
    /\ Exact(now) /\ now.data # Gap /\ s >= 1
    /\ c = None => chunks = {} /\ now.rseq = cur_rseq /\ last_reassem_rseq <= cur_rseq
    /\ c # None => /\ c = now.rseq /\ now \in chunks
                   /\ last_reassem_rseq = now.rupper /\ now.rseq <= cur_rseq

BufferTyped ==
  /\ initial_seq \in Nat /\ cur_rseq \in Nat /\ last_reassem_rseq \in Nat /\ trim_rseq \in Nat
  /\ pc \in {"idle", "try", "deliver"}
  /\ c \in Nat \cup {None}
  /\ now \in ChunkType
  /\ s \in Nat /\ excpt \in BOOLEAN
  /\ stopped \in Nat \cup {None}

BufferInv ==
  /\ BufferTyped
  /\ WellFormed(chunks, trim_rseq)
  /\ PositionInv
  /\ TryInv
  /\ WaitInv
  /\ DeliverInv

(* Every parser is in the list once, and a new one is not in it yet. *)
ListInv ==
  /\ head \in Seq(Parsers)
  /\ \A i, j \in 1..Len(head) : head[i] = head[j] => i = j
  /\ \A i \in 1..Len(head) : head[i] \notin fresh
  /\ \A p \in fresh : stream[p] = <<>>
  /\ disconnected \subseteq Connected /\ fresh \subseteq Parsers
  /\ stream \in [Parsers -> Seq(Nat)]
  /\ excused \in [Parsers -> SUBSET Nat]

(* All that parser p got is before position r. *)
Before(p, r) == \A i \in 1..Len(stream[p]) : stream[p][i] < r

(* All that the parsers got is before the position of the reassembly; the  *)
(* ones that are still to get the current data are before that.            *)
OrderInv ==
  /\ StreamInOrder
  /\ pc # "deliver" => \A p \in Parsers : Before(p, last_reassem_rseq)
  /\ pc = "deliver" => /\ \A p \in Parsers : Before(p, now.rupper)
                       /\ \A j \in s..Len(head) : Before(head[j], now.rseq)

(* All bytes between the last one of stream x and position r are in X. *)
Knows(x, X, r) == x # <<>> => \A o \in Nat : x[Len(x)] < o /\ o < r => o \in X

(* All bytes that are missing in stream x are in X. *)
NoHoleIn(x, X) == \A i \in 1..(Len(x) - 1) : (x[i] + 1)..(x[i + 1] - 1) \subseteq X

(* Parser p knows of all bytes between its last one and position r. *)
Informed(p, r) == Knows(stream[p], excused[p], r)

(* The connected parsers know of what is missing up to the end of the      *)
(* stream, or up to the data that is being delivered.                      *)
HoleInv ==
  /\ NoSilentHole
  /\ pc # "deliver" => \A j \in 1..Len(head) : Informed(head[j], cur_rseq)
  /\ pc = "deliver" =>
       \A j \in 1..Len(head) : Informed(head[j], IF j < s THEN now.rupper ELSE now.rseq)

Inv == BufferInv /\ ListInv /\ OrderInv /\ HoleInv

-----------------------------------------------------------------------------
(* Every non-empty set of naturals has a least element. *)
LEMMA LeastNat ==
  ASSUME NEW T, T \subseteq Nat, T # {}
  PROVE  \E m \in T : \A k \in T : m <= k
<1> DEFINE R == {ss \in Nat \X Nat : ss[1] < ss[2]}
<1>1. PICK m \in T : \A k \in T : ~ (<<k, m>> \in R)
  <2>1. IsWellFoundedOn(R, Nat)
    BY NatLessThanWellFounded DEF OpToRel
  <2> HIDE DEF R
  <2> QED BY <2>1, WFMin
<1>2. \A k \in T : ~ (k < m)
  BY <1>1
<1> QED BY <1>2

(* The loops go from a chunk to the one with the next sequence number. *)
NextOf(cs, r, m) ==
  /\ m = None => \A k \in cs : ~ (k.rseq > r)
  /\ m # None => /\ m \in Nat /\ m > r
                 /\ \E k \in cs : k.rseq = m
                 /\ \A k \in cs : k.rseq > r => m <= k.rseq

LEMMA LeastAfter ==
  ASSUME NEW cs, cs \subseteq ChunkType, NEW r \in Int,
         NEW T, T = {k.rseq : k \in {k \in cs : k.rseq > r}}
  PROVE  NextOf(cs, r, IF T = {} THEN None ELSE CHOOSE m \in T : \A n \in T : m <= n)
<1>1. T \subseteq Nat
  BY DEF ChunkType
<1>2. CASE T = {}
  BY <1>2 DEF NextOf, None
<1>3. CASE T # {}
  <2> DEFINE m == CHOOSE m \in T : \A n \in T : m <= n
  <2>1. m \in T /\ \A n \in T : m <= n
    BY <1>1, <1>3, LeastNat
  <2> HIDE DEF m
  <2>2. m \in Nat /\ m # None
    BY <1>1, <2>1 DEF None
  <2>3. NextOf(cs, r, m)
    BY <2>1, <2>2 DEF NextOf
  <2> QED BY <1>3, <2>3 DEF m
<1> QED BY <1>2, <1>3

(* c->next *)
LEMMA AfterIs ==
  ASSUME chunks \subseteq ChunkType, NEW r \in Int
  PROVE  NextOf(chunks, r, After(r))
<1> DEFINE T == {k.rseq : k \in {k \in chunks : k.rseq > r}}
<1>1. After(r) = IF T = {} THEN None ELSE CHOOSE m \in T : \A n \in T : m <= n
  BY DEF After
<1> HIDE DEF T
<1>2. T = {k.rseq : k \in {k \in chunks : k.rseq > r}}
  BY DEF T
<1>3. NextOf(chunks, r, IF T = {} THEN None ELSE CHOOSE m \in T : \A n \in T : m <= n)
  BY <1>2, LeastAfter
<1> QED BY <1>1, <1>3

(* The first chunk of the trimmed list *)
LEMMA FirstIs ==
  ASSUME chunks' \subseteq ChunkType
  PROVE  NextOf(chunks', None, FirstChunk')
<1> DEFINE T == {k.rseq : k \in {k \in chunks' : k.rseq > None}}
<1>1. FirstChunk' = IF T = {} THEN None ELSE CHOOSE m \in T : \A n \in T : m <= n
  BY DEF FirstChunk, After
<1> HIDE DEF T
<1>2. T = {k.rseq : k \in {k \in chunks' : k.rseq > None}}
  BY DEF T
<1>3. None \in Int
  BY DEF None
<1>4. NextOf(chunks', None, IF T = {} THEN None ELSE CHOOSE m \in T : \A n \in T : m <= n)
  BY <1>2, <1>3, LeastAfter
<1> QED BY <1>1, <1>4

(* Ranges of the chunks of a well-formed list *)
LEMMA Ranges ==
  ASSUME NEW cs, NEW trim, WellFormed(cs, trim)
  PROVE  /\ \A k \in cs : k.rseq \in Nat /\ k.rupper \in Nat /\ k.rseq < k.rupper
                          /\ trim < k.rupper
         /\ \A k, n \in cs : k = n \/ n.rupper <= k.rseq \/ k.rupper <= n.rseq
<1>1. \A k \in cs : k.rseq \in Nat /\ k.rupper \in Nat
  BY DEF WellFormed, ChunkType
<1> QED BY <1>1 DEF WellFormed, Exact, Apart

(* Chunks stay well-formed when some of them go, and trim moves up to, but *)
(* not to the end of, what is left.                                        *)
LEMMA FewerChunks ==
  ASSUME NEW cs, NEW trim, WellFormed(cs, trim), NEW ds, ds \subseteq cs,
         NEW r, \A k \in ds : r < k.rupper
  PROVE  WellFormed(ds, r)
BY DEF WellFormed

(* The list has one chunk at most for a sequence number. *)
LEMMA ChunkAtIs ==
  ASSUME WellFormed(chunks, trim_rseq), NEW k \in chunks
  PROVE  ChunkAt(k.rseq) = k
<1>1. \A n \in chunks : n.rseq = k.rseq => n = k
  <2>1. \A n \in chunks : n = k \/ n.rupper <= k.rseq \/ k.rupper <= n.rseq
    BY Ranges
  <2>2. \A n \in chunks : n.rseq \in Nat /\ n.rupper \in Nat /\ n.rseq < n.rupper
    BY Ranges
  <2> QED BY <2>1, <2>2
<1> QED BY <1>1 DEF ChunkAt

-----------------------------------------------------------------------------
(* New data *)

(* The input of a block is a gap, or the bytes of its range. *)
Payload(data, from, to) == data = Gap \/ \E v \in Versions : data = Bytes(from, to, v)

(* A range of bytes is a chunk. *)
LEMMA BytesExact ==
  ASSUME NEW a \in Nat, NEW b \in Nat, a < b, NEW data, Payload(data, a, b)
  PROVE  /\ Chunk(a, b, data) \in ChunkType
         /\ Exact(Chunk(a, b, data))
         /\ Chunk(a, b, data).rseq = a /\ Chunk(a, b, data).rupper = b
         /\ Chunk(a, b, data).data = data
<1> DEFINE k == Chunk(a, b, data)
<1>1. k.rseq = a /\ k.rupper = b /\ k.data = data
  BY DEF Chunk
<1>2. CASE data = Gap
  <2>1. data \in Seq(Byte)
    BY <1>2 DEF Gap
  <2>2. k \in ChunkType
    BY <2>1 DEF Chunk, ChunkType
  <2> HIDE DEF k
  <2>3. Exact(k)
    BY <1>1, <1>2 DEF Exact, DataExact
  <2> QED BY <1>1, <2>2, <2>3 DEF k
<1>3. ASSUME NEW v \in Versions, data = Bytes(a, b, v) PROVE k \in ChunkType /\ Exact(k)
  <2>1. b - a \in Nat
    OBVIOUS
  <2>2. \A i \in 1..(b - a) : [off |-> a + i - 1, ver |-> v] \in Byte
    BY DEF Byte
  <2>3. data = [i \in 1..(b - a) |-> [off |-> a + i - 1, ver |-> v]]
    BY <1>3 DEF Bytes
  <2>4. data \in Seq(Byte)
    <3>1. data \in [1..(b - a) -> Byte]
      BY <2>2, <2>3
    <3> QED BY <2>1, <3>1, SeqDef
  <2>5. k \in ChunkType
    BY <2>4 DEF Chunk, ChunkType
  <2>6. \A i \in 1..(b - a) : data[i].ver = v
    BY <2>3
  <2>7. data = [i \in 1..(b - a) |-> [off |-> a + i - 1, ver |-> data[i].ver]]
    <3>1. [i \in 1..(b - a) |-> [off |-> a + i - 1, ver |-> data[i].ver]]
            = [i \in 1..(b - a) |-> [off |-> a + i - 1, ver |-> v]]
      BY <2>6
    <3> QED BY <2>3, <3>1
  <2> HIDE DEF k
  <2>8. Exact(k)
    BY <1>1, <2>7 DEF Exact, DataExact
  <2> QED BY <2>5, <2>8
<1> QED BY <1>1, <1>2, <1>3 DEF Payload

(* A part of a range of bytes is the range of the part. *)
LEMMA SubBytes ==
  ASSUME NEW from \in Nat, NEW to \in Nat, NEW a \in Nat, NEW b \in Nat,
         from <= a, a < b, b <= to, NEW v \in Versions
  PROVE  /\ SubSeq(Bytes(from, to, v), a - from + 1, b - from) = Bytes(a, b, v)
         /\ Bytes(from, to, v) # Gap
         /\ Len(Bytes(from, to, v)) = to - from
<1> DEFINE d == Bytes(from, to, v)
<1>1. to - from \in Nat /\ to - from > 0
  OBVIOUS
<1>2. d = [i \in 1..(to - from) |-> [off |-> from + i - 1, ver |-> v]]
  BY DEF Bytes
<1>3. d \in Seq(Byte)
  <2>1. \A i \in 1..(to - from) : [off |-> from + i - 1, ver |-> v] \in Byte
    BY DEF Byte
  <2>2. d \in [1..(to - from) -> Byte]
    BY <1>2, <2>1
  <2> HIDE DEF d
  <2> QED BY <1>1, <2>2, SeqDef
<1>4. Len(d) = to - from /\ \A i \in 1..(to - from) : d[i] = [off |-> from + i - 1, ver |-> v]
  BY <1>1, <1>2, <1>3
<1> HIDE DEF d
<1>5. d # Gap
  BY <1>1, <1>4 DEF Gap
<1> DEFINE m == a - from + 1
           n == b - from
<1>6. m \in 1..(Len(d) + 1) /\ n \in (m - 1)..Len(d) /\ n - m + 1 = b - a
  BY <1>4
<1>7. SubSeq(d, m, n) = [i \in 1..(n - m + 1) |-> d[m + i - 1]]
  BY <1>3, <1>6, SubSeqProperties
<1>8. \A i \in 1..(b - a) : d[m + i - 1] = [off |-> a + i - 1, ver |-> v]
  <2> TAKE i \in 1..(b - a)
  <2>1. m + i - 1 \in 1..(to - from) /\ from + (m + i - 1) - 1 = a + i - 1
    OBVIOUS
  <2> HIDE DEF m
  <2> QED BY <2>1, <1>4
<1>9. SubSeq(d, m, n) = [i \in 1..(b - a) |-> [off |-> a + i - 1, ver |-> v]]
  <2> HIDE DEF m, n
  <2> QED BY <1>6, <1>7, <1>8
<1>10. SubSeq(d, m, n) = Bytes(a, b, v)
  BY <1>9 DEF Bytes
<1> QED BY <1>4, <1>5, <1>10 DEF d

(* The part of the input that starts at r *)
LEMMA PartOf ==
  ASSUME NEW from \in Nat, NEW to \in Nat, NEW a \in Nat, NEW b \in Nat,
         from <= a, a < b, b <= to, NEW data, Payload(data, from, to)
  PROVE  Payload(IF data = Gap THEN Gap ELSE SubSeq(data, a - from + 1, b - from), a, b)
<1>1. CASE data = Gap
  BY <1>1 DEF Payload
<1>2. ASSUME NEW v \in Versions, data = Bytes(from, to, v)
      PROVE  data # Gap /\ SubSeq(data, a - from + 1, b - from) = Bytes(a, b, v)
  <2>1. /\ SubSeq(Bytes(from, to, v), a - from + 1, b - from) = Bytes(a, b, v)
        /\ Bytes(from, to, v) # Gap
    BY SubBytes
  <2> QED BY <1>2, <2>1
<1> QED BY <1>1, <1>2 DEF Payload

(* The list new has the chunks of cs and others that fill the holes between *)
(* them in the range from r to to.                                          *)
Fills(cs, new, r, to) ==
  /\ cs \subseteq new
  /\ \A k \in new \ cs :
       /\ k \in ChunkType /\ Exact(k) /\ r <= k.rseq /\ k.rupper <= to
       /\ \A n \in new : n = k \/ Apart(k, n)
  /\ \A o \in Nat : r <= o /\ o < to => Covers(new, o)

(* The pieces of a range that the set C leaves free *)
Pieces(r, to, C) ==
  {q \in (r..to) \X (r..to) :
     /\ q[1] < q[2]
     /\ q[1]..(q[2] - 1) \cap C = {}
     /\ q[1] = r \/ q[1] - 1 \in C
     /\ q[2] = to \/ q[2] \in C}

LEMMA PieceIs ==
  ASSUME NEW r \in Nat, NEW to \in Nat, NEW C, NEW q \in Pieces(r, to, C)
  PROVE  /\ q[1] \in Nat /\ q[2] \in Nat /\ r <= q[1] /\ q[1] < q[2] /\ q[2] <= to
         /\ q = <<q[1], q[2]>>
         /\ \A o \in Nat : q[1] <= o /\ o < q[2] => o \notin C
         /\ q[1] = r \/ q[1] - 1 \in C
         /\ q[2] = to \/ q[2] \in C
<1>1. q \in (r..to) \X (r..to) /\ q[1] < q[2] /\ q[1]..(q[2] - 1) \cap C = {}
      /\ (q[1] = r \/ q[1] - 1 \in C) /\ (q[2] = to \/ q[2] \in C)
  BY DEF Pieces
<1>2. q = <<q[1], q[2]>> /\ q[1] \in r..to /\ q[2] \in r..to
  BY <1>1
<1>3. \A o \in Nat : q[1] <= o /\ o < q[2] => o \in q[1]..(q[2] - 1)
  BY <1>2
<1> QED BY <1>1, <1>2, <1>3

(* Two pieces do not overlap. *)
LEMMA PiecesApart ==
  ASSUME NEW r \in Nat, NEW to \in Nat, NEW C,
         NEW p \in Pieces(r, to, C), NEW q \in Pieces(r, to, C)
  PROVE  p = q \/ p[2] <= q[1] \/ q[2] <= p[1]
<1>1. /\ p[1] \in Nat /\ p[2] \in Nat /\ r <= p[1] /\ p[1] < p[2] /\ p[2] <= to
      /\ p = <<p[1], p[2]>>
      /\ \A o \in Nat : p[1] <= o /\ o < p[2] => o \notin C
      /\ p[1] = r \/ p[1] - 1 \in C
      /\ p[2] = to \/ p[2] \in C
  BY PieceIs
<1>2. /\ q[1] \in Nat /\ q[2] \in Nat /\ r <= q[1] /\ q[1] < q[2] /\ q[2] <= to
      /\ q = <<q[1], q[2]>>
      /\ \A o \in Nat : q[1] <= o /\ o < q[2] => o \notin C
      /\ q[1] = r \/ q[1] - 1 \in C
      /\ q[2] = to \/ q[2] \in C
  BY PieceIs
<1> SUFFICES ASSUME q[1] < p[2], p[1] < q[2] PROVE p = q
  BY <1>1, <1>2
<1>3. ~ (p[1] < q[1])
  <2> SUFFICES ASSUME p[1] < q[1] PROVE FALSE
    OBVIOUS
  <2>1. q[1] - 1 \in Nat /\ p[1] <= q[1] - 1 /\ q[1] - 1 < p[2] /\ q[1] # r
    BY <1>1, <1>2
  <2> QED BY <1>1, <1>2, <2>1
<1>4. ~ (q[1] < p[1])
  <2> SUFFICES ASSUME q[1] < p[1] PROVE FALSE
    OBVIOUS
  <2>1. p[1] - 1 \in Nat /\ q[1] <= p[1] - 1 /\ p[1] - 1 < q[2] /\ p[1] # r
    BY <1>1, <1>2
  <2> QED BY <1>1, <1>2, <2>1
<1>5. ~ (p[2] < q[2])
  BY <1>1, <1>2
<1>6. ~ (q[2] < p[2])
  BY <1>1, <1>2
<1> QED BY <1>1, <1>2, <1>3, <1>4, <1>5, <1>6

(* Every free position is in a piece. *)
LEMMA PiecesCover ==
  ASSUME NEW r \in Nat, NEW to \in Nat, NEW C, NEW o \in Nat, r <= o, o < to, o \notin C
  PROVE  \E q \in Pieces(r, to, C) : q[1] <= o /\ o < q[2]
<1> DEFINE A == {a \in r..o : \A x \in a..o : x \notin C}
           B == {b \in (o + 1)..to : b = to \/ b \in C}
<1>1. PICK a \in A : \A x \in A : a <= x
  <2>1. o \in A /\ A \subseteq Nat
    OBVIOUS
  <2> HIDE DEF A
  <2> QED BY <2>1, LeastNat
<1>2. PICK b \in B : \A x \in B : b <= x
  <2>1. to \in B /\ B \subseteq Nat
    OBVIOUS
  <2> HIDE DEF B
  <2> QED BY <2>1, LeastNat
<1>3. a \in r..o /\ b \in (o + 1)..to /\ (b = to \/ b \in C) /\ \A x \in a..o : x \notin C
  BY <1>1, <1>2
<1>4. a = r \/ a - 1 \in C
  <2> SUFFICES ASSUME a # r, a - 1 \notin C PROVE FALSE
    OBVIOUS
  <2>1. a - 1 \in r..o
    BY <1>3
  <2>2. \A x \in (a - 1)..o : x \notin C
    <3> TAKE x \in (a - 1)..o
    <3>1. x = a - 1 \/ x \in a..o
      BY <1>3
    <3> QED BY <3>1, <1>3
  <2>3. a - 1 \in A
    BY <2>1, <2>2
  <2>4. a <= a - 1
    BY <1>1, <2>3
  <2> QED BY <1>3, <2>4
<1>5. \A x \in (o + 1)..(b - 1) : x \notin C
  <2> SUFFICES ASSUME NEW x \in (o + 1)..(b - 1), x \in C PROVE FALSE
    OBVIOUS
  <2>1. x \in B /\ x < b
    BY <1>3
  <2> QED BY <1>2, <1>3, <2>1
<1>6. a..(b - 1) \cap C = {}
  <2> SUFFICES ASSUME NEW x \in a..(b - 1) PROVE x \notin C
    OBVIOUS
  <2>1. x \in a..o \/ x \in (o + 1)..(b - 1)
    BY <1>3
  <2> QED BY <1>3, <1>5, <2>1
<1> HIDE DEF A, B
<1> DEFINE q == <<a, b>>
<1>7. q \in (r..to) \X (r..to) /\ q[1] = a /\ q[2] = b /\ a < b
  BY <1>3
<1> HIDE DEF q
<1>8. q \in Pieces(r, to, C)
  BY <1>3, <1>4, <1>6, <1>7 DEF Pieces
<1> QED BY <1>3, <1>7, <1>8

(* __add_and_check puts what is new into the holes of the buffer. *)
LEMMA AddAndCheckFills ==
  ASSUME WellFormed(chunks, trim_rseq), NEW r \in Nat, NEW to \in Nat, r < to, NEW data, Payload(data, r, to)
  PROVE  Fills(chunks, AddAndCheck(r, to, data), r, to)
<1> DEFINE C == {o \in r..(to - 1) : \E k \in chunks : k.rseq <= o /\ o < k.rupper}
           P == Pieces(r, to, C)
           E(q) == Chunk(q[1], q[2], IF data = Gap THEN Gap
                                       ELSE SubSeq(data, q[1] - r + 1, q[2] - r))
           new == chunks \cup {E(q) : q \in P}
<1>1. AddAndCheck(r, to, data) = new
  BY DEF AddAndCheck, Pieces
<1>2. \A q \in P : /\ q[1] \in Nat /\ q[2] \in Nat /\ r <= q[1] /\ q[1] < q[2] /\ q[2] <= to
                   /\ \A o \in Nat : q[1] <= o /\ o < q[2] => ~ Covers(chunks, o)
  <2> TAKE q \in P
  <2>1. /\ q[1] \in Nat /\ q[2] \in Nat /\ r <= q[1] /\ q[1] < q[2] /\ q[2] <= to
        /\ \A o \in Nat : q[1] <= o /\ o < q[2] => o \notin C
    <3> HIDE DEF C
    <3> QED BY PieceIs
  <2>2. ASSUME NEW o \in Nat, q[1] <= o, o < q[2] PROVE ~ Covers(chunks, o)
    <3>1. o \in r..(to - 1) /\ o \notin C
      BY <2>1, <2>2
    <3> QED BY <3>1 DEF Covers
  <2> QED BY <2>1, <2>2
<1>3. \A q \in P : /\ E(q) \in ChunkType /\ Exact(E(q))
                   /\ E(q).rseq = q[1] /\ E(q).rupper = q[2]
  <2> TAKE q \in P
  <2>1. /\ q[1] \in Nat /\ q[2] \in Nat /\ r <= q[1] /\ q[1] < q[2] /\ q[2] <= to
    BY <1>2
  <2> DEFINE d == IF data = Gap THEN Gap ELSE SubSeq(data, q[1] - r + 1, q[2] - r)
  <2>2. Payload(d, q[1], q[2])
    BY <2>1, PartOf
  <2> HIDE DEF d
  <2>3. LET k == Chunk(q[1], q[2], d)
        IN  k \in ChunkType /\ Exact(k) /\ k.rseq = q[1] /\ k.rupper = q[2]
    BY <2>1, <2>2, BytesExact
  <2> QED BY <2>3 DEF d
<1>4. \A p, q \in P : p = q \/ p[2] <= q[1] \/ q[2] <= p[1]
  <2> HIDE DEF C
  <2> QED BY PiecesApart
<1>5. \A o \in Nat : r <= o /\ o < to => Covers(chunks, o) \/ \E q \in P : q[1] <= o /\ o < q[2]
  <2> SUFFICES ASSUME NEW o \in Nat, r <= o, o < to, ~ Covers(chunks, o)
               PROVE  \E q \in P : q[1] <= o /\ o < q[2]
    OBVIOUS
  <2>1. o \notin C
    BY DEF Covers
  <2> HIDE DEF C
  <2> QED BY <2>1, PiecesCover
<1> HIDE DEF E, P
<1>6. chunks \subseteq new
  OBVIOUS
<1>7. \A k \in new \ chunks : \E q \in P : k = E(q)
  OBVIOUS
<1>8. ASSUME NEW k \in new \ chunks, NEW n \in new PROVE n = k \/ Apart(k, n)
  <2>1. PICK q \in P : k = E(q)
    BY <1>7
  <2>2. /\ q[1] \in Nat /\ q[2] \in Nat /\ q[1] < q[2]
        /\ \A o \in Nat : q[1] <= o /\ o < q[2] => ~ Covers(chunks, o)
        /\ k.rseq = q[1] /\ k.rupper = q[2]
    BY <1>2, <1>3, <2>1
  <2>3. CASE n \notin chunks
    <3>1. PICK p \in P : n = E(p)
      BY <1>7, <2>3
    <3>2. n.rseq = p[1] /\ n.rupper = p[2]
      BY <1>3, <3>1
    <3>3. p = q \/ p[2] <= q[1] \/ q[2] <= p[1]
      BY <1>4
    <3> QED BY <2>1, <2>2, <3>1, <3>2, <3>3 DEF Apart
  <2>4. CASE n \in chunks
    <3> SUFFICES ASSUME n.rseq \in Nat, n.rupper \in Nat, n.rseq < n.rupper,
                        ~ (n.rupper <= q[1]), ~ (q[2] <= n.rseq)
                 PROVE  FALSE
      <4>1. n.rseq \in Nat /\ n.rupper \in Nat /\ n.rseq < n.rupper
        BY <2>4, Ranges
      <4> QED BY <2>2, <4>1 DEF Apart
    <3>1. PICK o \in Nat : q[1] <= o /\ o < q[2] /\ n.rseq <= o /\ o < n.rupper
      <4>1. CASE q[1] <= n.rseq
        BY <2>2, <4>1
      <4>2. CASE n.rseq < q[1]
        BY <2>2, <4>2
      <4> QED BY <2>2, <4>1, <4>2
    <3>2. Covers(chunks, o)
      BY <2>4, <3>1 DEF Covers
    <3> QED BY <2>2, <3>1, <3>2
  <2> QED BY <2>3, <2>4
<1>9. ASSUME NEW k \in new \ chunks
      PROVE  k \in ChunkType /\ Exact(k) /\ r <= k.rseq /\ k.rupper <= to
  BY <1>2, <1>3, <1>7
<1>10. ASSUME NEW o \in Nat, r <= o, o < to PROVE Covers(new, o)
  <2>1. CASE Covers(chunks, o)
    BY <2>1 DEF Covers
  <2>2. CASE \E q \in P : q[1] <= o /\ o < q[2]
    <3>1. PICK q \in P : q[1] <= o /\ o < q[2]
      BY <2>2
    <3>2. E(q) \in new /\ E(q).rseq <= o /\ o < E(q).rupper
      BY <1>3, <3>1
    <3> HIDE DEF new
    <3> QED BY <3>2 DEF Covers
  <2> QED BY <1>5, <1>10, <2>1, <2>2
<1> HIDE DEF new
<1>11. Fills(chunks, new, r, to)
  BY <1>6, <1>8, <1>9, <1>10 DEF Fills
<1> QED BY <1>1, <1>11

(* Filling the holes keeps the list well-formed, ... *)
LEMMA FilledWellFormed ==
  ASSUME NEW cs, NEW trim \in Nat, WellFormed(cs, trim), NEW r \in Nat, NEW to \in Nat, trim <= r,
         NEW new, Fills(cs, new, r, to)
  PROVE  WellFormed(new, trim)
<1>1. \A k \in new : k \in ChunkType /\ Exact(k)
  BY DEF WellFormed, Fills
<1>2. \A k \in new : trim < k.rupper
  <2>1. \A k \in new \ cs : r <= k.rseq /\ k.rseq \in Nat /\ k.rupper \in Nat /\ k.rseq < k.rupper
    BY DEF Fills, ChunkType, Exact
  <2>2. \A k \in cs : trim < k.rupper
    BY DEF WellFormed
  <2> QED BY <2>1, <2>2
<1>3. \A k, n \in new : k = n \/ Apart(k, n)
  <2> TAKE k, n \in new
  <2>1. CASE k \notin cs
    BY <2>1 DEF Fills
  <2>2. CASE n \notin cs
    BY <2>2 DEF Fills, Apart
  <2>3. CASE k \in cs /\ n \in cs
    BY <2>3 DEF WellFormed
  <2> QED BY <2>1, <2>2, <2>3
<1> QED BY <1>1, <1>2, <1>3 DEF WellFormed

(* ... and what is new is not before the position of the reassembly. *)
LEMMA FilledReached ==
  ASSUME NEW cs, NEW trim \in Nat, WellFormed(cs, trim), NEW r \in Nat, NEW to \in Nat, trim <= r,
         NEW new, Fills(cs, new, r, to), NEW p \in Nat, Reached(cs, trim, p)
  PROVE  /\ Reached(new, trim, p)
         /\ \A k \in new \ cs : p <= k.rseq
<1>1. ASSUME NEW k \in new \ cs PROVE p <= k.rseq
  <2>1. k.rseq \in Nat /\ k.rupper \in Nat /\ k.rseq < k.rupper /\ r <= k.rseq
    BY DEF Fills, ChunkType, Exact
  <2> SUFFICES ASSUME k.rseq < p PROVE FALSE
    BY <2>1
  <2>2. Covers(cs, k.rseq)
    BY <2>1 DEF Reached
  <2>3. PICK n \in cs : n.rseq <= k.rseq /\ k.rseq < n.rupper
    BY <2>2 DEF Covers
  <2>4. n.rseq \in Nat /\ n.rupper \in Nat
    BY Ranges
  <2>5. n # k /\ n \in new
    BY DEF Fills
  <2>6. n.rupper <= k.rseq \/ k.rupper <= n.rseq
    BY <2>5 DEF Fills, Apart
  <2> QED BY <2>1, <2>3, <2>4, <2>6
<1>2. \A o \in Nat : Covers(cs, o) => Covers(new, o)
  BY DEF Covers, Fills
<1> QED BY <1>1, <1>2 DEF Reached

(* The result of __add_and_check: the first new chunk if there is one. *)
LEMMA AddedIs ==
  ASSUME NEW r \in Nat, NEW to \in Nat, r < to, NEW new, WellFormed(new, trim_rseq),
         Fills(chunks, new, r, to)
  PROVE  /\ Added(new, to) \in new
         /\ \A n \in new \ chunks : Added(new, to) \notin chunks /\ Added(new, to).rseq <= n.rseq
<1> DEFINE A == new \ chunks
<1>0. \A k \in new : k.rseq \in Nat /\ k.rupper \in Nat
  BY Ranges
<1>1. CASE A # {}
  <2> DEFINE T == {k.rseq : k \in A}
  <2>1. T \subseteq Nat /\ T # {}
    BY <1>0, <1>1
  <2>2. PICK m \in T : \A x \in T : m <= x
    <3> HIDE DEF T
    <3> QED BY <2>1, LeastNat
  <2>3. \E k \in A : \A n \in A : k.rseq <= n.rseq
    BY <2>2
  <2> DEFINE k == CHOOSE k \in A : \A n \in A : k.rseq <= n.rseq
  <2>4. k \in A /\ \A n \in A : k.rseq <= n.rseq
    <3> HIDE DEF A
    <3> QED BY <2>3
  <2>5. Added(new, to) = k
    BY <1>1 DEF Added
  <2> HIDE DEF k
  <2> QED BY <2>4, <2>5
<1>2. CASE A = {}
  <2>1. to - 1 \in Nat /\ r <= to - 1 /\ to - 1 < to
    OBVIOUS
  <2>2. Covers(new, to - 1)
    BY <2>1 DEF Fills
  <2>3. PICK k \in new : k.rseq <= to - 1 /\ to - 1 < k.rupper
    BY <2>2 DEF Covers
  <2>4. k.rseq < to /\ to <= k.rupper
    BY <1>0, <2>3
  <2>5. Added(new, to) = CHOOSE n \in new : n.rseq < to /\ to <= n.rupper
    BY <1>2 DEF Added
  <2>6. Added(new, to) \in new
    BY <2>4, <2>5
  <2> QED BY <1>2, <2>6
<1> QED BY <1>1, <1>2

-----------------------------------------------------------------------------
(* The buffer *)

(* __new_block, when the data enters the buffer *)
LEMMA BufferKeeps ==
  ASSUME BufferInv, pc = "idle", Disciplined,
         NEW from \in Nat, NEW to \in Nat, from < to, to > trim_rseq,
         NEW data, Payload(data, from, to), NotPartlyOld(from, to),
         Buffer(from, to, data),
         UNCHANGED <<initial_seq, cur_rseq, last_reassem_rseq, trim_rseq, stopped>>
  PROVE  BufferInv'
<1> DEFINE r == KeptFrom(from)
           d == IF data = Gap THEN Gap ELSE SubSeq(data, r - from + 1, Len(data))
           new == IF chunks = {} THEN {Chunk(r, r + (to - from), d)} ELSE AddAndCheck(r, to, d)
           k == Added(new, to)
<1>1. /\ chunks' = new
      /\ IF k.rseq > last_reassem_rseq \/ k.rupper <= last_reassem_rseq
           THEN UNCHANGED delivery
           ELSE pc' = "try" /\ c' = k.rseq /\ UNCHANGED <<now, s, excpt>>
  BY DEF Buffer
<1>2. BufferTyped /\ WellFormed(chunks, trim_rseq) /\ Reached(chunks, trim_rseq, last_reassem_rseq)
      /\ last_reassem_rseq <= cur_rseq
  BY DEF BufferInv, PositionInv
<1>3. cur_rseq \in Nat /\ last_reassem_rseq \in Nat /\ trim_rseq \in Nat
  BY <1>2 DEF BufferTyped
<1>4. r \in Nat /\ from <= r /\ r < to /\ trim_rseq <= r
  BY <1>3 DEF KeptFrom
<1>5. Payload(d, r, to)
  <2> HIDE DEF r
  <2>1. CASE data = Gap
    BY <2>1 DEF Payload
  <2>2. ASSUME NEW v \in Versions, data = Bytes(from, to, v) PROVE data # Gap => Len(data) = to - from
    <3>1. Len(Bytes(from, to, v)) = to - from
      BY SubBytes
    <3> QED BY <2>2, <3>1
  <2>3. data # Gap => Len(data) = to - from
    BY <2>2 DEF Payload
  <2>4. d = IF data = Gap THEN Gap ELSE SubSeq(data, r - from + 1, to - from)
    BY <2>3
  <2> HIDE DEF d
  <2> QED BY <1>4, <2>4, PartOf
<1>6. Fills(chunks, new, r, to)
  <2>1. CASE chunks = {}
    <3>1. r = from
      BY <1>3, <2>1 DEF NotPartlyOld, KeptFrom
    <3>2. r + (to - from) = to
      BY <3>1
    <3>3. new = {Chunk(r, to, d)}
      BY <2>1, <3>2
    <3> HIDE DEF r, d
    <3> DEFINE n == Chunk(r, to, d)
    <3>4. n \in ChunkType /\ Exact(n) /\ n.rseq = r /\ n.rupper = to
      BY <1>4, <1>5, BytesExact
    <3>5. new = {n}
      BY <3>3
    <3> HIDE DEF n, new
    <3>6. \A o \in Nat : r <= o /\ o < to => Covers(new, o)
      BY <3>4, <3>5 DEF Covers
    <3> QED BY <1>4, <2>1, <3>4, <3>5, <3>6 DEF Fills
  <2>2. CASE chunks # {}
    <3>1. new = AddAndCheck(r, to, d)
      BY <2>2
    <3> HIDE DEF r, d, new
    <3> QED BY <1>2, <1>4, <1>5, <3>1, AddAndCheckFills
  <2> QED BY <2>1, <2>2
<1> HIDE DEF r, d, new
<1>7. WellFormed(new, trim_rseq)
  BY <1>2, <1>3, <1>4, <1>6, FilledWellFormed
<1>8. Reached(new, trim_rseq, last_reassem_rseq) /\ \A n \in new \ chunks : last_reassem_rseq <= n.rseq
  BY <1>2, <1>3, <1>4, <1>6, FilledReached
<1>9. k \in new /\ \A n \in new \ chunks : k \notin chunks /\ k.rseq <= n.rseq
  BY <1>4, <1>6, <1>7, AddedIs
<1> HIDE DEF k
<1>10. \A n \in new : n.rseq \in Nat /\ n.rupper \in Nat /\ n.rseq < n.rupper
  BY <1>7, Ranges
<1>11. BufferTyped'
  BY <1>1, <1>2, <1>9, <1>10 DEF BufferTyped, delivery
<1>12. WellFormed(chunks', trim_rseq') /\ Reached(chunks', trim_rseq', last_reassem_rseq')
  BY <1>1, <1>7, <1>8
<1>13. PositionInv'
  BY <1>2, <1>12 DEF PositionInv
<1>14. CASE k.rseq > last_reassem_rseq \/ k.rupper <= last_reassem_rseq
  <2>1. pc' = pc /\ c' = c
    BY <1>1, <1>14 DEF delivery
  <2>2. ASSUME NEW n \in new, n.rseq = last_reassem_rseq PROVE n \in chunks
    <3> SUFFICES ASSUME n \notin chunks PROVE FALSE
      OBVIOUS
    <3>1. k.rseq <= last_reassem_rseq /\ k.rseq < k.rupper /\ k.rupper \in Nat /\ k.rseq \in Nat
      BY <1>9, <1>10, <2>2
    <3>2. last_reassem_rseq <= k.rseq
      BY <1>8, <1>9
    <3> QED BY <1>3, <1>14, <3>1, <3>2
  <2>3. WaitInv'
    BY <1>1, <1>8, <2>1, <2>2 DEF BufferInv, WaitInv, Position
  <2>4. TryInv' /\ DeliverInv'
    BY <2>1 DEF TryInv, DeliverInv
  <2> QED BY <1>11, <1>12, <1>13, <2>3, <2>4 DEF BufferInv
<1>15. CASE ~ (k.rseq > last_reassem_rseq \/ k.rupper <= last_reassem_rseq)
  <2>1. pc' = "try" /\ c' = k.rseq
    BY <1>1, <1>15
  <2>2. k.rseq <= last_reassem_rseq /\ c' # None
    BY <1>3, <1>9, <1>10, <1>15, <2>1 DEF None
  <2>3. WaitInv'
    BY <1>1, <1>8, <2>1, <2>2 DEF BufferInv, WaitInv, Position
  <2>4. TryInv'
    BY <1>1, <1>9, <2>1, <2>2 DEF TryInv
  <2>5. DeliverInv'
    BY <2>1 DEF DeliverInv
  <2> QED BY <1>11, <1>12, <1>13, <2>3, <2>4, <2>5 DEF BufferInv
<1> QED BY <1>14, <1>15

(* The fast path for a gap *)
LEMMA FastGapKeeps ==
  ASSUME BufferInv, pc = "idle", NEW to \in Nat, cur_rseq < to, chunks = {},
         DeliverGap(cur_rseq, to), stopped' = to,
         UNCHANGED <<delivery, last_reassem_rseq, initial_seq>>
  PROVE  BufferInv'
<1>1. cur_rseq \in Nat /\ last_reassem_rseq \in Nat /\ trim_rseq \in Nat
      /\ last_reassem_rseq <= cur_rseq
  BY DEF BufferInv, BufferTyped, PositionInv
<1>2. cur_rseq' = to /\ chunks' = {} /\ trim_rseq' = cur_rseq
  BY <1>1 DEF DeliverGap, Trim
<1>3. BufferTyped'
  BY <1>1, <1>2 DEF BufferInv, BufferTyped, delivery
<1>4. WellFormed(chunks', trim_rseq')
  BY <1>2 DEF WellFormed
<1>5. PositionInv'
  BY <1>1, <1>2 DEF PositionInv, Reached
<1>6. WaitInv'
  BY <1>1, <1>2 DEF WaitInv, Position
<1>7. TryInv' /\ DeliverInv'
  BY <1>2 DEF TryInv, DeliverInv, delivery
<1> QED BY <1>3, <1>4, <1>5, <1>6, <1>7 DEF BufferInv

(* The fast path for data *)
LEMMA FastDataKeeps ==
  ASSUME BufferInv, pc = "idle", NEW to \in Nat, cur_rseq < to, chunks = {},
         NEW data, Payload(data, cur_rseq, to), data # Gap,
         StartDelivery(Chunk(cur_rseq, to, data)), c' = None,
         UNCHANGED <<reassembly, stopped>>
  PROVE  BufferInv'
<1>1. cur_rseq \in Nat /\ last_reassem_rseq \in Nat /\ trim_rseq \in Nat
      /\ last_reassem_rseq <= cur_rseq
  BY DEF BufferInv, BufferTyped, PositionInv
<1>2. pc' = "deliver" /\ s' = 1 /\ excpt' = excpt /\ now' = Chunk(cur_rseq, to, data)
  BY DEF StartDelivery
<1>3. now' \in ChunkType /\ Exact(now') /\ now'.rseq = cur_rseq /\ now'.rupper = to
      /\ now'.data = data
  BY <1>1, <1>2, BytesExact
<1>4. BufferTyped'
  BY <1>1, <1>2, <1>3 DEF BufferInv, BufferTyped, reassembly
<1>5. WellFormed(chunks', trim_rseq')
  BY DEF WellFormed, reassembly
<1>6. PositionInv' /\ TryInv' /\ WaitInv'
  BY <1>2 DEF PositionInv, TryInv, WaitInv
<1>7. DeliverInv'
  BY <1>1, <1>2, <1>3 DEF DeliverInv, reassembly
<1> QED BY <1>4, <1>5, <1>6, <1>7 DEF BufferInv

(* __new_block *)
LEMMA NewBlockKeeps ==
  ASSUME BufferInv, Disciplined, NEW from \in Nat, NEW to \in Nat, from < to,
         NEW data, Payload(data, from, to), NotPartlyOld(from, to),
         NewBlock(from, to, data)
  PROVE  BufferInv'
<1>1. CASE PassOnAtOnce(from) /\ data = Gap
  <2>1. from = cur_rseq /\ chunks = {} /\ pc = "idle" /\ DeliverGap(from, to)
        /\ stopped' = to /\ UNCHANGED <<delivery, last_reassem_rseq, initial_seq>>
    BY <1>1 DEF NewBlock, PassOnAtOnce
  <2> QED BY <2>1, FastGapKeeps
<1>2. CASE PassOnAtOnce(from) /\ data # Gap
  <2>1. from = cur_rseq /\ chunks = {} /\ pc = "idle" /\ StartDelivery(Chunk(from, to, data))
        /\ c' = None /\ UNCHANGED <<reassembly, stopped>>
    BY <1>2 DEF NewBlock, PassOnAtOnce
  <2> QED BY <1>2, <2>1, FastDataKeeps
<1>3. CASE ~ PassOnAtOnce(from)
  <2>1. pc = "idle" /\ to > trim_rseq /\ Buffer(from, to, data)
        /\ UNCHANGED <<initial_seq, cur_rseq, last_reassem_rseq, trim_rseq, stopped>>
    BY <1>3 DEF NewBlock
  <2> QED BY <2>1, BufferKeeps
<1> QED BY <1>1, <1>2, <1>3

(* Trimming leaves whole chunks. *)
LEMMA TrimKeeps ==
  ASSUME BufferInv, NEW r \in Nat, Trim(r)
  PROVE  /\ WellFormed(chunks', r)
         /\ chunks' \subseteq chunks /\ trim_rseq' = r
         /\ \A k \in chunks : k.rupper > r => k \in chunks'
<1>1. chunks' = {k \in chunks : k.rupper > r} /\ trim_rseq' = r
  BY DEF Trim
<1>2. \A k \in chunks : k.rseq \in Nat /\ k.rupper \in Nat
  BY Ranges DEF BufferInv
<1>3. \A k \in chunks' : r < k.rupper
  BY <1>1, <1>2
<1>4. WellFormed(chunks', r)
  BY <1>1, <1>3, FewerChunks DEF BufferInv
<1> QED BY <1>1, <1>4

LEMMA TrimToKeeps ==
  ASSUME BufferInv, Disciplined, NEW seq \in Nat, TrimTo(seq)
  PROVE  BufferInv'
<1> DEFINE r == seq - initial_seq
<1>1. cur_rseq \in Nat /\ last_reassem_rseq \in Nat /\ trim_rseq \in Nat /\ initial_seq \in Nat
      /\ last_reassem_rseq <= cur_rseq /\ pc = "idle"
  BY DEF BufferInv, BufferTyped, PositionInv, TrimTo
<1>2. r \in Nat
  BY <1>1 DEF TrimTo
<1> HIDE DEF r
<1>3. Trim(r) /\ r >= cur_rseq /\ r >= trim_rseq
      /\ stopped' = IF r > cur_rseq THEN r ELSE stopped
  BY DEF TrimTo, Forward, r
<1>4. WellFormed(chunks', r) /\ chunks' \subseteq chunks /\ trim_rseq' = r
  BY <1>2, <1>3, TrimKeeps
<1>5. UNCHANGED <<initial_seq, cur_rseq, last_reassem_rseq, pc, c, now, s, excpt>>
  BY DEF TrimTo, delivery
<1>6. Reached(chunks', trim_rseq', last_reassem_rseq)
  BY <1>1, <1>2, <1>3, <1>4 DEF Reached
<1>7. BufferTyped'
  BY <1>2, <1>3, <1>4, <1>5 DEF BufferInv, BufferTyped
<1>8. PositionInv'
  BY <1>1, <1>5, <1>6 DEF PositionInv
<1>9. WaitInv'
  <2>1. CASE r > cur_rseq
    BY <1>1, <1>2, <1>3, <1>4, <1>5, <2>1 DEF WaitInv, Position
  <2>2. CASE r = cur_rseq
    <3>1. stopped' = stopped /\ Position' = Position
      BY <1>1, <1>3, <1>4, <1>5, <2>2 DEF Position
    <3> QED BY <1>1, <1>4, <1>5, <2>2, <3>1 DEF BufferInv, WaitInv
  <2> QED BY <1>1, <1>2, <1>3, <2>1, <2>2
<1>10. TryInv' /\ DeliverInv'
  BY <1>1, <1>5 DEF TryInv, DeliverInv
<1> QED BY <1>4, <1>7, <1>8, <1>9, <1>10 DEF BufferInv

LEMMA SkipToKeeps ==
  ASSUME BufferInv, Disciplined, NEW seq \in Nat, SkipTo(seq)
  PROVE  BufferInv'
<1> DEFINE r == seq - initial_seq
<1>1. cur_rseq \in Nat /\ last_reassem_rseq \in Nat /\ trim_rseq \in Nat /\ initial_seq \in Nat
  BY DEF BufferInv, BufferTyped
<1>2. r \in Nat
  BY <1>1 DEF SkipTo
<1> HIDE DEF r
<1>3. /\ Trim(r)
      /\ cur_rseq' = r /\ last_reassem_rseq' = r /\ pc' = "try" /\ c' = FirstChunk'
      /\ stopped' = IF Inside(r) THEN r ELSE None
      /\ UNCHANGED <<now, s, excpt, initial_seq>>
  BY DEF SkipTo, r
<1>4. WellFormed(chunks', r) /\ chunks' \subseteq chunks /\ trim_rseq' = r
  BY <1>2, <1>3, TrimKeeps
<1>5. NextOf(chunks', None, c')
  BY <1>3, <1>4, FirstIs DEF WellFormed
<1>6. Reached(chunks', trim_rseq', last_reassem_rseq')
  BY <1>2, <1>3, <1>4 DEF Reached
<1>7. BufferTyped'
  BY <1>2, <1>3, <1>4, <1>5 DEF BufferInv, BufferTyped, NextOf
<1>8. PositionInv'
  BY <1>2, <1>3, <1>6 DEF PositionInv
<1>9. TryInv'
  BY <1>5 DEF NextOf, TryInv
<1>10. WaitInv'
  <2>1. CASE Inside(r)
    BY <1>2, <1>3, <1>4, <2>1 DEF WaitInv, Position
  <2>2. CASE ~ Inside(r)
    <3>1. \A k \in chunks' : k.rseq \in Nat /\ k.rupper \in Nat /\ r < k.rupper
      BY <1>4, Ranges
    <3>2. \A k \in chunks' : r <= k.rseq
      BY <1>2, <1>4, <2>2, <3>1 DEF Inside
    <3>3. ASSUME NEW k \in chunks', k.rseq = r PROVE c' # None /\ c' <= r
      BY <1>2, <1>5, <3>3 DEF NextOf, None
    <3> QED BY <1>2, <1>3, <1>4, <3>2, <3>3 DEF WaitInv
  <2> QED BY <2>1, <2>2
<1>11. DeliverInv'
  BY <1>3 DEF DeliverInv
<1> QED BY <1>3, <1>4, <1>7, <1>8, <1>9, <1>10, <1>11 DEF BufferInv

(* The two cases of TryNext *)
TryEnds ==
  /\ pc = "try"
  /\ c = None \/ c > last_reassem_rseq
  /\ pc' = "idle" /\ c' = None /\ excpt' = FALSE
  /\ UNCHANGED <<reassembly, parsers, now, s, history>>

TryPasses ==
  /\ pc = "try"
  /\ c # None /\ c < last_reassem_rseq
  /\ c' = After(c)
  /\ UNCHANGED <<reassembly, parsers, pc, now, s, excpt, history>>

LEMMA TryNextCases ==
  ASSUME BufferInv, TryNext
  PROVE  TryEnds \/ TryPasses
<1>1. c \in Nat \cup {None} /\ last_reassem_rseq \in Nat
  BY DEF BufferInv, BufferTyped
<1>2. CASE c # None /\ c < last_reassem_rseq
  BY <1>2 DEF TryNext, TryPasses
<1>3. CASE ~ (c # None /\ c < last_reassem_rseq)
  <2>1. c = None \/ c > last_reassem_rseq
    BY <1>1, <1>3 DEF TryNext, None
  <2> QED BY <1>3, <2>1 DEF TryNext, TryEnds
<1> QED BY <1>2, <1>3


(* The loop of __try_deliver ends, *)
LEMMA TryEndsKeeps ==
  ASSUME BufferInv, TryEnds
  PROVE  BufferInv'
<1>1. pc = "try" /\ (c = None \/ c > last_reassem_rseq) /\ pc' = "idle" /\ c' = None
      /\ excpt' = FALSE /\ UNCHANGED <<now, s, stopped>>
      /\ UNCHANGED <<initial_seq, cur_rseq, last_reassem_rseq, trim_rseq, chunks>>
  BY DEF TryEnds, reassembly, history
<1>2. BufferTyped'
  BY <1>1 DEF BufferInv, BufferTyped
<1>3. PositionInv'
  BY <1>1 DEF BufferInv, PositionInv
<1>4. last_reassem_rseq \in Nat /\ (c \in Nat \/ c = None)
  BY DEF BufferInv, BufferTyped
<1>5. TryInv' /\ WaitInv'
  BY <1>1, <1>4 DEF BufferInv, TryInv, WaitInv, Position
<1>6. DeliverInv'
  BY <1>1 DEF DeliverInv
<1> QED BY <1>1, <1>2, <1>3, <1>5, <1>6 DEF BufferInv

(* goes past a chunk that was delivered before, *)
LEMMA TryPassesKeeps ==
  ASSUME BufferInv, TryPasses
  PROVE  BufferInv'
<1>1. pc = "try" /\ c # None /\ c < last_reassem_rseq /\ c' = After(c)
      /\ UNCHANGED <<pc, now, s, excpt, stopped>>
      /\ UNCHANGED <<initial_seq, cur_rseq, last_reassem_rseq, trim_rseq, chunks>>
  BY DEF TryPasses, reassembly, history
<1>2. last_reassem_rseq \in Nat /\ c \in Nat
  BY <1>1 DEF BufferInv, BufferTyped
<1>3. NextOf(chunks, c, c')
  BY <1>1, <1>2, AfterIs DEF BufferInv, WellFormed
<1>4. BufferTyped'
  BY <1>1, <1>3 DEF BufferInv, BufferTyped, NextOf
<1>5. PositionInv'
  BY <1>1 DEF BufferInv, PositionInv
<1>6. TryInv' /\ WaitInv'
  <2>1. c' # None => \E k \in chunks' : k.rseq = c'
    BY <1>1, <1>3 DEF NextOf
  <2>2. ASSUME NEW k \in chunks', k.rseq = last_reassem_rseq PROVE c' # None /\ c' <= last_reassem_rseq
    BY <1>1, <1>2, <1>3, <2>2 DEF NextOf
  <2>3. WaitInv'
    BY <1>1, <2>2 DEF BufferInv, WaitInv, Position
  <2> QED BY <1>1, <2>1, <2>3 DEF TryInv
<1>7. DeliverInv'
  BY <1>1 DEF DeliverInv
<1> QED BY <1>1, <1>4, <1>5, <1>6, <1>7 DEF BufferInv

(* stops at a gap, *)
LEMMA TryGapKeeps ==
  ASSUME BufferInv, TryGap
  PROVE  BufferInv'
<1>1. pc = "try" /\ c # None /\ c = last_reassem_rseq
  BY DEF TryGap
<1>2. PICK k \in chunks : k.rseq = c
  BY <1>1 DEF BufferInv, TryInv
<1>3. ChunkAt(c) = k
  BY <1>2, ChunkAtIs DEF BufferInv
<1>4. /\ last_reassem_rseq' = k.rupper /\ DeliverGap(c, k.rupper)
      /\ pc' = "idle" /\ c' = None /\ excpt' = FALSE /\ stopped' = k.rupper
      /\ UNCHANGED <<initial_seq, now, s>>
  BY <1>3 DEF TryGap
<1>5. \A n \in chunks : n.rseq \in Nat /\ n.rupper \in Nat /\ n.rseq < n.rupper
                        /\ trim_rseq < n.rupper
  BY Ranges DEF BufferInv
<1>6. c \in Nat /\ k.rupper \in Nat /\ c < k.rupper /\ cur_rseq \in Nat /\ trim_rseq \in Nat
  BY <1>2, <1>5 DEF BufferInv, BufferTyped
<1>7. \A n \in chunks : n = k \/ n.rupper <= c \/ k.rupper <= n.rseq
  BY <1>2, Ranges DEF BufferInv
<1>8. cur_rseq' = k.rupper
  BY <1>4 DEF DeliverGap
<1>9. WellFormed(chunks', trim_rseq') /\ chunks' \subseteq chunks /\ trim_rseq' \in Nat
      /\ trim_rseq' < k.rupper /\ k \in chunks'
      /\ \A o \in Nat : trim_rseq' <= o /\ o < c => Covers(chunks', o)
  <2>1. CASE cur_rseq # k.rupper
    <3>1. Trim(c)
      BY <1>4, <2>1 DEF DeliverGap
    <3>2. WellFormed(chunks', c) /\ chunks' \subseteq chunks /\ trim_rseq' = c
          /\ \A n \in chunks : n.rupper > c => n \in chunks'
      BY <1>6, <3>1, TrimKeeps
    <3> QED BY <1>6, <3>2
  <2>2. CASE cur_rseq = k.rupper
    <3>1. UNCHANGED <<trim_rseq, chunks>>
      BY <1>4, <2>2 DEF DeliverGap
    <3>2. \A o \in Nat : trim_rseq <= o /\ o < c => Covers(chunks, o)
      BY <1>1 DEF BufferInv, PositionInv, Reached
    <3> QED BY <1>2, <1>5, <1>6, <3>1, <3>2 DEF BufferInv
  <2> QED BY <2>1, <2>2
<1>10. ASSUME NEW o \in Nat, trim_rseq' <= o, o < k.rupper PROVE Covers(chunks', o)
  <2>1. CASE o < c
    BY <1>9, <1>10, <2>1
  <2>2. CASE c <= o
    BY <1>2, <1>9, <1>10, <2>2 DEF Covers
  <2> QED BY <1>6, <2>1, <2>2
<1>11. BufferTyped'
  BY <1>4, <1>6, <1>8, <1>9 DEF BufferInv, BufferTyped
<1>12. PositionInv'
  BY <1>4, <1>6, <1>8, <1>10 DEF PositionInv, Reached
<1>13. WaitInv'
  BY <1>4, <1>6, <1>8, <1>9 DEF WaitInv, Position
<1>14. TryInv' /\ DeliverInv'
  BY <1>4 DEF TryInv, DeliverInv
<1> QED BY <1>9, <1>11, <1>12, <1>13, <1>14 DEF BufferInv

(* or delivers the data it is at. *)
LEMMA TryDataKeeps ==
  ASSUME BufferInv, TryData
  PROVE  BufferInv'
<1>1. pc = "try" /\ c # None /\ c = last_reassem_rseq
  BY DEF TryData
<1>2. PICK k \in chunks : k.rseq = c
  BY <1>1 DEF BufferInv, TryInv
<1>3. ChunkAt(c) = k
  BY <1>2, ChunkAtIs DEF BufferInv
<1>4. /\ k.data # Gap /\ last_reassem_rseq' = k.rupper
      /\ pc' = "deliver" /\ now' = k /\ s' = 1
      /\ UNCHANGED <<initial_seq, cur_rseq, trim_rseq, chunks, c, excpt, stopped>>
  BY <1>3 DEF TryData, StartDelivery, history
<1>5. k \in ChunkType /\ Exact(k) /\ k.rupper \in Nat
  BY DEF BufferInv, WellFormed, ChunkType
<1>6. BufferTyped'
  BY <1>4, <1>5 DEF BufferInv, BufferTyped
<1>7. PositionInv' /\ TryInv' /\ WaitInv'
  BY <1>4 DEF PositionInv, TryInv, WaitInv
<1>8. last_reassem_rseq <= cur_rseq
  BY <1>1 DEF BufferInv, PositionInv
<1>9. DeliverInv'
  BY <1>1, <1>2, <1>4, <1>5, <1>8 DEF DeliverInv
<1> QED BY <1>4, <1>6, <1>7, <1>9 DEF BufferInv

(* The end of a delivery *)
LEMMA DeliveryEndsKeeps ==
  ASSUME BufferInv, pc = "deliver", NEW raised \in BOOLEAN, DeliveryEnds(raised)
  PROVE  BufferInv'
<1> DEFINE r == now.rupper
<1>1. now \in ChunkType /\ Exact(now) /\ now.rseq \in Nat /\ r \in Nat /\ now.rseq < r
      /\ (c \in Nat \/ c = None)
  BY DEF BufferInv, BufferTyped, DeliverInv, Exact, ChunkType
<1> HIDE DEF r
<1>2. /\ cur_rseq' = r /\ last_reassem_rseq' = r /\ Trim(r)
      /\ IF c = None THEN pc' = "idle" /\ c' = None /\ excpt' = FALSE
                     ELSE pc' = "try" /\ c' = After(c) /\ excpt' = raised
      /\ now' = NoData /\ s' = 0 /\ stopped' = None /\ UNCHANGED initial_seq
  BY DEF DeliveryEnds, r
<1>3. \A n \in chunks : n.rseq \in Nat /\ n.rupper \in Nat /\ n.rseq < n.rupper
  BY Ranges DEF BufferInv
<1>4. c # None => c = now.rseq /\ now \in chunks /\ \A n \in chunks : n = now \/ n.rupper <= c \/ r <= n.rseq
  BY Ranges DEF BufferInv, DeliverInv, r
<1>5. \A n \in chunks : r <= n.rseq \/ n.rupper <= r
  <2>1. CASE c = None
    BY <2>1 DEF BufferInv, DeliverInv
  <2>2. CASE c # None
    <3>1. now.rupper <= r
      BY <1>1 DEF r
    <3> QED BY <1>1, <1>3, <1>4, <2>2, <3>1
  <2> QED BY <2>1, <2>2
<1>6. /\ WellFormed(chunks', r) /\ chunks' \subseteq chunks /\ trim_rseq' = r
      /\ \A k \in chunks : k.rupper > r => k \in chunks'
      /\ \A k \in chunks' : r <= k.rseq
  <2>1. /\ WellFormed(chunks', r) /\ chunks' \subseteq chunks /\ trim_rseq' = r
        /\ \A k \in chunks : k.rupper > r => k \in chunks'
    BY <1>1, <1>2, TrimKeeps
  <2>2. \A k \in chunks' : r < k.rupper
    BY <2>1, Ranges
  <2> QED BY <1>1, <1>3, <1>5, <2>1, <2>2
<1>7. Reached(chunks', trim_rseq', last_reassem_rseq')
  BY <1>1, <1>2, <1>6 DEF Reached
<1>8. c # None => NextOf(chunks, c, c')
  BY <1>1, <1>2, AfterIs DEF BufferInv, WellFormed
<1>9. BufferTyped'
  <2>1. now' \in ChunkType
    BY <1>2 DEF NoData, Chunk, ChunkType, Gap
  <2> QED BY <1>1, <1>2, <1>6, <1>8, <2>1 DEF BufferInv, BufferTyped, NextOf
<1>10. PositionInv'
  BY <1>1, <1>2, <1>7 DEF PositionInv
<1>11. TryInv' /\ WaitInv'
  <2>1. CASE c = None
    <3>1. chunks' = {}
      BY <1>6, <2>1 DEF BufferInv, DeliverInv
    <3> QED BY <1>1, <1>2, <1>6, <2>1, <3>1 DEF TryInv, WaitInv
  <2>2. CASE c # None
    <3>1. ASSUME c' # None PROVE \E k \in chunks' : k.rseq = c'
      <4>1. PICK k \in chunks : k.rseq = c' /\ c' > c
        BY <1>8, <2>2, <3>1 DEF NextOf
      <4>2. k.rupper > r
        BY <1>1, <1>3, <1>4, <2>2, <4>1
      <4> QED BY <1>6, <4>1, <4>2
    <3>2. ASSUME NEW k \in chunks', k.rseq = r PROVE c' # None /\ c' <= r
      <4>1. k \in chunks /\ k.rseq > c
        BY <1>1, <1>4, <1>6, <2>2, <3>2
      <4> QED BY <1>8, <2>2, <3>2, <4>1 DEF NextOf
    <3>3. WaitInv'
      BY <1>1, <1>2, <1>6, <2>2, <3>2 DEF WaitInv
    <3> QED BY <1>2, <2>2, <3>1, <3>3 DEF TryInv
  <2> QED BY <2>1, <2>2
<1>12. DeliverInv'
  BY <1>2 DEF DeliverInv
<1> QED BY <1>6, <1>9, <1>10, <1>11, <1>12 DEF BufferInv

(* Steps that only move on in the list of parsers *)
LEMMA ParserStepKeeps ==
  ASSUME BufferInv, UNCHANGED <<reassembly, pc, c, now, excpt, stopped>>,
         s' \in Nat, pc = "deliver" => s' >= 1
  PROVE  BufferInv'
<1>1. UNCHANGED <<initial_seq, cur_rseq, last_reassem_rseq, trim_rseq, chunks>>
  BY DEF reassembly
<1>2. BufferTyped'
  BY <1>1 DEF BufferInv, BufferTyped
<1>3. PositionInv' /\ TryInv' /\ WaitInv'
  BY <1>1 DEF BufferInv, PositionInv, TryInv, WaitInv, Position
<1>4. DeliverInv'
  BY <1>1 DEF BufferInv, DeliverInv
<1> QED BY <1>1, <1>2, <1>3, <1>4 DEF BufferInv

LEMMA CloseKeeps ==
  ASSUME BufferInv, pc = "idle", CloseSink, initial_seq' \in Nat
  PROVE  BufferInv'
<1>1. /\ chunks' = {} /\ cur_rseq' = 0 /\ last_reassem_rseq' = 0 /\ trim_rseq' = 0
      /\ stopped' = None /\ UNCHANGED <<pc, c, now, s, excpt>>
  BY DEF CloseSink, delivery
<1>2. BufferTyped'
  BY <1>1 DEF BufferInv, BufferTyped
<1>3. WellFormed(chunks', trim_rseq') /\ PositionInv' /\ TryInv' /\ WaitInv' /\ DeliverInv'
  BY <1>1 DEF WellFormed, PositionInv, Reached, TryInv, WaitInv, DeliverInv
<1> QED BY <1>2, <1>3 DEF BufferInv

(* The sequence numbers that a program uses *)
LEMMA SeqsNat ==
  Seqs \subseteq Nat /\ \A n \in InitialSeqs : n \in Nat
<1>1. \A n \in InitialSeqs \cup {0} : n \in Nat
  BY SinkAssumption
<1>2. \A n \in InitialSeqs \cup {0}, o \in 0..MaxSeq : n + o \in Nat
  BY <1>1
<1> QED BY <1>1, <1>2 DEF Seqs

(* Every step keeps the buffer and the position of the reassembly right. *)
LEMMA BufferNext ==
  ASSUME Disciplined, BufferInv, [Next]_vars
  PROVE  BufferInv'
<1>0. Seqs \subseteq Nat /\ \A n \in InitialSeqs : n \in Nat
  BY SeqsNat
<1>01. initial_seq \in Nat /\ cur_rseq \in Nat /\ s \in Nat /\ (pc = "deliver" => s >= 1)
  BY DEF BufferInv, BufferTyped, DeliverInv
<1>1. ASSUME NEW seq \in Seqs, NEW len \in 1..MaxSeq, NEW v \in Versions, Write(seq, len, v)
      PROVE  BufferInv'
  <2> DEFINE from == seq - initial_seq
             to == from + len
             data == Bytes(from, to, v)
  <2>1. from \in Nat /\ to \in Nat /\ from < to
    BY <1>0, <1>01, <1>1 DEF Write
  <2>2. NotPartlyOld(from, to) /\ NewBlock(from, to, data)
    BY <1>1 DEF Write
  <2>3. Payload(data, from, to)
    BY DEF Payload
  <2> HIDE DEF from, to, data
  <2> QED BY <2>1, <2>2, <2>3, NewBlockKeeps
<1>2. ASSUME NEW len \in 1..MaxSeq, NEW v \in Versions, AppendData(len, v)
      PROVE  BufferInv'
  <2> DEFINE to == cur_rseq + len
             data == Bytes(cur_rseq, to, v)
  <2>1. to \in Nat /\ cur_rseq < to
    BY <1>01
  <2>2. NotPartlyOld(cur_rseq, to) /\ NewBlock(cur_rseq, to, data)
    BY <1>2 DEF AppendData
  <2>3. Payload(data, cur_rseq, to)
    BY DEF Payload
  <2> HIDE DEF to, data
  <2> QED BY <1>01, <2>1, <2>2, <2>3, NewBlockKeeps
<1>3. ASSUME NEW seq \in Seqs, NEW len \in 1..MaxSeq, ReportGap(seq, len)
      PROVE  BufferInv'
  <2> DEFINE from == seq - initial_seq
             to == from + len
  <2>1. from \in Nat /\ to \in Nat /\ from < to
    BY <1>0, <1>01, <1>3 DEF ReportGap
  <2>2. NotPartlyOld(from, to) /\ NewBlock(from, to, Gap)
    BY <1>3 DEF ReportGap
  <2>3. Payload(Gap, from, to)
    BY DEF Payload
  <2> HIDE DEF from, to
  <2> QED BY <2>1, <2>2, <2>3, NewBlockKeeps
<1>4. ASSUME NEW seq \in Seqs, TrimTo(seq) \/ SkipTo(seq)
      PROVE  BufferInv'
  BY <1>0, <1>4, TrimToKeeps, SkipToKeeps
<1>5. ASSUME NEW p \in Parsers, Connect(p) \/ Disconnect(p)
      PROVE  BufferInv'
  BY <1>01, <1>5, ParserStepKeeps DEF Connect, Disconnect, delivery, history
<1>6. ASSUME NEW n \in InitialSeqs, SetInitialSequenceNumber(n)
      PROVE  BufferInv'
  <2>1. initial_seq' \in Nat /\ pc = "idle"
    BY <1>0, <1>6 DEF SetInitialSequenceNumber
  <2>2. CASE cur_rseq # 0 \/ chunks # {}
    BY <1>6, <2>1, <2>2, CloseKeeps DEF SetInitialSequenceNumber
  <2>3. CASE ~ (cur_rseq # 0 \/ chunks # {})
    <3>1. UNCHANGED <<cur_rseq, last_reassem_rseq, trim_rseq, chunks, pc, c, now, s, excpt, stopped>>
      BY <1>6, <2>3 DEF SetInitialSequenceNumber, delivery, history
    <3>2. BufferTyped'
      BY <2>1, <3>1 DEF BufferInv, BufferTyped
    <3> QED BY <3>1, <3>2 DEF BufferInv, PositionInv, TryInv, WaitInv, Position, DeliverInv
  <2> QED BY <2>2, <2>3
<1>7. CASE Close \/ Reject
  BY <1>01, <1>7, CloseKeeps DEF Close, Reject
<1>8. CASE TryNext \/ TryGap \/ TryData
  BY <1>8, TryNextCases, TryEndsKeeps, TryPassesKeeps, TryGapKeeps, TryDataKeeps
<1>9. ASSUME NEW D \in SUBSET Parsers, ParserYields(D) \/ ParserFinishes(D)
      PROVE  BufferInv'
  <2>1. CASE ParserYields(D)
    BY <1>01, <2>1, ParserStepKeeps DEF ParserYields
  <2>2. CASE ParserFinishes(D)
    BY <1>01, <2>2, ParserStepKeeps DEF ParserFinishes, delivery
  <2> QED BY <1>9, <2>1, <2>2
<1>10. ASSUME NEW D \in SUBSET Parsers, ParserThrows(D)
       PROVE  BufferInv'
  BY <1>10, DeliveryEndsKeeps DEF ParserThrows, Delivering
<1>11. CASE ChunkLost \/ ParsersDone
  BY <1>11, DeliveryEndsKeeps DEF ChunkLost, ParsersDone
<1>12. CASE UNCHANGED vars
  BY <1>01, <1>12, ParserStepKeeps DEF vars, delivery, history
<1> QED BY <1>1, <1>2, <1>3, <1>4, <1>5, <1>6, <1>7, <1>8, <1>9, <1>10, <1>11, <1>12
        DEF Next, Program, Deliver, Spin

-----------------------------------------------------------------------------
(* The list of parsers *)

LEMMA UnlinkedIs ==
  ASSUME head \in Seq(Parsers), NEW i \in 1..Len(head)
  PROVE  /\ Unlinked(i) \in Seq(Parsers)
         /\ Len(Unlinked(i)) = Len(head) - 1
         /\ \A j \in 1..(Len(head) - 1) :
              Unlinked(i)[j] = IF j < i THEN head[j] ELSE head[j + 1]
<1> DEFINE a == SubSeq(head, 1, i - 1)
           b == SubSeq(head, i + 1, Len(head))
<1>0. Len(head) \in Nat /\ \A j \in 1..Len(head) : head[j] \in Parsers
  OBVIOUS
<1>1. a \in Seq(Parsers) /\ Len(a) = i - 1 /\ \A j \in 1..(i - 1) : a[j] = head[j]
  <2>1. \A j \in 1..(i - 1) : head[j] \in Parsers
    BY <1>0
  <2>2. /\ a \in Seq(Parsers)
        /\ Len(a) = IF 1 <= i - 1 THEN i - 1 - 1 + 1 ELSE 0
        /\ \A j \in 1..(i - 1 - 1 + 1) : a[j] = head[1 + j - 1]
    BY <2>1, SubSeqProperties
  <2> HIDE DEF a
  <2> QED BY <1>0, <2>2
<1>2. b \in Seq(Parsers) /\ Len(b) = Len(head) - i /\ \A j \in 1..(Len(head) - i) : b[j] = head[i + j]
  <2>1. \A j \in (i + 1)..Len(head) : head[j] \in Parsers
    BY <1>0
  <2>2. /\ b \in Seq(Parsers)
        /\ Len(b) = IF i + 1 <= Len(head) THEN Len(head) - (i + 1) + 1 ELSE 0
        /\ \A j \in 1..(Len(head) - (i + 1) + 1) : b[j] = head[(i + 1) + j - 1]
    BY <1>0, <2>1, SubSeqProperties
  <2> HIDE DEF b
  <2> QED BY <1>0, <2>2
<1>3. Unlinked(i) = a \o b
  BY DEF Unlinked
<1> HIDE DEF a, b
<1>4. /\ Unlinked(i) \in Seq(Parsers) /\ Len(Unlinked(i)) = Len(a) + Len(b)
      /\ \A j \in 1..(Len(a) + Len(b)) : Unlinked(i)[j] = IF j <= Len(a) THEN a[j] ELSE b[j - Len(a)]
  BY <1>1, <1>2, <1>3, ConcatProperties
<1>5. ASSUME NEW j \in 1..(Len(head) - 1)
      PROVE  Unlinked(i)[j] = IF j < i THEN head[j] ELSE head[j + 1]
  <2>1. Unlinked(i)[j] = IF j <= i - 1 THEN a[j] ELSE b[j - (i - 1)]
    BY <1>0, <1>1, <1>2, <1>4
  <2>2. CASE j < i
    BY <1>0, <1>1, <2>1, <2>2
  <2>3. CASE ~ (j < i)
    <3>1. j - (i - 1) \in 1..(Len(head) - i) /\ i + (j - (i - 1)) = j + 1
      BY <1>0, <2>3
    <3> QED BY <1>0, <1>2, <2>1, <2>3, <3>1
  <2> QED BY <2>2, <2>3
<1> QED BY <1>0, <1>1, <1>2, <1>4, <1>5

(* The loop over the list: f[i] is what it has kept after i positions. *)
Kept(f, h, n, S) ==
  f = [i \in 0..n |-> IF i = 0 THEN <<>>
                      ELSE IF h[i] \in S THEN f[i - 1] ELSE Append(f[i - 1], h[i])]

LEMMA KeptExists ==
  ASSUME NEW h, NEW n \in Nat, NEW S
  PROVE  \E f : Kept(f, h, n, S)
<1> DEFINE Step(g, i) == IF i = 0 THEN <<>>
                         ELSE IF h[i] \in S THEN g[i - 1] ELSE Append(g[i - 1], h[i])
           Is(g, m) == g = [i \in 0..m |-> g[i]] /\ \A i \in 0..m : g[i] = Step(g, i)
           T == {m \in 0..n : ~ \E g : Is(g, m)}
<1>1. T = {}
  <2> SUFFICES ASSUME T # {} PROVE FALSE
    OBVIOUS
  <2>1. PICK m \in T : \A k \in T : m <= k
    <3>1. T \subseteq Nat
      OBVIOUS
    <3> HIDE DEF T
    <3> QED BY <3>1, LeastNat
  <2>2. CASE m = 0
    <3> DEFINE g == [i \in 0..0 |-> <<>>]
    <3>1. Is(g, 0)
      OBVIOUS
    <3> QED BY <2>1, <2>2, <3>1
  <2>3. CASE m # 0
    <3>1. m - 1 \in 0..n /\ m - 1 \notin T
      BY <2>1, <2>3
    <3>2. PICK g : Is(g, m - 1)
      BY <3>1
    <3> DEFINE e == IF h[m] \in S THEN g[m - 1] ELSE Append(g[m - 1], h[m])
               f == [i \in 0..m |-> IF i < m THEN g[i] ELSE e]
    <3>3. \A i \in 0..m : f[i] = IF i < m THEN g[i] ELSE e
      OBVIOUS
    <3>4. f = [i \in 0..m |-> f[i]]
      OBVIOUS
    <3> HIDE DEF f
    <3>5. \A i \in 0..m : f[i] = Step(f, i)
      <4> TAKE i \in 0..m
      <4>1. CASE i < m
        <5>1. f[i] = g[i] /\ i \in 0..(m - 1)
          BY <2>1, <3>3, <4>1
        <5>2. g[i] = Step(g, i)
          BY <3>2, <5>1
        <5>3. i # 0 => i - 1 \in 0..m /\ i - 1 < m
          BY <2>1, <4>1
        <5>4. i # 0 => f[i - 1] = g[i - 1]
          BY <3>3, <5>3
        <5>5. Step(f, i) = Step(g, i)
          BY <5>4
        <5> HIDE DEF Step
        <5> QED BY <5>1, <5>2, <5>5
      <4>2. CASE i = m
        <5>1. f[i] = e /\ i - 1 \in 0..m /\ i - 1 < m /\ i # 0
          BY <2>1, <2>3, <3>3, <4>2
        <5>2. f[i - 1] = g[i - 1]
          BY <3>3, <5>1
        <5> QED BY <4>2, <5>1, <5>2
      <4> QED BY <2>1, <4>1, <4>2
    <3>6. Is(f, m)
      BY <3>4, <3>5
    <3> QED BY <2>1, <3>6
  <2> QED BY <2>2, <2>3
<1>2. PICK f : Is(f, n)
  BY <1>1
<1> QED BY <1>2 DEF Kept

(* The list q has parsers from the first n of h, each one once. *)
PartOfList(q, h, n) ==
  /\ q \in Seq(Parsers)
  /\ \A i, j \in 1..Len(q) : q[i] = q[j] => i = j
  /\ \A i \in 1..Len(q) : \E j \in 1..n : q[i] = h[j]

(* What it has kept after n positions *)
LEMMA KeptIs ==
  ASSUME NEW h \in Seq(Parsers), NEW n \in Nat, n = Len(h), NEW S,
         \A i, j \in 1..n : h[i] = h[j] => i = j,
         NEW f, Kept(f, h, n, S)
  PROVE  PartOfList(f[n], h, n)
<1>0. \A j \in 1..n : h[j] \in Parsers
  OBVIOUS
<1>1. \A i \in 0..n : f[i] = IF i = 0 THEN <<>>
                             ELSE IF h[i] \in S THEN f[i - 1] ELSE Append(f[i - 1], h[i])
  BY DEF Kept
<1>2. 0 \in 0..n /\ \A i \in 1..n : i \in 0..n /\ i # 0
  OBVIOUS
<1>3. f[0] = <<>>
  BY <1>1, <1>2
<1>4. \A i \in 1..n : f[i] = IF h[i] \in S THEN f[i - 1] ELSE Append(f[i - 1], h[i])
  BY <1>1, <1>2
<1> DEFINE Good(q, m) == PartOfList(q, h, m)
           T == {m \in 0..n : ~ Good(f[m], m)}
<1>5. ASSUME T # {} PROVE FALSE
  <2>1. PICK m \in T : \A k \in T : m <= k
    <3>1. T \subseteq Nat
      OBVIOUS
    <3> HIDE DEF T
    <3> QED BY <1>5, <3>1, LeastNat
  <2>2. m # 0
    <3>1. Good(<<>>, 0)
      BY DEF PartOfList
    <3> QED BY <1>3, <2>1, <3>1
  <2>3. m \in 1..n /\ m - 1 \in 0..n /\ m - 1 \notin T
    <3>1. m \in 0..n
      BY <2>1
    <3>2. m \in 1..n /\ m - 1 \in 0..n /\ m - 1 \in Nat /\ ~ (m <= m - 1)
      BY <2>2, <3>1
    <3> HIDE DEF T
    <3> QED BY <2>1, <3>2
  <2> DEFINE q == f[m - 1]
  <2>4. Good(q, m - 1)
    <3> QED BY <2>3
  <2>5. f[m] = IF h[m] \in S THEN q ELSE Append(q, h[m])
    BY <1>4, <2>3
  <2>6. q \in Seq(Parsers) /\ Len(q) \in Nat
        /\ (\A i, j \in 1..Len(q) : q[i] = q[j] => i = j)
        /\ \A i \in 1..Len(q) : \E j \in 1..(m - 1) : q[i] = h[j]
    BY <2>4 DEF PartOfList
  <2> HIDE DEF q
  <2>7. \A i \in 1..Len(q) : \E j \in 1..m : q[i] = h[j]
    BY <2>3, <2>6
  <2>8. CASE h[m] \in S
    <3>1. f[m] = q
      BY <2>5, <2>8
    <3>2. Good(f[m], m)
      BY <2>6, <2>7, <3>1 DEF PartOfList
    <3> QED BY <2>1, <3>2
  <2>9. CASE h[m] \notin S
    <3> DEFINE e == Append(q, h[m])
    <3>1. f[m] = e
      BY <2>5, <2>9
    <3>2. e \in Seq(Parsers) /\ Len(e) = Len(q) + 1 /\ e[Len(q) + 1] = h[m]
          /\ \A i \in 1..Len(q) : e[i] = q[i]
      BY <1>0, <2>3, <2>6
    <3> HIDE DEF e
    <3>3. \A i \in 1..Len(q) : e[i] # h[m]
      <4> TAKE i \in 1..Len(q)
      <4>1. PICK j \in 1..(m - 1) : q[i] = h[j]
        BY <2>6
      <4>2. j \in 1..n /\ m \in 1..n /\ j # m
        BY <2>3, <1>0
      <4>3. h[j] # h[m]
        BY <4>2
      <4> QED BY <3>2, <4>1, <4>3
    <3>4. \A i, j \in 1..Len(e) : e[i] = e[j] => i = j
      <4> TAKE i, j \in 1..Len(e)
      <4>1. (i \in 1..Len(q) \/ i = Len(q) + 1) /\ (j \in 1..Len(q) \/ j = Len(q) + 1)
        BY <2>6, <3>2
      <4> QED BY <2>6, <3>2, <3>3, <4>1
    <3>5. \A i \in 1..Len(e) : \E j \in 1..m : e[i] = h[j]
      <4> TAKE i \in 1..Len(e)
      <4>1. i \in 1..Len(q) \/ i = Len(q) + 1
        BY <2>6, <3>2
      <4>2. CASE i \in 1..Len(q)
        BY <2>7, <3>2, <4>2
      <4>3. CASE i = Len(q) + 1
        BY <2>3, <3>2, <4>3
      <4> QED BY <4>1, <4>2, <4>3
    <3>6. Good(f[m], m)
      BY <3>1, <3>2, <3>4, <3>5 DEF PartOfList
    <3> QED BY <2>1, <3>6
  <2> QED BY <2>8, <2>9
<1>6. Good(f[n], n)
  <2>1. n \in 0..n
    OBVIOUS
  <2> QED BY <1>5, <2>1
<1> QED BY <1>6

(* What is left of the list are parsers of the list, each one once. *)
LEMMA WithoutIs ==
  ASSUME head \in Seq(Parsers), NEW S,
         \A i, j \in 1..Len(head) : head[i] = head[j] => i = j
  PROVE  PartOfList(Without(S), head, Len(head))
<1> DEFINE f == CHOOSE g : Kept(g, head, Len(head), S)
<1>1. Kept(f, head, Len(head), S)
  <2>1. Len(head) \in Nat
    OBVIOUS
  <2>2. \E g : Kept(g, head, Len(head), S)
    BY <2>1, KeptExists
  <2> QED BY <2>2
<1>2. Without(S) = f[Len(head)]
  BY DEF Without, Kept
<1> HIDE DEF f
<1>3. PICK h \in Seq(Parsers) : h = head
  OBVIOUS
<1>4. PICK n \in Nat : n = Len(h)
  OBVIOUS
<1>5. PICK g : Kept(g, h, n, S) /\ Without(S) = g[n]
  BY <1>1, <1>2, <1>3, <1>4
<1>6. \A i, j \in 1..n : h[i] = h[j] => i = j
  BY <1>3, <1>4
<1>7. PartOfList(g[n], h, n)
  BY <1>4, <1>5, <1>6, KeptIs
<1> QED BY <1>3, <1>4, <1>5, <1>7

(* Stream y is stream x, followed by the bytes from a up to b. *)
Got(x, y, a, b) ==
  /\ y \in Seq(Nat) /\ Len(y) = Len(x) + (b - a)
  /\ \A i \in 1..Len(y) : y[i] = IF i <= Len(x) THEN x[i] ELSE a + (i - Len(x)) - 1

(* What the current data adds to a stream *)
LEMMA GiveIs ==
  ASSUME BufferInv, pc = "deliver", stream \in [Parsers -> Seq(Nat)], NEW p \in Parsers, Give(p)
  PROVE  /\ stream' \in [Parsers -> Seq(Nat)]
         /\ \A q \in Parsers : q # p => stream'[q] = stream[q]
         /\ Got(stream[p], stream'[p], now.rseq, now.rupper)
<1>1. PICK a \in Nat, b \in Nat : a = now.rseq /\ b = now.rupper /\ a < b
  BY DEF BufferInv, BufferTyped, DeliverInv, Exact, ChunkType
<1>2. now.data = [i \in 1..(b - a) |-> [off |-> a + i - 1, ver |-> now.data[i].ver]]
  BY <1>1 DEF BufferInv, DeliverInv, Exact, DataExact
<1> DEFINE e == [i \in DOMAIN now.data |-> now.data[i].off]
<1>3. DOMAIN now.data = 1..(b - a)
  BY <1>2
<1>4. \A i \in 1..(b - a) : now.data[i] = [off |-> a + i - 1, ver |-> now.data[i].ver]
  <2> DEFINE d == [i \in 1..(b - a) |-> [off |-> a + i - 1, ver |-> now.data[i].ver]]
  <2>1. \A i \in 1..(b - a) : d[i] = [off |-> a + i - 1, ver |-> now.data[i].ver]
    OBVIOUS
  <2>2. now.data = d
    BY <1>2
  <2> HIDE DEF d
  <2> QED BY <2>1, <2>2
<1>5. \A i \in 1..(b - a) : now.data[i].off = a + i - 1
  <2> TAKE i \in 1..(b - a)
  <2>1. now.data[i] = [off |-> a + i - 1, ver |-> now.data[i].ver]
    BY <1>4
  <2>2. [off |-> a + i - 1, ver |-> now.data[i].ver].off = a + i - 1
    OBVIOUS
  <2> QED BY <2>1, <2>2
<1>6. b - a \in Nat /\ e \in [1..(b - a) -> Nat] /\ \A i \in 1..(b - a) : e[i] = a + i - 1
  BY <1>1, <1>3, <1>5
<1>7. e \in Seq(Nat) /\ Len(e) = b - a
  <2> HIDE DEF e
  <2>1. e \in Seq(Nat)
    BY <1>6, SeqDef
  <2>2. DOMAIN e = 1..Len(e) /\ Len(e) \in Nat
    BY <2>1, LenProperties
  <2>3. PICK m \in Nat, n \in Nat : m = Len(e) /\ n = b - a
    BY <1>6, <2>2
  <2>4. 1..m = 1..n
    BY <1>6, <2>2, <2>3
  <2>5. m = n
    BY <2>4
  <2> QED BY <2>1, <2>3, <2>5
<1>8. stream' = [stream EXCEPT ![p] = stream[p] \o e]
  BY DEF Give
<1> HIDE DEF e
<1>9. PICK x \in Seq(Nat) : x = stream[p]
  OBVIOUS
<1>10. /\ x \o e \in Seq(Nat) /\ Len(x \o e) = Len(x) + Len(e)
       /\ \A i \in 1..(Len(x) + Len(e)) : (x \o e)[i] = IF i <= Len(x) THEN x[i] ELSE e[i - Len(x)]
  BY <1>7, ConcatProperties
<1>11. Got(x, x \o e, a, b)
  <2>1. ASSUME NEW i \in 1..(Len(x) + (b - a))
        PROVE  (x \o e)[i] = IF i <= Len(x) THEN x[i] ELSE a + (i - Len(x)) - 1
    <3>1. Len(x) \in Nat
      OBVIOUS
    <3>2. CASE i <= Len(x)
      BY <1>7, <1>10, <3>2
    <3>3. CASE ~ (i <= Len(x))
      <4>1. i - Len(x) \in 1..(b - a)
        BY <1>6, <3>1, <3>3
      <4>2. (x \o e)[i] = e[i - Len(x)]
        BY <1>7, <1>10, <3>3
      <4> QED BY <1>6, <3>3, <4>1, <4>2
    <3> QED BY <3>2, <3>3
  <2>2. Len(x \o e) = Len(x) + (b - a)
    BY <1>7, <1>10
  <2> QED BY <1>10, <2>1, <2>2 DEF Got
<1>12. stream'[p] = x \o e /\ \A q \in Parsers : q # p => stream'[q] = stream[q]
  BY <1>8, <1>9
<1>13. stream' \in [Parsers -> Seq(Nat)]
  BY <1>8, <1>9, <1>10
<1> QED BY <1>1, <1>9, <1>11, <1>12, <1>13

(* A stream stays ordered when data from after its end follows. *)
LEMMA GotOrdered ==
  ASSUME NEW x \in Seq(Nat), NEW y, NEW a \in Nat, NEW b \in Nat, a < b, Got(x, y, a, b),
         \A i \in 1..Len(x) : x[i] < a, \A i \in 1..(Len(x) - 1) : x[i] < x[i + 1]
  PROVE  /\ \A i \in 1..Len(y) : y[i] < b
         /\ \A i \in 1..(Len(y) - 1) : y[i] < y[i + 1]
<1>1. PICK n \in Nat : n = Len(x)
  OBVIOUS
<1>2. Len(y) = n + (b - a) /\ \A i \in 1..(n + (b - a)) : y[i] = IF i <= n THEN x[i] ELSE a + (i - n) - 1
  BY <1>1 DEF Got
<1>3. \A i \in 1..n : x[i] \in Nat /\ x[i] < a
  BY <1>1
<1>4. ASSUME NEW i \in 1..(n + (b - a)) PROVE y[i] < b
  BY <1>2, <1>3
<1>5. ASSUME NEW i \in 1..(n + (b - a) - 1) PROVE y[i] < y[i + 1]
  <2>1. i \in 1..(n + (b - a)) /\ i + 1 \in 1..(n + (b - a))
    OBVIOUS
  <2>2. CASE i < n
    <3>1. y[i] = x[i] /\ y[i + 1] = x[i + 1]
      BY <1>2, <2>1, <2>2
    <3>2. i \in 1..(Len(x) - 1)
      BY <1>1, <2>2
    <3> QED BY <3>1, <3>2
  <2>3. CASE i = n
    <3>1. y[i] = x[i] /\ y[i + 1] = a
      BY <1>2, <2>1, <2>3
    <3> QED BY <1>3, <2>1, <2>3, <3>1
  <2>4. CASE i > n
    BY <1>2, <2>1, <2>4
  <2> QED BY <2>2, <2>3, <2>4
<1> QED BY <1>2, <1>4, <1>5

(* It has no silent hole if all up to the new data is excused. *)
LEMMA GotNoHole ==
  ASSUME NEW x \in Seq(Nat), NEW y, NEW a \in Nat, NEW b \in Nat, a < b, Got(x, y, a, b), NEW X,
         Knows(x, X, a), NoHoleIn(x, X)
  PROVE  NoHoleIn(y, X) /\ y # <<>> /\ y[Len(y)] = b - 1
<1>1. PICK n \in Nat : n = Len(x)
  OBVIOUS
<1>2. Len(y) = n + (b - a) /\ \A i \in 1..(n + (b - a)) : y[i] = IF i <= n THEN x[i] ELSE a + (i - n) - 1
  BY <1>1 DEF Got
<1>3. \A i \in 1..n : x[i] \in Nat
  BY <1>1
<1>4. n # 0 => \A o \in Nat : x[n] < o /\ o < a => o \in X
  BY <1>1 DEF Knows
<1>5. ASSUME NEW i \in 1..(n + (b - a) - 1) PROVE (y[i] + 1)..(y[i + 1] - 1) \subseteq X
  <2>1. i \in 1..(n + (b - a)) /\ i + 1 \in 1..(n + (b - a))
    OBVIOUS
  <2>2. CASE i < n
    <3>1. y[i] = x[i] /\ y[i + 1] = x[i + 1]
      BY <1>2, <2>1, <2>2
    <3>2. i \in 1..(Len(x) - 1)
      BY <1>1, <2>2
    <3> QED BY <3>1, <3>2 DEF NoHoleIn
  <2>3. CASE i = n
    <3>1. y[i] = x[n] /\ y[i + 1] = a /\ n \in 1..n
      BY <1>2, <2>1, <2>3
    <3>2. x[n] \in Nat
      BY <1>3, <3>1
    <3>3. \A o \in (x[n] + 1)..(a - 1) : o \in Nat /\ x[n] < o /\ o < a
      BY <3>2
    <3> QED BY <1>4, <2>1, <2>3, <3>1, <3>3
  <2>4. CASE i > n
    <3>1. y[i + 1] - 1 < y[i] + 1 /\ y[i] \in Int /\ y[i + 1] \in Int
      BY <1>2, <2>1, <2>4
    <3> QED BY <3>1
  <2> QED BY <2>2, <2>3, <2>4
<1>6. y # <<>> /\ y[Len(y)] = b - 1
  <2>1. n + (b - a) \in 1..(n + (b - a)) /\ ~ (n + (b - a) <= n) /\ a + ((n + (b - a)) - n) - 1 = b - 1
    OBVIOUS
  <2>2. y[n + (b - a)] = b - 1
    BY <1>2, <2>1
  <2>3. y # <<>>
    BY <1>2
  <2> QED BY <1>2, <2>2, <2>3
<1> QED BY <1>2, <1>5, <1>6 DEF NoHoleIn

(* What a report of a gap or skip, or a lost chunk, adds to the excuses *)
LEMMA ExcuseIs ==
  ASSUME excused \in [Parsers -> SUBSET Nat], NEW P, NEW offs \in SUBSET Nat, Excuse(P, offs)
  PROVE  /\ excused' \in [Parsers -> SUBSET Nat]
         /\ \A p \in Parsers : excused[p] \subseteq excused'[p]
         /\ \A p \in Parsers : p \in P => offs \subseteq excused'[p]
BY DEF Excuse

LEMMA ReportIs ==
  ASSUME ListInv, NEW offs \in SUBSET Nat, Report(offs)
  PROVE  /\ excused' \in [Parsers -> SUBSET Nat]
         /\ \A p \in Parsers : excused[p] \subseteq excused'[p]
         /\ \A j \in 1..Len(head) : offs \subseteq excused'[head[j]]
<1>1. \A j \in 1..Len(head) : head[j] \in Connected /\ head[j] \in Parsers
  BY DEF ListInv, Connected
<1> QED BY <1>1, ExcuseIs DEF Report, ListInv

(* A new block leaves the list of parsers alone. *)
LEMMA NewBlockExcuses ==
  ASSUME BufferInv, ListInv, NEW from \in Nat, NEW to \in Nat, from < to, NEW data, NewBlock(from, to, data)
  PROVE  /\ UNCHANGED <<parsers, stream>>
         /\ excused' \in [Parsers -> SUBSET Nat]
         /\ \A p \in Parsers : excused[p] \subseteq excused'[p]
         /\ pc = "idle" /\ cur_rseq \in Nat
         /\ last_reassem_rseq' = last_reassem_rseq
         /\ \/ cur_rseq' = cur_rseq
            \/ /\ cur_rseq' = to /\ pc' = "idle"
               /\ \A j \in 1..Len(head) : \A o \in Nat : cur_rseq <= o /\ o < to => o \in excused'[head[j]]
<1>1. UNCHANGED <<parsers, stream>> /\ pc = "idle" /\ cur_rseq \in Nat
  BY DEF NewBlock, BufferInv, BufferTyped
<1>2. CASE PassOnAtOnce(from) /\ data = Gap
  <2>1. from = cur_rseq /\ DeliverGap(from, to) /\ UNCHANGED <<delivery, last_reassem_rseq>>
    BY <1>2 DEF NewBlock, PassOnAtOnce
  <2>2. Report(from..(to - 1)) /\ cur_rseq' = to
    BY <2>1 DEF DeliverGap
  <2>3. from..(to - 1) \in SUBSET Nat
    OBVIOUS
  <2>4. /\ excused' \in [Parsers -> SUBSET Nat]
        /\ \A p \in Parsers : excused[p] \subseteq excused'[p]
        /\ \A j \in 1..Len(head) : from..(to - 1) \subseteq excused'[head[j]]
    BY <2>2, <2>3, ReportIs
  <2>5. \A o \in Nat : from <= o /\ o < to => o \in from..(to - 1)
    OBVIOUS
  <2>6. pc' = "idle"
    BY <1>1, <2>1 DEF delivery
  <2> QED BY <1>1, <2>1, <2>2, <2>4, <2>5, <2>6
<1>3. CASE ~ (PassOnAtOnce(from) /\ data = Gap)
  <2>1. UNCHANGED <<excused, cur_rseq, last_reassem_rseq>>
    BY <1>3 DEF NewBlock, reassembly
  <2> QED BY <1>1, <2>1 DEF ListInv
<1> QED BY <1>2, <1>3

(* Every step of the program that brings data or a gap is a new block. *)
LEMMA Blocks ==
  ASSUME BufferInv,
         \/ \E seq \in Seqs, len \in 1..MaxSeq, v \in Versions : Write(seq, len, v)
         \/ \E len \in 1..MaxSeq, v \in Versions : AppendData(len, v)
         \/ \E seq \in Seqs, len \in 1..MaxSeq : ReportGap(seq, len)
  PROVE  \E from, to, data : from \in Nat /\ to \in Nat /\ from < to /\ NewBlock(from, to, data)
<1>0. initial_seq \in Nat /\ cur_rseq \in Nat
  BY DEF BufferInv, BufferTyped
<1>1. ASSUME NEW seq \in Seqs, NEW len \in 1..MaxSeq, NEW v \in Versions, Write(seq, len, v)
      PROVE  \E from, to, data : from \in Nat /\ to \in Nat /\ from < to /\ NewBlock(from, to, data)
  <2> DEFINE from == seq - initial_seq
             to == from + len
  <2>1. from \in Nat /\ to \in Nat /\ from < to
    BY <1>0, <1>1, SeqsNat DEF Write
  <2>2. NewBlock(from, to, Bytes(from, to, v))
    BY <1>1 DEF Write
  <2> HIDE DEF from, to
  <2> QED BY <2>1, <2>2
<1>2. ASSUME NEW len \in 1..MaxSeq, NEW v \in Versions, AppendData(len, v)
      PROVE  \E from, to, data : from \in Nat /\ to \in Nat /\ from < to /\ NewBlock(from, to, data)
  <2> DEFINE to == cur_rseq + len
  <2>1. to \in Nat /\ cur_rseq < to
    BY <1>0
  <2>2. NewBlock(cur_rseq, to, Bytes(cur_rseq, to, v))
    BY <1>2 DEF AppendData
  <2> HIDE DEF to
  <2> QED BY <1>0, <2>1, <2>2
<1>3. ASSUME NEW seq \in Seqs, NEW len \in 1..MaxSeq, ReportGap(seq, len)
      PROVE  \E from, to, data : from \in Nat /\ to \in Nat /\ from < to /\ NewBlock(from, to, data)
  <2> DEFINE from == seq - initial_seq
             to == from + len
  <2>1. from \in Nat /\ to \in Nat /\ from < to
    BY <1>0, <1>3, SeqsNat DEF ReportGap
  <2>2. NewBlock(from, to, Gap)
    BY <1>3 DEF ReportGap
  <2> HIDE DEF from, to
  <2> QED BY <2>1, <2>2
<1> QED BY <1>1, <1>2, <1>3

(* A parser is unlinked while it is given data. *)
LEMMA UnlinkKeeps ==
  ASSUME ListInv, NEW i \in 1..Len(head), head' = Unlinked(i)
  PROVE  /\ head' \in Seq(Parsers) /\ Len(head') = Len(head) - 1
         /\ \A j \in 1..Len(head') : head'[j] = IF j < i THEN head[j] ELSE head[j + 1]
         /\ \A j, k \in 1..Len(head') : head'[j] = head'[k] => j = k
         /\ \A j \in 1..Len(head') : head'[j] \notin fresh
         /\ Connected \ {head[i]} \subseteq Connected'
<1>1. PICK n \in Nat : n = Len(head)
  BY DEF ListInv
<1>2. /\ head' \in Seq(Parsers) /\ Len(head') = n - 1
      /\ \A j \in 1..(n - 1) : head'[j] = IF j < i THEN head[j] ELSE head[j + 1]
  BY <1>1, UnlinkedIs DEF ListInv
<1>3. /\ \A j, k \in 1..n : head[j] = head[k] => j = k
      /\ \A j \in 1..n : head[j] \notin fresh
  BY <1>1 DEF ListInv
<1>4. ASSUME NEW j \in 1..(n - 1), NEW k \in 1..(n - 1), head'[j] = head'[k] PROVE j = k
  <2>1. PICK x \in 1..n : head'[j] = head[x] /\ x = IF j < i THEN j ELSE j + 1
    BY <1>2
  <2>2. PICK y \in 1..n : head'[k] = head[y] /\ y = IF k < i THEN k ELSE k + 1
    BY <1>2
  <2>3. x = y
    BY <1>3, <1>4, <2>1, <2>2
  <2> QED BY <1>1, <2>1, <2>2, <2>3
<1>5. ASSUME NEW j \in 1..(n - 1) PROVE head'[j] \notin fresh
  <2>1. PICK x \in 1..n : head'[j] = head[x]
    BY <1>2
  <2> QED BY <1>3, <2>1
<1>6. ASSUME NEW p \in Connected, p # head[i] PROVE p \in Connected'
  <2>1. PICK x \in 1..n : p = head[x]
    BY <1>1 DEF Connected, ListInv
  <2>2. x # i
    BY <1>6, <2>1
  <2>3. PICK j \in 1..(n - 1) : x = IF j < i THEN j ELSE j + 1
    <3>1. CASE x < i
      BY <1>1, <3>1
    <3>2. CASE x > i
      <4>1. x - 1 \in 1..(n - 1) /\ ~ (x - 1 < i) /\ x = (x - 1) + 1
        BY <1>1, <3>2
      <4> QED BY <4>1
    <3> QED BY <1>1, <2>2, <3>1, <3>2
  <2>4. head'[j] = p
    BY <1>2, <2>1, <2>3
  <2>5. j \in DOMAIN head'
    BY <1>2, LenProperties
  <2> QED BY <2>4, <2>5 DEF Connected
<1> QED BY <1>1, <1>2, <1>4, <1>5, <1>6

LEMMA ConnectKeeps ==
  ASSUME ListInv, NEW p \in fresh, head' = <<p>> \o head
  PROVE  /\ head' \in Seq(Parsers) /\ Len(head') = Len(head) + 1
         /\ head'[1] = p /\ \A j \in 2..Len(head') : head'[j] = head[j - 1]
<1>1. p \in Parsers /\ head \in Seq(Parsers) /\ Len(head) \in Nat
  BY DEF ListInv
<1>2. <<p>> \in Seq(Parsers) /\ Len(<<p>>) = 1 /\ <<p>>[1] = p
  BY <1>1
<1>3. /\ head' \in Seq(Parsers) /\ Len(head') = 1 + Len(head)
      /\ \A j \in 1..(1 + Len(head)) : head'[j] = IF j <= 1 THEN <<p>>[j] ELSE head[j - 1]
  BY <1>1, <1>2, ConcatProperties
<1> QED BY <1>1, <1>2, <1>3

(* Every step keeps the list of parsers right. *)
LEMMA ListNext ==
  ASSUME BufferInv, ListInv, [Next]_vars
  PROVE  ListInv'
<1>0. head \in Seq(Parsers) /\ Len(head) \in Nat /\ DOMAIN head = 1..Len(head)
  BY LenProperties DEF ListInv
<1>01. ASSUME UNCHANGED <<parsers, stream>>, excused' \in [Parsers -> SUBSET Nat] PROVE ListInv'
  <2>1. UNCHANGED <<head, disconnected, fresh, stream>>
    BY <1>01 DEF parsers
  <2>2. Connected' = Connected
    BY <2>1 DEF Connected
  <2> QED BY <1>01, <2>1, <2>2 DEF ListInv
<1>02. ASSUME UNCHANGED <<parsers, history>> PROVE ListInv'
  <2>1. UNCHANGED <<parsers, stream>> /\ excused' \in [Parsers -> SUBSET Nat]
    BY <1>02 DEF history, ListInv
  <2> QED BY <1>01, <2>1
<1>03. Delivering => s \in 1..Len(head) /\ head[s] \in Parsers /\ pc = "deliver"
  BY <1>0 DEF Delivering, BufferInv, BufferTyped, DeliverInv
<1>04. ASSUME Delivering, Give(head[s])
       PROVE  stream' \in [Parsers -> Seq(Nat)] /\ \A p \in fresh : stream'[p] = <<>>
  <2>1. /\ stream' \in [Parsers -> Seq(Nat)]
        /\ \A q \in Parsers : q # head[s] => stream'[q] = stream[q]
    BY <1>03, <1>04, GiveIs DEF ListInv
  <2> QED BY <1>03, <1>04, <2>1 DEF ListInv
<1>05. ASSUME CloseSink PROVE ListInv'
  BY <1>05 DEF CloseSink, ListInv, Connected
<1>1. CASE \/ \E seq \in Seqs, len \in 1..MaxSeq, v \in Versions : Write(seq, len, v)
           \/ \E len \in 1..MaxSeq, v \in Versions : AppendData(len, v)
           \/ \E seq \in Seqs, len \in 1..MaxSeq : ReportGap(seq, len)
  <2>1. PICK from, to, data : from \in Nat /\ to \in Nat /\ from < to /\ NewBlock(from, to, data)
    BY <1>1, Blocks
  <2> QED BY <1>01, <2>1, NewBlockExcuses
<1>2. ASSUME NEW seq \in Seqs, TrimTo(seq) PROVE ListInv'
  BY <1>01, <1>2 DEF TrimTo, ListInv
<1>3. ASSUME NEW seq \in Seqs, SkipTo(seq) PROVE ListInv'
  <2>1. Report(0..(seq - initial_seq - 1)) /\ UNCHANGED <<parsers, stream>>
    BY <1>3 DEF SkipTo
  <2>2. 0..(seq - initial_seq - 1) \in SUBSET Nat
    OBVIOUS
  <2> QED BY <1>01, <2>1, <2>2, ReportIs
<1>4. ASSUME NEW p \in Parsers, Connect(p) PROVE ListInv'
  <2>1. p \in fresh /\ head' = <<p>> \o head /\ fresh' = fresh \ {p}
        /\ UNCHANGED <<disconnected, stream, excused>>
    BY <1>4 DEF Connect, history
  <2>2. /\ head' \in Seq(Parsers) /\ Len(head') = Len(head) + 1
        /\ head'[1] = p /\ \A j \in 2..Len(head') : head'[j] = head[j - 1]
    BY <2>1, ConnectKeeps
  <2>3. \A j \in 1..Len(head') : j = 1 \/ (j \in 2..Len(head') /\ j - 1 \in 1..Len(head))
    BY <1>0, <2>2
  <2>4. \A j \in 1..Len(head) : head[j] \notin fresh
    BY DEF ListInv
  <2>5. \A j \in 1..Len(head') : head'[j] \notin fresh'
    BY <2>1, <2>2, <2>3, <2>4
  <2>6. \A i, j \in 1..Len(head') : head'[i] = head'[j] => i = j
    <3> TAKE i, j \in 1..Len(head')
    <3>1. \A m, n \in 1..Len(head) : head[m] = head[n] => m = n
      BY DEF ListInv
    <3>2. CASE i = 1 \/ j = 1
      BY <2>1, <2>2, <2>3, <2>4, <3>2
    <3>3. CASE i # 1 /\ j # 1
      <4>1. i - 1 \in 1..Len(head) /\ j - 1 \in 1..Len(head)
            /\ head'[i] = head[i - 1] /\ head'[j] = head[j - 1]
        BY <2>2, <2>3, <3>3
      <4>2. head'[i] = head'[j] => i - 1 = j - 1
        BY <3>1, <4>1
      <4> QED BY <1>0, <2>2, <4>2
    <3> QED BY <3>2, <3>3
  <2>7. disconnected' \subseteq Connected'
    <3>1. ASSUME NEW q \in Connected PROVE q \in Connected'
      <4>1. PICK j \in 1..Len(head) : q = head[j]
        BY <1>0 DEF Connected
      <4>2. j + 1 \in 2..Len(head') /\ (j + 1) - 1 = j /\ j + 1 \in 1..Len(head')
        BY <1>0, <2>2
      <4>3. head'[j + 1] = q
        BY <2>2, <4>1, <4>2
      <4>4. j + 1 \in DOMAIN head'
        BY <2>2, <4>2, LenProperties
      <4> QED BY <4>3, <4>4 DEF Connected
    <3> QED BY <2>1, <3>1 DEF ListInv
  <2>8. fresh' \subseteq Parsers /\ \A q \in fresh' : stream'[q] = <<>>
    BY <2>1 DEF ListInv
  <2> QED BY <2>1, <2>2, <2>5, <2>6, <2>7, <2>8 DEF ListInv
<1>5. ASSUME NEW p \in Parsers, Disconnect(p) PROVE ListInv'
  BY <1>5 DEF Disconnect, ListInv, Connected, history
<1>6. ASSUME NEW n \in InitialSeqs, SetInitialSequenceNumber(n) PROVE ListInv'
  BY <1>02, <1>05, <1>6 DEF SetInitialSequenceNumber
<1>7. CASE Close \/ Reject
  BY <1>05, <1>7 DEF Close, Reject
<1>8. CASE TryNext \/ TryData
  BY <1>02, <1>8 DEF TryNext, TryData
<1>9. CASE TryGap
  <2>1. UNCHANGED <<parsers, stream>> /\ DeliverGap(c, ChunkAt(c).rupper) /\ (c \in Nat \/ c = None) /\ c # None
    BY <1>9 DEF TryGap, BufferInv, BufferTyped
  <2>2. c..(ChunkAt(c).rupper - 1) \in SUBSET Nat
    BY <2>1
  <2>3. excused' \in [Parsers -> SUBSET Nat]
    <3>1. CASE cur_rseq # ChunkAt(c).rupper
      BY <2>1, <2>2, <3>1, ReportIs DEF DeliverGap
    <3>2. CASE cur_rseq = ChunkAt(c).rupper
      BY <2>1, <3>2 DEF DeliverGap, ListInv
    <3> QED BY <3>1, <3>2
  <2> QED BY <1>01, <2>1, <2>3
<1>10. ASSUME NEW D \in SUBSET Parsers, ParserYields(D) PROVE ListInv'
  <2>1. UNCHANGED <<head, fresh, excused>> /\ Delivering /\ Give(head[s])
        /\ D \subseteq Connected /\ disconnected' = disconnected \cup D
    BY <1>10 DEF ParserYields, MayDisconnect
  <2>2. stream' \in [Parsers -> Seq(Nat)] /\ \A p \in fresh : stream'[p] = <<>>
    BY <1>04, <2>1
  <2> QED BY <2>1, <2>2 DEF ListInv, Connected
<1>11. ASSUME NEW D \in SUBSET Parsers, ParserFinishes(D) \/ ParserThrows(D) PROVE ListInv'
  <2>1. UNCHANGED fresh /\ Delivering /\ Give(head[s]) /\ head' = Unlinked(s)
        /\ D \subseteq Connected /\ disconnected' = (disconnected \cup D) \ {head[s]}
    BY <1>11 DEF ParserFinishes, ParserThrows
  <2>2. excused' \in [Parsers -> SUBSET Nat]
    <3>1. CASE ParserFinishes(D)
      BY <3>1 DEF ParserFinishes, ListInv
    <3>2. CASE ParserThrows(D)
      <4>1. Excuse({head[i] : i \in (s + 1)..Len(head)}, now.rseq..(now.rupper - 1))
        BY <3>2 DEF ParserThrows
      <4>2. now.rseq..(now.rupper - 1) \in SUBSET Nat
        BY DEF BufferInv, BufferTyped, ChunkType
      <4> QED BY <4>1, <4>2, ExcuseIs DEF ListInv
    <3> QED BY <1>11, <3>1, <3>2
  <2>3. stream' \in [Parsers -> Seq(Nat)] /\ \A p \in fresh : stream'[p] = <<>>
    BY <1>04, <2>1
  <2>4. /\ head' \in Seq(Parsers)
        /\ \A j, k \in 1..Len(head') : head'[j] = head'[k] => j = k
        /\ \A j \in 1..Len(head') : head'[j] \notin fresh
        /\ Connected \ {head[s]} \subseteq Connected'
    BY <1>03, <2>1, UnlinkKeeps
  <2>5. disconnected' \subseteq Connected'
    BY <2>1, <2>4 DEF ListInv
  <2> QED BY <2>1, <2>2, <2>3, <2>4, <2>5 DEF ListInv
<1>12. CASE ChunkLost
  <2>1. UNCHANGED <<parsers, stream>> /\ Excuse(Connected, now.rseq..(now.rupper - 1))
    BY <1>12 DEF ChunkLost
  <2>2. now.rseq..(now.rupper - 1) \in SUBSET Nat
    BY DEF BufferInv, BufferTyped, ChunkType
  <2>3. excused' \in [Parsers -> SUBSET Nat]
    BY <2>1, <2>2, ExcuseIs DEF ListInv
  <2> QED BY <1>01, <2>1, <2>3
<1>13. CASE ParsersDone
  <2>1. head' = Without(disconnected) /\ disconnected' = {} /\ UNCHANGED <<fresh, stream, excused>>
    BY <1>13 DEF ParsersDone
  <2>2. PartOfList(head', head, Len(head))
    BY <2>1, WithoutIs DEF ListInv
  <2>3. \A i \in 1..Len(head') : head'[i] \notin fresh
    BY <2>2 DEF PartOfList, ListInv
  <2> QED BY <2>1, <2>2, <2>3 DEF PartOfList, ListInv
<1>14. CASE UNCHANGED vars
  BY <1>02, <1>14 DEF vars
<1> QED BY <1>1, <1>2, <1>3, <1>4, <1>5, <1>6, <1>7, <1>8, <1>9, <1>10, <1>11, <1>12, <1>13, <1>14
        DEF Next, Program, Deliver, Spin

-----------------------------------------------------------------------------
(* The order of the streams *)

(* Steps between two deliveries: the position does not go back. *)
LEMMA OrderBetween ==
  ASSUME BufferInv, BufferInv', ListInv, OrderInv, pc # "deliver", pc' # "deliver", stream' = stream,
         last_reassem_rseq <= last_reassem_rseq'
  PROVE  OrderInv'
<1>1. last_reassem_rseq \in Nat /\ last_reassem_rseq' \in Nat
  BY DEF BufferInv, BufferTyped
<1>2. StreamInOrder'
  BY DEF OrderInv, StreamInOrder
<1>3. ASSUME NEW p \in Parsers, NEW i \in 1..Len(stream[p]) PROVE stream[p][i] < last_reassem_rseq'
  <2>1. stream[p] \in Seq(Nat)
    BY DEF ListInv
  <2>2. stream[p][i] \in Nat
    BY <2>1
  <2>3. stream[p][i] < last_reassem_rseq
    BY DEF OrderInv, Before
  <2> QED BY <1>1, <2>2, <2>3
<1> QED BY <1>2, <1>3 DEF OrderInv, Before

(* A delivery starts at the position of the reassembly or after it. *)
LEMMA OrderStart ==
  ASSUME BufferInv, BufferInv', ListInv, ListInv', OrderInv, pc # "deliver", pc' = "deliver",
         stream' = stream, last_reassem_rseq <= now'.rseq
  PROVE  OrderInv'
<1>1. last_reassem_rseq \in Nat /\ now'.rseq \in Nat /\ now'.rupper \in Nat /\ now'.rseq < now'.rupper
  BY DEF BufferInv, BufferTyped, DeliverInv, ChunkType, Exact
<1>2. StreamInOrder'
  BY DEF OrderInv, StreamInOrder
<1>3. ASSUME NEW p \in Parsers, NEW i \in 1..Len(stream[p])
      PROVE  stream[p][i] < now'.rseq /\ stream[p][i] < now'.rupper
  <2>1. stream[p] \in Seq(Nat)
    BY DEF ListInv
  <2>2. stream[p][i] \in Nat
    BY <2>1
  <2>3. stream[p][i] < last_reassem_rseq
    BY DEF OrderInv, Before
  <2> QED BY <1>1, <2>2, <2>3
<1>4. \A j \in s'..Len(head') : head'[j] \in Parsers
  <2>1. s' >= 1 /\ s' \in Nat /\ head' \in Seq(Parsers)
    BY DEF BufferInv, BufferTyped, DeliverInv, ListInv
  <2> QED BY <2>1
<1> QED BY <1>2, <1>3, <1>4 DEF OrderInv, Before

(* At the end of a delivery the position is the end of its data. *)
LEMMA OrderEnd ==
  ASSUME StreamInOrder', pc' # "deliver", last_reassem_rseq' = now.rupper,
         \A p \in Parsers : \A i \in 1..Len(stream'[p]) : stream'[p][i] < now.rupper
  PROVE  OrderInv'
BY DEF OrderInv, Before

(* Giving the data to the parser that is next *)
LEMMA OrderGive ==
  ASSUME BufferInv, ListInv, OrderInv, Delivering, Give(head[s])
  PROVE  /\ StreamInOrder'
         /\ \A p \in Parsers : \A i \in 1..Len(stream'[p]) : stream'[p][i] < now.rupper
         /\ \A j \in (s + 1)..Len(head) : stream'[head[j]] = stream[head[j]]
<1>1. /\ s \in 1..Len(head) /\ head[s] \in Parsers /\ pc = "deliver"
      /\ \A j \in 1..Len(head) : head[j] \in Parsers
  BY DEF Delivering, BufferInv, BufferTyped, DeliverInv, ListInv
<1>2. PICK a \in Nat, b \in Nat : a = now.rseq /\ b = now.rupper /\ a < b
  BY <1>1 DEF BufferInv, BufferTyped, DeliverInv, Exact, ChunkType
<1>3. PICK p \in Parsers : p = head[s]
  BY <1>1
<1>4. /\ stream' \in [Parsers -> Seq(Nat)]
      /\ \A q \in Parsers : q # p => stream'[q] = stream[q]
      /\ Got(stream[p], stream'[p], a, b)
  BY <1>1, <1>2, <1>3, GiveIs DEF ListInv
<1>5. PICK x \in Seq(Nat) : x = stream[p]
  BY DEF ListInv
<1>6. PICK y : y = stream'[p]
  OBVIOUS
<1>7. /\ \A i \in 1..Len(x) : x[i] < a
      /\ \A i \in 1..(Len(x) - 1) : x[i] < x[i + 1]
  <2>1. Before(head[s], now.rseq)
    BY <1>1 DEF OrderInv
  <2> QED BY <1>2, <1>3, <1>5, <2>1 DEF OrderInv, StreamInOrder, Before
<1>8. /\ \A i \in 1..Len(y) : y[i] < b
      /\ \A i \in 1..(Len(y) - 1) : y[i] < y[i + 1]
  BY <1>2, <1>4, <1>5, <1>6, <1>7, GotOrdered
<1>9. StreamInOrder'
  <2> SUFFICES ASSUME NEW q \in Parsers, NEW i \in 1..(Len(stream'[q]) - 1)
               PROVE  stream'[q][i] < stream'[q][i + 1]
    BY DEF StreamInOrder
  <2>1. CASE q = p
    BY <1>6, <1>8, <2>1
  <2>2. CASE q # p
    BY <1>4, <2>2 DEF OrderInv, StreamInOrder
  <2> QED BY <2>1, <2>2
<1>10. \A q \in Parsers : \A i \in 1..Len(stream'[q]) : stream'[q][i] < now.rupper
  <2> TAKE q \in Parsers
  <2>1. CASE q = p
    BY <1>2, <1>6, <1>8, <2>1
  <2>2. CASE q # p
    BY <1>1, <1>4, <2>2 DEF OrderInv, Before
  <2> QED BY <2>1, <2>2
<1>11. \A j \in (s + 1)..Len(head) : head[j] # p /\ head[j] \in Parsers
  BY <1>1, <1>3 DEF ListInv
<1> QED BY <1>4, <1>9, <1>10, <1>11

(* Every step keeps the streams ordered. *)
LEMMA OrderNext ==
  ASSUME Disciplined, BufferInv, BufferInv', ListInv, ListInv', OrderInv, [Next]_vars
  PROVE  OrderInv'
<1>0. initial_seq \in Nat /\ cur_rseq \in Nat /\ last_reassem_rseq \in Nat /\ trim_rseq \in Nat
  BY DEF BufferInv, BufferTyped
<1>01. ASSUME UNCHANGED <<pc, now, s, last_reassem_rseq, stream, head>> PROVE OrderInv'
  BY <1>01 DEF OrderInv, StreamInOrder, Before
<1>02. ASSUME CloseSink, pc = "idle" PROVE OrderInv'
  <2>1. stream' = [p \in Parsers |-> <<>>] /\ pc' = "idle"
    BY <1>02 DEF CloseSink, delivery
  <2>2. \A p \in Parsers : Len(stream'[p]) = 0
    BY <2>1
  <2> QED BY <2>1, <2>2 DEF OrderInv, StreamInOrder, Before
<1>1. CASE \/ \E seq \in Seqs, len \in 1..MaxSeq, v \in Versions : Write(seq, len, v)
           \/ \E len \in 1..MaxSeq, v \in Versions : AppendData(len, v)
           \/ \E seq \in Seqs, len \in 1..MaxSeq : ReportGap(seq, len)
  <2>1. PICK from, to, data : from \in Nat /\ to \in Nat /\ from < to /\ NewBlock(from, to, data)
    BY <1>1, Blocks
  <2>2. stream' = stream /\ pc = "idle" /\ last_reassem_rseq' = last_reassem_rseq
    BY <2>1, NewBlockExcuses
  <2>3. CASE pc' # "deliver"
    BY <1>0, <2>2, <2>3, OrderBetween
  <2>4. CASE pc' = "deliver"
    <3>1. PassOnAtOnce(from) /\ data # Gap
      BY <2>1, <2>2, <2>4 DEF NewBlock, Buffer, delivery
    <3>2. now'.rseq = cur_rseq
      BY <2>1, <3>1 DEF NewBlock, PassOnAtOnce, StartDelivery, Chunk
    <3>3. last_reassem_rseq <= cur_rseq
      BY <2>2 DEF BufferInv, PositionInv
    <3> QED BY <2>2, <2>4, <3>2, <3>3, OrderStart
  <2> QED BY <2>3, <2>4
<1>2. ASSUME NEW seq \in Seqs, TrimTo(seq) PROVE OrderInv'
  BY <1>01, <1>2 DEF TrimTo, parsers, delivery, history
<1>3. ASSUME NEW seq \in Seqs, SkipTo(seq) PROVE OrderInv'
  <2>1. pc = "idle" /\ pc' = "try" /\ stream' = stream /\ last_reassem_rseq' >= cur_rseq
    BY <1>3 DEF SkipTo, Forward
  <2>2. last_reassem_rseq <= cur_rseq /\ last_reassem_rseq' \in Nat
    BY <2>1 DEF BufferInv, BufferTyped, PositionInv
  <2>3. last_reassem_rseq <= last_reassem_rseq'
    BY <1>0, <2>1, <2>2
  <2> QED BY <2>1, <2>3, OrderBetween
<1>4. ASSUME NEW p \in Parsers, Connect(p) PROVE OrderInv'
  BY <1>0, <1>4, OrderBetween DEF Connect, reassembly, delivery, history
<1>5. ASSUME NEW p \in Parsers, Disconnect(p) PROVE OrderInv'
  BY <1>01, <1>5 DEF Disconnect, reassembly, delivery, history
<1>6. ASSUME NEW n \in InitialSeqs, SetInitialSequenceNumber(n) PROVE OrderInv'
  BY <1>01, <1>02, <1>6 DEF SetInitialSequenceNumber, parsers, delivery, history
<1>7. CASE Close \/ Reject
  BY <1>02, <1>7 DEF Close, Reject
<1>8. CASE TryNext
  BY <1>0, <1>8, OrderBetween DEF TryNext, reassembly, history
<1>9. CASE TryGap \/ TryData
  <2>1. pc = "try" /\ c # None /\ c = last_reassem_rseq /\ stream' = stream
    BY <1>9 DEF TryGap, TryData, history
  <2>2. PICK k \in chunks : k.rseq = c
    BY <2>1 DEF BufferInv, TryInv
  <2>3. ChunkAt(c) = k /\ k.rseq \in Nat /\ k.rupper \in Nat /\ k.rseq < k.rupper
    BY <2>2, ChunkAtIs, Ranges DEF BufferInv
  <2>4. CASE TryGap
    <3>1. pc' = "idle" /\ last_reassem_rseq' = k.rupper
      BY <2>3, <2>4 DEF TryGap
    <3>2. last_reassem_rseq <= last_reassem_rseq'
      BY <1>0, <2>1, <2>2, <2>3, <3>1
    <3> QED BY <2>1, <3>1, <3>2, OrderBetween
  <2>5. CASE TryData
    <3>1. pc' = "deliver" /\ now' = k
      BY <2>3, <2>5 DEF TryData, StartDelivery
    <3>2. last_reassem_rseq <= now'.rseq
      BY <1>0, <2>1, <2>2, <3>1
    <3> QED BY <2>1, <3>1, <3>2, OrderStart
  <2> QED BY <1>9, <2>4, <2>5
<1>10. ASSUME NEW D \in SUBSET Parsers, ParserYields(D) PROVE OrderInv'
  <2>1. Delivering /\ Give(head[s]) /\ s' = s + 1 /\ UNCHANGED <<head, pc, now>> /\ pc = "deliver"
    BY <1>10 DEF ParserYields, Delivering
  <2>2. /\ StreamInOrder'
        /\ \A p \in Parsers : \A i \in 1..Len(stream'[p]) : stream'[p][i] < now.rupper
        /\ \A j \in (s + 1)..Len(head) : stream'[head[j]] = stream[head[j]]
    BY <2>1, OrderGive
  <2>3. \A j \in (s + 1)..Len(head) : Before(head[j], now.rseq)
    BY <2>1 DEF OrderInv, BufferInv, BufferTyped
  <2>4. \A j \in s'..Len(head') : Before(head[j], now.rseq)'
    BY <2>1, <2>2, <2>3 DEF Before
  <2> QED BY <2>1, <2>2, <2>4 DEF OrderInv, Before
<1>11. ASSUME NEW D \in SUBSET Parsers, ParserFinishes(D) PROVE OrderInv'
  <2>1. Delivering /\ Give(head[s]) /\ head' = Unlinked(s) /\ UNCHANGED <<s, pc, now>> /\ pc = "deliver"
    BY <1>11 DEF ParserFinishes, Delivering, delivery
  <2>2. /\ StreamInOrder'
        /\ \A p \in Parsers : \A i \in 1..Len(stream'[p]) : stream'[p][i] < now.rupper
        /\ \A j \in (s + 1)..Len(head) : stream'[head[j]] = stream[head[j]]
    BY <2>1, OrderGive
  <2>3. s \in Nat /\ s \in 1..Len(head) /\ Len(head) \in Nat
    BY <2>1 DEF BufferInv, BufferTyped, DeliverInv, Delivering, ListInv
  <2>4. /\ Len(head') = Len(head) - 1
        /\ \A j \in 1..Len(head') : head'[j] = IF j < s THEN head[j] ELSE head[j + 1]
    BY <2>1, <2>3, UnlinkKeeps
  <2>5. ASSUME NEW j \in s..Len(head') PROVE \A i \in 1..Len(stream'[head'[j]]) : stream'[head'[j]][i] < now.rseq
    <3>1. j + 1 \in (s + 1)..Len(head) /\ j \in 1..Len(head') /\ ~ (j < s) /\ j + 1 \in s..Len(head)
      BY <2>3, <2>4
    <3>2. head'[j] = head[j + 1]
      BY <2>4, <3>1
    <3>3. Before(head[j + 1], now.rseq)
      BY <2>1, <3>1 DEF OrderInv
    <3>4. stream'[head'[j]] = stream[head[j + 1]]
      BY <2>2, <3>1, <3>2
    <3> QED BY <3>3, <3>4 DEF Before
  <2> QED BY <2>1, <2>2, <2>5 DEF OrderInv, Before
<1>12. ASSUME NEW D \in SUBSET Parsers, ParserThrows(D) PROVE OrderInv'
  <2>1. Delivering /\ Give(head[s]) /\ DeliveryEnds(TRUE)
    BY <1>12 DEF ParserThrows
  <2>2. pc' # "deliver" /\ last_reassem_rseq' = now.rupper
    BY <2>1 DEF DeliveryEnds
  <2> QED BY <2>1, <2>2, OrderGive, OrderEnd
<1>13. CASE ChunkLost \/ ParsersDone
  <2>1. pc = "deliver" /\ stream' = stream /\ pc' # "deliver" /\ last_reassem_rseq' = now.rupper
    BY <1>13 DEF ChunkLost, ParsersDone, DeliveryEnds
  <2>2. StreamInOrder'
    BY <2>1 DEF OrderInv, StreamInOrder
  <2>3. \A p \in Parsers : \A i \in 1..Len(stream'[p]) : stream'[p][i] < now.rupper
    BY <2>1 DEF OrderInv, Before
  <2> QED BY <2>1, <2>2, <2>3, OrderEnd
<1>14. CASE UNCHANGED vars
  BY <1>01, <1>14 DEF vars, reassembly, parsers, delivery, history
<1> QED BY <1>1, <1>2, <1>3, <1>4, <1>5, <1>6, <1>7, <1>8, <1>9, <1>10, <1>11, <1>12, <1>13, <1>14
        DEF Next, Program, Deliver, Spin

-----------------------------------------------------------------------------
(* The holes in the streams *)

(* More excuses carry further. *)
LEMMA KnowsMore ==
  ASSUME NEW x \in Seq(Nat), NEW X, NEW Y, X \subseteq Y, NEW a \in Nat, NEW b \in Nat, Knows(x, X, a),
         \A o \in Nat : a <= o /\ o < b => o \in Y
  PROVE  Knows(x, Y, b)
<1> SUFFICES ASSUME x # <<>>, NEW o \in Nat, x[Len(x)] < o, o < b PROVE o \in Y
  BY DEF Knows
<1>1. CASE o < a
  BY <1>1 DEF Knows
<1>2. CASE ~ (o < a)
  BY <1>2
<1> QED BY <1>1, <1>2

(* A parser knows of less than it knows of. *)
LEMMA KnowsLess ==
  ASSUME NEW x \in Seq(Nat), NEW X, NEW a \in Nat, NEW b \in Nat, a <= b, Knows(x, X, b)
  PROVE  Knows(x, X, a)
BY DEF Knows

(* The streams stay as they are, and nothing is taken back. *)
LEMMA NoHoleKept ==
  ASSUME NoSilentHole, stream' = stream, \A p \in Parsers : excused[p] \subseteq excused'[p]
  PROVE  NoSilentHole'
BY DEF NoSilentHole

(* Steps between two deliveries: what comes to lie before the end of the   *)
(* stream is reported.                                                     *)
LEMMA HoleBetween ==
  ASSUME BufferInv, BufferInv', ListInv, HoleInv, pc # "deliver", pc' # "deliver",
         stream' = stream, head' = head,
         NEW b \in Nat, b <= cur_rseq,
         \A p \in Parsers : excused[p] \subseteq excused'[p],
         \A j \in 1..Len(head) : \A o \in Nat : b <= o /\ o < cur_rseq' => o \in excused'[head[j]]
  PROVE  HoleInv'
<1>1. cur_rseq \in Nat /\ cur_rseq' \in Nat
  BY DEF BufferInv, BufferTyped
<1>2. NoSilentHole'
  BY NoHoleKept DEF HoleInv
<1>3. ASSUME NEW j \in 1..Len(head) PROVE Knows(stream[head[j]], excused'[head[j]], cur_rseq')
  <2>1. head[j] \in Parsers /\ stream[head[j]] \in Seq(Nat) /\ excused[head[j]] \subseteq excused'[head[j]]
    BY DEF ListInv
  <2>2. Knows(stream[head[j]], excused[head[j]], b)
    BY <1>1, <2>1, KnowsLess DEF HoleInv, Informed
  <2> QED BY <1>1, <2>1, <2>2, KnowsMore
<1> QED BY <1>2, <1>3 DEF HoleInv, Informed

(* Such a step that leaves the end of the stream alone *)
LEMMA HoleQuiet ==
  ASSUME BufferInv, BufferInv', ListInv, HoleInv, pc # "deliver", pc' # "deliver",
         UNCHANGED <<stream, head, cur_rseq>>,
         \A p \in Parsers : excused[p] \subseteq excused'[p]
  PROVE  HoleInv'
<1>1. cur_rseq \in Nat
  BY DEF BufferInv, BufferTyped
<1>2. \A o \in Nat : ~ (cur_rseq <= o /\ o < cur_rseq')
  BY <1>1
<1>3. PICK b \in Nat : b = cur_rseq
  BY <1>1
<1>4. b <= cur_rseq /\ \A o \in Nat : ~ (b <= o /\ o < cur_rseq')
  BY <1>2, <1>3
<1> QED BY <1>4, HoleBetween

(* A delivery starts at the end of the stream or before it. *)
LEMMA HoleStart ==
  ASSUME BufferInv, BufferInv', ListInv, HoleInv, pc # "deliver", pc' = "deliver",
         UNCHANGED <<stream, head, excused>>, now'.rseq <= cur_rseq, s' = 1
  PROVE  HoleInv'
<1>1. cur_rseq \in Nat /\ now'.rseq \in Nat
  BY DEF BufferInv, BufferTyped, ChunkType
<1>2. NoSilentHole'
  BY DEF HoleInv, NoSilentHole
<1>3. ASSUME NEW j \in 1..Len(head)
      PROVE  Knows(stream[head[j]], excused[head[j]], IF j < s' THEN now'.rupper ELSE now'.rseq)
  <2>1. ~ (j < s') /\ stream[head[j]] \in Seq(Nat)
    BY DEF ListInv
  <2>2. Knows(stream[head[j]], excused[head[j]], cur_rseq)
    BY DEF HoleInv, Informed
  <2>3. Knows(stream[head[j]], excused[head[j]], now'.rseq)
    BY <1>1, <2>1, <2>2, KnowsLess
  <2> QED BY <2>1, <2>3
<1> QED BY <1>2, <1>3 DEF HoleInv, Informed

(* Giving the data to the parser that is next *)
LEMMA HoleGive ==
  ASSUME BufferInv, ListInv, HoleInv, Delivering, Give(head[s]),
         \A p \in Parsers : excused[p] \subseteq excused'[p]
  PROVE  /\ NoSilentHole'
         /\ Knows(stream'[head[s]], excused'[head[s]], now.rupper)
         /\ \A j \in 1..Len(head) : j # s => stream'[head[j]] = stream[head[j]]
<1>1. /\ s \in 1..Len(head) /\ head[s] \in Parsers /\ pc = "deliver"
      /\ \A j \in 1..Len(head) : head[j] \in Parsers
  BY DEF Delivering, BufferInv, BufferTyped, DeliverInv, ListInv
<1>2. PICK a \in Nat, b \in Nat : a = now.rseq /\ b = now.rupper /\ a < b
  BY <1>1 DEF BufferInv, BufferTyped, DeliverInv, Exact, ChunkType
<1>3. PICK p \in Parsers : p = head[s]
  BY <1>1
<1>4. /\ stream' \in [Parsers -> Seq(Nat)]
      /\ \A q \in Parsers : q # p => stream'[q] = stream[q]
      /\ Got(stream[p], stream'[p], a, b)
  BY <1>1, <1>2, <1>3, GiveIs DEF ListInv
<1>5. PICK x \in Seq(Nat) : x = stream[p]
  BY DEF ListInv
<1>6. PICK y, X : y \in Seq(Nat) /\ y = stream'[p] /\ X = excused[p]
  BY <1>4
<1>7. Knows(x, X, a)
  <2>1. Knows(stream[head[s]], excused[head[s]], now.rseq)
    BY <1>1 DEF HoleInv, Informed, BufferInv, BufferTyped
  <2> QED BY <1>2, <1>3, <1>5, <1>6, <2>1
<1>8. NoHoleIn(x, X) /\ Got(x, y, a, b)
  BY <1>4, <1>5, <1>6 DEF HoleInv, NoSilentHole, NoHoleIn
<1>9. NoHoleIn(y, X) /\ y # <<>> /\ y[Len(y)] = b - 1
  BY <1>2, <1>7, <1>8, GotNoHole
<1>10. NoSilentHole'
  <2> SUFFICES ASSUME NEW q \in Parsers, NEW i \in 1..(Len(stream'[q]) - 1)
               PROVE  (stream'[q][i] + 1)..(stream'[q][i + 1] - 1) \subseteq excused'[q]
    BY DEF NoSilentHole
  <2>1. CASE q = p
    BY <1>6, <1>9, <2>1 DEF NoHoleIn
  <2>2. CASE q # p
    BY <1>4, <2>2 DEF HoleInv, NoSilentHole
  <2> QED BY <2>1, <2>2
<1>11. Knows(y, excused'[p], b)
  <2>1. \A o \in Nat : ~ (b - 1 < o /\ o < b)
    OBVIOUS
  <2> QED BY <1>9, <2>1 DEF Knows
<1>12. \A j \in 1..Len(head) : j # s => head[j] # p
  BY <1>1, <1>3 DEF ListInv
<1> QED BY <1>1, <1>2, <1>3, <1>4, <1>6, <1>10, <1>11, <1>12

(* Every step keeps the streams free of silent holes. *)
LEMMA HoleNext ==
  ASSUME Disciplined, BufferInv, BufferInv', ListInv, ListInv', HoleInv, [Next]_vars
  PROVE  HoleInv'
<1>0. initial_seq \in Nat /\ cur_rseq \in Nat /\ last_reassem_rseq \in Nat /\ s \in Nat
      /\ now.rseq \in Nat /\ now.rupper \in Nat
  BY DEF BufferInv, BufferTyped, ChunkType
<1>00. /\ Len(head) \in Nat /\ \A j \in 1..Len(head) : head[j] \in Parsers
       /\ \A p \in Parsers : stream[p] \in Seq(Nat)
  BY DEF ListInv
<1>01. ASSUME UNCHANGED <<pc, now, s, cur_rseq, stream, excused, head>> PROVE HoleInv'
  BY <1>01 DEF HoleInv, NoSilentHole, Informed
<1>02. ASSUME CloseSink, pc = "idle" PROVE HoleInv'
  <2>1. stream' = [p \in Parsers |-> <<>>] /\ pc' = "idle" /\ head' = <<>>
    BY <1>02 DEF CloseSink, delivery
  <2>2. \A p \in Parsers : Len(stream'[p]) = 0
    BY <2>1
  <2> QED BY <2>1, <2>2 DEF HoleInv, NoSilentHole
<1>03. \A j \in 1..Len(head) : pc = "deliver" =>
         Knows(stream[head[j]], excused[head[j]], IF j < s THEN now.rupper ELSE now.rseq)
  BY DEF HoleInv, Informed
<1>1. CASE \/ \E seq \in Seqs, len \in 1..MaxSeq, v \in Versions : Write(seq, len, v)
           \/ \E len \in 1..MaxSeq, v \in Versions : AppendData(len, v)
           \/ \E seq \in Seqs, len \in 1..MaxSeq : ReportGap(seq, len)
  <2>1. PICK from, to, data : from \in Nat /\ to \in Nat /\ from < to /\ NewBlock(from, to, data)
    BY <1>1, Blocks
  <2>2. /\ stream' = stream /\ head' = head /\ pc = "idle"
        /\ \A p \in Parsers : excused[p] \subseteq excused'[p]
        /\ \/ cur_rseq' = cur_rseq
           \/ /\ cur_rseq' = to /\ pc' = "idle"
              /\ \A j \in 1..Len(head) : \A o \in Nat : cur_rseq <= o /\ o < to => o \in excused'[head[j]]
    BY <2>1, NewBlockExcuses DEF parsers
  <2>3. CASE pc' # "deliver" /\ cur_rseq' = cur_rseq
    BY <2>2, <2>3, HoleQuiet
  <2>4. CASE pc' # "deliver" /\ cur_rseq' # cur_rseq
    <3>1. PICK b \in Nat : b = cur_rseq
      BY <1>0
    <3>2. b <= cur_rseq /\ \A j \in 1..Len(head) : \A o \in Nat : b <= o /\ o < cur_rseq' => o \in excused'[head[j]]
      BY <2>2, <2>4, <3>1
    <3> QED BY <2>2, <2>4, <3>2, HoleBetween
  <2>5. CASE pc' = "deliver"
    <3>1. PassOnAtOnce(from) /\ data # Gap
      BY <2>1, <2>2, <2>5 DEF NewBlock, Buffer, delivery
    <3>2. now'.rseq = cur_rseq /\ s' = 1 /\ excused' = excused
      BY <2>1, <3>1 DEF NewBlock, PassOnAtOnce, StartDelivery, Chunk
    <3>3. now'.rseq <= cur_rseq
      BY <1>0, <3>2
    <3> QED BY <2>2, <2>5, <3>2, <3>3, HoleStart
  <2> QED BY <2>3, <2>4, <2>5
<1>2. ASSUME NEW seq \in Seqs, TrimTo(seq) PROVE HoleInv'
  BY <1>01, <1>2 DEF TrimTo, parsers, delivery, history
<1>3. ASSUME NEW seq \in Seqs, SkipTo(seq) PROVE HoleInv'
  <2> DEFINE r == seq - initial_seq
  <2>1. /\ pc = "idle" /\ pc' = "try" /\ stream' = stream /\ head' = head /\ cur_rseq' = r
        /\ Report(0..(r - 1)) /\ r \in Int
    BY <1>0, <1>3, SeqsNat DEF SkipTo, parsers
  <2> HIDE DEF r
  <2>2. 0..(r - 1) \in SUBSET Nat
    BY <2>1
  <2>3. /\ \A p \in Parsers : excused[p] \subseteq excused'[p]
        /\ \A j \in 1..Len(head) : 0..(r - 1) \subseteq excused'[head[j]]
    BY <2>1, <2>2, ReportIs
  <2>4. \A o \in Nat : 0 <= o /\ o < cur_rseq' => o \in 0..(r - 1)
    BY <2>1
  <2>5. 0 \in Nat /\ 0 <= cur_rseq
    BY <1>0
  <2>6. \A j \in 1..Len(head) : \A o \in Nat : 0 <= o /\ o < cur_rseq' => o \in excused'[head[j]]
    BY <2>3, <2>4
  <2> QED BY <2>1, <2>3, <2>5, <2>6, HoleBetween
<1>4. ASSUME NEW p \in Parsers, Connect(p) PROVE HoleInv'
  <2>1. p \in fresh /\ head' = <<p>> \o head /\ pc = "idle" /\ pc' = "idle"
        /\ UNCHANGED <<stream, excused, cur_rseq>>
    BY <1>4 DEF Connect, history, reassembly, delivery
  <2>2. /\ Len(head') = Len(head) + 1
        /\ head'[1] = p /\ \A j \in 2..Len(head') : head'[j] = head[j - 1]
    BY <2>1, ConnectKeeps
  <2>3. stream[p] = <<>>
    BY <2>1 DEF ListInv
  <2>4. ASSUME NEW j \in 1..Len(head') PROVE Knows(stream[head'[j]], excused[head'[j]], cur_rseq)
    <3>1. CASE j = 1
      BY <2>2, <2>3, <3>1 DEF Knows
    <3>2. CASE j # 1
      <4>1. j \in 2..Len(head') /\ j - 1 \in 1..Len(head)
        BY <1>00, <2>2, <3>2
      <4>2. head'[j] = head[j - 1]
        BY <2>2, <4>1
      <4>3. Knows(stream[head[j - 1]], excused[head[j - 1]], cur_rseq)
        BY <2>1, <4>1 DEF HoleInv, Informed
      <4> QED BY <4>2, <4>3
    <3> QED BY <3>1, <3>2
  <2>5. NoSilentHole'
    BY <2>1 DEF HoleInv, NoSilentHole
  <2> QED BY <2>1, <2>4, <2>5 DEF HoleInv, Informed
<1>5. ASSUME NEW p \in Parsers, Disconnect(p) PROVE HoleInv'
  BY <1>01, <1>5 DEF Disconnect, reassembly, delivery, history
<1>6. ASSUME NEW n \in InitialSeqs, SetInitialSequenceNumber(n) PROVE HoleInv'
  BY <1>01, <1>02, <1>6 DEF SetInitialSequenceNumber, parsers, delivery, history
<1>7. CASE Close \/ Reject
  BY <1>02, <1>7 DEF Close, Reject
<1>8. CASE TryNext
  BY <1>8, HoleQuiet DEF TryNext, reassembly, history, parsers
<1>9. CASE TryGap \/ TryData
  <2>1. pc = "try" /\ c # None /\ c = last_reassem_rseq /\ stream' = stream /\ head' = head
    BY <1>9 DEF TryGap, TryData, history, parsers
  <2>2. PICK k \in chunks : k.rseq = c
    BY <2>1 DEF BufferInv, TryInv
  <2>3. ChunkAt(c) = k /\ k.rseq \in Nat /\ k.rupper \in Nat /\ k.rseq < k.rupper
    BY <2>2, ChunkAtIs, Ranges DEF BufferInv
  <2>4. c \in Nat /\ c <= cur_rseq
    BY <2>1 DEF BufferInv, PositionInv, BufferTyped
  <2>5. CASE TryGap
    <3>1. pc' = "idle" /\ DeliverGap(c, k.rupper)
      BY <2>3, <2>5 DEF TryGap
    <3>2. CASE cur_rseq = k.rupper
      BY <2>1, <3>1, <3>2, HoleQuiet DEF DeliverGap
    <3>3. CASE cur_rseq # k.rupper
      <4>1. Report(c..(k.rupper - 1)) /\ cur_rseq' = k.rupper
        BY <3>1, <3>3 DEF DeliverGap
      <4>2. c..(k.rupper - 1) \in SUBSET Nat
        BY <2>4
      <4>3. /\ \A p \in Parsers : excused[p] \subseteq excused'[p]
            /\ \A j \in 1..Len(head) : c..(k.rupper - 1) \subseteq excused'[head[j]]
        BY <4>1, <4>2, ReportIs
      <4>4. PICK b \in Nat : b = c
        BY <2>4
      <4>5. \A o \in Nat : b <= o /\ o < cur_rseq' => o \in c..(k.rupper - 1)
        BY <2>3, <4>1, <4>4
      <4>6. b <= cur_rseq /\ \A j \in 1..Len(head) : \A o \in Nat : b <= o /\ o < cur_rseq' => o \in excused'[head[j]]
        BY <2>4, <4>3, <4>4, <4>5
      <4> QED BY <2>1, <3>1, <4>3, <4>6, HoleBetween
    <3> QED BY <3>2, <3>3
  <2>6. CASE TryData
    <3>1. pc' = "deliver" /\ now' = k /\ s' = 1 /\ excused' = excused
      BY <2>3, <2>6 DEF TryData, StartDelivery, history
    <3>2. now'.rseq <= cur_rseq
      BY <2>2, <2>4, <3>1
    <3> QED BY <2>1, <3>1, <3>2, HoleStart
  <2> QED BY <1>9, <2>5, <2>6
<1>10. ASSUME NEW D \in SUBSET Parsers, ParserYields(D) PROVE HoleInv'
  <2>1. Delivering /\ Give(head[s]) /\ s' = s + 1 /\ UNCHANGED <<head, pc, now, excused>> /\ pc = "deliver"
    BY <1>10 DEF ParserYields, Delivering
  <2>2. /\ NoSilentHole'
        /\ Knows(stream'[head[s]], excused'[head[s]], now.rupper)
        /\ \A j \in 1..Len(head) : j # s => stream'[head[j]] = stream[head[j]]
    BY <2>1, HoleGive
  <2>3. ASSUME NEW j \in 1..Len(head)
        PROVE  Knows(stream'[head[j]], excused'[head[j]], IF j < s + 1 THEN now.rupper ELSE now.rseq)
    <3>1. CASE j = s
      BY <1>0, <2>2, <3>1
    <3>2. CASE j # s
      <4>1. (j < s + 1) <=> (j < s)
        BY <1>0, <3>2
      <4> QED BY <1>03, <2>1, <2>2, <3>2, <4>1
    <3> QED BY <3>1, <3>2
  <2> QED BY <2>1, <2>2, <2>3 DEF HoleInv, Informed
<1>11. ASSUME NEW D \in SUBSET Parsers, ParserFinishes(D) PROVE HoleInv'
  <2>1. Delivering /\ Give(head[s]) /\ head' = Unlinked(s) /\ UNCHANGED <<s, pc, now, excused>> /\ pc = "deliver"
    BY <1>11 DEF ParserFinishes, Delivering, delivery
  <2>2. /\ NoSilentHole'
        /\ \A j \in 1..Len(head) : j # s => stream'[head[j]] = stream[head[j]]
    BY <2>1, HoleGive
  <2>3. s \in 1..Len(head)
    BY <1>00, <2>1 DEF BufferInv, BufferTyped, DeliverInv, Delivering
  <2>4. /\ Len(head') = Len(head) - 1
        /\ \A j \in 1..Len(head') : head'[j] = IF j < s THEN head[j] ELSE head[j + 1]
    BY <2>1, <2>3, UnlinkKeeps
  <2>5. ASSUME NEW j \in 1..Len(head')
        PROVE  Knows(stream'[head'[j]], excused[head'[j]], IF j < s THEN now.rupper ELSE now.rseq)
    <3>1. PICK x \in 1..Len(head) : x = IF j < s THEN j ELSE j + 1
      BY <1>00, <2>3, <2>4
    <3>2. head'[j] = head[x] /\ x # s /\ ((x < s) <=> (j < s))
      BY <1>0, <2>4, <3>1
    <3>3. Knows(stream[head[x]], excused[head[x]], IF x < s THEN now.rupper ELSE now.rseq)
      BY <1>03, <2>1
    <3>4. stream'[head[x]] = stream[head[x]]
      BY <2>2, <3>2
    <3> QED BY <3>2, <3>3, <3>4
  <2> QED BY <2>1, <2>2, <2>5 DEF HoleInv, Informed
<1>12. ASSUME NEW D \in SUBSET Parsers, ParserThrows(D) PROVE HoleInv'
  <2> DEFINE rest == {head[i] : i \in (s + 1)..Len(head)}
             offs == now.rseq..(now.rupper - 1)
  <2>1. Delivering /\ Give(head[s]) /\ head' = Unlinked(s) /\ Excuse(rest, offs) /\ DeliveryEnds(TRUE)
        /\ pc = "deliver"
    BY <1>12 DEF ParserThrows, Delivering
  <2>2. pc' # "deliver" /\ cur_rseq' = now.rupper
    BY <2>1 DEF DeliveryEnds
  <2>3. offs \in SUBSET Nat /\ \A o \in Nat : now.rseq <= o /\ o < now.rupper => o \in offs
    BY <1>0
  <2> HIDE DEF rest, offs
  <2>4. /\ \A p \in Parsers : excused[p] \subseteq excused'[p]
        /\ \A p \in Parsers : p \in rest => offs \subseteq excused'[p]
    BY <2>1, <2>3, ExcuseIs DEF ListInv
  <2>5. /\ NoSilentHole'
        /\ \A j \in 1..Len(head) : j # s => stream'[head[j]] = stream[head[j]]
    BY <2>1, <2>4, HoleGive
  <2>6. s \in 1..Len(head)
    BY <1>00, <2>1 DEF BufferInv, BufferTyped, DeliverInv, Delivering
  <2>7. /\ Len(head') = Len(head) - 1
        /\ \A j \in 1..Len(head') : head'[j] = IF j < s THEN head[j] ELSE head[j + 1]
    BY <2>1, <2>6, UnlinkKeeps
  <2>8. ASSUME NEW j \in 1..Len(head') PROVE Knows(stream'[head'[j]], excused'[head'[j]], now.rupper)
    <3>1. PICK x \in 1..Len(head) : x = IF j < s THEN j ELSE j + 1
      BY <1>00, <2>6, <2>7
    <3>2. head'[j] = head[x] /\ x # s
      BY <1>0, <2>7, <3>1
    <3>3. Knows(stream[head[x]], excused[head[x]], IF x < s THEN now.rupper ELSE now.rseq)
      BY <1>03, <2>1
    <3>4. stream'[head[x]] = stream[head[x]] /\ head[x] \in Parsers /\ stream[head[x]] \in Seq(Nat)
          /\ excused[head[x]] \subseteq excused'[head[x]]
      BY <1>00, <2>4, <2>5, <3>2
    <3>5. CASE x < s
      <4>1. \A o \in Nat : now.rupper <= o /\ o < now.rupper => o \in excused'[head[x]]
        BY <1>0
      <4>2. Knows(stream[head[x]], excused[head[x]], now.rupper)
        BY <3>3, <3>5
      <4>3. Knows(stream[head[x]], excused'[head[x]], now.rupper)
        BY <1>0, <3>4, <4>1, <4>2, KnowsMore
      <4> QED BY <3>2, <3>4, <4>3
    <3>6. CASE x > s
      <4>1. x \in (s + 1)..Len(head)
        BY <1>00, <2>6, <3>6
      <4>2. head[x] \in rest
        BY <4>1 DEF rest
      <4>3. \A o \in Nat : now.rseq <= o /\ o < now.rupper => o \in excused'[head[x]]
        BY <2>3, <2>4, <3>4, <4>2
      <4>4. Knows(stream[head[x]], excused[head[x]], now.rseq)
        BY <1>0, <3>3, <3>6
      <4>5. Knows(stream[head[x]], excused'[head[x]], now.rupper)
        BY <1>0, <3>4, <4>3, <4>4, KnowsMore
      <4> QED BY <3>2, <3>4, <4>5
    <3> QED BY <1>0, <3>2, <3>5, <3>6
  <2> QED BY <2>2, <2>5, <2>8 DEF HoleInv, Informed
<1>13. CASE ChunkLost
  <2> DEFINE offs == now.rseq..(now.rupper - 1)
  <2>1. Report(offs) /\ DeliveryEnds(TRUE) /\ pc = "deliver" /\ stream' = stream /\ head' = head
    BY <1>13 DEF ChunkLost, Report, parsers
  <2>2. pc' # "deliver" /\ cur_rseq' = now.rupper
    BY <2>1 DEF DeliveryEnds
  <2>3. offs \in SUBSET Nat /\ \A o \in Nat : now.rseq <= o /\ o < now.rupper => o \in offs
    BY <1>0
  <2> HIDE DEF offs
  <2>4. /\ \A p \in Parsers : excused[p] \subseteq excused'[p]
        /\ \A j \in 1..Len(head) : offs \subseteq excused'[head[j]]
    BY <2>1, <2>3, ReportIs
  <2>5. NoSilentHole'
    BY <2>1, <2>4, NoHoleKept DEF HoleInv
  <2>6. ASSUME NEW j \in 1..Len(head) PROVE Knows(stream[head[j]], excused'[head[j]], now.rupper)
    <3>1. stream[head[j]] \in Seq(Nat) /\ excused[head[j]] \subseteq excused'[head[j]]
      BY <1>00, <2>4
    <3>2. Knows(stream[head[j]], excused[head[j]], now.rseq)
      <4>1. now.rseq <= now.rupper
        BY <1>0, <2>1 DEF BufferInv, DeliverInv, Exact
      <4> QED BY <1>0, <1>03, <2>1, <3>1, <4>1, KnowsLess
    <3>3. \A o \in Nat : now.rseq <= o /\ o < now.rupper => o \in excused'[head[j]]
      BY <2>3, <2>4
    <3> QED BY <1>0, <3>1, <3>2, <3>3, KnowsMore
  <2> QED BY <2>1, <2>2, <2>5, <2>6 DEF HoleInv, Informed
<1>14. CASE ParsersDone
  <2>1. /\ head' = Without(disconnected) /\ UNCHANGED <<stream, excused>> /\ DeliveryEnds(FALSE)
        /\ s > Len(head) /\ pc = "deliver"
    BY <1>14 DEF ParsersDone
  <2>2. pc' # "deliver" /\ cur_rseq' = now.rupper
    BY <2>1 DEF DeliveryEnds
  <2>3. PartOfList(head', head, Len(head))
    BY <2>1, WithoutIs DEF ListInv
  <2>4. \A j \in 1..Len(head) : Knows(stream[head[j]], excused[head[j]], now.rupper)
    BY <1>0, <1>00, <1>03, <2>1
  <2>5. \A i \in 1..Len(head') : Knows(stream[head'[i]], excused[head'[i]], now.rupper)
    BY <2>3, <2>4 DEF PartOfList
  <2>6. NoSilentHole'
    BY <2>1 DEF HoleInv, NoSilentHole
  <2> QED BY <2>1, <2>2, <2>5, <2>6 DEF HoleInv, Informed
<1>15. CASE UNCHANGED vars
  BY <1>01, <1>15 DEF vars, reassembly, parsers, delivery, history
<1> QED BY <1>1, <1>2, <1>3, <1>4, <1>5, <1>6, <1>7, <1>8, <1>9, <1>10, <1>11, <1>12, <1>13, <1>14, <1>15
        DEF Next, Program, Deliver, Spin

-----------------------------------------------------------------------------
(* The theorems *)

LEMMA InvInit ==
  Init => Inv
<1> SUFFICES ASSUME Init PROVE Inv
  OBVIOUS
<1>1. /\ initial_seq = 0 /\ cur_rseq = 0 /\ last_reassem_rseq = 0 /\ trim_rseq = 0
      /\ chunks = {} /\ head = <<>> /\ disconnected = {} /\ fresh = Parsers
      /\ pc = "idle" /\ c = None /\ now = NoData /\ s = 0 /\ excpt = FALSE
      /\ stream = [p \in Parsers |-> <<>>] /\ excused = [p \in Parsers |-> {}] /\ stopped = None
  BY DEF Init
<1>2. BufferTyped
  <2>1. now \in ChunkType
    BY <1>1 DEF NoData, Chunk, ChunkType, Gap
  <2> QED BY <1>1, <2>1 DEF BufferTyped
<1>3. WellFormed(chunks, trim_rseq) /\ PositionInv /\ TryInv /\ WaitInv /\ DeliverInv
  BY <1>1 DEF WellFormed, PositionInv, Reached, TryInv, WaitInv, DeliverInv
<1>4. ListInv
  <2>1. Len(head) = 0 /\ head \in Seq(Parsers)
    BY <1>1
  <2>2. stream \in [Parsers -> Seq(Nat)] /\ \A p \in fresh : stream[p] = <<>>
    BY <1>1
  <2>3. excused \in [Parsers -> SUBSET Nat]
    BY <1>1
  <2> QED BY <1>1, <2>1, <2>2, <2>3 DEF ListInv
<1>5. \A p \in Parsers : Len(stream[p]) = 0
  BY <1>1
<1>6. OrderInv
  BY <1>1, <1>5 DEF OrderInv, StreamInOrder, Before
<1>7. HoleInv
  BY <1>1, <1>5 DEF HoleInv, NoSilentHole
<1> QED BY <1>2, <1>3, <1>4, <1>6, <1>7 DEF Inv, BufferInv

LEMMA InvNext ==
  ASSUME Disciplined
  PROVE  Inv /\ [Next]_vars => Inv'
<1> SUFFICES ASSUME Inv, [Next]_vars PROVE Inv'
  OBVIOUS
<1>1. BufferInv'
  BY BufferNext DEF Inv
<1>2. ListInv'
  BY ListNext DEF Inv
<1>3. OrderInv'
  BY <1>1, <1>2, OrderNext DEF Inv
<1>4. HoleInv'
  BY <1>1, <1>2, HoleNext DEF Inv
<1> QED BY <1>1, <1>2, <1>3, <1>4 DEF Inv

(* The inductive invariant holds as long as the program is disciplined. *)
THEOREM InvHolds ==
  ASSUME Disciplined
  PROVE  Spec => []Inv
<1>1. Init => Inv
  BY InvInit
<1>2. Inv /\ [Next]_vars => Inv'
  BY InvNext
<1> QED BY <1>1, <1>2, PTL DEF Spec

(* The types are right and the list of chunks is well-formed: the chunks   *)
(* do not overlap, none is trimmed already, and each holds the bytes of    *)
(* its range, whatever __add_and_check, __trim and the delivery do to it.  *)
THEOREM BufferIsExact ==
  ASSUME Disciplined
  PROVE  Spec => []TypeOK
<1>1. Inv => TypeOK
  <2> SUFFICES ASSUME Inv PROVE TypeOK
    OBVIOUS
  <2>1. BufferExact
    <3>1. trim_rseq \in Nat /\ WellFormed(chunks, trim_rseq)
      BY DEF Inv, BufferInv, BufferTyped
    <3>2. \A k \in chunks : k.rseq < k.rupper /\ k.rupper > trim_rseq
      BY <3>1, Ranges
    <3>3. \A k \in chunks : \A n \in chunks : n = k \/ n.rupper <= k.rseq \/ k.rupper <= n.rseq
      BY <3>1, Ranges
    <3>4. \A k \in chunks : DataExact(k)
      BY <3>1 DEF WellFormed, Exact
    <3> QED BY <3>2, <3>3, <3>4 DEF BufferExact, DataExact
  <2>2. /\ BufferTyped /\ chunks \subseteq ChunkType
    BY DEF Inv, BufferInv, WellFormed
  <2>3. /\ head \in Seq(Parsers) /\ disconnected \subseteq Connected /\ fresh \subseteq Parsers
        /\ stream \in [Parsers -> Seq(Nat)] /\ excused \in [Parsers -> SUBSET Nat]
    BY DEF Inv, ListInv
  <2> QED BY <2>1, <2>2, <2>3 DEF TypeOK, BufferTyped, ChunkType
<1> QED BY <1>1, InvHolds, PTL

(* Every parser gets every byte at most once and in the order of the       *)
(* sequence numbers, in whatever order the data is written and whichever   *)
(* parsers disconnect, finish or throw on the way.                         *)
THEOREM StreamsAreOrdered ==
  ASSUME Disciplined
  PROVE  Spec => []StreamInOrder
<1>1. Inv => StreamInOrder
  BY DEF Inv, OrderInv
<1> QED BY <1>1, InvHolds, PTL

(* A parser that is given two bytes knows of all that is missing between   *)
(* them: it was reported as a gap or skipped, or lost to an exception.     *)
THEOREM HolesAreReported ==
  ASSUME Disciplined
  PROVE  Spec => []NoSilentHole
<1>1. Inv => NoSilentHole
  BY DEF Inv, HoleInv
<1> QED BY <1>1, InvHolds, PTL

(* Between two calls the data for the position of the stream is not in the *)
(* buffer, unless the stream waits there for a skip, after a gap, inside   *)
(* of a chunk that a skip went into, or where a trim went that was ahead:  *)
(* __try_deliver starts at the right chunk and does not stop early.        *)
THEOREM NothingIsLeftBehind ==
  ASSUME Disciplined
  PROVE  Spec => []NextDataDelivered
<1>1. Inv => NextDataDelivered
  <2> SUFFICES ASSUME Inv, pc = "idle", NEW k \in chunks,
                      k.rseq <= Position, Position < k.rupper, stopped # Position
               PROVE  FALSE
    BY DEF NextDataDelivered
  <2>1. last_reassem_rseq \in Nat /\ trim_rseq \in Nat /\ WellFormed(chunks, trim_rseq)
    BY DEF Inv, BufferInv, BufferTyped
  <2>2. k.rseq \in Nat /\ k.rupper \in Nat
    BY <2>1, Ranges
  <2>3. /\ trim_rseq <= cur_rseq /\ last_reassem_rseq = cur_rseq
        /\ last_reassem_rseq <= k.rseq \/ k.rupper <= last_reassem_rseq
        /\ k.rseq # last_reassem_rseq
    BY DEF Inv, BufferInv, WaitInv
  <2>4. Position = last_reassem_rseq
    BY <2>1, <2>3 DEF Position
  <2> QED BY <2>1, <2>2, <2>3, <2>4
<1> QED BY <1>1, InvHolds, PTL

(* A step that does not close the sink keeps every chunk or trims it. *)
LEMMA ChunksStay ==
  ASSUME Inv, [Next]_vars, ~ (trim_rseq' = 0 /\ head' = <<>> /\ chunks' = {})
  PROVE  \A k \in chunks : k \in chunks' \/ k.rupper <= trim_rseq'
<1>0. /\ \A k \in chunks : k.rupper \in Nat
      /\ initial_seq \in Nat /\ now.rupper \in Nat /\ (c \in Nat \/ c = None)
  BY Ranges DEF Inv, BufferInv, BufferTyped, ChunkType
<1>01. ASSUME NEW r \in Int, Trim(r) PROVE \A k \in chunks : k \in chunks' \/ k.rupper <= trim_rseq'
  BY <1>0, <1>01 DEF Trim
<1>02. ASSUME NEW from \in Int, NEW to, DeliverGap(from, to)
       PROVE  \A k \in chunks : k \in chunks' \/ k.rupper <= trim_rseq'
  BY <1>01, <1>02 DEF DeliverGap
<1>03. ~ CloseSink
  BY DEF CloseSink
<1>1. CASE \/ \E seq \in Seqs, len \in 1..MaxSeq, v \in Versions : Write(seq, len, v)
           \/ \E len \in 1..MaxSeq, v \in Versions : AppendData(len, v)
           \/ \E seq \in Seqs, len \in 1..MaxSeq : ReportGap(seq, len)
  <2>1. PICK from, to, data : from \in Nat /\ to \in Nat /\ from < to /\ NewBlock(from, to, data)
    BY <1>1, Blocks DEF Inv
  <2>2. CASE PassOnAtOnce(from)
    BY <2>2 DEF PassOnAtOnce
  <2>3. CASE ~ PassOnAtOnce(from)
    <3>1. Buffer(from, to, data)
      BY <2>1, <2>3 DEF NewBlock
    <3>2. chunks \subseteq chunks'
      BY <3>1 DEF Buffer, AddAndCheck
    <3> QED BY <3>2
  <2> QED BY <2>2, <2>3
<1>2. ASSUME NEW seq \in Seqs, TrimTo(seq) \/ SkipTo(seq)
      PROVE  \A k \in chunks : k \in chunks' \/ k.rupper <= trim_rseq'
  <2>1. Trim(seq - initial_seq) /\ seq - initial_seq \in Int
    BY <1>0, <1>2, SeqsNat DEF TrimTo, SkipTo
  <2> QED BY <1>01, <2>1
<1>3. CASE \/ \E p \in Parsers : Connect(p) \/ Disconnect(p)
           \/ TryNext \/ TryData
           \/ \E D \in SUBSET Parsers : ParserYields(D) \/ ParserFinishes(D)
           \/ UNCHANGED vars
  BY <1>3 DEF Connect, Disconnect, TryNext, TryData, ParserYields, ParserFinishes, vars, reassembly
<1>4. ASSUME NEW n \in InitialSeqs, SetInitialSequenceNumber(n)
      PROVE  \A k \in chunks : k \in chunks' \/ k.rupper <= trim_rseq'
  BY <1>03, <1>4 DEF SetInitialSequenceNumber
<1>5. CASE Close \/ Reject
  BY <1>03, <1>5 DEF Close, Reject
<1>6. CASE TryGap
  <2>1. c \in Int /\ DeliverGap(c, ChunkAt(c).rupper)
    BY <1>0, <1>6 DEF TryGap
  <2> QED BY <1>02, <2>1
<1>7. CASE \/ \E D \in SUBSET Parsers : ParserThrows(D)
           \/ ChunkLost \/ ParsersDone
  <2>1. Trim(now.rupper)
    BY <1>7 DEF ParserThrows, ChunkLost, ParsersDone, DeliveryEnds
  <2> QED BY <1>0, <1>01, <2>1
<1> QED BY <1>1, <1>2, <1>3, <1>4, <1>5, <1>6, <1>7 DEF Next, Program, Deliver, Spin

(* Data that came first wins: no step changes or loses a byte in the       *)
(* buffer before it is trimmed, unless it closes the sink.                 *)
THEOREM FirstDataWins ==
  ASSUME Disciplined
  PROVE  Spec => BufferedDataStays
<1> DEFINE A == \/ trim_rseq' = 0 /\ head' = <<>> /\ chunks' = {}
                \/ \A b \in Buffered : b \in Buffered' \/ b.off < trim_rseq'
<1>1. Inv /\ Inv' /\ [Next]_vars => [A]_vars
  <2> SUFFICES ASSUME Inv, Inv', [Next]_vars, ~ (trim_rseq' = 0 /\ head' = <<>> /\ chunks' = {}),
                      NEW b \in Buffered
               PROVE  b \in Buffered' \/ b.off < trim_rseq'
    OBVIOUS
  <2>1. PICK k \in chunks : \E i \in DOMAIN k.data : b = k.data[i]
    BY DEF Buffered
  <2>2. PICK i \in DOMAIN k.data : b = k.data[i]
    BY <2>1
  <2>3. k \in chunks' \/ k.rupper <= trim_rseq'
    BY ChunksStay
  <2>4. CASE k \in chunks'
    BY <2>2, <2>4 DEF Buffered
  <2>5. CASE k.rupper <= trim_rseq'
    <3>1. PICK x \in Nat, y \in Nat : x = k.rseq /\ y = k.rupper /\ x < y
      BY Ranges DEF Inv, BufferInv
    <3>2. k.data # Gap
      BY <2>2 DEF Gap
    <3>3. k.data = [j \in 1..(y - x) |-> [off |-> x + j - 1, ver |-> k.data[j].ver]]
      BY <3>1, <3>2 DEF Inv, BufferInv, WellFormed, Exact, DataExact
    <3> DEFINE d == [j \in 1..(y - x) |-> [off |-> x + j - 1, ver |-> k.data[j].ver]]
    <3>4. DOMAIN d = 1..(y - x) /\ \A j \in 1..(y - x) : d[j].off = x + j - 1
      OBVIOUS
    <3>5. k.data = d
      BY <3>3
    <3> HIDE DEF d
    <3>6. i \in 1..(y - x) /\ b.off = x + i - 1
      BY <2>2, <3>4, <3>5
    <3>7. trim_rseq' \in Nat
      BY DEF Inv, BufferInv, BufferTyped
    <3> QED BY <2>5, <3>1, <3>6, <3>7
  <2> QED BY <2>3, <2>4, <2>5
<1>2. BufferedDataStays <=> [][A]_vars
  BY DEF BufferedDataStays
<1> HIDE DEF A
<1>3. Spec => [][A]_vars
  BY <1>1, InvHolds, PTL DEF Spec
<1> QED BY <1>2, <1>3
=============================================================================
