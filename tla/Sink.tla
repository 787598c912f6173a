-------------------------------- MODULE Sink --------------------------------
(***************************************************************************)
(* A Spicy sink, libspicy/sink.c: it reassembles data that is written at   *)
(* arbitrary sequence numbers and passes it on, in order, to the parsing   *)
(* units that are connected to it.                                         *)
(*                                                                         *)
(* A byte is its relative sequence number with the version of the content  *)
(* it was written with.  The list of chunks, which the code keeps ordered, *)
(* is a set.  A parser is program code: what it makes of the data is a     *)
(* free choice.  Left out: filters, custom lengths, hook functions that    *)
(* only report, and parsers that call the sink that is feeding them.       *)
(***************************************************************************)
EXTENDS Integers, Sequences, FiniteSets

CONSTANTS
  Parsers,      \* the parsing units
  MaxSeq,       \* bound on relative sequence numbers
  Versions,     \* contents that a byte can have
  InitialSeqs,  \* initial sequence numbers that a program sets
  Disciplined   \* programs give the sink only the input it can handle

ASSUME SinkAssumption ==
  /\ IsFiniteSet(Parsers)
  /\ MaxSeq \in Nat
  /\ InitialSeqs \subseteq Nat
  /\ Disciplined \in BOOLEAN

VARIABLES
  initial_seq,        \* sequence number of the first byte
  cur_rseq,           \* end of what was delivered or reported as a gap
  last_reassem_rseq,  \* end of what was reassembled and delivered
  trim_rseq,          \* end of what was trimmed
  chunks,             \* first_chunk .. last_chunk, not yet delivered
  head,               \* the list of connected parsers
  disconnected,       \* the parsers marked as disconnected
  pc,                 \* "idle", in __try_deliver or in __deliver_chunk
  c,                  \* rseq of the chunk that __try_deliver is at
  now,                \* the data __deliver_chunk is passing on
  s,                  \* position in the list of parsers
  excpt,              \* the call has raised an exception
  fresh,              \* history: the parsers not connected since the last close
  stream,             \* history: parser -> offsets of the bytes it was given
  excused,            \* history: parser -> bytes reported as gap or skipped, or
                      \* lost because a parser threw
  stopped             \* history: the position at which the stream waits for a skip:
                      \* after a gap, inside a chunk or at the end of a trim

reassembly == <<initial_seq, cur_rseq, last_reassem_rseq, trim_rseq, chunks>>
parsers == <<head, disconnected, fresh>>
delivery == <<pc, c, now, s, excpt>>
history == <<stream, excused, stopped>>
vars == <<reassembly, parsers, delivery, history>>

None == -1
Byte == [off : Nat, ver : Versions]

(* Data of a chunk; a gap is a chunk without data. *)
Gap == <<>>
Bytes(from, to, v) == [i \in 1..(to - from) |-> [off |-> from + i - 1, ver |-> v]]
Chunk(from, to, data) == [rseq |-> from, rupper |-> to, data |-> data]
NoData == Chunk(0, 0, Gap)

(* spicyhilti_sink_new *)
Init ==
  /\ initial_seq = 0 /\ cur_rseq = 0 /\ last_reassem_rseq = 0 /\ trim_rseq = 0
  /\ chunks = {} /\ head = <<>> /\ disconnected = {} /\ fresh = Parsers
  /\ pc = "idle" /\ c = None /\ now = NoData /\ s = 0 /\ excpt = FALSE
  /\ stream = [p \in Parsers |-> <<>>]
  /\ excused = [p \in Parsers |-> {}]
  /\ stopped = None

-----------------------------------------------------------------------------
Connected == {head[i] : i \in DOMAIN head}

(* The list without the parser at position i: __unlink_state. *)
Unlinked(i) == SubSeq(head, 1, i - 1) \o SubSeq(head, i + 1, Len(head))

(* The list without the parsers in S. *)
Without(S) ==
  LET kept[i \in 0..Len(head)] ==
        IF i = 0 THEN <<>>
        ELSE IF head[i] \in S THEN kept[i - 1] ELSE Append(kept[i - 1], head[i])
  IN  kept[Len(head)]

(* c->next, and the first chunk *)
After(r) ==
  LET later == {k.rseq : k \in {k \in chunks : k.rseq > r}}
  IN  IF later = {} THEN None ELSE CHOOSE m \in later : \A n \in later : m <= n
FirstChunk == After(None)
ChunkAt(r) == CHOOSE k \in chunks : k.rseq = r

(* Fault: the chunk that ends at rseq is kept. *)
Trim_Strict(r) ==
  /\ chunks' = {k \in chunks : k.rupper >= r}
  /\ trim_rseq' = r

(* __trim *)
Trim(r) ==
  /\ chunks' = {k \in chunks : k.rupper > r}
  /\ trim_rseq' = r

Excuse(P, offs) ==
  excused' = [p \in Parsers |-> IF p \in P THEN excused[p] \cup offs ELSE excused[p]]

(* __report_gap and __report_skip, to all connected parsers *)
Report(offs) == Excuse(Connected, offs)

(* Fault: nobody is told of the gap. *)
DeliverGap_Silent(from, to) ==
  IF cur_rseq # to
    THEN cur_rseq' = to /\ Trim(from) /\ UNCHANGED excused
    ELSE UNCHANGED <<excused, cur_rseq, trim_rseq, chunks>>

(* __deliver_chunk of a gap *)
DeliverGap(from, to) ==
  IF cur_rseq # to
    THEN /\ Report(from..(to - 1))
         /\ cur_rseq' = to
         /\ Trim(from)
    ELSE UNCHANGED <<excused, cur_rseq, trim_rseq, chunks>>

(* The start of __deliver_chunk for data *)
StartDelivery(k) ==
  /\ pc' = "deliver"
  /\ now' = k
  /\ s' = 1
  /\ UNCHANGED excpt

-----------------------------------------------------------------------------
(* Fault: new data replaces buffered data that it overlaps with. *)
AddAndCheck_LastWins(from, to, data) ==
  {k \in chunks : k.rupper <= from \/ to <= k.rseq} \cup {Chunk(from, to, data)}

(* __add_and_check: of the new data only the parts enter the buffer that no *)
(* chunk covers, each one as a chunk of its own.                            *)
AddAndCheck(from, to, data) ==
  LET covered == {o \in from..(to - 1) : \E k \in chunks : k.rseq <= o /\ o < k.rupper}
      pieces == {q \in (from..to) \X (from..to) :
                   /\ q[1] < q[2]
                   /\ q[1]..(q[2] - 1) \cap covered = {}
                   /\ q[1] = from \/ q[1] - 1 \in covered
                   /\ q[2] = to \/ q[2] \in covered}
  IN  chunks \cup {Chunk(q[1], q[2], IF data = Gap THEN Gap
                                       ELSE SubSeq(data, q[1] - from + 1, q[2] - from)) :
                     q \in pieces}

(* Its result: the first new chunk, or else the one with the last new byte. *)
Added(new, to) ==
  LET added == new \ chunks
  IN  IF added # {} THEN CHOOSE k \in added : \A n \in added : k.rseq <= n.rseq
      ELSE CHOOSE k \in new : k.rseq < to /\ to <= k.rupper

(* The old part of the data is ignored. *)
KeptFrom(from) == IF from < trim_rseq THEN trim_rseq ELSE from

(* __new_block for data that cannot be passed on at once.  The length of a *)
(* chunk for an empty buffer is that of all data, the ignored part too.    *)
Buffer(from, to, data) ==
  LET r   == KeptFrom(from)
      d   == IF data = Gap THEN Gap ELSE SubSeq(data, r - from + 1, Len(data))
      new == IF chunks = {} THEN {Chunk(r, r + (to - from), d)} ELSE AddAndCheck(r, to, d)
      k   == Added(new, to)
  IN  /\ chunks' = new
      /\ IF k.rseq > last_reassem_rseq \/ k.rupper <= last_reassem_rseq
           THEN UNCHANGED delivery
           ELSE pc' = "try" /\ c' = k.rseq /\ UNCHANGED <<now, s, excpt>>

(* Fault: data that starts before the end of the stream is passed on too. *)
PassOnAtOnce_Old(from) == from <= cur_rseq /\ chunks = {}

(* The fast path: data at the end of the stream, and nothing is buffered. *)
PassOnAtOnce(from) == from = cur_rseq /\ chunks = {}

(* __new_block *)
NewBlock(from, to, data) ==
  /\ pc = "idle"
  /\ IF PassOnAtOnce(from)
       THEN IF data = Gap
              THEN /\ DeliverGap(from, to)
                   /\ stopped' = to
                   /\ UNCHANGED <<delivery, last_reassem_rseq>>
              ELSE /\ StartDelivery(Chunk(from, to, data))
                   /\ c' = None
                   /\ UNCHANGED <<excused, reassembly, stopped>>
       ELSE /\ to > trim_rseq
            /\ Buffer(from, to, data)
            /\ UNCHANGED <<excused, cur_rseq, last_reassem_rseq, trim_rseq, stopped>>
  /\ UNCHANGED <<initial_seq, parsers, stream>>

(* Input that a disciplined program avoids: data that is old in part while *)
(* nothing is buffered, and skipping or trimming backwards.                *)
NotPartlyOld(from, to) ==
  Disciplined => chunks # {} \/ from >= trim_rseq \/ to <= trim_rseq
Forward(r) == Disciplined => r >= cur_rseq /\ r >= trim_rseq

(* A gap lies between the chunks or within one of them: __add_and_check    *)
(* follows a null pointer for a gap that a chunk overlaps in part.         *)
GapFits(from, to) ==
  \/ \A k \in chunks : k.rupper <= from \/ to <= k.rseq
  \/ \E k \in chunks : k.rseq <= from /\ to <= k.rupper

Inside(r) == \E k \in chunks : k.rseq < r /\ r < k.rupper

(* spicyhilti_sink_write, with __check_seq *)
Write(seq, len, v) ==
  LET from == seq - initial_seq
  IN  /\ seq >= initial_seq
      /\ from + len <= MaxSeq
      /\ NotPartlyOld(from, from + len)
      /\ NewBlock(from, from + len, Bytes(from, from + len, v))

(* spicyhilti_sink_append *)
AppendData(len, v) ==
  /\ cur_rseq + len <= MaxSeq
  /\ NotPartlyOld(cur_rseq, cur_rseq + len)
  /\ NewBlock(cur_rseq, cur_rseq + len, Bytes(cur_rseq, cur_rseq + len, v))

(* spicyhilti_sink_gap *)
ReportGap(seq, len) ==
  LET from == seq - initial_seq
  IN  /\ seq >= initial_seq
      /\ from + len <= MaxSeq
      /\ NotPartlyOld(from, from + len) /\ GapFits(KeptFrom(from), from + len)
      /\ NewBlock(from, from + len, Gap)

(* spicyhilti_sink_trim: the stream stays where it is, so that it waits if *)
(* it has not got to seq yet.                                              *)
TrimTo(seq) ==
  LET r == seq - initial_seq
  IN  /\ pc = "idle"
      /\ seq >= initial_seq /\ r <= MaxSeq
      /\ Forward(r)
      /\ Trim(r)
      /\ stopped' = IF r > cur_rseq THEN r ELSE stopped
      /\ UNCHANGED <<initial_seq, cur_rseq, last_reassem_rseq, parsers, delivery,
                     stream, excused>>

(* Fault: the position of the reassembly stays behind. *)
SkipTo_KeepsPosition(seq) ==
  LET r == seq - initial_seq
  IN  /\ pc = "idle"
      /\ seq >= initial_seq /\ r <= MaxSeq
      /\ Forward(r)
      /\ Trim(r)
      /\ cur_rseq' = r
      /\ Report(0..(r - 1))
      /\ stopped' = IF Inside(r) THEN r ELSE None
      /\ UNCHANGED <<last_reassem_rseq, delivery, initial_seq, parsers, stream>>

(* spicyhilti_sink_skip and __skip.  A chunk that r is inside of is kept,  *)
(* but the loop passes over it: the stream waits.                          *)
SkipTo(seq) ==
  LET r == seq - initial_seq
  IN  /\ pc = "idle"
      /\ seq >= initial_seq /\ r <= MaxSeq
      /\ Forward(r)
      /\ Trim(r)
      /\ cur_rseq' = r
      /\ last_reassem_rseq' = r
      /\ Report(0..(r - 1))
      /\ pc' = "try" /\ c' = FirstChunk'
      /\ stopped' = IF Inside(r) THEN r ELSE None
      /\ UNCHANGED <<now, s, excpt, initial_seq, parsers, stream>>

-----------------------------------------------------------------------------
(* __try_deliver: the loop over the chunks *)
TryNext ==
  /\ pc = "try"
  /\ c # last_reassem_rseq
  /\ IF c # None /\ c < last_reassem_rseq
       THEN c' = After(c) /\ UNCHANGED <<pc, excpt>>
       ELSE c' = None /\ pc' = "idle" /\ excpt' = FALSE
  /\ UNCHANGED <<reassembly, parsers, now, s, history>>

TryGap ==
  /\ pc = "try"
  /\ c # None /\ c = last_reassem_rseq
  /\ ChunkAt(c).data = Gap
  /\ last_reassem_rseq' = ChunkAt(c).rupper
  /\ DeliverGap(c, ChunkAt(c).rupper)
  /\ pc' = "idle" /\ c' = None /\ excpt' = FALSE
  /\ stopped' = ChunkAt(c).rupper
  /\ UNCHANGED <<initial_seq, parsers, now, s, stream>>

TryData ==
  /\ pc = "try"
  /\ c # None /\ c = last_reassem_rseq
  /\ ChunkAt(c).data # Gap
  /\ last_reassem_rseq' = ChunkAt(c).rupper
  /\ StartDelivery(ChunkAt(c))
  /\ UNCHANGED <<initial_seq, cur_rseq, trim_rseq, chunks, parsers, c, history>>

(* The end of __deliver_chunk and the way back to its caller *)
DeliveryEnds(raised) ==
  /\ cur_rseq' = now.rupper
  /\ last_reassem_rseq' = now.rupper
  /\ Trim(now.rupper)
  /\ IF c = None THEN pc' = "idle" /\ c' = None /\ excpt' = FALSE
                 ELSE pc' = "try" /\ c' = After(c) /\ excpt' = raised
  /\ now' = NoData /\ s' = 0
  /\ stopped' = None
  /\ UNCHANGED initial_seq

Delivering == pc = "deliver" /\ ~excpt /\ s <= Len(head) /\ head[s] \notin disconnected

Give(p) == stream' = [stream EXCEPT ![p] = @ \o [i \in DOMAIN now.data |-> now.data[i].off]]

(* Parser code may disconnect units, its own included. *)
MayDisconnect(D) == D \subseteq Connected /\ disconnected' = disconnected \cup D

(* The parser takes the data and waits for more. *)
ParserYields(D) ==
  /\ Delivering
  /\ Give(head[s])
  /\ MayDisconnect(D)
  /\ s' = s + 1
  /\ UNCHANGED <<reassembly, head, fresh, pc, c, now, excpt, excused, stopped>>

(* The parser is done with its input, or disables itself. *)
ParserFinishes(D) ==
  /\ Delivering
  /\ Give(head[s])
  /\ disconnected' = (disconnected \cup D) \ {head[s]}
  /\ D \subseteq Connected
  /\ head' = Unlinked(s)
  /\ UNCHANGED <<reassembly, fresh, delivery, excused, stopped>>

(* The parser throws: the parsers after it get nothing. *)
ParserThrows(D) ==
  /\ Delivering
  /\ Give(head[s])
  /\ disconnected' = (disconnected \cup D) \ {head[s]}
  /\ D \subseteq Connected
  /\ head' = Unlinked(s)
  /\ Excuse({head[i] : i \in (s + 1)..Len(head)}, now.rseq..(now.rupper - 1))
  /\ DeliveryEnds(TRUE)
  /\ UNCHANGED fresh

(* After an exception the chunks that follow are passed to nobody. *)
ChunkLost ==
  /\ pc = "deliver" /\ excpt
  /\ Excuse(Connected, now.rseq..(now.rupper - 1))
  /\ DeliveryEnds(TRUE)
  /\ UNCHANGED <<parsers, stream>>

(* The loop over the parsers does not get past a disconnected one. *)
Spin ==
  /\ pc = "deliver" /\ ~excpt /\ s <= Len(head)
  /\ head[s] \in disconnected
  /\ UNCHANGED vars

(* After the loop the disconnected parsers are finished and unlinked. *)
ParsersDone ==
  /\ pc = "deliver" /\ ~excpt /\ s > Len(head)
  /\ head' = Without(disconnected)
  /\ disconnected' = {}
  /\ DeliveryEnds(FALSE)
  /\ UNCHANGED <<fresh, stream, excused>>

-----------------------------------------------------------------------------
(* _spicyhilti_sink_connect_intern *)
Connect(p) ==
  /\ pc = "idle" /\ p \in fresh
  /\ head' = <<p>> \o head
  /\ fresh' = fresh \ {p}
  /\ UNCHANGED <<reassembly, disconnected, delivery, history>>

(* spicyhilti_sink_disconnect *)
Disconnect(p) ==
  /\ pc = "idle" /\ p \in Connected
  /\ disconnected' = disconnected \cup {p}
  /\ UNCHANGED <<reassembly, head, fresh, delivery, history>>

(* The parsers are finished; new units may take their names again. *)
CloseSink ==
  /\ head' = <<>> /\ disconnected' = {} /\ fresh' = Parsers
  /\ chunks' = {}
  /\ cur_rseq' = 0 /\ last_reassem_rseq' = 0 /\ trim_rseq' = 0
  /\ stream' = [p \in Parsers |-> <<>>] /\ excused' = [p \in Parsers |-> {}]
  /\ stopped' = None
  /\ UNCHANGED delivery

(* spicyhilti_sink_close *)
Close ==
  /\ pc = "idle"
  /\ CloseSink
  /\ UNCHANGED initial_seq

(* A sequence number before the initial one, a policy other than First and *)
(* a request to disable trimming close the sink and throw an exception.    *)
Reject ==
  /\ pc = "idle"
  /\ CloseSink
  /\ UNCHANGED initial_seq

(* spicyhilti_sink_set_initial_sequence_number *)
SetInitialSequenceNumber(n) ==
  /\ pc = "idle"
  /\ IF cur_rseq # 0 \/ chunks # {} THEN CloseSink
     ELSE UNCHANGED <<cur_rseq, last_reassem_rseq, trim_rseq, chunks, parsers, delivery, history>>
  /\ initial_seq' = n

-----------------------------------------------------------------------------
Seqs == {n + o : n \in InitialSeqs \cup {0}, o \in 0..MaxSeq}

Program ==
  \/ \E seq \in Seqs, len \in 1..MaxSeq, v \in Versions : Write(seq, len, v)
  \/ \E len \in 1..MaxSeq, v \in Versions : AppendData(len, v)
  \/ \E seq \in Seqs, len \in 1..MaxSeq : ReportGap(seq, len)
  \/ \E seq \in Seqs : TrimTo(seq)
  \/ \E seq \in Seqs : SkipTo(seq)
  \/ \E p \in Parsers : Connect(p)
  \/ \E p \in Parsers : Disconnect(p)
  \/ \E n \in InitialSeqs : SetInitialSequenceNumber(n)
  \/ Close
  \/ Reject

Deliver ==
  \/ TryNext
  \/ TryGap
  \/ TryData
  \/ \E D \in SUBSET Parsers : ParserYields(D)
  \/ \E D \in SUBSET Parsers : ParserFinishes(D)
  \/ \E D \in SUBSET Parsers : ParserThrows(D)
  \/ ChunkLost
  \/ ParsersDone
  \/ Spin

Next == Program \/ Deliver

Spec == Init /\ [][Next]_vars

-----------------------------------------------------------------------------
(* The buffered chunks do not overlap, none of them is trimmed already,    *)
(* and each holds as many bytes as its range of sequence numbers has.      *)
BufferExact ==
  \A k \in chunks :
    /\ k.rseq < k.rupper /\ k.rupper > trim_rseq
    /\ k.data # Gap => k.data = [i \in 1..(k.rupper - k.rseq) |->
                                   [off |-> k.rseq + i - 1, ver |-> k.data[i].ver]]
    /\ \A n \in chunks : n = k \/ n.rupper <= k.rseq \/ k.rupper <= n.rseq

(* The types of the variables; the list of chunks is well-formed. *)
TypeOK ==
  /\ BufferExact
  /\ initial_seq \in Nat /\ cur_rseq \in Nat /\ last_reassem_rseq \in Nat /\ trim_rseq \in Nat
  /\ chunks \subseteq [rseq : Nat, rupper : Nat, data : Seq(Byte)]
  /\ head \in Seq(Parsers)
  /\ disconnected \subseteq Connected /\ fresh \subseteq Parsers
  /\ pc \in {"idle", "try", "deliver"}
  /\ c \in Nat \cup {None}
  /\ now \in [rseq : Nat, rupper : Nat, data : Seq(Byte)]
  /\ s \in Nat /\ excpt \in BOOLEAN
  /\ stream \in [Parsers -> Seq(Nat)]
  /\ excused \in [Parsers -> SUBSET Nat]
  /\ stopped \in Nat \cup {None}

(* Every parser gets every byte at most once and in the order of the       *)
(* sequence numbers, however the writes came in (sink.c:551).              *)
StreamInOrder ==
  \A p \in Parsers : \A i \in 1..(Len(stream[p]) - 1) :
    stream[p][i] < stream[p][i + 1]

(* A parser never misses a byte between two others without having been     *)
(* told of a gap or a skip: the units parse "a single stream of data".     *)
NoSilentHole ==
  \A p \in Parsers : \A i \in 1..(Len(stream[p]) - 1) :
    (stream[p][i] + 1)..(stream[p][i + 1] - 1) \subseteq excused[p]

(* Where the stream continues: after what was delivered, skipped or        *)
(* reported as a gap, or where a trim went that was ahead of it.           *)
Position == IF trim_rseq > cur_rseq THEN trim_rseq ELSE cur_rseq

(* Between two calls the data for the position of the stream is not left   *)
(* in the buffer, unless the position is one at which the code waits for   *)
(* the program to skip: after a gap (sink.c:376), inside of a chunk that a *)
(* skip went into (sink.c:562-573), or where a trim went that was ahead.   *)
NextDataDelivered ==
  pc = "idle" =>
    \A k \in chunks :
      k.rseq <= Position /\ Position < k.rupper => stopped = Position

Buffered == UNION {{k.data[i] : i \in DOMAIN k.data} : k \in chunks}

(* Data that came first wins: a byte in the buffer stays what it is until  *)
(* it is trimmed, whatever is written over it; only closing drops it.      *)
BufferedDataStays ==
  [][\/ trim_rseq' = 0 /\ head' = <<>> /\ chunks' = {}
     \/ \A b \in Buffered : b \in Buffered' \/ b.off < trim_rseq']_vars
=============================================================================
