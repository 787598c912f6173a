---------------------------- MODULE CmdFileProofs ----------------------------
(***************************************************************************)
(* Proofs about output files and the command queue, for any threads, paths *)
(* and number of commands: nothing uses a file info that was freed, own    *)
(* writes are not lost, and a file is not truncated while it is open.      *)
(***************************************************************************)
EXTENDS CmdFile, TLAPS, FiniteSetTheorems, SequenceTheorems, WellFoundedInduction

Command == [type : {"open", "write", "close"}, info : Infos, mode : Modes, own : BOOLEAN]

(* The types, those of what TypeOK leaves out too. *)
Typed ==
  /\ TypeOK
  /\ cmds \in [Threads -> Seq(Command)]
  /\ pending \in [Threads -> Seq(Command)]
  /\ content \in [Paths -> Nat]
  /\ \A t \in Threads : Len(delivered[t]) <= sent[t] /\ sent[t] <= MaxElems

(* A thread that has an open command to send holds the file. *)
PendingInv ==
  \A t \in Threads : pending[t] # <<>> =>
    /\ sent[t] < MaxElems
    /\ pending[t][1].type = "open" /\ ~pending[t][1].own
    /\ obj[t].open /\ obj[t].info = pending[t][1].info

OpenIn(cs, n, i) == \E m \in 1..n : cs[m].type = "open" /\ cs[m].info = i

(* A close command carries nothing else, and a write of a thread's own     *)
(* file comes after the command that opens it.                             *)
CmdsInv ==
  \A t \in Threads : \A n \in 1..sent[t] :
    /\ cmds[t][n].type = "close" => cmds[t][n] = Cmd("close", cmds[t][n].info)
    /\ cmds[t][n].own => OpenIn(cmds[t], n, cmds[t][n].info)

(* What objects and queued commands refer to is allocated; the thread of   *)
(* a command other than close still has to close the file, or its close    *)
(* command is further back in the queue.                                   *)
HeldInv ==
  manager # "done" =>
    /\ \A t \in Threads : obj[t].open => obj[t].info \in files
    /\ \A t \in Threads : \A n \in Queued(t) : cmds[t][n].info \in files
    /\ \A t \in Threads : \A n \in Queued(t) : cmds[t][n].type # "close" =>
         \/ obj[t].open /\ obj[t].info = cmds[t][n].info
         \/ \E m \in Queued(t) : m > n /\ cmds[t][m] = Cmd("close", cmds[t][n].info)

Openers(i) == {t \in Threads : obj[t].open /\ obj[t].info = i}
Closes(i) == {x \in Threads \X (1..MaxElems) :
                x[2] \in Queued(x[1]) /\ cmds[x[1]][x[2]] = Cmd("close", i)}

(* No writer is missing in the count. *)
WritersInv ==
  manager # "done" => \A i \in files :
    info[i].writers >= Cardinality(Openers(i)) + Cardinality(Closes(i))

(* No path has two file infos in the list; descriptors belong to them. *)
FilesInv ==
  /\ \A i \in Infos : info[i].path = None => info[i] = NoInfo
  /\ \A i \in files : info[i].path \in Paths
  /\ \A i, j \in files : info[i].path = info[j].path => i = j
  /\ \A i \in files : info[i].fd <=> i \in fds
  /\ fds \subseteq files

AskedAt(t, n, i) ==
  \/ n \in 1..sent[t] /\ cmds[t][n].type = "open" /\ cmds[t][n].info = i
  \/ n = sent[t] + 1 /\ pending[t] # <<>> /\ pending[t][1].info = i

(* Every file info that was used has an open command of its own. *)
UsedInv ==
  \A i \in Infos : info[i].path # None => \E t \in Threads, n \in 1..MaxElems : AskedAt(t, n, i)

(* Whoever holds a file that it has opened has sent the command or is      *)
(* about to; once it is executed the file is open or has failed.           *)
OwnInv ==
  /\ \A i \in Infos : info[i].error => i \in failed
  /\ \A t \in Threads : \A n \in 1..Len(delivered[t]) : cmds[t][n].type = "open" =>
       info[cmds[t][n].info].fd \/ cmds[t][n].info \in failed
  /\ \A t \in Threads : obj[t].open /\ obj[t].own =>
       pending[t] # <<>> \/ OpenIn(cmds[t], sent[t], obj[t].info)
  /\ \A d \in dropped : \E t \in Threads : \E n \in 1..Len(delivered[t]) :
       d = <<t, n>> /\ ~cmds[t][n].own

Inv ==
  /\ Typed
  /\ PendingInv
  /\ CmdsInv
  /\ HeldInv
  /\ WritersInv
  /\ FilesInv
  /\ UsedInv
  /\ OwnInv

-----------------------------------------------------------------------------
(* Constants, counts and the queue *)

InfoType == [path : Paths \cup {None}, fd : BOOLEAN, writers : Nat, error : BOOLEAN]
ObjType == [info : Infos \cup {None}, open : BOOLEAN, own : BOOLEAN]
At(t) == Len(delivered[t]) + 1

(* The assumptions on the constants, in the form that the proofs use. *)
LEMMA Assumed ==
  /\ IsFiniteSet(Threads) /\ Cardinality(Threads) \in Nat
  /\ MaxElems \in Nat /\ None \notin Paths
  /\ Infos \subseteq Nat /\ None \notin Infos
<1>1. IsFiniteSet(Threads) /\ MaxElems \in Nat /\ None \notin Paths /\ Cardinality(Threads) \in Nat
  BY CmdFileAssumption, FS_CardinalityType DEF None
<1>2. Infos \subseteq Nat /\ None \notin Infos
  BY <1>1 DEF Infos, None
<1> QED BY <1>1, <1>2

(* Writers can be counted. *)
LEMMA WritersFinite ==
  ASSUME NEW i
  PROVE  /\ IsFiniteSet(Openers(i)) /\ Cardinality(Openers(i)) \in Nat
         /\ IsFiniteSet(Closes(i)) /\ Cardinality(Closes(i)) \in Nat
<1>1. IsFiniteSet(Threads \X (1..MaxElems))
  <2>1. IsFiniteSet(1..MaxElems)
    BY Assumed, FS_Interval
  <2> QED BY <2>1, Assumed, FS_Product
<1>2. Openers(i) \in SUBSET Threads /\ Closes(i) \in SUBSET (Threads \X (1..MaxElems))
  BY DEF Openers, Closes
<1> QED BY <1>1, <1>2, Assumed, FS_Subset, FS_CardinalityType

(* What the types say of one thread. *)
LEMMA ThreadTypes ==
  ASSUME Typed, NEW t \in Threads
  PROVE  /\ sent[t] \in Nat /\ sent[t] <= MaxElems /\ Len(cmds[t]) = sent[t]
         /\ cmds[t] \in Seq(Command) /\ pending[t] \in Seq(Command)
         /\ delivered[t] \in Seq(Nat) /\ Len(delivered[t]) \in Nat /\ Len(delivered[t]) <= sent[t]
         /\ At(t) \in Nat /\ obj[t] \in ObjType
         /\ \A n \in 1..sent[t] : cmds[t][n] \in Command
         /\ \A n \in Queued(t) : n \in 1..sent[t] /\ n \in 1..MaxElems
         /\ \A n : n \in Queued(t) <=> n \in 1..sent[t] /\ n >= At(t)
<1> DEFINE d == Len(delivered[t])
<1>1. /\ sent[t] \in Nat /\ sent[t] <= MaxElems /\ Len(cmds[t]) = sent[t]
      /\ cmds[t] \in Seq(Command) /\ pending[t] \in Seq(Command)
      /\ delivered[t] \in Seq(Nat) /\ d <= sent[t] /\ obj[t] \in ObjType
  BY DEF Typed, TypeOK, ObjType
<1>2. d \in Nat
  BY <1>1, LenProperties
<1>3. \A n \in 1..sent[t] : cmds[t][n] \in Command
  BY <1>1, ElementOfSeq
<1>4. Queued(t) = (d + 1)..sent[t] /\ At(t) = d + 1
  BY DEF Queued, At
<1> HIDE DEF d
<1>5. /\ At(t) \in Nat
      /\ \A n \in Queued(t) : n \in 1..sent[t] /\ n \in 1..MaxElems
      /\ \A n : n \in Queued(t) <=> n \in 1..sent[t] /\ n >= At(t)
  BY <1>1, <1>2, <1>4, Assumed
<1> QED BY <1>1, <1>2, <1>3, <1>5 DEF d

(* What a command is made of. *)
LEMMA CmdIs ==
  ASSUME NEW i \in Infos
  PROVE  /\ Cmd("close", i) \in Command
         /\ Cmd("close", i).type = "close" /\ Cmd("close", i).info = i /\ ~Cmd("close", i).own
         /\ \A m \in Modes : LET c == [Cmd("open", i) EXCEPT !.mode = m]
                             IN  c \in Command /\ c.type = "open" /\ c.info = i /\ ~c.own
         /\ \A b \in BOOLEAN : LET c == [Cmd("write", i) EXCEPT !.own = b]
                               IN  c \in Command /\ c.type = "write" /\ c.info = i /\ c.own = b
BY DEF Cmd, Command, Modes

(* __hlt_cmdqueue_push adds a command at the end. *)
LEMMA PushIs ==
  ASSUME Typed, NEW t \in Threads, NEW c \in Command, Push(t, c)
  PROVE  /\ sent' \in [Threads -> Nat] /\ cmds' \in [Threads -> Seq(Command)]
         /\ closed' = closed /\ delivered' = delivered /\ finished' = finished
         /\ sent[t] + 1 \in 1..MaxElems /\ sent'[t] = sent[t] + 1
         /\ \A u \in Threads : u # t => sent'[u] = sent[u]
         /\ \A u \in Threads : Len(cmds'[u]) = sent'[u] /\ sent'[u] <= MaxElems
         /\ \A u \in Threads : \A n \in 1..sent[u] : cmds'[u][n] = cmds[u][n]
         /\ cmds'[t][sent[t] + 1] = c
         /\ \A u \in Threads : \A n : n \in 1..sent'[u] <=>
              n \in 1..sent[u] \/ (u = t /\ n = sent[t] + 1)
         /\ \A u \in Threads : \A n : n \in Queued(u)' <=>
              n \in Queued(u) \/ (u = t /\ n = sent[t] + 1)
<1>1. /\ ~ closed[t] /\ sent[t] < MaxElems /\ sent' = [sent EXCEPT ![t] = @ + 1]
      /\ closed' = closed /\ delivered' = delivered /\ finished' = finished
      /\ cmds' = [cmds EXCEPT ![t] = Append(@, c)]
  BY DEF Push, Queue!Send
<1>2. /\ sent[t] \in Nat /\ cmds[t] \in Seq(Command) /\ Len(cmds[t]) = sent[t]
  BY ThreadTypes
<1>3. sent \in [Threads -> Nat] /\ cmds \in [Threads -> Seq(Command)]
  BY DEF Typed, TypeOK
<1>4. /\ sent' \in [Threads -> Nat] /\ sent'[t] = sent[t] + 1
      /\ \A u \in Threads : u # t => sent'[u] = sent[u]
      /\ sent[t] + 1 \in 1..MaxElems
  BY <1>1, <1>2, <1>3, Assumed
<1>5. /\ Append(cmds[t], c) \in Seq(Command) /\ Len(Append(cmds[t], c)) = sent[t] + 1
      /\ \A n \in 1..sent[t] : Append(cmds[t], c)[n] = cmds[t][n]
      /\ Append(cmds[t], c)[sent[t] + 1] = c
  BY <1>2, AppendProperties
<1>6. cmds'[t] = Append(cmds[t], c) /\ \A u \in Threads : u # t => cmds'[u] = cmds[u]
  BY <1>1, <1>3
<1>7. cmds' \in [Threads -> Seq(Command)]
  BY <1>1, <1>3, <1>5
<1>8. ASSUME NEW u \in Threads
      PROVE  /\ Len(cmds'[u]) = sent'[u] /\ sent'[u] <= MaxElems
             /\ \A n \in 1..sent[u] : cmds'[u][n] = cmds[u][n]
             /\ \A n : n \in 1..sent'[u] <=> n \in 1..sent[u] \/ (u = t /\ n = sent[t] + 1)
             /\ \A n : n \in Queued(u)' <=> n \in Queued(u) \/ (u = t /\ n = sent[t] + 1)
  <2> DEFINE d == Len(delivered[u])
  <2>0. sent[u] \in Nat /\ sent[u] <= MaxElems /\ Len(cmds[u]) = sent[u] /\ d \in Nat /\ d <= sent[u]
    BY ThreadTypes
  <2>1. Queued(u) = (d + 1)..sent[u] /\ Queued(u)' = (d + 1)..sent'[u]
    BY <1>1 DEF Queued
  <2> HIDE DEF d
  <2>2. CASE u # t
    BY <2>0, <2>1, <2>2, <1>4, <1>6
  <2>3. CASE u = t
    <3>1. sent'[t] = sent[t] + 1 /\ sent[t] + 1 <= MaxElems
      BY <1>4
    <3>2. /\ \A n : n \in 1..(sent[t] + 1) <=> n \in 1..sent[t] \/ n = sent[t] + 1
          /\ \A n : n \in (d + 1)..(sent[t] + 1) <=> n \in (d + 1)..sent[t] \/ n = sent[t] + 1
      BY <2>0, <2>3
    <3> QED BY <2>1, <2>3, <3>1, <3>2, <1>5, <1>6
  <2> QED BY <2>2, <2>3
<1> QED BY <1>1, <1>4, <1>5, <1>6, <1>7, <1>8

(* The manager takes the next command of a thread. *)
LEMMA TakeIs ==
  ASSUME Typed, NEW t \in Threads, Queue!Receive(t), cmds' = cmds
  PROVE  /\ sent' = sent /\ closed' = closed /\ finished' = finished
         /\ delivered' \in [Threads -> Seq(Nat)]
         /\ At(t) \in Queued(t) /\ At(t) \in 1..sent[t] /\ Next1(t) = cmds[t][At(t)]
         /\ Next1(t) \in Command
         /\ Len(delivered'[t]) = At(t)
         /\ \A u \in Threads : u # t => delivered'[u] = delivered[u]
         /\ \A u \in Threads : Len(delivered'[u]) <= sent[u]
         /\ \A u \in Threads : \A n : n \in 1..Len(delivered'[u]) <=>
              n \in 1..Len(delivered[u]) \/ (u = t /\ n = At(t))
         /\ \A u \in Threads : \A n : n \in Queued(u)' <=>
              n \in Queued(u) /\ ~ (u = t /\ n = At(t))
<1>1. /\ Len(delivered[t]) < sent[t]
      /\ delivered' = [delivered EXCEPT ![t] = Append(@, Len(@) + 1)]
      /\ sent' = sent /\ closed' = closed /\ finished' = finished
  BY DEF Queue!Receive
<1>2. delivered \in [Threads -> Seq(Nat)]
  BY DEF Typed, TypeOK
<1>3. /\ delivered[t] \in Seq(Nat) /\ Len(delivered[t]) \in Nat /\ sent[t] \in Nat
      /\ Len(delivered[t]) + 1 \in Nat
  BY ThreadTypes DEF At
<1>4. /\ Append(delivered[t], Len(delivered[t]) + 1) \in Seq(Nat)
      /\ Len(Append(delivered[t], Len(delivered[t]) + 1)) = Len(delivered[t]) + 1
  BY <1>3, AppendProperties
<1>5. delivered' \in [Threads -> Seq(Nat)] /\ Len(delivered'[t]) = At(t)
      /\ \A u \in Threads : u # t => delivered'[u] = delivered[u]
  BY <1>1, <1>2, <1>4 DEF At
<1>6. At(t) \in 1..sent[t] /\ At(t) \in Queued(t)
  <2> DEFINE d == Len(delivered[t])
  <2>1. d \in Nat /\ d < sent[t] /\ At(t) = d + 1 /\ Queued(t) = (d + 1)..sent[t]
    BY <1>1, <1>3 DEF At, Queued
  <2> HIDE DEF d
  <2> QED BY <2>1, <1>3
<1>7. Next1(t) = cmds[t][At(t)] /\ Next1(t) \in Command
  BY <1>6, ThreadTypes DEF Next1, At
<1>8. ASSUME NEW u \in Threads
      PROVE  /\ Len(delivered'[u]) <= sent[u]
             /\ \A n : n \in 1..Len(delivered'[u]) <=>
                  n \in 1..Len(delivered[u]) \/ (u = t /\ n = At(t))
             /\ \A n : n \in Queued(u)' <=> n \in Queued(u) /\ ~ (u = t /\ n = At(t))
  <2> DEFINE d == Len(delivered[u])
             e == Len(delivered'[u])
  <2>1. d \in Nat /\ d <= sent[u] /\ sent[u] \in Nat
    BY ThreadTypes
  <2>2. Queued(u) = (d + 1)..sent[u] /\ Queued(u)' = (e + 1)..sent[u]
    BY <1>1 DEF Queued
  <2>3. CASE u # t
    BY <2>1, <2>2, <2>3, <1>5
  <2>4. CASE u = t
    <3>1. e = d + 1 /\ At(t) = d + 1 /\ d + 1 <= sent[u]
      BY <2>4, <1>5, <1>6 DEF At
    <3> HIDE DEF d, e
    <3>2. /\ e <= sent[u]
          /\ \A n : n \in 1..e <=> n \in 1..d \/ n = d + 1
          /\ \A n : n \in (e + 1)..sent[u] <=> n \in (d + 1)..sent[u] /\ n # d + 1
      BY <2>1, <3>1
    <3> QED BY <2>2, <2>4, <3>1, <3>2 DEF d, e
  <2> QED BY <2>3, <2>4
<1> QED BY <1>1, <1>5, <1>6, <1>7, <1>8

(* The close commands that are queued, after a push and after a take. *)
LEMMA ClosesGrow ==
  ASSUME Typed, NEW t \in Threads, NEW c \in Command, Push(t, c), NEW i
  PROVE  /\ c = Cmd("close", i) =>
              Cardinality(Closes(i)') = Cardinality(Closes(i)) + 1
         /\ c # Cmd("close", i) => Closes(i)' = Closes(i)
<1> DEFINE x0 == <<t, sent[t] + 1>>
<1>1. /\ x0 \in Threads \X (1..MaxElems) /\ cmds'[t][sent[t] + 1] = c
      /\ \A u \in Threads : \A n \in 1..sent[u] : cmds'[u][n] = cmds[u][n]
      /\ \A u \in Threads : \A n : n \in Queued(u)' <=>
              n \in Queued(u) \/ (u = t /\ n = sent[t] + 1)
  BY PushIs
<1>2. \A u \in Threads : \A n \in Queued(u) : n \in 1..sent[u]
  BY ThreadTypes
<1>3. sent[t] + 1 \notin Queued(t)
  <2>1. sent[t] \in Nat /\ \A n \in Queued(t) : n \in 1..sent[t]
    BY ThreadTypes
  <2> QED BY <2>1
<1>4. \A x \in Threads \X (1..MaxElems) :
        x \in Closes(i)' <=> x \in Closes(i) \/ (x = x0 /\ c = Cmd("close", i))
  <2> SUFFICES ASSUME NEW u \in Threads, NEW n \in 1..MaxElems
               PROVE  <<u, n>> \in Closes(i)' <=>
                        <<u, n>> \in Closes(i) \/ (<<u, n>> = x0 /\ c = Cmd("close", i))
    OBVIOUS
  <2>1. <<u, n>> \in Closes(i)' <=> n \in Queued(u)' /\ cmds'[u][n] = Cmd("close", i)
    BY DEF Closes, Cmd
  <2>2. <<u, n>> \in Closes(i) <=> n \in Queued(u) /\ cmds[u][n] = Cmd("close", i)
    BY DEF Closes
  <2> QED BY <2>1, <2>2, <1>1, <1>2, <1>3
<1>5. x0 \notin Closes(i)
  BY <1>3 DEF Closes
<1>6. Closes(i) \subseteq Threads \X (1..MaxElems) /\ Closes(i)' \subseteq Threads \X (1..MaxElems)
  BY DEF Closes
<1> HIDE DEF x0
<1>7. CASE c = Cmd("close", i)
  <2>1. Closes(i)' = Closes(i) \cup {x0}
    BY <1>1, <1>4, <1>6, <1>7 DEF x0
  <2>2. IsFiniteSet(Closes(i))
    BY WritersFinite
  <2> QED BY <2>1, <2>2, <1>5, <1>7, FS_AddElement
<1>8. CASE c # Cmd("close", i)
  BY <1>4, <1>6, <1>8
<1> QED BY <1>7, <1>8

(* A close command that is taken is no longer counted as queued. *)
LEMMA ClosesShrink ==
  ASSUME Typed, NEW t \in Threads, Queue!Receive(t), cmds' = cmds, NEW i
  PROVE  /\ Next1(t) = Cmd("close", i) =>
              /\ <<t, At(t)>> \in Closes(i)
              /\ Closes(i)' = Closes(i) \ {<<t, At(t)>>}
              /\ Cardinality(Closes(i)') = Cardinality(Closes(i)) - 1
         /\ Next1(t) # Cmd("close", i) => Closes(i)' = Closes(i)
<1> DEFINE x0 == <<t, At(t)>>
<1>1. /\ At(t) \in Queued(t) /\ Next1(t) = cmds[t][At(t)]
      /\ \A u \in Threads : \A n : n \in Queued(u)' <=>
              n \in Queued(u) /\ ~ (u = t /\ n = At(t))
  BY TakeIs
<1>2. x0 \in Threads \X (1..MaxElems)
  BY <1>1, ThreadTypes
<1>3. x0 \in Closes(i) <=> Next1(t) = Cmd("close", i)
  BY <1>1, <1>2 DEF Closes
<1>4. \A x \in Threads \X (1..MaxElems) : x \in Closes(i)' <=> x \in Closes(i) /\ x # x0
  <2> SUFFICES ASSUME NEW u \in Threads, NEW n \in 1..MaxElems
               PROVE  <<u, n>> \in Closes(i)' <=> <<u, n>> \in Closes(i) /\ <<u, n>> # x0
    OBVIOUS
  <2>1. <<u, n>> \in Closes(i)' <=> n \in Queued(u)' /\ cmds[u][n] = Cmd("close", i)
    BY DEF Closes, Cmd
  <2>2. <<u, n>> \in Closes(i) <=> n \in Queued(u) /\ cmds[u][n] = Cmd("close", i)
    BY DEF Closes
  <2> QED BY <2>1, <2>2, <1>1
<1>5. Closes(i) \subseteq Threads \X (1..MaxElems) /\ Closes(i)' \subseteq Threads \X (1..MaxElems)
  BY DEF Closes
<1>6. Closes(i)' = Closes(i) \ {x0}
  BY <1>4, <1>5
<1>7. CASE Next1(t) = Cmd("close", i)
  <2>1. IsFiniteSet(Closes(i)) /\ x0 \in Closes(i)
    BY <1>3, <1>7, WritersFinite
  <2> QED BY <2>1, <1>6, <1>7, FS_RemoveElement
<1>8. CASE Next1(t) # Cmd("close", i)
  BY <1>3, <1>6, <1>8
<1> QED BY <1>7, <1>8

(* Nothing exists, so nothing can be wrong. *)
LEMMA InitInv == Init => Inv
<1> SUFFICES ASSUME Init PROVE Inv
  OBVIOUS
<1>1. /\ sent = [t \in Threads |-> 0] /\ closed = [t \in Threads |-> FALSE]
      /\ delivered = [t \in Threads |-> <<>>] /\ finished = FALSE
      /\ cmds = [t \in Threads |-> <<>>] /\ files = {}
      /\ info = [i \in Infos |-> NoInfo] /\ obj = [t \in Threads |-> NoObj]
      /\ pending = [t \in Threads |-> <<>>] /\ manager = "running"
      /\ content = [p \in Paths |-> 0] /\ fds = {} /\ failed = {} /\ dropped = {}
  BY DEF Init, Queue!Init
<1>2. NoInfo \in InfoType /\ NoInfo.path = None /\ ~NoInfo.error /\ NoObj \in ObjType /\ ~NoObj.open
  BY DEF NoInfo, NoObj, InfoType, ObjType
<1>3. /\ \A t \in Threads : sent[t] = 0 /\ Len(delivered[t]) = 0 /\ Len(cmds[t]) = 0
                             /\ pending[t] = <<>>
      /\ <<>> \in Seq(Command) /\ <<>> \in Seq(Nat)
  BY <1>1, EmptySeq
<1>4. TypeOK
  BY <1>1, <1>2, <1>3 DEF TypeOK, InfoType, ObjType
<1>5. Typed
  BY <1>1, <1>3, <1>4, Assumed DEF Typed
<1>6. \A t \in Threads : Queued(t) = {}
  BY <1>3 DEF Queued
<1>7. PendingInv /\ CmdsInv /\ HeldInv /\ WritersInv
  BY <1>1, <1>2, <1>3, <1>6 DEF PendingInv, CmdsInv, HeldInv, WritersInv
<1>8. FilesInv /\ UsedInv
  BY <1>1, <1>2 DEF FilesInv, UsedInv
<1>9. OwnInv
  BY <1>1, <1>2, <1>3 DEF OwnInv
<1> QED BY <1>5, <1>7, <1>8, <1>9 DEF Inv

-----------------------------------------------------------------------------
(* Sending commands *)

(* A thread that has the file open sends a command for it: the open        *)
(* command that is pending, a write, or close.                             *)
LEMMA PushStep ==
  ASSUME Inv, manager = "running", NEW t \in Threads, NEW c \in Command, Push(t, c),
         obj[t].open, obj[t].info = c.info,
         c.type = "close" => c = Cmd("close", c.info),
         c.own => OpenIn(cmds[t], sent[t], c.info),
         pending[t] # <<>> => c = pending[t][1],
         obj' \in [Threads -> ObjType], pending' \in [Threads -> Seq(Command)],
         obj'[t].info = obj[t].info, obj'[t].own = obj[t].own,
         obj'[t].open <=> c.type # "close",
         pending'[t] = <<>>,
         \A u \in Threads : u # t => pending'[u] = pending[u] /\ obj'[u] = obj[u],
         files' = files, info' = info, manager' = manager,
         content' = content, fds' = fds, failed' = failed, dropped' = dropped
  PROVE  Inv'
<1> DEFINE new == sent[t] + 1
<1>1. /\ sent' \in [Threads -> Nat] /\ cmds' \in [Threads -> Seq(Command)]
      /\ closed' = closed /\ delivered' = delivered /\ finished' = finished
      /\ new \in 1..MaxElems /\ sent'[t] = new
      /\ \A u \in Threads : u # t => sent'[u] = sent[u]
      /\ \A u \in Threads : Len(cmds'[u]) = sent'[u] /\ sent'[u] <= MaxElems
      /\ \A u \in Threads : \A n \in 1..sent[u] : cmds'[u][n] = cmds[u][n]
      /\ cmds'[t][new] = c
      /\ \A u \in Threads : \A n : n \in 1..sent'[u] <=> n \in 1..sent[u] \/ (u = t /\ n = new)
      /\ \A u \in Threads : \A n : n \in Queued(u)' <=> n \in Queued(u) \/ (u = t /\ n = new)
  BY PushIs DEF Inv
<1>2. Typed /\ PendingInv /\ CmdsInv /\ HeldInv /\ WritersInv /\ FilesInv /\ UsedInv /\ OwnInv
  BY DEF Inv
<1>3. /\ \A u \in Threads : sent[u] \in Nat /\ Len(delivered[u]) \in Nat /\ Len(delivered[u]) <= sent[u]
      /\ \A u \in Threads : \A n \in Queued(u) : n \in 1..sent[u]
      /\ \A u \in Threads : \A n \in 1..Len(delivered[u]) : n \in 1..sent[u]
      /\ \A n \in 1..sent[t] : n < new
  BY <1>2, ThreadTypes
<1>4. Typed'
  <2>1. TypeOK'
    BY <1>1, <1>2 DEF Typed, TypeOK, ObjType
  <2>2. ASSUME NEW u \in Threads PROVE Len(delivered'[u]) <= sent'[u]
    <3> DEFINE d == Len(delivered[u])
    <3>1. d \in Nat /\ sent[u] \in Nat /\ d <= sent[u] /\ Len(delivered'[u]) = d
          /\ (sent'[u] = sent[u] \/ sent'[u] = sent[u] + 1)
      BY <1>1, <1>3
    <3> HIDE DEF d
    <3> QED BY <3>1
  <2> QED BY <2>1, <2>2, <1>1, <1>2 DEF Typed
<1>5. PendingInv'
  <2> SUFFICES ASSUME NEW u \in Threads, pending'[u] # <<>>
               PROVE  /\ sent'[u] < MaxElems
                      /\ pending'[u][1].type = "open" /\ ~pending'[u][1].own
                      /\ obj'[u].open /\ obj'[u].info = pending'[u][1].info
    BY DEF PendingInv
  <2>1. u # t
    OBVIOUS
  <2>2. sent'[u] = sent[u] /\ pending'[u] = pending[u] /\ obj'[u] = obj[u]
    BY <2>1, <1>1
  <2> QED BY <2>2, <1>2 DEF PendingInv
<1>6. ASSUME NEW u \in Threads, NEW n \in 1..sent[u], NEW i, OpenIn(cmds[u], n, i)
      PROVE  OpenIn(cmds'[u], n, i)
  <2>1. PICK m \in 1..n : cmds[u][m].type = "open" /\ cmds[u][m].info = i
    BY <1>6 DEF OpenIn
  <2>2. m \in 1..sent[u]
    BY <2>1, <1>3
  <2>3. cmds'[u][m] = cmds[u][m]
    BY <2>2, <1>1
  <2> QED BY <2>1, <2>3 DEF OpenIn
<1>7. ASSUME NEW u \in Threads, NEW i, OpenIn(cmds[u], sent[u], i)
      PROVE  OpenIn(cmds'[u], sent'[u], i)
  <2>1. PICK m \in 1..sent[u] : cmds[u][m].type = "open" /\ cmds[u][m].info = i
    BY <1>7 DEF OpenIn
  <2>2. cmds'[u][m] = cmds[u][m] /\ m \in 1..sent'[u]
    BY <2>1, <1>1
  <2> QED BY <2>1, <2>2 DEF OpenIn
<1>8. CmdsInv'
  <2>1. ASSUME NEW u \in Threads, NEW n \in 1..sent'[u]
        PROVE  /\ cmds'[u][n].type = "close" => cmds'[u][n] = Cmd("close", cmds'[u][n].info)
               /\ cmds'[u][n].own => OpenIn(cmds'[u], n, cmds'[u][n].info)
    <3>1. CASE n \in 1..sent[u]
      <4>1. cmds'[u][n] = cmds[u][n]
        BY <3>1, <1>1
      <4>2. /\ cmds[u][n].type = "close" => cmds[u][n] = Cmd("close", cmds[u][n].info)
            /\ cmds[u][n].own => OpenIn(cmds[u], n, cmds[u][n].info)
        BY <3>1, <1>2 DEF CmdsInv
      <4> QED BY <3>1, <4>1, <4>2, <1>6
    <3>2. CASE u = t /\ n = new
      <4>1. cmds'[u][n] = c /\ sent'[u] = n
        BY <3>2, <1>1
      <4> QED BY <3>2, <4>1, <1>7
    <3> QED BY <3>1, <3>2, <1>1
  <2> QED BY <2>1 DEF CmdsInv, Cmd
<1>9. HeldInv'
  <2>0. /\ \A u \in Threads : obj[u].open => obj[u].info \in files
        /\ \A u \in Threads : \A n \in Queued(u) : cmds[u][n].info \in files
        /\ \A u \in Threads : \A n \in Queued(u) : cmds[u][n].type # "close" =>
             \/ obj[u].open /\ obj[u].info = cmds[u][n].info
             \/ \E m \in Queued(u) : m > n /\ cmds[u][m] = Cmd("close", cmds[u][n].info)
    BY <1>2 DEF HeldInv
  <2>1. \A u \in Threads : obj'[u].open => obj'[u].info \in files
    BY <2>0
  <2>2. ASSUME NEW u \in Threads, NEW n \in Queued(u)'
        PROVE  /\ cmds'[u][n].info \in files
               /\ cmds'[u][n].type # "close" =>
                    \/ obj'[u].open /\ obj'[u].info = cmds'[u][n].info
                    \/ \E m \in Queued(u)' : m > n /\ cmds'[u][m] = Cmd("close", cmds'[u][n].info)
    <3>1. CASE u = t /\ n = new
      BY <3>1, <2>0, <1>1
    <3>2. CASE n \in Queued(u)
      <4>1. n \in 1..sent[u] /\ cmds'[u][n] = cmds[u][n]
        BY <3>2, <1>1, <1>3
      <4>2. CASE obj[u].open /\ obj[u].info = cmds[u][n].info
        <5>1. CASE u = t /\ c.type = "close"
          <6>1. new \in Queued(u)' /\ new > n /\ cmds'[u][new] = Cmd("close", cmds'[u][n].info)
            BY <4>1, <4>2, <5>1, <1>1, <1>3
          <6> QED BY <6>1, <4>1, <3>2, <2>0
        <5>2. CASE ~ (u = t /\ c.type = "close")
          BY <5>2, <4>1, <4>2, <3>2, <2>0
        <5> QED BY <5>1, <5>2
      <4>3. ASSUME NEW m \in Queued(u), m > n, cmds[u][m] = Cmd("close", cmds[u][n].info)
            PROVE  m \in Queued(u)' /\ cmds'[u][m] = Cmd("close", cmds'[u][n].info)
        BY <4>1, <4>3, <1>1, <1>3
      <4> QED BY <4>1, <4>2, <4>3, <3>2, <2>0
    <3> QED BY <3>1, <3>2, <1>1
  <2> QED BY <2>1, <2>2 DEF HeldInv, Cmd
<1>10. WritersInv'
  <2> SUFFICES ASSUME NEW i \in files
               PROVE  info[i].writers >= Cardinality(Openers(i)') + Cardinality(Closes(i)')
    BY DEF WritersInv
  <2> DEFINE a == Cardinality(Openers(i))
             b == Cardinality(Closes(i))
             w == info[i].writers
  <2>1. w >= a + b
    BY <1>2 DEF WritersInv
  <2>2. a \in Nat /\ b \in Nat /\ IsFiniteSet(Openers(i)) /\ i \in Infos
    BY <1>2, WritersFinite DEF Typed, TypeOK
  <2>3. w \in Nat
    BY <2>2, <1>2 DEF Typed, TypeOK
  <2>4. CASE c = Cmd("close", i)
    <3>1. c.type = "close" /\ c.info = i
      BY <2>2, <2>4, CmdIs
    <3>2. t \in Openers(i) /\ Openers(i)' = Openers(i) \ {t}
      BY <3>1 DEF Openers
    <3>3. Cardinality(Openers(i)') = a - 1
      BY <3>2, <2>2, FS_RemoveElement
    <3>4. Cardinality(Closes(i)') = b + 1
      BY <2>4, <1>2, ClosesGrow
    <3> HIDE DEF a, b, w
    <3>5. (a - 1) + (b + 1) = a + b
      BY <2>2
    <3> QED BY <3>3, <3>4, <3>5, <2>1 DEF w
  <2>5. CASE c # Cmd("close", i)
    <3>1. Closes(i)' = Closes(i)
      BY <2>5, <1>2, ClosesGrow
    <3>2. ~ (c.type = "close" /\ c.info = i)
      BY <2>5
    <3>3. Openers(i)' = Openers(i)
      BY <3>2 DEF Openers
    <3> QED BY <3>1, <3>3, <2>1
  <2> QED BY <2>4, <2>5
<1>11. FilesInv'
  BY <1>2 DEF FilesInv, NoInfo, None
<1>12. UsedInv'
  <2>1. \A u \in Threads, n \in 1..MaxElems, i \in Infos : AskedAt(u, n, i) => AskedAt(u, n, i)'
    <3> SUFFICES ASSUME NEW u \in Threads, NEW n \in 1..MaxElems, NEW i \in Infos, AskedAt(u, n, i)
                 PROVE  AskedAt(u, n, i)'
      OBVIOUS
    <3>1. CASE n \in 1..sent[u] /\ cmds[u][n].type = "open" /\ cmds[u][n].info = i
      <4>1. n \in 1..sent'[u] /\ cmds'[u][n] = cmds[u][n]
        BY <3>1, <1>1
      <4> QED BY <3>1, <4>1 DEF AskedAt
    <3>2. CASE n = sent[u] + 1 /\ pending[u] # <<>> /\ pending[u][1].info = i
      <4>1. CASE u = t
        <5>1. c = pending[t][1] /\ c.type = "open" /\ n = new
          BY <3>2, <4>1, <1>2 DEF PendingInv
        <5>2. n \in 1..sent'[t] /\ cmds'[t][n] = c
          BY <5>1, <1>1
        <5> QED BY <3>2, <4>1, <5>1, <5>2 DEF AskedAt
      <4>2. CASE u # t
        BY <3>2, <4>2, <1>1 DEF AskedAt
      <4> QED BY <4>1, <4>2
    <3> QED BY <3>1, <3>2 DEF AskedAt
  <2> QED BY <2>1, <1>2 DEF UsedInv, None
<1>13. OwnInv'
  <2>1. \A i \in Infos : info'[i].error => i \in failed'
    BY <1>2 DEF OwnInv
  <2>2. ASSUME NEW u \in Threads, NEW n \in 1..Len(delivered[u])
        PROVE  cmds'[u][n] = cmds[u][n] /\ delivered'[u] = delivered[u]
    BY <1>1, <1>3
  <2>3. ASSUME NEW u \in Threads, NEW n \in 1..Len(delivered'[u])
        PROVE  cmds'[u][n].type = "open" =>
                 info'[cmds'[u][n].info].fd \/ cmds'[u][n].info \in failed'
    <3>1. n \in 1..Len(delivered[u])
      BY <1>1
    <3>2. cmds'[u][n] = cmds[u][n]
      BY <3>1, <2>2
    <3>3. cmds[u][n].type = "open" => info[cmds[u][n].info].fd \/ cmds[u][n].info \in failed
      BY <3>1, <1>2 DEF OwnInv
    <3> QED BY <3>2, <3>3
  <2>4. ASSUME NEW u \in Threads, obj'[u].open, obj'[u].own
        PROVE  pending'[u] # <<>> \/ OpenIn(cmds'[u], sent'[u], obj'[u].info)
    <3>1. obj[u].open /\ obj[u].own /\ obj'[u].info = obj[u].info
      BY <2>4
    <3>2. pending[u] # <<>> \/ OpenIn(cmds[u], sent[u], obj[u].info)
      BY <3>1, <1>2 DEF OwnInv
    <3>3. CASE OpenIn(cmds[u], sent[u], obj[u].info)
      BY <3>1, <3>3, <1>7
    <3>4. CASE pending[u] # <<>> /\ u # t
      BY <3>4
    <3>5. CASE pending[u] # <<>> /\ u = t
      <4>1. c.type = "open" /\ c.info = obj[t].info
        BY <3>5, <1>2 DEF PendingInv
      <4>2. new \in 1..sent'[t] /\ cmds'[t][new] = c
        BY <1>1
      <4> QED BY <3>1, <3>5, <4>1, <4>2 DEF OpenIn
    <3> QED BY <3>2, <3>3, <3>4, <3>5
  <2>5. ASSUME NEW d \in dropped'
        PROVE  \E u \in Threads : \E n \in 1..Len(delivered'[u]) : d = <<u, n>> /\ ~cmds'[u][n].own
    <3>1. PICK u \in Threads : \E n \in 1..Len(delivered[u]) : d = <<u, n>> /\ ~cmds[u][n].own
      BY <1>2 DEF OwnInv
    <3>2. PICK n \in 1..Len(delivered[u]) : d = <<u, n>> /\ ~cmds[u][n].own
      BY <3>1
    <3> QED BY <2>2, <3>2
  <2> QED BY <2>1, <2>3, <2>4, <2>5 DEF OwnInv
<1> QED BY <1>4, <1>5, <1>8, <1>9, <1>10, <1>11, <1>12, <1>13 DEF Inv

(* What a thread holds is one of the file infos. *)
LEMMA HeldInfo ==
  ASSUME Inv, manager = "running", NEW t \in Threads, obj[t].open
  PROVE  obj[t].info \in files /\ obj[t].info \in Infos
BY DEF Inv, HeldInv, Typed, TypeOK

(* hlt_file_open sends the open command. *)
LEMMA PushOpenStep ==
  ASSUME Inv, NEW t \in Threads, PushOpen(t)
  PROVE  Inv'
<1> DEFINE c == pending[t][1]
<1>1. /\ manager = "running" /\ pending[t] # <<>> /\ Push(t, c)
      /\ pending' = [pending EXCEPT ![t] = <<>>]
      /\ files' = files /\ info' = info /\ obj' = obj /\ manager' = manager
      /\ content' = content /\ fds' = fds /\ failed' = failed /\ dropped' = dropped
  BY DEF PushOpen, disk
<1>2. c \in Command
  <2>1. pending[t] \in Seq(Command)
    BY ThreadTypes DEF Inv
  <2>2. Len(pending[t]) \in Nat \ {0}
    BY <2>1, <1>1, EmptySeq
  <2>3. 1 \in 1..Len(pending[t])
    BY <2>2
  <2> QED BY <2>1, <2>3, ElementOfSeq
<1>3. c.type = "open" /\ ~c.own /\ obj[t].open /\ obj[t].info = c.info
  BY <1>1 DEF Inv, PendingInv
<1>4. obj \in [Threads -> ObjType] /\ pending \in [Threads -> Seq(Command)]
  BY DEF Inv, Typed, TypeOK, ObjType
<1>5. /\ pending' \in [Threads -> Seq(Command)] /\ pending'[t] = <<>>
      /\ \A u \in Threads : u # t => pending'[u] = pending[u]
  BY <1>1, <1>4, EmptySeq
<1> HIDE DEF c
<1> QED BY <1>1, <1>2, <1>3, <1>4, <1>5, PushStep DEF c

(* hlt_file_write_bytes and hlt_file_write_string. *)
LEMMA WriteStep ==
  ASSUME Inv, NEW t \in Threads, Write(t)
  PROVE  Inv'
<1> DEFINE c == [Cmd("write", obj[t].info) EXCEPT !.own = obj[t].own]
<1>1. /\ manager = "running" /\ pending[t] = <<>> /\ obj[t].open /\ Push(t, c)
      /\ files' = files /\ info' = info /\ obj' = obj /\ pending' = pending /\ manager' = manager
      /\ content' = content /\ fds' = fds /\ failed' = failed /\ dropped' = dropped
  BY DEF Write, Idle, disk
<1>2. obj \in [Threads -> ObjType] /\ pending \in [Threads -> Seq(Command)]
  BY DEF Inv, Typed, TypeOK, ObjType
<1>3. obj[t].info \in Infos /\ obj[t].own \in BOOLEAN
  BY <1>1, <1>2, HeldInfo DEF ObjType
<1>4. c \in Command /\ c.type = "write" /\ c.info = obj[t].info /\ c.own = obj[t].own
  BY <1>3, CmdIs
<1> HIDE DEF c
<1>5. c.own => OpenIn(cmds[t], sent[t], c.info)
  BY <1>1, <1>4 DEF Inv, OwnInv
<1> QED BY <1>1, <1>2, <1>4, <1>5, PushStep

(* hlt_file_close. *)
LEMMA CloseStep ==
  ASSUME Inv, NEW t \in Threads, Close(t)
  PROVE  Inv'
<1> DEFINE c == Cmd("close", obj[t].info)
<1>1. /\ manager = "running" /\ pending[t] = <<>> /\ obj[t].open /\ Push(t, c)
      /\ obj' = [obj EXCEPT ![t].open = FALSE]
      /\ files' = files /\ info' = info /\ pending' = pending /\ manager' = manager
      /\ content' = content /\ fds' = fds /\ failed' = failed /\ dropped' = dropped
  BY DEF Close, Idle, disk
<1>2. obj \in [Threads -> ObjType] /\ pending \in [Threads -> Seq(Command)]
  BY DEF Inv, Typed, TypeOK, ObjType
<1>3. obj[t].info \in Infos
  BY <1>1, HeldInfo
<1>4. c \in Command /\ c.type = "close" /\ c.info = obj[t].info /\ ~c.own
  BY <1>3, CmdIs
<1>5. c = Cmd("close", c.info)
  BY <1>4
<1>6. /\ obj' \in [Threads -> ObjType] /\ obj'[t].info = obj[t].info /\ obj'[t].own = obj[t].own
      /\ ~obj'[t].open /\ \A u \in Threads : u # t => obj'[u] = obj[u]
  BY <1>1, <1>2 DEF ObjType
<1> HIDE DEF c
<1> QED BY <1>1, <1>2, <1>4, <1>5, <1>6, PushStep

-----------------------------------------------------------------------------
(* Opening and cloning *)

(* A thread gets a file object for a file info that is in the list, or for *)
(* a new one.                                                              *)
Acquire(u, i) ==
  /\ manager = "running" /\ ~obj[u].open /\ pending[u] = <<>>
  /\ obj' \in [Threads -> ObjType] /\ obj'[u].open /\ obj'[u].info = i
  /\ pending' \in [Threads -> Seq(Command)]
  /\ \A t \in Threads : t # u => pending'[t] = pending[t] /\ obj'[t] = obj[t]
  /\ \/ pending'[u] = <<>> /\ i \in files /\ ~obj'[u].own
     \/ /\ pending'[u] # <<>> /\ sent[u] < MaxElems
        /\ pending'[u][1].type = "open" /\ ~pending'[u][1].own
        /\ pending'[u][1].info = i
  /\ files' = files \cup {i}
  /\ info' \in [Infos -> InfoType]
  /\ \A j \in Infos : j # i => info'[j] = info[j]
  /\ i \in files => /\ info'[i].path = info[i].path /\ info'[i].fd = info[i].fd
                    /\ info'[i].error = info[i].error
                    /\ info'[i].writers = info[i].writers + 1
  /\ i \notin files => /\ info[i] = NoInfo
                       /\ info'[i].path \in Paths /\ ~info'[i].fd
                       /\ ~info'[i].error /\ info'[i].writers = 1
                       /\ \A j \in files : info[j].path # info'[i].path
  /\ sent' = sent /\ closed' = closed /\ delivered' = delivered /\ finished' = finished
  /\ cmds' = cmds /\ manager' = manager
  /\ content' = content /\ fds' = fds /\ failed' = failed /\ dropped' = dropped

(* One more writer. *)
LEMMA OpenersGrow ==
  ASSUME NEW u, NEW i, u \notin Openers(i), Openers(i)' = Openers(i) \cup {u}
  PROVE  Cardinality(Openers(i)') = Cardinality(Openers(i)) + 1
<1>1. IsFiniteSet(Openers(i))
  BY WritersFinite
<1> QED BY <1>1, FS_AddElement

(* ++info->writers. *)
LEMMA CountWriterIs ==
  ASSUME info \in [Infos -> InfoType], NEW i \in Infos
  PROVE  /\ CountWriter(i) \in [Infos -> InfoType]
         /\ \A j \in Infos : j # i => CountWriter(i)[j] = info[j]
         /\ CountWriter(i)[i].path = info[i].path /\ CountWriter(i)[i].fd = info[i].fd
         /\ CountWriter(i)[i].error = info[i].error
         /\ CountWriter(i)[i].writers = info[i].writers + 1
<1> DEFINE w == info[i].writers
           r == [info[i] EXCEPT !.writers = @ + 1]
<1>1. w \in Nat /\ info[i] \in InfoType
  BY DEF InfoType
<1>2. /\ r \in InfoType /\ r.path = info[i].path /\ r.fd = info[i].fd
      /\ r.error = info[i].error /\ r.writers = info[i].writers + 1
  BY <1>1 DEF InfoType
<1>3. CountWriter(i) = [info EXCEPT ![i] = r]
  BY DEF CountWriter
<1> HIDE DEF r
<1> QED BY <1>2, <1>3

(* Getting a file object keeps the invariant. *)
LEMMA AcquireStep ==
  ASSUME Inv, NEW u \in Threads, NEW i \in Infos, Acquire(u, i)
  PROVE  Inv'
<1> USE DEF Acquire
<1>1. Typed /\ PendingInv /\ CmdsInv /\ HeldInv /\ WritersInv /\ FilesInv /\ UsedInv /\ OwnInv
  BY DEF Inv
<1>2. \A t \in Threads : Queued(t)' = Queued(t)
  BY DEF Queued
<1>3. NoInfo.path = None /\ NoInfo.fd = FALSE /\ NoInfo.error = FALSE /\ None \notin Paths
  BY Assumed DEF NoInfo
<1>4. files \subseteq Infos /\ info \in [Infos -> InfoType]
  BY <1>1 DEF Typed, TypeOK, InfoType
<1>5. Typed'
  <2>1. TypeOK'
    BY <1>1, <1>4 DEF Typed, TypeOK, ObjType, InfoType
  <2> QED BY <2>1, <1>1 DEF Typed
<1>6. PendingInv'
  <2> SUFFICES ASSUME NEW t \in Threads, pending'[t] # <<>>
               PROVE  /\ sent[t] < MaxElems
                      /\ pending'[t][1].type = "open" /\ ~pending'[t][1].own
                      /\ obj'[t].open /\ obj'[t].info = pending'[t][1].info
    BY DEF PendingInv
  <2>1. CASE t = u
    BY <2>1
  <2>2. CASE t # u
    BY <2>2, <1>1 DEF PendingInv
  <2> QED BY <2>1, <2>2
<1>7. CmdsInv'
  BY <1>1 DEF CmdsInv, Cmd
<1>8. HeldInv'
  <2>0. /\ \A t \in Threads : obj[t].open => obj[t].info \in files
        /\ \A t \in Threads : \A n \in Queued(t) : cmds[t][n].info \in files
        /\ \A t \in Threads : \A n \in Queued(t) : cmds[t][n].type # "close" =>
             \/ obj[t].open /\ obj[t].info = cmds[t][n].info
             \/ \E m \in Queued(t) : m > n /\ cmds[t][m] = Cmd("close", cmds[t][n].info)
    BY <1>1 DEF HeldInv
  <2>1. \A t \in Threads : obj'[t].open => obj'[t].info \in files'
    BY <2>0
  <2>2. \A t \in Threads : \A n \in Queued(t)' : cmds'[t][n].info \in files'
    BY <2>0, <1>2
  <2>3. ASSUME NEW t \in Threads, NEW n \in Queued(t)', cmds'[t][n].type # "close"
        PROVE  \/ obj'[t].open /\ obj'[t].info = cmds'[t][n].info
               \/ \E m \in Queued(t)' : m > n /\ cmds'[t][m] = Cmd("close", cmds'[t][n].info)
    <3>1. \/ obj[t].open /\ obj[t].info = cmds[t][n].info
          \/ \E m \in Queued(t) : m > n /\ cmds[t][m] = Cmd("close", cmds[t][n].info)
      BY <2>0, <2>3, <1>2
    <3>2. obj[t].open => obj'[t] = obj[t]
      OBVIOUS
    <3> QED BY <3>1, <3>2, <1>2
  <2> QED BY <2>1, <2>2, <2>3 DEF HeldInv, Cmd
<1>9. WritersInv'
  <2> SUFFICES ASSUME NEW j \in files'
               PROVE  info'[j].writers >= Cardinality(Openers(j)') + Cardinality(Closes(j)')
    BY DEF WritersInv
  <2> DEFINE a == Cardinality(Openers(j))
             b == Cardinality(Closes(j))
             w == info[j].writers
  <2>1. a \in Nat /\ b \in Nat /\ IsFiniteSet(Openers(j)) /\ j \in Infos
    BY <1>4, WritersFinite
  <2>2. w \in Nat
    BY <2>1, <1>4 DEF InfoType
  <2>3. Closes(j)' = Closes(j)
    BY <1>2 DEF Closes, Cmd
  <2>4. CASE j # i
    <3>1. Openers(j)' = Openers(j)
      BY <2>4 DEF Openers
    <3>2. j \in files /\ info'[j] = info[j]
      BY <2>1, <2>4
    <3> QED BY <3>1, <3>2, <2>3, <1>1 DEF WritersInv
  <2>5. CASE j = i
    <3>1. u \notin Openers(j) /\ Openers(j)' = Openers(j) \cup {u}
      BY <2>5 DEF Openers
    <3>2. Cardinality(Openers(j)') = a + 1 /\ Cardinality(Closes(j)') = b
      <4>1. Cardinality(Openers(j)') = a + 1
        <5> HIDE DEF Acquire
        <5> QED BY <3>1, OpenersGrow
      <4> QED BY <4>1, <2>3
    <3>3. CASE i \in files
      <4>1. w >= a + b /\ info'[j].writers = w + 1
        BY <3>3, <2>5, <1>1 DEF WritersInv
      <4> HIDE DEF a, b, w
      <4>2. w + 1 >= (a + 1) + b
        BY <4>1, <2>1, <2>2
      <4> QED BY <4>1, <4>2, <3>2
    <3>4. CASE i \notin files
      <4>1. Openers(j) = {}
        BY <3>4, <2>5, <1>1 DEF HeldInv, Openers
      <4>2. Closes(j) = {}
        <5> SUFFICES ASSUME NEW x \in Closes(j) PROVE FALSE
          OBVIOUS
        <5>1. x[1] \in Threads /\ x[2] \in Queued(x[1]) /\ cmds[x[1]][x[2]] = Cmd("close", j)
          BY DEF Closes
        <5>2. cmds[x[1]][x[2]].info = j
          BY <5>1, <2>1, CmdIs
        <5> QED BY <5>1, <5>2, <3>4, <2>5, <1>1 DEF HeldInv
      <4>3. a = 0 /\ b = 0 /\ info'[j].writers = 1
        BY <4>1, <4>2, <3>4, <2>5, FS_EmptySet
      <4> QED BY <4>3, <3>2
    <3> QED BY <3>3, <3>4
  <2> QED BY <2>4, <2>5
<1>10. FilesInv'
  <2>0. /\ \A j \in Infos : info[j].path = None => info[j] = NoInfo
        /\ \A j \in files : info[j].path \in Paths
        /\ \A j, k \in files : info[j].path = info[k].path => j = k
        /\ \A j \in files : info[j].fd <=> j \in fds
        /\ fds \subseteq files
    BY <1>1 DEF FilesInv
  <2>1. info'[i].path \in Paths
    BY <2>0
  <2>2. \A j \in Infos : info'[j].path = None => info'[j] = NoInfo
    BY <2>0, <2>1, <1>3
  <2>3. \A j \in files' : info'[j].path \in Paths
    BY <2>0, <2>1, <1>4
  <2>4. \A j, k \in files' : info'[j].path = info'[k].path => j = k
    <3>1. \A j \in files : j # i => info'[j].path # info'[i].path
      BY <2>0, <1>4
    <3>2. \A j \in files : j # i => info'[j] = info[j]
      BY <1>4
    <3> QED BY <3>1, <3>2, <2>0
  <2>5. \A j \in files' : info'[j].fd <=> j \in fds'
    BY <2>0, <1>4
  <2> QED BY <2>0, <2>2, <2>3, <2>4, <2>5 DEF FilesInv, NoInfo, None
<1>11. UsedInv'
  <2> SUFFICES ASSUME NEW j \in Infos, info'[j].path # None
               PROVE  \E t \in Threads, n \in 1..MaxElems : AskedAt(t, n, j)'
    BY DEF UsedInv, None
  <2>1. \A t \in Threads, n \in 1..MaxElems : AskedAt(t, n, j) => AskedAt(t, n, j)'
    <3> SUFFICES ASSUME NEW t \in Threads, NEW n \in 1..MaxElems, AskedAt(t, n, j)
                 PROVE  AskedAt(t, n, j)'
      OBVIOUS
    <3> QED BY DEF AskedAt
  <2>2. CASE info[j].path # None
    BY <2>1, <2>2, <1>1 DEF UsedInv
  <2>3. CASE info[j].path = None
    <3>1. j = i /\ i \notin files
      BY <2>3, <1>1, <1>3 DEF FilesInv
    <3>2. pending'[u] # <<>> /\ sent[u] + 1 \in 1..MaxElems
      <4>1. pending'[u] # <<>>
        BY <3>1
      <4>2. sent[u] \in Nat /\ sent[u] < MaxElems
        BY <4>1, <1>1, ThreadTypes
      <4> QED BY <4>1, <4>2, Assumed
    <3>3. AskedAt(u, sent[u] + 1, j)'
      BY <3>1, <3>2 DEF AskedAt
    <3> QED BY <3>2, <3>3
  <2> QED BY <2>2, <2>3
<1>12. OwnInv'
  <2>1. \A j \in Infos : info'[j].error => j \in failed'
    <3>1. \A j \in Infos : info'[j].error => info[j].error
      OBVIOUS
    <3> QED BY <3>1, <1>1 DEF OwnInv
  <2>2. ASSUME NEW t \in Threads, NEW n \in 1..Len(delivered'[t])
        PROVE  cmds'[t][n].type = "open" =>
                 info'[cmds'[t][n].info].fd \/ cmds'[t][n].info \in failed'
    <3>1. n \in 1..Len(delivered[t]) /\ n \in 1..sent[t]
      BY <1>1, ThreadTypes
    <3>2. cmds[t][n].info \in Infos
      BY <3>1, <1>1, ThreadTypes DEF Command
    <3>3. cmds[t][n].type = "open" => info[cmds[t][n].info].fd \/ cmds[t][n].info \in failed
      BY <3>1, <1>1 DEF OwnInv
    <3>4. \A j \in Infos : info[j].fd => info'[j].fd
      BY <1>3
    <3> QED BY <3>2, <3>3, <3>4
  <2>3. ASSUME NEW t \in Threads, obj'[t].open, obj'[t].own
        PROVE  pending'[t] # <<>> \/ OpenIn(cmds'[t], sent'[t], obj'[t].info)
    <3>1. CASE t = u
      BY <3>1, <2>3
    <3>2. CASE t # u
      <4>1. obj'[t] = obj[t] /\ pending'[t] = pending[t]
        BY <3>2
      <4> QED BY <4>1, <2>3, <1>1 DEF OwnInv
    <3> QED BY <3>1, <3>2
  <2>4. \A d \in dropped' : \E t \in Threads : \E n \in 1..Len(delivered'[t]) :
          d = <<t, n>> /\ ~cmds'[t][n].own
    BY <1>1 DEF OwnInv
  <2> QED BY <2>1, <2>2, <2>3, <2>4 DEF OwnInv
<1> QED BY <1>5, <1>6, <1>7, <1>8, <1>9, <1>10, <1>11, <1>12 DEF Inv

(* hlt_file_clone_init. *)
LEMMA CloneInitStep ==
  ASSUME Inv, NEW t \in Threads, NEW u \in Threads, CloneInit(t, u)
  PROVE  Inv'
<1> DEFINE i == obj[t].info
<1>1. /\ manager = "running" /\ pending[u] = <<>> /\ ~obj[u].open /\ obj[t].open
      /\ info' = [info EXCEPT ![i].writers = @ + 1]
      /\ obj' = [obj EXCEPT ![u] = [obj[t] EXCEPT !.own = FALSE]]
      /\ sent' = sent /\ closed' = closed /\ delivered' = delivered /\ finished' = finished
      /\ cmds' = cmds /\ files' = files /\ pending' = pending /\ manager' = manager
      /\ content' = content /\ fds' = fds /\ failed' = failed /\ dropped' = dropped
  BY DEF CloneInit, Idle, CountWriter, queue, disk
<1>2. i \in files /\ i \in Infos
  BY <1>1, HeldInfo
<1>3. /\ obj \in [Threads -> ObjType] /\ pending \in [Threads -> Seq(Command)]
      /\ info \in [Infos -> InfoType]
  BY DEF Inv, Typed, TypeOK, ObjType, InfoType
<1>4. /\ obj' \in [Threads -> ObjType] /\ obj'[u].open /\ obj'[u].info = i /\ ~obj'[u].own
      /\ \A v \in Threads : v # u => obj'[v] = obj[v]
  BY <1>1, <1>3 DEF ObjType
<1>5. /\ info' \in [Infos -> InfoType] /\ \A j \in Infos : j # i => info'[j] = info[j]
      /\ info'[i].path = info[i].path /\ info'[i].fd = info[i].fd
      /\ info'[i].error = info[i].error /\ info'[i].writers = info[i].writers + 1
  <2>1. info' = CountWriter(i)
    BY <1>1 DEF CountWriter
  <2> QED BY <2>1, <1>2, <1>3, CountWriterIs
<1>6. PICK k \in Infos : k = i
  BY <1>2
<1> HIDE DEF i
<1>7. files' = files \cup {k}
  BY <1>1, <1>2, <1>6
<1>8. Acquire(u, k)
  BY <1>1, <1>2, <1>3, <1>4, <1>5, <1>6, <1>7 DEF Acquire
<1> QED BY <1>8, AcquireStep

(* A set of naturals that is not empty has a least element. *)
LEMMA LeastNat ==
  ASSUME NEW T, T \subseteq Nat, T # {}
  PROVE  \E m \in T : \A k \in T : m <= k
<1> DEFINE R == {ss \in Nat \X Nat : ss[1] < ss[2]}
<1>1. PICK m \in T : \A k \in T : ~ (<<k, m>> \in R)
  <2>1. IsWellFoundedOn(R, Nat)
    BY NatLessThanWellFounded DEF OpToRel
  <2> HIDE DEF R
  <2> QED BY <2>1, WFMin
<1>2. \A k \in T : m <= k
  <2> SUFFICES ASSUME NEW k \in T PROVE m <= k
    OBVIOUS
  <2>1. m \in Nat /\ k \in Nat /\ ~ (k < m)
    BY <1>1
  <2> QED BY <2>1
<1> QED BY <1>2

(* Every file info that was used has an open command, no two have the      *)
(* same, and a thread that may still open a file has one to spare: there   *)
(* is a file info that was not used.                                       *)
LEMMA FreshExists ==
  ASSUME Inv, NEW t \in Threads, pending[t] = <<>>, sent[t] + 1 < MaxElems
  PROVE  Fresh \in Infos /\ info[Fresh] = NoInfo
<1> DEFINE free == {i \in Infos : info[i] = NoInfo}
           S == Threads \X (1..MaxElems)
           x0 == <<t, MaxElems>>
<1>1. Typed /\ PendingInv /\ FilesInv /\ UsedInv
  BY DEF Inv
<1>2. sent[t] \in Nat /\ x0 \in S
  <2>1. sent[t] \in Nat /\ MaxElems \in 1..MaxElems
    BY <1>1, Assumed, ThreadTypes
  <2> QED BY <2>1
<1>3. free # {}
  <2> SUFFICES ASSUME free = {} PROVE FALSE
    OBVIOUS
  <2>1. \A i \in Infos : \E x \in S : AskedAt(x[1], x[2], i)
    <3> SUFFICES ASSUME NEW i \in Infos PROVE \E x \in S : AskedAt(x[1], x[2], i)
      OBVIOUS
    <3>1. PICK u \in Threads, n \in 1..MaxElems : AskedAt(u, n, i)
      BY <1>1 DEF UsedInv, FilesInv
    <3>2. <<u, n>> \in S /\ AskedAt(<<u, n>>[1], <<u, n>>[2], i)
      BY <3>1
    <3> QED BY <3>2
  <2>2. \A i \in Infos : ~AskedAt(t, MaxElems, i)
    BY <1>2, Assumed DEF AskedAt
  <2>3. \A x \in S : \A i, j \in Infos : AskedAt(x[1], x[2], i) /\ AskedAt(x[1], x[2], j) => i = j
    <3> SUFFICES ASSUME NEW u \in Threads, NEW n \in 1..MaxElems, NEW i \in Infos, NEW j \in Infos,
                        AskedAt(u, n, i), AskedAt(u, n, j)
                 PROVE  i = j
      OBVIOUS
    <3>1. sent[u] \in Nat
      BY <1>1, ThreadTypes
    <3>2. ~ (n \in 1..sent[u] /\ n = sent[u] + 1)
      BY <3>1
    <3> QED BY <3>2 DEF AskedAt
  <2>4. PICK b : b = [i \in Infos |-> CHOOSE x \in S : AskedAt(x[1], x[2], i)]
    OBVIOUS
  <2>5. \A i \in Infos : b[i] \in S /\ AskedAt(b[i][1], b[i][2], i)
    BY <2>1, <2>4
  <2>6. \A i \in Infos : b[i] # x0
    BY <2>2, <2>5
  <2>7. b \in [Infos -> S \ {x0}]
    BY <2>4, <2>5, <2>6
  <2>8. \A i, j \in Infos : b[i] = b[j] => i = j
    BY <2>3, <2>5
  <2>9. b \in Injection(Infos, S \ {x0})
    BY <2>7, <2>8 DEF Injection, IsInjective
  <2> DEFINE C == Cardinality(Threads)
             N == Cardinality(Infos)
             M == Cardinality(S)
  <2>10. IsFiniteSet(1..MaxElems) /\ Cardinality(1..MaxElems) = MaxElems
    BY Assumed, FS_Interval
  <2>11. IsFiniteSet(S) /\ M = C * MaxElems
    BY <2>10, Assumed, FS_Product
  <2>12. C \in Nat /\ MaxElems \in Nat /\ MaxElems * C \in Nat /\ C * MaxElems = MaxElems * C
    <3> HIDE DEF C
    <3>1. C \in Nat /\ MaxElems \in Nat
      BY Assumed DEF C
    <3> QED BY <3>1
  <2>13. N = MaxElems * C
    <3>1. Infos = 1..(MaxElems * C)
      BY DEF Infos
    <3>2. 1 \in Int /\ MaxElems * C \in Int
      BY <2>12
    <3>3. Cardinality(1..(MaxElems * C)) =
            IF 1 > MaxElems * C THEN 0 ELSE (MaxElems * C) - 1 + 1
      BY <3>2, FS_Interval
    <3> DEFINE P == MaxElems * C
    <3>4. P \in Nat /\ N = IF 1 > P THEN 0 ELSE P - 1 + 1
      BY <2>12, <3>1, <3>3
    <3> HIDE DEF P, N
    <3>5. N = P
      BY <3>4
    <3> QED BY <3>5 DEF P
  <2>14. IsFiniteSet(S \ {x0}) /\ Cardinality(S \ {x0}) = M - 1
    BY <2>11, <1>2, FS_RemoveElement
  <2>15. N <= Cardinality(S \ {x0})
    BY <2>9, <2>14, FS_Injection
  <2>16. N = M /\ M \in Nat
    BY <2>11, <2>12, <2>13
  <2> HIDE DEF N, M
  <2> QED BY <2>14, <2>15, <2>16
<1>4. PICK m \in free : \A k \in free : m <= k
  <2>1. free \subseteq Nat
    BY Assumed
  <2> HIDE DEF free
  <2> QED BY <2>1, <1>3, LeastNat
<1>5. m \in Infos /\ info[m] = NoInfo
  BY <1>4
<1>6. \A j \in 1..(m - 1) : info[j] # NoInfo
  <2> SUFFICES ASSUME NEW j \in 1..(m - 1), info[j] = NoInfo PROVE FALSE
    OBVIOUS
  <2>1. MaxElems * Cardinality(Threads) \in Nat
    BY Assumed
  <2>2. j \in Infos /\ ~ (m <= j)
    <3> DEFINE P == MaxElems * Cardinality(Threads)
    <3>1. m \in 1..P /\ P \in Nat
      BY <1>5, <2>1 DEF Infos
    <3> HIDE DEF P
    <3>2. j \in 1..P /\ ~ (m <= j)
      BY <3>1
    <3> QED BY <3>2 DEF Infos, P
  <2> QED BY <2>2, <1>4
<1> HIDE DEF free
<1> QED BY <1>5, <1>6 DEF Fresh

(* hlt_file_open, up to the release of the lock. *)
LEMMA OpenStep ==
  ASSUME Inv, NEW t \in Threads, NEW p \in Paths, NEW m \in Modes, Open(t, p, m)
  PROVE  Inv'
<1> DEFINE known == {i \in files : info[i].path = p}
           i == IF known # {} THEN CHOOSE k \in known : TRUE ELSE Fresh
           c == [Cmd("open", i) EXCEPT !.mode = m]
<1>1. /\ manager = "running" /\ pending[t] = <<>> /\ ~obj[t].open /\ sent[t] + 1 < MaxElems
      /\ info' = IF known # {} THEN CountWriter(i)
                 ELSE [info EXCEPT ![i] = [path |-> p, fd |-> FALSE, writers |-> 1,
                                           error |-> FALSE]]
      /\ files' = files \cup {i}
      /\ obj' = [obj EXCEPT ![t] = [info |-> i, open |-> TRUE, own |-> TRUE]]
      /\ pending' = [pending EXCEPT ![t] = <<c>>]
      /\ sent' = sent /\ closed' = closed /\ delivered' = delivered /\ finished' = finished
      /\ cmds' = cmds /\ manager' = manager
      /\ content' = content /\ fds' = fds /\ failed' = failed /\ dropped' = dropped
  BY DEF Open, Idle, queue, disk
<1>2. /\ obj \in [Threads -> ObjType] /\ pending \in [Threads -> Seq(Command)]
      /\ info \in [Infos -> InfoType] /\ files \subseteq Infos
  BY DEF Inv, Typed, TypeOK, ObjType, InfoType
<1>3. known # {} => i \in files /\ info[i].path = p
  OBVIOUS
<1>4. known = {} => i \in Infos /\ info[i] = NoInfo /\ \A j \in files : info[j].path # p
  BY <1>1, FreshExists
<1> HIDE DEF known
<1>5. PICK k : k = i
  OBVIOUS
<1>6. PICK cc : cc = c
  OBVIOUS
<1>7. k \in Infos
  BY <1>2, <1>3, <1>4, <1>5
<1>8. cc \in Command /\ cc.type = "open" /\ cc.info = k /\ ~cc.own
  BY <1>5, <1>6, <1>7, CmdIs
<1>9. /\ known # {} => k \in files /\ info[k].path = p
      /\ known = {} => info[k] = NoInfo /\ \A j \in files : info[j].path # p
  BY <1>3, <1>4, <1>5
<1>10. /\ info' = IF known # {} THEN CountWriter(k)
                  ELSE [info EXCEPT ![k] = [path |-> p, fd |-> FALSE, writers |-> 1,
                                            error |-> FALSE]]
       /\ files' = files \cup {k}
       /\ obj' = [obj EXCEPT ![t] = [info |-> k, open |-> TRUE, own |-> TRUE]]
       /\ pending' = [pending EXCEPT ![t] = <<cc>>]
  BY <1>1, <1>5, <1>6
<1> HIDE DEF i, c
<1>11. /\ obj' \in [Threads -> ObjType] /\ obj'[t].open /\ obj'[t].info = k
       /\ \A u \in Threads : u # t => obj'[u] = obj[u]
  BY <1>2, <1>7, <1>10 DEF ObjType
<1>12. /\ pending' \in [Threads -> Seq(Command)] /\ pending'[t] # <<>> /\ pending'[t][1] = cc
       /\ \A u \in Threads : u # t => pending'[u] = pending[u]
  BY <1>2, <1>8, <1>10
<1>13. /\ info' \in [Infos -> InfoType] /\ \A j \in Infos : j # k => info'[j] = info[j]
  <2>1. CASE known # {}
    BY <2>1, <1>2, <1>7, <1>10, CountWriterIs
  <2>2. CASE known = {}
    <3>1. [path |-> p, fd |-> FALSE, writers |-> 1, error |-> FALSE] \in InfoType
      BY DEF InfoType
    <3> QED BY <2>2, <3>1, <1>2, <1>7, <1>10
  <2> QED BY <2>1, <2>2
<1>14. k \in files => /\ info'[k].path = info[k].path /\ info'[k].fd = info[k].fd
                      /\ info'[k].error = info[k].error
                      /\ info'[k].writers = info[k].writers + 1
  <2> SUFFICES ASSUME k \in files
               PROVE  /\ info'[k].path = info[k].path /\ info'[k].fd = info[k].fd
                      /\ info'[k].error = info[k].error
                      /\ info'[k].writers = info[k].writers + 1
    OBVIOUS
  <2>1. known # {}
    <3>1. info[k].path \in Paths /\ NoInfo.path = None
      BY DEF Inv, FilesInv, NoInfo
    <3> QED BY <3>1, <1>9, Assumed
  <2> QED BY <2>1, <1>2, <1>7, <1>10, CountWriterIs
<1>15. k \notin files => /\ info[k] = NoInfo
                         /\ info'[k].path \in Paths /\ ~info'[k].fd
                         /\ ~info'[k].error /\ info'[k].writers = 1
                         /\ \A j \in files : info[j].path # info'[k].path
  <2> SUFFICES ASSUME k \notin files
               PROVE  /\ info[k] = NoInfo
                      /\ info'[k].path = p /\ ~info'[k].fd
                      /\ ~info'[k].error /\ info'[k].writers = 1
                      /\ \A j \in files : info[j].path # p
    OBVIOUS
  <2>1. known = {}
    BY <1>9
  <2>2. info'[k] = [path |-> p, fd |-> FALSE, writers |-> 1, error |-> FALSE]
    BY <2>1, <1>2, <1>7, <1>10
  <2> QED BY <2>1, <2>2, <1>9
<1>16. sent[t] < MaxElems
  <2>1. sent[t] \in Nat
    BY ThreadTypes DEF Inv
  <2> QED BY <2>1, <1>1, Assumed
<1>17. Acquire(t, k)
  BY <1>1, <1>7, <1>8, <1>10, <1>11, <1>12, <1>13, <1>14, <1>15, <1>16 DEF Acquire
<1> QED BY <1>7, <1>17, AcquireStep

-----------------------------------------------------------------------------
(* Executing commands *)

(* What the manager does with every command. *)
Take(t) ==
  /\ manager = "running" /\ Queue!Receive(t)
  /\ cmds' = cmds /\ obj' = obj /\ pending' = pending /\ manager' = manager

(* A command that is still queued is still followed by its close command,  *)
(* and what is neither taken nor executed stays as it was.                 *)
LEMMA TakeKeeps ==
  ASSUME Inv, NEW t \in Threads, Take(t)
  PROVE  /\ PendingInv' /\ CmdsInv'
         /\ Next1(t).info \in files /\ Next1(t).info \in Infos
         /\ \A u \in Threads : obj'[u].open => obj'[u].info \in files
         /\ \A u \in Threads : \A n \in Queued(u)' : n \in Queued(u) /\ cmds'[u][n].info \in files
         /\ \A u \in Threads : \A n \in Queued(u)' : cmds'[u][n].type # "close" =>
              \/ obj'[u].open /\ obj'[u].info = cmds'[u][n].info
              \/ \E m \in Queued(u)' : m > n /\ cmds'[u][m] = Cmd("close", cmds'[u][n].info)
<1>1. /\ Typed /\ PendingInv /\ CmdsInv /\ HeldInv /\ manager = "running" /\ Queue!Receive(t)
      /\ cmds' = cmds /\ obj' = obj /\ pending' = pending
  BY DEF Inv, Take
<1>2. /\ sent' = sent /\ At(t) \in Queued(t) /\ Next1(t) = cmds[t][At(t)] /\ Next1(t) \in Command
      /\ \A u \in Threads : \A n : n \in Queued(u)' <=> n \in Queued(u) /\ ~ (u = t /\ n = At(t))
  BY <1>1, TakeIs
<1>3. PendingInv' /\ CmdsInv'
  BY <1>1, <1>2 DEF PendingInv, CmdsInv, Cmd
<1>4. /\ \A u \in Threads : obj[u].open => obj[u].info \in files
      /\ \A u \in Threads : \A n \in Queued(u) : cmds[u][n].info \in files
      /\ \A u \in Threads : \A n \in Queued(u) : cmds[u][n].type # "close" =>
           \/ obj[u].open /\ obj[u].info = cmds[u][n].info
           \/ \E m \in Queued(u) : m > n /\ cmds[u][m] = Cmd("close", cmds[u][n].info)
  BY <1>1 DEF HeldInv
<1>5. Next1(t).info \in files /\ Next1(t).info \in Infos
  BY <1>2, <1>4 DEF Command
<1>6. ASSUME NEW u \in Threads, NEW n \in Queued(u)', cmds'[u][n].type # "close"
      PROVE  \/ obj'[u].open /\ obj'[u].info = cmds'[u][n].info
             \/ \E m \in Queued(u)' : m > n /\ cmds'[u][m] = Cmd("close", cmds'[u][n].info)
  <2>1. n \in Queued(u) /\ ~ (u = t /\ n = At(t))
    BY <1>2
  <2>2. ASSUME NEW m \in Queued(u), m > n
        PROVE  m \in Queued(u)'
    <3>1. u = t => m # At(t)
      <4> SUFFICES ASSUME u = t, m = At(t) PROVE FALSE
        OBVIOUS
      <4>1. n \in Nat /\ n >= At(t) /\ At(t) \in Nat
        BY <2>1, <1>1, ThreadTypes
      <4> QED BY <4>1, <2>2
    <3> QED BY <3>1, <1>2
  <2>3. \/ obj[u].open /\ obj[u].info = cmds[u][n].info
        \/ \E m \in Queued(u) : m > n /\ cmds[u][m] = Cmd("close", cmds[u][n].info)
    BY <2>1, <1>1, <1>4, <1>6
  <2> QED BY <2>2, <2>3, <1>1
<1>7. \A u \in Threads : \A n \in Queued(u)' : n \in Queued(u) /\ cmds'[u][n].info \in files
  BY <1>1, <1>2, <1>4
<1> QED BY <1>1, <1>3, <1>4, <1>5, <1>6, <1>7

(* Every file info keeps its command. *)
LEMMA TakeUsed ==
  ASSUME Inv, NEW t \in Threads, Take(t), \A i \in Infos : info'[i].path = info[i].path
  PROVE  UsedInv'
<1>1. sent' = sent /\ cmds' = cmds /\ pending' = pending
  BY TakeIs DEF Inv, Take
<1>2. \A u \in Threads, n \in 1..MaxElems, i \in Infos : AskedAt(u, n, i)' <=> AskedAt(u, n, i)
  BY <1>1 DEF AskedAt
<1> QED BY <1>2 DEF Inv, UsedInv, None

(* A command other than close: neither the list nor the writers change,    *)
(* the file may become open or fail.                                       *)
Execute(t, i) ==
  /\ Take(t) /\ Next1(t).type # "close" /\ Next1(t).info = i
  /\ files' = files
  /\ info' \in [Infos -> InfoType] /\ \A j \in Infos : j # i => info'[j] = info[j]
  /\ info'[i].path = info[i].path /\ info'[i].writers = info[i].writers
  /\ info[i].fd => info'[i].fd
  /\ content' \in [Paths -> Nat]
  /\ fds' = IF info'[i].fd THEN fds \cup {i} ELSE fds
  /\ failed \subseteq failed' /\ failed' \subseteq failed \cup {i}
  /\ info'[i].error => info[i].error \/ i \in failed'
  /\ Next1(t).type = "open" => info'[i].fd \/ i \in failed'
  /\ dropped' = dropped \/ (dropped' = dropped \cup {<<t, At(t)>>} /\ ~Next1(t).own)

(* Executing such a command keeps the invariant. *)
LEMMA ExecuteStep ==
  ASSUME Inv, NEW t \in Threads, NEW i \in Infos, Execute(t, i)
  PROVE  Inv'
<1>1. /\ Typed /\ HeldInv /\ WritersInv /\ FilesInv /\ OwnInv /\ CmdsInv /\ Take(t) /\ Queue!Receive(t)
      /\ cmds' = cmds /\ obj' = obj /\ pending' = pending /\ manager' = manager
      /\ manager = "running"
  BY DEF Inv, Execute, Take
<1>2. /\ sent' = sent /\ closed' = closed /\ finished' = finished
      /\ delivered' \in [Threads -> Seq(Nat)] /\ Next1(t) = cmds[t][At(t)]
      /\ \A u \in Threads : Len(delivered'[u]) <= sent[u]
      /\ \A u \in Threads : \A n : n \in 1..Len(delivered'[u]) <=>
              n \in 1..Len(delivered[u]) \/ (u = t /\ n = At(t))
  BY <1>1, TakeIs
<1>3. i \in files
  BY <1>1, TakeKeeps DEF Execute
<1>4. files \subseteq Infos /\ info \in [Infos -> InfoType] /\ fds \subseteq Infos /\ failed \subseteq Infos
  BY <1>1 DEF Typed, TypeOK, InfoType
<1>5. Typed'
  <2>1. TypeOK'
    BY <1>1, <1>2, <1>4 DEF Execute, Typed, TypeOK, InfoType
  <2> QED BY <2>1, <1>1, <1>2 DEF Execute, Typed
<1>6. PendingInv' /\ CmdsInv'
  BY <1>1, TakeKeeps
<1>7. HeldInv'
  <2>1. files' = files
    BY DEF Execute
  <2> QED BY <2>1, <1>1, TakeKeeps DEF HeldInv, Cmd
<1>8. WritersInv'
  <2> SUFFICES ASSUME NEW j \in files
               PROVE  info'[j].writers >= Cardinality(Openers(j)') + Cardinality(Closes(j)')
    BY DEF WritersInv, Execute
  <2>1. j \in Infos /\ info'[j].writers = info[j].writers
    BY <1>4 DEF Execute
  <2>2. Openers(j)' = Openers(j)
    BY <1>1 DEF Openers
  <2>3. Next1(t) # Cmd("close", j)
    BY <2>1, CmdIs DEF Execute
  <2>4. Closes(j)' = Closes(j)
    BY <2>3, <1>1, ClosesShrink
  <2> QED BY <2>1, <2>2, <2>4, <1>1 DEF WritersInv
<1>9. \A j \in Infos : info'[j].path = info[j].path
  BY DEF Execute
<1>10. FilesInv'
  <2>1. \A j \in Infos : info'[j].path = None => info'[j] = NoInfo
    <3>1. info[i].path # None
      BY <1>1, <1>3, Assumed DEF FilesInv
    <3> QED BY <3>1, <1>1, <1>9 DEF FilesInv, Execute
  <2>2. files' = files
    BY DEF Execute
  <2>3. \A j \in files' : info'[j].path \in Paths
    BY <2>2, <1>1, <1>4, <1>9 DEF FilesInv
  <2>4. \A j, k \in files' : info'[j].path = info'[k].path => j = k
    BY <2>2, <1>1, <1>4, <1>9 DEF FilesInv
  <2>5. \A j \in files' : info'[j].fd <=> j \in fds'
    <3> SUFFICES ASSUME NEW j \in files PROVE info'[j].fd <=> j \in fds'
      BY <2>2
    <3>1. info[j].fd <=> j \in fds
      BY <1>1 DEF FilesInv
    <3>2. CASE j = i
      BY <3>1, <3>2 DEF Execute
    <3>3. CASE j # i
      BY <3>1, <3>3, <1>4 DEF Execute
    <3> QED BY <3>2, <3>3
  <2>6. fds' \subseteq files'
    BY <2>2, <1>1, <1>3 DEF FilesInv, Execute
  <2> QED BY <2>1, <2>3, <2>4, <2>5, <2>6 DEF FilesInv, NoInfo, None
<1>11. UsedInv'
  BY <1>1, <1>9, TakeUsed
<1>12. OwnInv'
  <2>1. \A j \in Infos : info'[j].error => j \in failed'
    BY <1>1 DEF OwnInv, Execute
  <2>2. ASSUME NEW u \in Threads, NEW n \in 1..Len(delivered'[u])
        PROVE  cmds'[u][n].type = "open" =>
                 info'[cmds'[u][n].info].fd \/ cmds'[u][n].info \in failed'
    <3>1. CASE u = t /\ n = At(t)
      BY <3>1, <1>1, <1>2 DEF Execute
    <3>2. CASE n \in 1..Len(delivered[u])
      <4>1. n \in 1..sent[u]
        BY <3>2, <1>1, ThreadTypes
      <4>2. cmds[u][n].info \in Infos
        BY <4>1, <1>1, ThreadTypes DEF Command
      <4>3. cmds[u][n].type = "open" => info[cmds[u][n].info].fd \/ cmds[u][n].info \in failed
        BY <3>2, <1>1 DEF OwnInv
      <4>4. \A j \in Infos : info[j].fd => info'[j].fd
        BY DEF Execute
      <4>5. failed \subseteq failed'
        BY DEF Execute
      <4> QED BY <4>2, <4>3, <4>4, <4>5, <1>1
    <3> QED BY <3>1, <3>2, <1>2
  <2>3. \A u \in Threads : obj'[u].open /\ obj'[u].own =>
          pending'[u] # <<>> \/ OpenIn(cmds'[u], sent'[u], obj'[u].info)
    BY <1>1, <1>2 DEF OwnInv
  <2>4. ASSUME NEW d \in dropped'
        PROVE  \E u \in Threads : \E n \in 1..Len(delivered'[u]) : d = <<u, n>> /\ ~cmds'[u][n].own
    <3>1. CASE d \in dropped
      <4>1. PICK u \in Threads : \E n \in 1..Len(delivered[u]) : d = <<u, n>> /\ ~cmds[u][n].own
        BY <3>1, <1>1 DEF OwnInv
      <4>2. PICK n \in 1..Len(delivered[u]) : d = <<u, n>> /\ ~cmds[u][n].own
        BY <4>1
      <4>3. n \in 1..Len(delivered'[u])
        BY <4>2, <1>2
      <4> QED BY <4>2, <4>3, <1>1
    <3>2. CASE d \notin dropped
      <4>1. d = <<t, At(t)>> /\ ~Next1(t).own
        BY <3>2 DEF Execute
      <4>2. At(t) \in 1..Len(delivered'[t])
        BY <1>2
      <4> QED BY <4>1, <4>2, <1>1, <1>2
    <3> QED BY <3>1, <3>2
  <2> QED BY <2>1, <2>2, <2>3, <2>4 DEF OwnInv
<1> QED BY <1>5, <1>6, <1>7, <1>8, <1>10, <1>11, <1>12 DEF Inv

(* The facts about the command that is executed and its file. *)
LEMMA TakesFacts ==
  ASSUME Inv, NEW t \in Threads, NEW type, Takes(t, type)
  PROVE  /\ Take(t) /\ Next1(t).type = type
         /\ Next1(t).info \in Infos /\ Next1(t).info \in files
         /\ info \in [Infos -> InfoType] /\ content \in [Paths -> Nat]
         /\ info[Next1(t).info].path \in Paths
         /\ info[Next1(t).info].fd <=> Next1(t).info \in fds
         /\ info[Next1(t).info].error => Next1(t).info \in failed
<1>1. Take(t) /\ Next1(t).type = type
  BY DEF Takes, Take
<1>2. Next1(t).info \in Infos /\ Next1(t).info \in files
  BY <1>1, TakeKeeps
<1> QED BY <1>1, <1>2 DEF Inv, Typed, TypeOK, InfoType, FilesInv, OwnInv

(* __hlt_file_cmd_internal: open. *)
LEMMA OpenDoneStep ==
  ASSUME Inv, NEW t \in Threads, OpenDone(t)
  PROVE  Inv'
<1>1. Takes(t, "open")
  BY DEF OpenDone
<1>2. PICK i \in Infos : i = Next1(t).info
  BY <1>1, TakesFacts
<1>3. /\ Take(t) /\ Next1(t).type = "open" /\ i \in files
      /\ info \in [Infos -> InfoType] /\ content \in [Paths -> Nat] /\ info[i].path \in Paths
      /\ info[i].fd <=> i \in fds
      /\ info[i].error => i \in failed
  BY <1>1, <1>2, TakesFacts
<1>4. /\ IF StillToOpen(i)
           THEN /\ info' = [info EXCEPT ![i].fd = TRUE]
                /\ fds' = fds \cup {i}
                /\ content' = IF Next1(t).mode = "append" THEN content
                              ELSE [content EXCEPT ![info[i].path] = 0]
           ELSE UNCHANGED <<info, fds, content>>
      /\ files' = files /\ failed' = failed /\ dropped' = dropped
  BY <1>2 DEF OpenDone
<1>5. CASE StillToOpen(i)
  <2>1. /\ info' \in [Infos -> InfoType] /\ \A j \in Infos : j # i => info'[j] = info[j]
        /\ info'[i].path = info[i].path /\ info'[i].writers = info[i].writers
        /\ info'[i].fd /\ info'[i].error = info[i].error
    <3>1. info' = [info EXCEPT ![i].fd = TRUE] /\ info \in [Infos -> InfoType]
      BY <1>3, <1>4, <1>5
    <3> QED BY <3>1 DEF InfoType
  <2>2. content' \in [Paths -> Nat]
    BY <1>3, <1>4, <1>5
  <2>3. Execute(t, i)
    BY <2>1, <2>2, <1>2, <1>3, <1>4, <1>5 DEF Execute
  <2> QED BY <2>3, ExecuteStep
<1>6. CASE ~StillToOpen(i)
  <2>1. info' = info /\ fds' = fds /\ content' = content
    BY <1>4, <1>6
  <2>2. info[i].fd \/ i \in failed
    BY <1>3, <1>6 DEF StillToOpen
  <2>3. Execute(t, i)
    BY <2>1, <2>2, <1>2, <1>3, <1>4 DEF Execute
  <2> QED BY <2>3, ExecuteStep
<1> QED BY <1>5, <1>6

(* Opening fails. *)
LEMMA OpenFailsStep ==
  ASSUME Inv, NEW t \in Threads, NEW marked \in BOOLEAN, OpenFails(t, marked)
  PROVE  Inv'
<1>1. Takes(t, "open")
  BY DEF OpenFails
<1>2. PICK i \in Infos : i = Next1(t).info
  BY <1>1, TakesFacts
<1>3. /\ Take(t) /\ Next1(t).type = "open" /\ i \in files
      /\ info \in [Infos -> InfoType] /\ content \in [Paths -> Nat]
      /\ info[i].fd <=> i \in fds
  BY <1>1, <1>2, TakesFacts
<1>4. /\ StillToOpen(i) /\ info' = [info EXCEPT ![i].error = marked] /\ failed' = failed \cup {i}
      /\ files' = files /\ content' = content /\ fds' = fds /\ dropped' = dropped
  BY <1>2 DEF OpenFails
<1>5. /\ info' \in [Infos -> InfoType] /\ \A j \in Infos : j # i => info'[j] = info[j]
      /\ info'[i].path = info[i].path /\ info'[i].writers = info[i].writers
      /\ info'[i].fd = info[i].fd
  BY <1>3, <1>4 DEF InfoType
<1>6. Execute(t, i)
  BY <1>2, <1>3, <1>4, <1>5 DEF Execute
<1> QED BY <1>6, ExecuteStep

(* A write that is dropped although nothing has failed is not one of a     *)
(* thread that has opened the file itself: its open command was executed   *)
(* before.                                                                 *)
LEMMA OwnWriteFindsFile ==
  ASSUME Inv, NEW t \in Threads, Takes(t, "write"), Next1(t).own
  PROVE  info[Next1(t).info].fd \/ Next1(t).info \in failed
<1>1. Typed /\ CmdsInv /\ OwnInv /\ Take(t) /\ Next1(t).type = "write" /\ Queue!Receive(t) /\ cmds' = cmds
  BY TakesFacts DEF Inv, Take
<1>2. At(t) \in 1..sent[t] /\ Next1(t) = cmds[t][At(t)]
  BY <1>1, TakeIs
<1>3. PICK m \in 1..At(t) : cmds[t][m].type = "open" /\ cmds[t][m].info = Next1(t).info
  BY <1>1, <1>2 DEF CmdsInv, OpenIn
<1>4. m # At(t)
  BY <1>1, <1>2, <1>3
<1>5. m \in 1..Len(delivered[t])
  <2> DEFINE d == Len(delivered[t])
  <2>1. d \in Nat /\ At(t) = d + 1
    BY <1>1, ThreadTypes DEF At
  <2> HIDE DEF d
  <2>2. m \in 1..d
    BY <2>1, <1>3, <1>4
  <2> QED BY <2>2 DEF d
<1> QED BY <1>1, <1>3, <1>5 DEF OwnInv

(* __hlt_file_cmd_internal: write. *)
LEMMA WriteDoneStep ==
  ASSUME Inv, NEW t \in Threads, WriteDone(t)
  PROVE  Inv'
<1>1. Takes(t, "write")
  BY DEF WriteDone
<1>2. PICK i \in Infos : i = Next1(t).info
  BY <1>1, TakesFacts
<1>3. /\ Take(t) /\ Next1(t).type = "write" /\ i \in files
      /\ info \in [Infos -> InfoType] /\ content \in [Paths -> Nat] /\ info[i].path \in Paths
      /\ info[i].fd <=> i \in fds
      /\ info[i].error => i \in failed
  BY <1>1, <1>2, TakesFacts
<1>4. /\ IF Writable(i)
           THEN /\ content' = [content EXCEPT ![info[i].path] = @ + 1]
                /\ dropped' = dropped
           ELSE /\ dropped' = IF i \in failed THEN dropped ELSE dropped \cup {<<t, At(t)>>}
                /\ content' = content
      /\ files' = files /\ info' = info /\ fds' = fds /\ failed' = failed
  BY <1>2 DEF WriteDone, At
<1>5. content' \in [Paths -> Nat]
  BY <1>3, <1>4
<1>6. dropped' = dropped \/ (dropped' = dropped \cup {<<t, At(t)>>} /\ ~Next1(t).own)
  <2>1. CASE Writable(i) \/ i \in failed
    BY <2>1, <1>4
  <2>2. CASE ~Writable(i) /\ i \notin failed
    <3>1. ~info[i].fd
      BY <2>2, <1>3 DEF Writable
    <3>2. ~Next1(t).own
      BY <3>1, <2>2, <1>1, <1>2, OwnWriteFindsFile
    <3> QED BY <3>2, <2>2, <1>4
  <2> QED BY <2>1, <2>2
<1>7. Execute(t, i)
  BY <1>2, <1>3, <1>4, <1>5, <1>6 DEF Execute
<1> QED BY <1>7, ExecuteStep

(* Writing fails. *)
LEMMA WriteFailsStep ==
  ASSUME Inv, NEW t \in Threads, WriteFails(t)
  PROVE  Inv'
<1>1. Takes(t, "write")
  BY DEF WriteFails
<1>2. PICK i \in Infos : i = Next1(t).info
  BY <1>1, TakesFacts
<1>3. /\ Take(t) /\ Next1(t).type = "write" /\ i \in files
      /\ info \in [Infos -> InfoType] /\ content \in [Paths -> Nat]
      /\ info[i].fd <=> i \in fds
  BY <1>1, <1>2, TakesFacts
<1>4. /\ Writable(i) /\ info' = [info EXCEPT ![i].error = TRUE] /\ failed' = failed \cup {i}
      /\ files' = files /\ content' = content /\ fds' = fds /\ dropped' = dropped
  BY <1>2 DEF WriteFails
<1>5. /\ info' \in [Infos -> InfoType] /\ \A j \in Infos : j # i => info'[j] = info[j]
      /\ info'[i].path = info[i].path /\ info'[i].writers = info[i].writers
      /\ info'[i].fd = info[i].fd
  BY <1>3, <1>4 DEF InfoType
<1>6. Execute(t, i)
  BY <1>2, <1>3, <1>4, <1>5 DEF Execute
<1> QED BY <1>6, ExecuteStep

(* __hlt_file_cmd_internal: close.  The last writer frees the file info;   *)
(* its close command is the only one that is left, and whoever has other   *)
(* commands for the file would have one more.                              *)
LEMMA CloseDoneStep ==
  ASSUME Inv, NEW t \in Threads, CloseDone(t)
  PROVE  Inv'
<1>1. Takes(t, "close")
  BY DEF CloseDone
<1>2. PICK i \in Infos : i = Next1(t).info
  BY <1>1, TakesFacts
<1>3. /\ Take(t) /\ Next1(t).type = "close" /\ i \in files
      /\ info \in [Infos -> InfoType] /\ info[i].path \in Paths
      /\ cmds' = cmds /\ obj' = obj /\ pending' = pending /\ manager' = manager
      /\ manager = "running" /\ Queue!Receive(t)
  BY <1>1, <1>2, TakesFacts DEF Take
<1>4. /\ IF info[i].fd
           THEN /\ info' = [info EXCEPT ![i].writers = @ - 1]
                /\ files' = IF IsLast(i) THEN files \ {i} ELSE files
                /\ fds' = IF IsLast(i) THEN fds \ {i} ELSE fds
           ELSE info' = info /\ files' = files /\ fds' = fds
      /\ content' = content /\ failed' = failed /\ dropped' = dropped
  BY <1>2 DEF CloseDone
<1>5. Typed /\ CmdsInv /\ HeldInv /\ WritersInv /\ FilesInv /\ OwnInv
  BY DEF Inv
<1>6. /\ sent' = sent /\ closed' = closed /\ finished' = finished
      /\ delivered' \in [Threads -> Seq(Nat)]
      /\ At(t) \in 1..sent[t] /\ Next1(t) = cmds[t][At(t)]
      /\ \A u \in Threads : Len(delivered'[u]) <= sent[u]
      /\ \A u \in Threads : \A n : n \in 1..Len(delivered'[u]) <=>
              n \in 1..Len(delivered[u]) \/ (u = t /\ n = At(t))
  BY <1>3, <1>5, TakeIs
<1>7. Next1(t) = Cmd("close", i)
  BY <1>2, <1>3, <1>5, <1>6 DEF CmdsInv
<1>8. files \subseteq Infos /\ fds \subseteq files
  BY <1>5 DEF Typed, TypeOK, FilesInv
<1> DEFINE a == Cardinality(Openers(i))
           b == Cardinality(Closes(i))
           w == info[i].writers
<1>9. /\ a \in Nat /\ b \in Nat /\ w \in Nat /\ w >= a + b
      /\ IsFiniteSet(Openers(i)) /\ IsFiniteSet(Closes(i))
  BY <1>3, <1>5, WritersFinite DEF WritersInv, InfoType
<1>10. b # 0 /\ Cardinality(Closes(i)') = b - 1 /\ Openers(i)' = Openers(i)
  <2>1. <<t, At(t)>> \in Closes(i) /\ Cardinality(Closes(i)') = b - 1
    BY <1>3, <1>5, <1>7, ClosesShrink
  <2>2. b # 0
    BY <2>1, <1>9, FS_EmptySet
  <2> QED BY <2>1, <2>2, <1>3 DEF Openers
<1>11. w # 0 /\ w - 1 \in Nat
  <2> HIDE DEF a, b, w
  <2> QED BY <1>9, <1>10
<1>12. /\ info' \in [Infos -> InfoType] /\ \A j \in Infos : j # i => info'[j] = info[j]
       /\ info'[i].path = info[i].path /\ info'[i].fd = info[i].fd
       /\ info'[i].error = info[i].error
       /\ info'[i].writers = IF info[i].fd THEN w - 1 ELSE w
  <2>1. CASE info[i].fd
    <3>1. info' = [info EXCEPT ![i].writers = w - 1] /\ info \in [Infos -> InfoType]
      BY <2>1, <1>3, <1>4
    <3> HIDE DEF w
    <3> QED BY <2>1, <3>1, <1>11 DEF InfoType
  <2>2. CASE ~info[i].fd
    BY <2>2, <1>3, <1>4
  <2> QED BY <2>1, <2>2
<1>13. /\ files' \subseteq files /\ \A j \in files : j # i => j \in files'
       /\ i \notin files' => info[i].fd /\ w = 1
       /\ fds' \subseteq fds /\ \A j \in fds : j \notin fds' <=> j = i /\ i \notin files'
       /\ i \notin files' => i \notin fds'
  BY <1>3, <1>4 DEF IsLast
<1>14. Typed'
  <2>1. TypeOK'
    BY <1>3, <1>4, <1>5, <1>6, <1>8, <1>12, <1>13 DEF Typed, TypeOK, InfoType
  <2> QED BY <2>1, <1>3, <1>4, <1>5, <1>6 DEF Typed
<1>15. PendingInv' /\ CmdsInv'
  BY <1>3, TakeKeeps
<1>16. i \notin files' => Openers(i) = {} /\ Closes(i)' = {}
  <2> SUFFICES ASSUME i \notin files' PROVE Openers(i) = {} /\ Closes(i)' = {}
    OBVIOUS
  <2>1. a = 0 /\ b = 1
    <3>1. w = 1
      BY <1>13
    <3> HIDE DEF a, b, w
    <3> QED BY <3>1, <1>9, <1>10
  <2>2. Openers(i) = {}
    BY <2>1, <1>9, FS_EmptySet
  <2>3. Closes(i)' = Closes(i) \ {<<t, At(t)>>}
    BY <1>3, <1>5, <1>7, ClosesShrink
  <2>4. IsFiniteSet(Closes(i)')
    <3>1. IsFiniteSet(Closes(i))
      BY <1>9
    <3>2. IsFiniteSet(Closes(i) \ {<<t, At(t)>>})
      BY <3>1, FS_RemoveElement
    <3> QED BY <3>2, <2>3
  <2>5. Cardinality(Closes(i)') = 0
    BY <2>1, <1>10
  <2> QED BY <2>2, <2>4, <2>5, FS_EmptySet
<1>17. HeldInv'
  <2>0. /\ \A u \in Threads : obj'[u].open => obj'[u].info \in files
        /\ \A u \in Threads : \A n \in Queued(u)' : n \in Queued(u) /\ cmds'[u][n].info \in files
        /\ \A u \in Threads : \A n \in Queued(u)' : cmds'[u][n].type # "close" =>
             \/ obj'[u].open /\ obj'[u].info = cmds'[u][n].info
             \/ \E m \in Queued(u)' : m > n /\ cmds'[u][m] = Cmd("close", cmds'[u][n].info)
    BY <1>3, TakeKeeps
  <2>1. \A u \in Threads : obj'[u].open => obj'[u].info \in files'
    BY <2>0, <1>3, <1>13, <1>16 DEF Openers
  <2>2. ASSUME NEW u \in Threads, NEW n \in Queued(u)'
        PROVE  cmds'[u][n].info \in files'
    <3> SUFFICES ASSUME i \notin files', cmds'[u][n].info = i PROVE FALSE
      BY <2>0, <1>13
    <3>1. \A m \in Queued(u)' : cmds[u][m] # Cmd("close", i)
      <4> SUFFICES ASSUME NEW m \in Queued(u)', cmds[u][m] = Cmd("close", i) PROVE FALSE
        OBVIOUS
      <4>1. m \in 1..MaxElems
        BY <2>0, <1>5, ThreadTypes
      <4>2. <<u, m>> \in Closes(i)'
        BY <4>1, <1>3 DEF Closes, Cmd
      <4> QED BY <4>2, <1>16
    <3>2. \A v \in Threads : ~ (obj[v].open /\ obj[v].info = i)
      BY <1>16 DEF Openers
    <3>3. CASE cmds[u][n].type = "close"
      <4>1. n \in 1..sent[u]
        BY <2>0, <1>5, ThreadTypes
      <4>2. cmds[u][n] = Cmd("close", i)
        BY <3>3, <4>1, <1>3, <1>5 DEF CmdsInv
      <4> QED BY <4>2, <3>1
    <3>4. CASE cmds[u][n].type # "close"
      BY <3>1, <3>2, <3>4, <2>0, <1>3
    <3> QED BY <3>3, <3>4
  <2> QED BY <2>0, <2>1, <2>2 DEF HeldInv, Cmd
<1>18. WritersInv'
  <2> SUFFICES ASSUME NEW j \in files'
               PROVE  info'[j].writers >= Cardinality(Openers(j)') + Cardinality(Closes(j)')
    BY DEF WritersInv
  <2>1. CASE j = i
    <3>1. Cardinality(Openers(j)') = a /\ Cardinality(Closes(j)') = b - 1
      BY <2>1, <1>10
    <3>2. info'[j].writers = IF info[i].fd THEN w - 1 ELSE w
      BY <2>1, <1>12
    <3> HIDE DEF a, b, w
    <3>3. w - 1 >= a + (b - 1) /\ w >= a + (b - 1)
      BY <1>9
    <3> QED BY <3>1, <3>2, <3>3
  <2>2. CASE j # i
    <3>1. j \in files /\ j \in Infos /\ info'[j] = info[j]
      BY <2>2, <1>8, <1>12, <1>13
    <3>2. Next1(t) # Cmd("close", j)
      <4>1. Cmd("close", i).info = i /\ Cmd("close", j).info = j
        BY <3>1, CmdIs
      <4> QED BY <4>1, <2>2, <1>7
    <3>3. Closes(j)' = Closes(j)
      BY <3>2, <1>3, <1>5, ClosesShrink
    <3>4. Openers(j)' = Openers(j)
      BY <1>3 DEF Openers
    <3> QED BY <3>1, <3>3, <3>4, <1>3, <1>5 DEF WritersInv
  <2> QED BY <2>1, <2>2
<1>19. \A j \in Infos : /\ info'[j].path = info[j].path /\ info'[j].fd = info[j].fd
                        /\ info'[j].error = info[j].error
  BY <1>12
<1>20. FilesInv'
  <2>1. \A j \in Infos : info'[j].path = None => info'[j] = NoInfo
    <3>1. info[i].path # None
      BY <1>3, Assumed
    <3> QED BY <3>1, <1>5, <1>12 DEF FilesInv
  <2>2. \A j \in files' : info'[j].path \in Paths /\ (info'[j].fd <=> j \in fds')
    <3> SUFFICES ASSUME NEW j \in files' PROVE info'[j].path \in Paths /\ (info'[j].fd <=> j \in fds')
      OBVIOUS
    <3>1. j \in files /\ j \in Infos
      BY <1>8, <1>13
    <3>2. info[j].path \in Paths /\ (info[j].fd <=> j \in fds)
      BY <3>1, <1>5 DEF FilesInv
    <3>3. j \in fds' <=> j \in fds
      BY <1>13
    <3> QED BY <3>1, <3>2, <3>3, <1>19
  <2>3. \A j, k \in files' : info'[j].path = info'[k].path => j = k
    BY <1>5, <1>8, <1>13, <1>19 DEF FilesInv
  <2>4. fds' \subseteq files'
    BY <1>8, <1>13
  <2> QED BY <2>1, <2>2, <2>3, <2>4 DEF FilesInv, NoInfo, None
<1>21. UsedInv'
  BY <1>3, <1>19, TakeUsed
<1>22. OwnInv'
  <2>1. \A j \in Infos : info'[j].error => j \in failed'
    BY <1>4, <1>5, <1>19 DEF OwnInv
  <2>2. ASSUME NEW u \in Threads, NEW n \in 1..Len(delivered'[u]), cmds'[u][n].type = "open"
        PROVE  info'[cmds'[u][n].info].fd \/ cmds'[u][n].info \in failed'
    <3>1. n \in 1..Len(delivered[u])
      BY <2>2, <1>3, <1>6
    <3>2. n \in 1..sent[u]
      BY <3>1, <1>5, ThreadTypes
    <3>3. cmds[u][n].info \in Infos
      BY <3>2, <1>5, ThreadTypes DEF Command
    <3>4. info[cmds[u][n].info].fd \/ cmds[u][n].info \in failed
      BY <3>1, <2>2, <1>3, <1>5 DEF OwnInv
    <3> QED BY <3>3, <3>4, <1>3, <1>4, <1>19
  <2>3. \A u \in Threads : obj'[u].open /\ obj'[u].own =>
          pending'[u] # <<>> \/ OpenIn(cmds'[u], sent'[u], obj'[u].info)
    BY <1>3, <1>5, <1>6 DEF OwnInv
  <2>4. ASSUME NEW d \in dropped'
        PROVE  \E u \in Threads : \E n \in 1..Len(delivered'[u]) : d = <<u, n>> /\ ~cmds'[u][n].own
    <3>1. PICK u \in Threads : \E n \in 1..Len(delivered[u]) : d = <<u, n>> /\ ~cmds[u][n].own
      BY <1>4, <1>5 DEF OwnInv
    <3>2. PICK n \in 1..Len(delivered[u]) : d = <<u, n>> /\ ~cmds[u][n].own
      BY <3>1
    <3>3. n \in 1..Len(delivered'[u])
      BY <3>2, <1>6
    <3> QED BY <3>2, <3>3, <1>3
  <2> QED BY <2>1, <2>2, <2>3, <2>4 DEF OwnInv
<1> QED BY <1>14, <1>15, <1>17, <1>18, <1>20, <1>21, <1>22 DEF Inv

-----------------------------------------------------------------------------
(* The theorems *)

(* A thread that terminates, the manager that is killed, and a step that   *)
(* changes nothing.                                                        *)
LEMMA SameStep ==
  ASSUME Inv, sent' = sent, delivered' = delivered, cmds' = cmds, files' = files, info' = info,
         obj' = obj, pending' = pending, content' = content, fds' = fds, failed' = failed,
         dropped' = dropped, closed' \in [Threads -> BOOLEAN], finished' \in BOOLEAN,
         manager' = manager \/ (manager = "running" /\ manager' = "killed")
  PROVE  Inv'
<1>1. manager' # "done" => manager # "done"
  OBVIOUS
<1>2. \A t \in Threads : Queued(t)' = Queued(t)
  BY DEF Queued
<1>3. \A i : Openers(i)' = Openers(i) /\ Closes(i)' = Closes(i)
  BY <1>2 DEF Openers, Closes, Cmd
<1>4. Typed' /\ PendingInv' /\ CmdsInv'
  BY DEF Inv, Typed, TypeOK, PendingInv, CmdsInv, Cmd
<1>5. HeldInv' /\ WritersInv'
  <2>1. HeldInv'
    BY <1>1, <1>2 DEF Inv, HeldInv, Cmd
  <2>2. WritersInv'
    BY <1>1, <1>3 DEF Inv, WritersInv
  <2> QED BY <2>1, <2>2
<1>6. FilesInv' /\ OwnInv'
  BY DEF Inv, FilesInv, OwnInv, NoInfo, None
<1>7. UsedInv'
  <2>1. \A t \in Threads, n \in 1..MaxElems, i \in Infos : AskedAt(t, n, i)' <=> AskedAt(t, n, i)
    BY DEF AskedAt
  <2> QED BY <2>1 DEF Inv, UsedInv, None
<1> QED BY <1>4, <1>5, <1>6, <1>7 DEF Inv

(* The manager is done: __hlt_files_done closes what is left. *)
LEMMA ManagerDoneStep ==
  ASSUME Inv, ManagerDone
  PROVE  Inv'
<1>1. /\ manager' = "done" /\ fds' = fds \ files /\ files' = {}
      /\ sent' = sent /\ closed' = closed /\ delivered' = delivered /\ finished' = TRUE
      /\ cmds' = cmds /\ info' = info /\ obj' = obj /\ pending' = pending
      /\ content' = content /\ failed' = failed /\ dropped' = dropped
  BY DEF ManagerDone, Queue!Finish
<1>2. fds' = {}
  BY <1>1 DEF Inv, FilesInv
<1>3. Typed' /\ PendingInv' /\ CmdsInv'
  BY <1>1, <1>2 DEF Inv, Typed, TypeOK, PendingInv, CmdsInv, Cmd
<1>4. HeldInv' /\ WritersInv'
  BY <1>1 DEF HeldInv, WritersInv
<1>5. FilesInv' /\ OwnInv'
  BY <1>1, <1>2 DEF Inv, FilesInv, OwnInv, NoInfo, None
<1>6. UsedInv'
  <2>1. \A t \in Threads, n \in 1..MaxElems, i \in Infos : AskedAt(t, n, i)' <=> AskedAt(t, n, i)
    BY <1>1 DEF AskedAt
  <2> QED BY <2>1, <1>1 DEF Inv, UsedInv, None
<1> QED BY <1>3, <1>4, <1>5, <1>6 DEF Inv

(* Every step keeps the invariant. *)
LEMMA NextInv ==
  ASSUME Inv, [Next]_vars
  PROVE  Inv'
<1>0. closed \in [Threads -> BOOLEAN] /\ finished \in BOOLEAN
  BY DEF Inv, Typed, TypeOK
<1>1. ASSUME NEW t \in Threads, NEW p \in Paths, NEW m \in Modes, Open(t, p, m) PROVE Inv'
  BY <1>1, OpenStep
<1>2. ASSUME NEW t \in Threads, PushOpen(t) PROVE Inv'
  BY <1>2, PushOpenStep
<1>3. ASSUME NEW t \in Threads, Write(t) PROVE Inv'
  BY <1>3, WriteStep
<1>4. ASSUME NEW t \in Threads, Close(t) PROVE Inv'
  BY <1>4, CloseStep
<1>5. ASSUME NEW t \in Threads, NEW u \in Threads, CloneInit(t, u) PROVE Inv'
  BY <1>5, CloneInitStep
<1>6. ASSUME NEW t \in Threads, Terminating(t) PROVE Inv'
  <2>1. closed' \in [Threads -> BOOLEAN]
    BY <1>0, <1>6 DEF Terminating, Queue!Close
  <2> QED BY <2>1, <1>0, <1>6, SameStep DEF Terminating, Queue!Close, disk
<1>7. CASE Kill
  BY <1>0, <1>7, SameStep DEF Kill, queue, disk
<1>8. ASSUME NEW t \in Threads, OpenDone(t) PROVE Inv'
  BY <1>8, OpenDoneStep
<1>9. ASSUME NEW t \in Threads, NEW marked \in BOOLEAN, OpenFails(t, marked) PROVE Inv'
  BY <1>9, OpenFailsStep
<1>10. ASSUME NEW t \in Threads, WriteDone(t) PROVE Inv'
  BY <1>10, WriteDoneStep
<1>11. ASSUME NEW t \in Threads, WriteFails(t) PROVE Inv'
  BY <1>11, WriteFailsStep
<1>12. ASSUME NEW t \in Threads, CloseDone(t) PROVE Inv'
  BY <1>12, CloseDoneStep
<1>13. CASE ManagerDone
  BY <1>13, ManagerDoneStep
<1>14. CASE UNCHANGED vars
  BY <1>0, <1>14, SameStep DEF vars, queue, disk
<1> QED BY <1>1, <1>2, <1>3, <1>4, <1>5, <1>6, <1>7, <1>8, <1>9, <1>10, <1>11, <1>12, <1>13,
           <1>14 DEF Next, Manager, Program

(* The inductive invariant holds in every behaviour. *)
LEMMA Invariant == Spec => []Inv
<1>1. Init => Inv
  BY InitInv
<1>2. Inv /\ [Next]_vars => Inv'
  BY NextInv
<1> QED BY <1>1, <1>2, PTL DEF Spec

(* No thread and no queued command refers to a file info that was freed,   *)
(* and every writer is counted.                                            *)
THEOREM InfoStaysAlive == Spec => []InfoAlive
<1>1. Inv => InfoAlive
  BY DEF Inv, Typed, HeldInv, WritersInv, InfoAlive, Openers, Closes
<1> QED BY <1>1, Invariant, PTL

(* A thread that has opened a file itself loses no write unless opening or *)
(* writing has failed.                                                     *)
THEOREM OwnWritesAreKept == Spec => []OwnWritesKept
<1>1. Inv => OwnWritesKept
  <2> SUFFICES ASSUME Inv, NEW d \in dropped PROVE ~cmds[d[1]][d[2]].own
    BY DEF OwnWritesKept
  <2>1. PICK t \in Threads : \E n \in 1..Len(delivered[t]) : d = <<t, n>> /\ ~cmds[t][n].own
    BY DEF Inv, OwnInv
  <2> QED BY <2>1
<1> QED BY <1>1, Invariant, PTL

(* No step takes away from a file that stays open: a command that opens a  *)
(* file truncates it only if no descriptor for its path is open.           *)
THEOREM NeverTruncatedWhileOpen == Spec => NotTruncatedWhileOpen
<1> DEFINE Kept == \A i \in fds : i \in fds' => content'[info[i].path] >= content[info[i].path]
<1>1. ASSUME Inv, [Next]_vars PROVE Kept
  <2> SUFFICES ASSUME NEW i \in fds PROVE content'[info[i].path] >= content[info[i].path]
    OBVIOUS
  <2>1. /\ content \in [Paths -> Nat] /\ i \in files /\ info[i].path \in Paths /\ info[i].fd
        /\ i \in Infos /\ \A j, k \in files : info[j].path = info[k].path => j = k
    BY <1>1 DEF Inv, Typed, TypeOK, FilesInv
  <2>2. content[info[i].path] \in Nat
    BY <2>1
  <2>3. CASE content' = content
    BY <2>2, <2>3
  <2>4. ASSUME NEW t \in Threads, OpenDone(t)
        PROVE  content'[info[i].path] >= content[info[i].path]
    <3>1. Takes(t, "open")
      BY <2>4 DEF OpenDone
    <3>2. PICK j \in Infos : j = Next1(t).info
      BY <3>1, <1>1, TakesFacts
    <3>3. j \in files
      BY <3>1, <3>2, <1>1, TakesFacts
    <3>4. CASE StillToOpen(j)
      <4>1. info[i].path # info[j].path
        BY <3>3, <3>4, <2>1 DEF StillToOpen
      <4>2. content' = content \/ content' = [content EXCEPT ![info[j].path] = 0]
        BY <3>2, <3>4, <2>4 DEF OpenDone
      <4> QED BY <4>1, <4>2, <2>1, <2>2
    <3>5. CASE ~StillToOpen(j)
      BY <3>2, <3>5, <2>3, <2>4 DEF OpenDone
    <3> QED BY <3>4, <3>5
  <2>5. ASSUME NEW t \in Threads, WriteDone(t)
        PROVE  content'[info[i].path] >= content[info[i].path]
    <3>1. PICK p : p = info[Next1(t).info].path
      OBVIOUS
    <3>2. content' = content \/ content' = [content EXCEPT ![p] = @ + 1]
      BY <3>1, <2>5 DEF WriteDone
    <3> QED BY <3>2, <2>1, <2>2
  <2> QED BY <2>3, <2>4, <2>5, <1>1
          DEF Next, Manager, Program, vars, disk, OpenFails, WriteFails, CloseDone, ManagerDone,
              Open, PushOpen, Write, Close, CloneInit, Terminating, Kill
<1>2. Inv /\ [Next]_vars => [Kept]_vars
  BY <1>1
<1> QED BY <1>2, Invariant, PTL DEF Spec, NotTruncatedWhileOpen
=============================================================================
