------------------------------- MODULE CmdFile -------------------------------
(***************************************************************************)
(* Output files and the command queue, libhilti/file.c and cmdqueue.c.     *)
(* Threads open, write, close and clone file objects; what that does to    *)
(* the file itself goes as a command through a queue to a manager thread,  *)
(* which executes the commands of each thread in order, but those of       *)
(* different threads in any order.  The queue is WriterFifo, what the      *)
(* thread queue was shown to implement.                                    *)
(*                                                                         *)
(* A thread has one file object.  Left out: how bytes are escaped and what *)
(* charset they have; a write is one unit that is output in one piece.     *)
(***************************************************************************)
EXTENDS Naturals, Sequences, FiniteSets

CONSTANTS
  Threads,    \* the main thread and the workers
  Paths,      \* names of files
  MaxElems    \* bound on the commands of a thread

ASSUME CmdFileAssumption ==
  /\ IsFiniteSet(Threads)
  /\ 0 \notin Paths
  /\ MaxElems \in Nat

VARIABLES
  sent, closed, delivered, finished,  \* the command queue
  cmds,      \* thread -> the commands it has written to the queue
  files,     \* set of __hlt_file_info that are allocated and in the list
  info,      \* __hlt_file_info -> its fields
  obj,       \* thread -> its file object
  pending,   \* thread -> the open command it has yet to write to the queue
  manager,   \* "running", "done" or "killed"
  content,   \* path -> the number of writes in the file
  fds,       \* history: descriptors that are open, named by their file info
  failed,    \* history: file infos for which opening or writing has failed
  dropped    \* history: writes that went nowhere although nothing had failed

queue == <<sent, closed, delivered, finished>>
disk == <<content, fds, failed, dropped>>
vars == <<queue, cmds, files, info, obj, pending, manager, disk>>

Queue == INSTANCE WriterFifo WITH Writers <- Threads

(* A file info is named by its number; one that is freed is not used again. *)
Infos == 1..(MaxElems * Cardinality(Threads))
None == 0
Modes == {"create", "append"}
NoInfo == [path |-> None, fd |-> FALSE, writers |-> 0, error |-> FALSE]
NoObj == [info |-> None, open |-> FALSE, own |-> FALSE]

Init ==
  /\ Queue!Init
  /\ cmds = [t \in Threads |-> <<>>]
  /\ files = {}
  /\ info = [i \in Infos |-> NoInfo]
  /\ obj = [t \in Threads |-> NoObj]
  /\ pending = [t \in Threads |-> <<>>]
  /\ manager = "running"
  /\ content = [p \in Paths |-> 0]
  /\ fds = {} /\ failed = {} /\ dropped = {}

-----------------------------------------------------------------------------
(* __hlt_cmdqueue_push *)
Push(t, cmd) ==
  /\ Queue!Send(t)
  /\ cmds' = [cmds EXCEPT ![t] = Append(@, cmd)]

Cmd(type, i) == [type |-> type, info |-> i, mode |-> "create", own |-> FALSE]

Idle(t) == manager = "running" /\ ~closed[t] /\ pending[t] = <<>>

(* Fault: an object that finds the file in the list is not counted. *)
CountWriter_NotCounted(i) == info

(* ++info->writers *)
CountWriter(i) == [info EXCEPT ![i].writers = @ + 1]

(* The name of a new file info *)
Fresh == CHOOSE i \in Infos : info[i] = NoInfo /\ \A j \in 1..(i - 1) : info[j] # NoInfo

(* hlt_file_open, up to the release of the lock *)
Open(t, p, m) ==
  /\ Idle(t) /\ ~obj[t].open
  /\ sent[t] + 1 < MaxElems
  /\ LET known == {i \in files : info[i].path = p}
         i == IF known # {} THEN CHOOSE k \in known : TRUE ELSE Fresh
     IN  /\ info' = IF known # {} THEN CountWriter(i)
                    ELSE [info EXCEPT ![i] = [path |-> p, fd |-> FALSE, writers |-> 1,
                                              error |-> FALSE]]
         /\ files' = files \cup {i}
         /\ obj' = [obj EXCEPT ![t] = [info |-> i, open |-> TRUE, own |-> TRUE]]
         /\ pending' = [pending EXCEPT ![t] = <<[Cmd("open", i) EXCEPT !.mode = m]>>]
  /\ UNCHANGED <<queue, cmds, manager, disk>>

(* Fault: only the object that created the file info sends the command. *)
PushOpen_OnlyFirst(t) ==
  /\ manager = "running" /\ pending[t] # <<>>
  /\ IF info[pending[t][1].info].writers = 1 THEN Push(t, pending[t][1])
     ELSE UNCHANGED <<queue, cmds>>
  /\ pending' = [pending EXCEPT ![t] = <<>>]
  /\ UNCHANGED <<files, info, obj, manager, disk>>

(* ... and the command *)
PushOpen(t) ==
  /\ manager = "running" /\ pending[t] # <<>>
  /\ Push(t, pending[t][1])
  /\ pending' = [pending EXCEPT ![t] = <<>>]
  /\ UNCHANGED <<files, info, obj, manager, disk>>

(* hlt_file_write_bytes and hlt_file_write_string *)
Write(t) ==
  /\ Idle(t) /\ obj[t].open
  /\ sent[t] + 1 < MaxElems
  /\ Push(t, [Cmd("write", obj[t].info) EXCEPT !.own = obj[t].own])
  /\ UNCHANGED <<files, info, obj, pending, manager, disk>>

(* hlt_file_close *)
Close(t) ==
  /\ Idle(t) /\ obj[t].open
  /\ Push(t, Cmd("close", obj[t].info))
  /\ obj' = [obj EXCEPT ![t].open = FALSE]
  /\ UNCHANGED <<files, info, pending, manager, disk>>

(* hlt_file_clone_init: thread u gets a copy of the object of thread t. *)
CloneInit(t, u) ==
  /\ Idle(t) /\ Idle(u) /\ ~obj[u].open
  /\ obj[t].info # None /\ obj[t].open
  /\ info' = CountWriter(obj[t].info)
  /\ obj' = [obj EXCEPT ![u] = [obj[t] EXCEPT !.own = FALSE]]
  /\ UNCHANGED <<queue, cmds, files, pending, manager, disk>>

(* __hlt_cmd_worker_terminating, and __hlt_cmd_queue_done for the main     *)
(* thread.  The file objects of the thread are released, not closed.       *)
Terminating(t) ==
  /\ Idle(t)
  /\ Queue!Close(t)
  /\ UNCHANGED <<cmds, files, info, obj, pending, manager, disk>>

-----------------------------------------------------------------------------
(* __hlt_file_cmd_internal, for the next command of thread t *)
Next1(t) == cmds[t][Len(delivered[t]) + 1]

Takes(t, type) ==
  /\ manager = "running"
  /\ Queue!Receive(t)
  /\ Next1(t).type = type
  /\ UNCHANGED <<cmds, obj, pending, manager>>

(* Fault: every open command opens the file. *)
StillToOpen_Always(i) == ~info[i].error

(* An open command does nothing for a file that is open or has failed. *)
StillToOpen(i) == ~info[i].error /\ ~info[i].fd

OpenDone(t) ==
  LET i == Next1(t).info
      p == info[i].path
  IN  /\ Takes(t, "open")
      /\ IF StillToOpen(i)
           THEN /\ info' = [info EXCEPT ![i].fd = TRUE]
                /\ fds' = fds \cup {i}
                /\ content' = IF Next1(t).mode = "append" THEN content
                              ELSE [content EXCEPT ![p] = 0]
           ELSE UNCHANGED <<info, fds, content>>
      /\ UNCHANGED <<files, failed, dropped>>

(* The system refuses to open the file, or its name cannot be converted,   *)
(* which is not marked as an error.                                        *)
OpenFails(t, marked) ==
  LET i == Next1(t).info
  IN  /\ Takes(t, "open")
      /\ StillToOpen(i)
      /\ info' = [info EXCEPT ![i].error = marked]
      /\ failed' = failed \cup {i}
      /\ UNCHANGED <<files, content, fds, dropped>>

Writable(i) == info[i].fd /\ ~info[i].error

WriteDone(t) ==
  LET i == Next1(t).info
      n == Len(delivered[t]) + 1
  IN  /\ Takes(t, "write")
      /\ IF Writable(i)
           THEN /\ content' = [content EXCEPT ![info[i].path] = @ + 1]
                /\ UNCHANGED dropped
           ELSE /\ dropped' = IF i \in failed THEN dropped ELSE dropped \cup {<<t, n>>}
                /\ UNCHANGED content
      /\ UNCHANGED <<files, info, fds, failed>>

(* __hlt_safe_write fails *)
WriteFails(t) ==
  LET i == Next1(t).info
  IN  /\ Takes(t, "write")
      /\ Writable(i)
      /\ info' = [info EXCEPT ![i].error = TRUE]
      /\ failed' = failed \cup {i}
      /\ UNCHANGED <<files, content, fds, dropped>>

IsLast(i) == info[i].writers = 1

(* A close command for a file that is not open is not counted. *)
CloseDone(t) ==
  LET i == Next1(t).info
  IN  /\ Takes(t, "close")
      /\ IF info[i].fd
           THEN /\ info' = [info EXCEPT ![i].writers = @ - 1]
                /\ files' = IF IsLast(i) THEN files \ {i} ELSE files
                /\ fds' = IF IsLast(i) THEN fds \ {i} ELSE fds
           ELSE UNCHANGED <<info, files, fds>>
      /\ UNCHANGED <<content, failed, dropped>>

(* Fault: the manager waits for the files to be closed. *)
ManagerDone_AllClosed ==
  /\ manager = "running" /\ files = {}
  /\ Queue!Finish
  /\ manager' = "done"
  /\ UNCHANGED <<cmds, files, info, obj, pending, disk>>

(* The manager finds the queue terminated; __hlt_files_done closes what is *)
(* left.                                                                   *)
ManagerDone ==
  /\ manager = "running"
  /\ Queue!Finish
  /\ manager' = "done"
  /\ fds' = fds \ files
  /\ files' = {}
  /\ UNCHANGED <<cmds, info, obj, pending, content, failed, dropped>>

(* __hlt_cmd_queue_kill, when the program is aborted *)
Kill ==
  /\ manager = "running"
  /\ manager' = "killed"
  /\ UNCHANGED <<queue, cmds, files, info, obj, pending, disk>>

-----------------------------------------------------------------------------
Manager ==
  \/ \E t \in Threads :
       \/ OpenDone(t)
       \/ \E marked \in BOOLEAN : OpenFails(t, marked)
       \/ WriteDone(t)
       \/ WriteFails(t)
       \/ CloseDone(t)
  \/ ManagerDone

Program ==
  \/ \E t \in Threads :
       \/ \E p \in Paths, m \in Modes : Open(t, p, m)
       \/ PushOpen(t)
       \/ Write(t)
       \/ Close(t)
       \/ \E u \in Threads : CloneInit(t, u)
       \/ Terminating(t)
  \/ Kill

Next == Manager \/ Program

Spec == Init /\ [][Next]_vars

(* The manager thread runs until it is done. *)
FairSpec == Spec /\ WF_vars(Manager)

-----------------------------------------------------------------------------
Queued(t) == (Len(delivered[t]) + 1)..sent[t]

(* The types of the variables. *)
TypeOK ==
  /\ sent \in [Threads -> Nat] /\ closed \in [Threads -> BOOLEAN]
  /\ delivered \in [Threads -> Seq(Nat)] /\ finished \in BOOLEAN
  /\ \A t \in Threads : Len(cmds[t]) = sent[t]
  /\ files \subseteq Infos
  /\ info \in [Infos -> [path : Paths \cup {None}, fd : BOOLEAN, writers : Nat,
                         error : BOOLEAN]]
  /\ obj \in [Threads -> [info : Infos \cup {None}, open : BOOLEAN, own : BOOLEAN]]
  /\ manager \in {"running", "done", "killed"}
  /\ fds \subseteq Infos /\ failed \subseteq Infos

(* No thread and no queued command refers to a file info that was freed,   *)
(* and no writer is missing in its count (file.c:396-422).                 *)
InfoAlive ==
  /\ TypeOK
  /\ manager # "done" =>
       /\ \A t \in Threads : obj[t].open => obj[t].info \in files
       /\ \A t \in Threads : \A n \in Queued(t) : cmds[t][n].info \in files
       /\ \A i \in files :
            info[i].writers >=
              Cardinality({t \in Threads : obj[t].open /\ obj[t].info = i})
              + Cardinality({x \in Threads \X (1..MaxElems) :
                               x[2] \in Queued(x[1]) /\ cmds[x[1]][x[2]] = Cmd("close", i)})

(* A thread that has opened a file itself loses none of its writes, unless *)
(* opening or writing has failed, however the commands of other threads    *)
(* come in between.                                                        *)
OwnWritesKept ==
  \A d \in dropped : ~cmds[d[1]][d[2]].own

(* What is in a file is not lost while the file is open, although several  *)
(* threads open it, each with its own mode (file.c:339).                   *)
NotTruncatedWhileOpen ==
  [][\A i \in fds : i \in fds' => content'[info[i].path] >= content[info[i].path]]_vars

(* When all threads have terminated, the manager executes what is left and *)
(* terminates: shutting down does not hang.                                *)
ManagerTerminates ==
  (\A t \in Threads : closed[t]) ~> manager # "running"
=============================================================================
