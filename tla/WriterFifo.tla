------------------------------ MODULE WriterFifo ------------------------------
(***************************************************************************)
(* What libhilti/tqueue.h promises of a thread queue, without batches,     *)
(* locks or threads: the reader receives every writer's elements in the    *)
(* order they were written, each once, and learns that the queue has       *)
(* terminated only when every writer has closed it and nothing is left.    *)
(***************************************************************************)
EXTENDS Naturals, Sequences

CONSTANTS Writers, MaxElems

VARIABLES
  sent,       \* writer -> number of elements written
  closed,     \* writer -> it has terminated
  delivered,  \* writer -> the serials of its elements the reader has received
  finished    \* the reader has found the queue terminated

vars == <<sent, closed, delivered, finished>>

Init ==
  /\ sent = [w \in Writers |-> 0]
  /\ closed = [w \in Writers |-> FALSE]
  /\ delivered = [w \in Writers |-> <<>>]
  /\ finished = FALSE

(* "We guarantee in-order delivery for each writer but not across writers" *)
Send(w) ==
  /\ ~ closed[w]
  /\ sent[w] < MaxElems
  /\ sent' = [sent EXCEPT ![w] = @ + 1]
  /\ UNCHANGED <<closed, delivered, finished>>

Receive(w) ==
  /\ ~ finished
  /\ Len(delivered[w]) < sent[w]
  /\ delivered' = [delivered EXCEPT ![w] = Append(@, Len(@) + 1)]
  /\ UNCHANGED <<sent, closed, finished>>

(* "Subsequent writes from that writer will be ignored" *)
Close(w) ==
  /\ closed' = [closed EXCEPT ![w] = TRUE]
  /\ UNCHANGED <<sent, delivered, finished>>

(* "called by all writers *and* all queued entries have been read" *)
Finish ==
  /\ \A w \in Writers : closed[w] /\ Len(delivered[w]) = sent[w]
  /\ finished' = TRUE
  /\ UNCHANGED <<sent, closed, delivered>>

Next == Finish \/ \E w \in Writers : Send(w) \/ Receive(w) \/ Close(w)

Spec == Init /\ [][Next]_vars
=============================================================================
