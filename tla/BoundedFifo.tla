---------------------------- MODULE BoundedFifo -----------------------------
(***************************************************************************)
(* What libhilti/channel.h promises of a channel, without chunks, mutex,   *)
(* threads or reference counts: items are received in the order in which   *)
(* they were sent, each once, and a channel with a capacity never holds    *)
(* more items than that.                                                   *)
(***************************************************************************)
EXTENDS Naturals, Sequences

CONSTANTS Items

VARIABLES
  limit,     \* the most items the channel may hold, zero if unbounded
  sent,      \* all items written so far
  received   \* all items read so far

vars == <<limit, sent, received>>

Held == Len(sent) - Len(received)

Init ==
  /\ limit \in Nat
  /\ sent = <<>>
  /\ received = <<>>

(* "If the channel has already reached its capacity, a WouldBlock exception *)
(* is thrown" or "the function blocks until an item is read".               *)
Send(v) ==
  /\ limit = 0 \/ Held < limit
  /\ sent' = Append(sent, v)
  /\ UNCHANGED <<limit, received>>

(* "If the channel is empty", a read blocks or throws WouldBlock. *)
Receive ==
  /\ Held > 0
  /\ received' = Append(received, sent[Len(received) + 1])
  /\ UNCHANGED <<limit, sent>>

Next == Receive \/ \E v \in Items : Send(v)

Spec == Init /\ [][Next]_vars
=============================================================================
