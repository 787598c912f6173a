---------------------------- MODULE MCThreadMgr ----------------------------
(* TLC instances of the scheduler: virtual thread v is mapped to worker v. *)
EXTENDS ThreadMgr

MCWorkerOf == [v \in Vids |-> v]
=============================================================================
