------------------------------ MODULE MCChannel ------------------------------
(* TLC instances of the channel. *)
EXTENDS Channel, TLC

MCSymmetry == Permutations(Threads)
=============================================================================
