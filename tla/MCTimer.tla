------------------------------ MODULE MCTimer ------------------------------
(* TLC instances of the timer manager. *)
EXTENDS Timer, TLC

MCSymmetry == Permutations(Timers)
=============================================================================
