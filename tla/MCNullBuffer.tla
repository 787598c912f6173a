---------------------------- MODULE MCNullBuffer ----------------------------
(* TLC instances of the null buffer. *)
EXTENDS NullBuffer, TLC

MCSymmetry == Permutations(Objs)
=============================================================================
