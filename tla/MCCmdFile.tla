------------------------------ MODULE MCCmdFile ------------------------------
(* TLC instances of the output files. *)
EXTENDS CmdFile, TLC

MCSymmetry == Permutations(Threads)
=============================================================================
