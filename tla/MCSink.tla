------------------------------- MODULE MCSink -------------------------------
(* TLC instances of the sink. *)
EXTENDS Sink, TLC

MCSymmetry == {x @@ y : x \in Permutations(Parsers), y \in Permutations(Versions)}
=============================================================================
