---------------------------- MODULE MCThreadQueue ----------------------------
(* TLC instances of the thread queue. *)
EXTENDS ThreadQueue, TLC

CONSTANTS w1, w2

MCTimeouts == {-1, 0, 1}
MCWritersSymmetry == Permutations(Writers)

(* Total is the sum it is meant to be. *)
ASSUME TotalIsSum ==
  \A a, b \in 0..MaxElems : Total(w1 :> a @@ w2 :> b) = a + b
=============================================================================
