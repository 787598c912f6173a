---------------------------- MODULE MCExpiringMap ----------------------------
(* TLC instances of the map with expiration on its timer manager. *)
EXTENDS ExpiringMap, TLC

MCSymmetry == Permutations(Keys) \cup Permutations(Funcs) \cup Permutations(EntryTimers)
=============================================================================
