-------------------------- MODULE MCActivityQueue --------------------------
(* ActivityQueue for TLC: the threads are interchangeable within a role.   *)
EXTENDS ActivityQueue, TLC

Symmetry == Permutations(Pushers) \union Permutations(Poppers)
=============================================================================
