--------------------------- MODULE MCAccountLock ---------------------------
(* TLC instance of AccountLock: requests are interchangeable. *)
EXTENDS AccountLock, TLC

Symmetry == Permutations(Requests)
=============================================================================
