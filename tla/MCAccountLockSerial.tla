------------------------ MODULE MCAccountLockSerial ------------------------
(* TLC instance of AccountLockSerial. *)
EXTENDS AccountLockSerial, TLC

Symmetry == Permutations(Requests)
=============================================================================
