----------------------------- MODULE MCSessions -----------------------------
(* TLC instance of Sessions: requests of a kind are interchangeable, and so  *)
(* are the known agents.                                                     *)
EXTENDS Sessions, TLC

Symmetry ==
  UNION {Permutations(Logins), Permutations(Refreshes), Permutations(Changes),
         Permutations(Resets), Permutations(Agents \ {Unknown})}
=============================================================================
