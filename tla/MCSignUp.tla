------------------------------ MODULE MCSignUp ------------------------------
(* TLC instance of SignUp: of the requests there are, any MaxRequests come.  *)
(* Requests of a kind, addresses and Google accounts are interchangeable, so *)
(* one of each comes first; liveness is checked, which forbids a symmetry    *)
(* set.  An addition comes and is answered before any other request: its one *)
(* statement would race like that of a registration.                         *)
EXTENDS SignUp

CONSTANTS MaxRequests, FirstGoogle, FirstVerify, FirstAddress, FirstSubject

Come(r) == pc'[r] # "ready"

\* f takes the value first, if any, before it takes another.
Starts(f, first) ==
  (\E x \in DOMAIN f : f[x] \notin {None, first}) => \E x \in DOMAIN f : f[x] = first

MCNext ==
  /\ Next
  /\ Cardinality({r \in Requests : Come(r)}) <= MaxRequests
  /\ (\E r \in Googles : Come(r)) => Come(FirstGoogle)
  /\ (\E v \in Verifies : Come(v)) => Come(FirstVerify)
  /\ Starts(address', FirstAddress)
  /\ Starts(subject', FirstSubject)
  /\ (\E r \in Requests \ Additions : Come(r)) =>
       \A d \in Additions : pc[d] \in {"ready"} \union Answers /\ pc'[d] = pc[d]

MCSpec == Init /\ [][MCNext]_vars /\ Fairness
=============================================================================
