------------------------- MODULE AccountLockSerial -------------------------
(***************************************************************************)
(* AccountLock when logins to one account do not overlap, nor does an      *)
(* administrator act during one.  Nothing in the code enforces this; the   *)
(* module shows that the lockout is right step by step and that overlap is *)
(* all that MCAccountLock's counterexamples rest on, those about           *)
(* deactivation apart.                                                     *)
(***************************************************************************)
EXTENDS AccountLock

\* The part of the row the lockout is about.
Lockout(row) ==
  [status |-> row.status, failed |-> row.failed, level |-> row.level,
   lockUntil |-> row.lockUntil]

\* At most one request is between its start and its answer, and only that
\* request changes the lockout meanwhile.
OneAtATime ==
  /\ \A r, s \in InFlight' : r = s
  /\ InFlight # {} /\ Lockout(account)' # Lockout(account) => pc' # pc

SerialSpec == Init /\ [][Next /\ OneAtATime]_vars

Policy == INSTANCE LockoutPolicy WITH
            lockout  <- Lockout(account),
            Duration <- LockDuration

\* One request at a time, the handler's reads and writes amount to the atomic
\* policy: each UPDATE is one of its steps, everything else a stutter.
ImplementsPolicy == Policy!Spec
=============================================================================
