--------------------------- MODULE LockoutPolicy ---------------------------
(***************************************************************************)
(* What the lockout of auth.Usecase promises when every attempt on an      *)
(* account is atomic: wrong passwords are counted exactly, the MaxRetries- *)
(* th in a row locks the account for the duration of its escalation level, *)
(* the level only rises, and only time ends a lock.  An administrator may  *)
(* disable the account, after which the code treats it like an open one.   *)
(***************************************************************************)
EXTENDS Integers

CONSTANTS
  MaxRetries,   \* wrong passwords in a row that lock
  Duration(_),  \* how long the lock of a level lasts
  NoTime        \* no lock

VARIABLES
  clock,    \* the wall clock
  lockout   \* status, failed, level and lockUntil of the account

vars == <<clock, lockout>>

Init ==
  /\ clock = 0
  /\ lockout = [status |-> "active", failed |-> 0, level |-> 0, lockUntil |-> NoTime]

Locked == lockout.status = "locked"

\* A wrong password that is not the last one allowed.
Strike ==
  /\ ~Locked
  /\ lockout.failed + 1 < MaxRetries
  /\ lockout' = [lockout EXCEPT !.failed = @ + 1]
  /\ UNCHANGED clock

\* The last wrong password allowed, tried at some time t that has passed.
StrikeOut ==
  /\ ~Locked
  /\ lockout.failed + 1 = MaxRetries
  /\ \E t \in 0..clock :
       lockout' = [status |-> "locked", failed |-> 0, level |-> lockout.level + 1,
                   lockUntil |-> t + Duration(lockout.level)]
  /\ UNCHANGED clock

\* A right password: the strikes are forgotten, the escalation is not.
Forgive ==
  /\ ~Locked
  /\ lockout' = [status |-> lockout.status, failed |-> 0, level |-> lockout.level,
                 lockUntil |-> NoTime]
  /\ UNCHANGED clock

\* The lock has run out.
Reopen ==
  /\ Locked
  /\ lockout.lockUntil <= clock
  /\ lockout' = [status |-> "active", failed |-> 0, level |-> lockout.level,
                 lockUntil |-> NoTime]
  /\ UNCHANGED clock

\* An administrator deactivates the account.
Disable ==
  /\ lockout' = [lockout EXCEPT !.status = "inactive"]
  /\ UNCHANGED clock

Advance ==
  /\ clock' = clock + 1
  /\ UNCHANGED lockout

Next == Strike \/ StrikeOut \/ Forgive \/ Reopen \/ Disable \/ Advance

Spec == Init /\ [][Next]_vars
=============================================================================
