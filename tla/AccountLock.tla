---------------------------- MODULE AccountLock ----------------------------
(***************************************************************************)
(* Password login against one row of the users table, as auth.Usecase runs *)
(* it: every request reads the row once, decides on that local copy, and   *)
(* writes the five lockout columns back with an unconditional UPDATE.  The *)
(* repository calls are separate autocommitted statements, so requests for *)
(* the same account interleave between any two of them, and any call may   *)
(* fail (a database error or a cancelled request context).                 *)
(*                                                                         *)
(* The password and the mail address of the account do not change here; a  *)
(* request's password is only right or wrong.  Sessions are the subject of *)
(* module Sessions.                                                        *)
(***************************************************************************)
EXTENDS Integers, FiniteSets

CONSTANTS
  Requests,      \* login requests; each one runs the handler once
  MaxRetries,    \* maxRetries: wrong passwords that lock the account
  JailDuration,  \* jailDuration: the length of the first lock
  WordHalf,      \* 2^63 in the code: a time.Duration is a signed 64-bit word
  MaxClock,      \* bound: the clock stops here
  NoTime         \* a nil *time.Time

ASSUME RequestsAssumption     == IsFiniteSet(Requests)
ASSUME MaxRetriesAssumption   == MaxRetries \in Nat \ {0}
ASSUME JailDurationAssumption == JailDuration \in Nat \ {0}
ASSUME WordHalfAssumption     == WordHalf \in Nat \ {0}
ASSUME MaxClockAssumption     == MaxClock \in Nat
ASSUME NoTimeAssumption       == NoTime \notin Int

VARIABLES
  clock,    \* the wall clock
  account,  \* the users row
  pc,       \* where each request is: its next repository call, or its answer
  guess,    \* whether the password each request carries is right
  now,      \* `now` of each request, taken before it reads the row
  copy      \* `u` of each request: its copy of the row

vars == <<clock, account, pc, guess, now, copy>>

(***************************************************************************)
(* The row.                                                                *)
(***************************************************************************)
Statuses == {"active", "inactive", "locked"}
Times    == Int \union {NoTime}

Account ==
  [hasPassword : BOOLEAN, verified : BOOLEAN, status : Statuses, failed : Nat,
   lockUntil : Times, level : Nat, lastFailed : Times]

\* A row as it is inserted: Register's has a password, the Google sign-up's a
\* verified address.
NewAccount(hasPassword, verified) ==
  [hasPassword |-> hasPassword, verified |-> verified, status |-> "active",
   failed |-> 0, lockUntil |-> NoTime, level |-> 0, lastFailed |-> NoTime]

\* The zero User of a request that holds no copy.
NoCopy == NewAccount(FALSE, FALSE)

\* Mutation: an UPDATE from a Go struct leaves out the zero values.
UpdatesNonZero(row, failed, lockUntil, level, lastFailed, status) ==
  [row EXCEPT !.failed = IF failed = 0 THEN @ ELSE failed,
              !.lockUntil = IF lockUntil = NoTime THEN @ ELSE lockUntil,
              !.level = level, !.lastFailed = lastFailed, !.status = status]

\* The UPDATE of UpdateAuthState: five columns, whatever they were before.
UpdateAuthState(row, failed, lockUntil, level, lastFailed, status) ==
  [row EXCEPT !.failed = failed, !.lockUntil = lockUntil, !.level = level,
              !.lastFailed = lastFailed, !.status = status]

\* A time.Duration wraps around at 2^63.
Wrap(duration) == ((duration + WordHalf) % (2 * WordHalf)) - WordHalf

\* jailDuration * (1 << level)
LockDuration(level) == Wrap(JailDuration * 2^level)

\* handleLockState's condition for refusing or unlocking.
HasLock(row) == row.status = "locked" /\ row.lockUntil # NoTime

\* A lock that has not run out.
LockLive == HasLock(account) /\ account.lockUntil > clock

(***************************************************************************)
(* Requests.                                                               *)
(***************************************************************************)
Calls   == {"fetch", "unlock", "fail", "reset", "issue"}
Answers == {"no_user", "no_password", "locked", "invalid", "unverified",
            "tokens", "error"}

InFlight == {r \in Requests : pc[r] \in Calls}

Goto(r, next) == pc' = [pc EXCEPT ![r] = next]

\* The handler returns: its locals are gone.
Reply(r, answer) ==
  /\ pc'   = [pc EXCEPT ![r] = answer]
  /\ now'  = [now EXCEPT ![r] = 0]
  /\ copy' = [copy EXCEPT ![r] = NoCopy]

\* Once the lock state is settled the password decides; Compare is local.
Verdict(r) == IF guess[r] = "right" THEN "reset" ELSE "fail"

Init ==
  /\ clock = 0
  /\ account \in {NewAccount(TRUE, FALSE), NewAccount(FALSE, TRUE)}
  /\ pc    = [r \in Requests |-> "ready"]
  /\ guess = [r \in Requests |-> "wrong"]
  /\ now   = [r \in Requests |-> 0]
  /\ copy  = [r \in Requests |-> NoCopy]

\* Login starts: now := uc.now().
Begin(r) ==
  /\ pc[r] = "ready"
  /\ \E g \in {"right", "wrong"} : guess' = [guess EXCEPT ![r] = g]
  /\ now' = [now EXCEPT ![r] = clock]
  /\ Goto(r, "fetch")
  /\ UNCHANGED <<clock, account, copy>>

\* GetByEmail finds a row without a password hash.
FetchPasswordless(r) ==
  /\ pc[r] = "fetch"
  /\ ~account.hasPassword
  /\ Reply(r, "no_password")
  /\ UNCHANGED <<clock, account, guess>>

\* GetByEmail finds a lock that has not run out at `now`.
FetchLocked(r) ==
  /\ pc[r] = "fetch"
  /\ account.hasPassword
  /\ HasLock(account)
  /\ account.lockUntil > now[r]
  /\ Reply(r, "locked")
  /\ UNCHANGED <<clock, account, guess>>

\* Mutation: any lock is cleared, LockUntil is not looked at.
FetchAnyLock(r) ==
  /\ pc[r] = "fetch"
  /\ account.hasPassword
  /\ HasLock(account)
  /\ copy' = [copy EXCEPT ![r] = account]
  /\ Goto(r, "unlock")
  /\ UNCHANGED <<clock, account, guess, now>>

\* GetByEmail finds a lock that has run out at `now`.
FetchExpired(r) ==
  /\ pc[r] = "fetch"
  /\ account.hasPassword
  /\ HasLock(account)
  /\ account.lockUntil <= now[r]
  /\ copy' = [copy EXCEPT ![r] = account]
  /\ Goto(r, "unlock")
  /\ UNCHANGED <<clock, account, guess, now>>

\* GetByEmail finds any other row, an inactive one included.
FetchOpen(r) ==
  /\ pc[r] = "fetch"
  /\ account.hasPassword
  /\ ~HasLock(account)
  /\ copy' = [copy EXCEPT ![r] = account]
  /\ Goto(r, Verdict(r))
  /\ UNCHANGED <<clock, account, guess, now>>

\* handleLockState clears the lock it saw run out, in the row and the copy.
Unlock(r) ==
  /\ pc[r] = "unlock"
  /\ account' = UpdateAuthState(account, 0, NoTime, copy[r].level, NoTime, "active")
  /\ copy' = [copy EXCEPT ![r] =
                UpdateAuthState(@, 0, NoTime, @.level, NoTime, "active")]
  /\ Goto(r, Verdict(r))
  /\ UNCHANGED <<clock, guess, now>>

\* Mutations: the threshold one failure late, and one early.
LimitExceeded(u) == u.failed + 1 > MaxRetries
LimitNear(u)     == u.failed + 2 >= MaxRetries

\* recordFailure's threshold, on the request's copy.
LimitReached(u) == u.failed + 1 >= MaxRetries

\* recordFailure, below and at the threshold.  The UPDATE may commit although
\* the call reports an error: the acknowledgement is lost.
RecordFailure(r) ==
  LET u == copy[r] IN
  /\ pc[r] = "fail"
  /\ account' =
       IF LimitReached(u)
       THEN UpdateAuthState(account, 0, now[r] + LockDuration(u.level),
                            u.level + 1, now[r], "locked")
       ELSE UpdateAuthState(account, u.failed + 1, u.lockUntil, u.level,
                            now[r], u.status)
  /\ \E answer \in {"invalid", "error"} : Reply(r, answer)
  /\ UNCHANGED <<clock, guess>>

\* Mutation: resetAuthState saves the whole copy.
ResetSavesCopy(r) ==
  /\ pc[r] = "reset"
  /\ account' = [copy[r] EXCEPT !.failed = 0, !.lockUntil = NoTime, !.lastFailed = NoTime]
  /\ IF copy[r].verified
     THEN Goto(r, "issue") /\ UNCHANGED <<now, copy>>
     ELSE Reply(r, "unverified")
  /\ UNCHANGED <<clock, guess>>

\* resetAuthState, then the check of EmailVerifiedAt.
ResetAuthState(r) ==
  /\ pc[r] = "reset"
  /\ account' = UpdateAuthState(account, 0, NoTime, copy[r].level, NoTime,
                                copy[r].status)
  /\ \/ /\ copy[r].verified
        /\ Goto(r, "issue")
        /\ UNCHANGED <<now, copy>>
     \/ /\ ~copy[r].verified
        /\ Reply(r, "unverified")
  /\ UNCHANGED <<clock, guess>>

\* issueTokens: the refresh token is saved and both tokens are returned.
IssueTokens(r) ==
  /\ pc[r] = "issue"
  /\ Reply(r, "tokens")
  /\ UNCHANGED <<clock, account, guess>>

\* A repository call fails without effect.  A failed GetByEmail, an unknown
\* address included, is answered like a wrong password but leaves no trace.
Abort(r) ==
  /\ r \in InFlight
  /\ Reply(r, IF pc[r] = "fetch" THEN "no_user" ELSE "error")
  /\ UNCHANGED <<clock, account, guess>>

(***************************************************************************)
(* The other writers of the row, and time.                                 *)
(***************************************************************************)
\* Mutation: a status the domain does not know.
DisableUser ==
  /\ account' = [account EXCEPT !.status = "disabled"]
  /\ UNCHANGED <<clock, pc, guess, now, copy>>

\* PATCH /users/:id/deactivate: UpdateStatus writes one column.
DeactivateUser ==
  /\ account' = [account EXCEPT !.status = "inactive"]
  /\ UNCHANGED <<clock, pc, guess, now, copy>>

\* UpdateEmailVerifiedAt, from VerifyEmail or a Google login.
UpdateEmailVerifiedAt ==
  /\ account' = [account EXCEPT !.verified = TRUE]
  /\ UNCHANGED <<clock, pc, guess, now, copy>>

Tick ==
  /\ clock < MaxClock
  /\ clock' = clock + 1
  /\ UNCHANGED <<account, pc, guess, now, copy>>

Login(r) ==
  \/ Begin(r)
  \/ FetchPasswordless(r)
  \/ FetchLocked(r)
  \/ FetchExpired(r)
  \/ FetchOpen(r)
  \/ Unlock(r)
  \/ RecordFailure(r)
  \/ ResetAuthState(r)
  \/ IssueTokens(r)
  \/ Abort(r)

Next ==
  \/ \E r \in Requests : Login(r)
  \/ DeactivateUser
  \/ UpdateEmailVerifiedAt
  \/ Tick

Spec == Init /\ [][Next]_vars

(***************************************************************************)
(* What holds however the requests interleave.                             *)
(***************************************************************************)
\* Every variable ranges over its type.
TypeOK ==
  /\ clock \in Nat
  /\ account \in Account
  /\ pc \in [Requests -> {"ready"} \union Calls \union Answers]
  /\ guess \in [Requests -> {"right", "wrong"}]
  /\ now \in [Requests -> Nat]
  /\ copy \in [Requests -> Account]

\* A locked row carries the lock that the failure recorded with it imposes: it
\* ends LockDuration of the previous level after the last failure, and no
\* failure is counted towards the next lock.  Requests overwrite one another's
\* rows, and an administrator writes the status alone, yet the four columns
\* recordFailure computes together never mix with another request's.
LockMatchesFailure ==
  account.status = "locked" =>
    /\ account.level > 0
    /\ account.failed = 0
    /\ account.lastFailed # NoTime
    /\ account.lockUntil = account.lastFailed + LockDuration(account.level - 1)

\* The row passes the domain's own checks of counters and failure times
\* (validateCounters, validateLockAndFailedLoginState): the count stays below
\* the threshold, a counted failure has a time, and that time is not ahead of
\* the clock although each request writes a time it read long before.
FailureStateValid ==
  /\ account.failed < MaxRetries
  /\ account.failed > 0 => account.lastFailed # NoTime
  /\ account.lastFailed # NoTime => account.lastFailed <= clock

\* The wrong passwords that have been tried, an upper bound of those recorded.
WrongTries == {r \in Requests : guess[r] = "wrong" /\ pc[r] \in {"invalid", "error"}}

\* Nobody is locked out for another's arithmetic: each level of escalation and
\* each counted failure is paid for by wrong passwords really tried, MaxRetries
\* for a level.  recordFailure's lost updates lose failures, never invent them.
NoSpuriousLock ==
  MaxRetries * account.level + account.failed <= Cardinality(WrongTries)

\* Tokens are only given for an account whose mail address is verified, now as
\* well as when the request read it: no login writes the verification back.
TokensNeedVerifiedEmail ==
  \A r \in Requests : pc[r] = "tokens" => account.hasPassword /\ account.verified

\* A request that will write the row from a copy read without a lock in force.
Overtaking(r) == pc[r] \in {"unlock", "fail", "reset"}

Quiet == \A r \in Requests : ~Overtaking(r)

\* Once no request that read the row before the lock is left, a live lock is
\* out of reach: requests that arrive are refused, and neither the count, the
\* escalation nor the end of the lock changes before the clock reaches it.
LockKept ==
  /\ account'.lockUntil = account.lockUntil
  /\ account'.level = account.level
  /\ account'.failed = account.failed
  /\ account'.status = account.status \/ DeactivateUser
  /\ account'.status = "locked" => Quiet'

LockHoldsOnceQuiet == [][LockLive /\ Quiet => LockKept]_vars

(***************************************************************************)
(* What docs/wiki/02-users-auth.md and user.go say, and concurrent or      *)
(* administrative steps break.                                             *)
(***************************************************************************)
\* An account that a login saw deactivated does not get tokens (wiki: an
\* inactive account cannot log in).
InactiveCannotLogin ==
  \A r \in Requests : pc[r] = "issue" => copy[r].status # "inactive"

\* A lock is only lifted by time or by an administrator (wiki: the account
\* unlocks by itself once the time is over).
LockServedInFull == [][LockLive => account'.lockUntil = account.lockUntil]_vars

\* MaxRetries wrong passwords and nothing else lock the account (wiki: five
\* wrong passwords in a row trigger the lock).
LockedAfterMaxRetries ==
  /\ \A r \in Requests : pc[r] \in {"ready", "invalid"}
  /\ Cardinality({r \in Requests : pc[r] = "invalid"}) >= MaxRetries
  => account.level > 0
=============================================================================
