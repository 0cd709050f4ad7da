------------------------- MODULE AccountLockProofs -------------------------
(***************************************************************************)
(* AccountLock's invariants, for any finite set of requests, any threshold *)
(* and any jail duration.                                                  *)
(***************************************************************************)
EXTENDS AccountLock, FiniteSetTheorems, TLAPS

\* A row that one request computed as a whole, by the clock at time and with
\* tries wrong passwords tried: what holds of the account, and of the copies
\* that requests hold since they may be written back.
Sound(row, time, tries) ==
  /\ row.status = "locked" =>
       /\ row.level > 0
       /\ row.failed = 0
       /\ row.lastFailed # NoTime
       /\ row.lockUntil = row.lastFailed + LockDuration(row.level - 1)
  /\ row.failed < MaxRetries
  /\ row.failed > 0 => row.lastFailed # NoTime
  /\ row.lastFailed # NoTime => row.lastFailed <= time
  /\ MaxRetries * row.level + row.failed <= tries

Tries == Cardinality(WrongTries)

\* What a request that holds a copy knows of it and of the account.
Holding(r) ==
  /\ Sound(copy[r], clock, Tries)
  /\ account.hasPassword
  /\ copy[r].verified => account.verified
  /\ pc[r] \in {"fail", "reset"} => copy[r].status # "locked"
  /\ pc[r] = "fail" => guess[r] = "wrong"
  /\ pc[r] = "issue" => copy[r].verified

Holders == {r \in Requests : pc[r] \in {"unlock", "fail", "reset", "issue"}}

\* The inductive invariant.
IInv ==
  /\ TypeOK
  /\ Sound(account, clock, Tries)
  /\ TokensNeedVerifiedEmail
  /\ \A r \in Requests : now[r] <= clock
  /\ \A r \in Holders : Holding(r)

(***************************************************************************)
(* Facts about the operators.                                              *)
(***************************************************************************)
\* A lock's length is a number, whatever the product wraps around to.
LEMMA LockDurationType ==
  ASSUME NEW level \in Nat
  PROVE  LockDuration(level) \in Int
<1>1. 2^level \in Int
  BY SMT
<1>2. JailDuration * 2^level \in Int
  BY <1>1, JailDurationAssumption
<1>. DEFINE d == JailDuration * 2^level
<1>. HIDE DEF d
<1>3. d \in Int
  BY <1>2 DEF d
<1>4. ((d + WordHalf) % (2 * WordHalf)) - WordHalf \in Int
  BY <1>3, WordHalfAssumption
<1>5. QED
  BY <1>4 DEF LockDuration, Wrap, d

\* UpdateAuthState writes the five columns it is given and no other.
LEMMA UpdateAuthStateFields ==
  ASSUME NEW row \in Account, NEW failed \in Nat, NEW lockUntil \in Times,
         NEW level \in Nat, NEW lastFailed \in Times, NEW status \in Statuses
  PROVE  LET new == UpdateAuthState(row, failed, lockUntil, level, lastFailed, status)
         IN  /\ new \in Account
             /\ new.hasPassword = row.hasPassword
             /\ new.verified = row.verified
             /\ new.failed = failed
             /\ new.lockUntil = lockUntil
             /\ new.level = level
             /\ new.lastFailed = lastFailed
             /\ new.status = status
BY DEF UpdateAuthState, Account

\* A new row has never failed.
LEMMA NewAccountType ==
  ASSUME NEW p \in BOOLEAN, NEW v \in BOOLEAN
  PROVE  NewAccount(p, v) \in Account
BY DEF NewAccount, Account, Times, Statuses

\* The tries are finitely many, and a step that only adds some adds to their
\* number.
LEMMA TriesMonotone ==
  /\ Tries \in Nat
  /\ Tries' \in Nat
  /\ WrongTries \subseteq WrongTries' => Tries <= Tries'
<1>1. IsFiniteSet(WrongTries) /\ IsFiniteSet(WrongTries')
  BY RequestsAssumption, FS_Subset, WrongTries \subseteq Requests,
     WrongTries' \subseteq Requests DEF WrongTries
<1>2. QED
  BY <1>1, FS_CardinalityType, FS_Subset DEF Tries

\* One more try adds one to their number.
LEMMA TriesAdd ==
  ASSUME NEW r \in Requests, r \notin WrongTries, WrongTries' = WrongTries \union {r}
  PROVE  Tries' = Tries + 1
<1>1. IsFiniteSet(WrongTries)
  BY RequestsAssumption, FS_Subset, WrongTries \subseteq Requests DEF WrongTries
<1>2. QED
  BY <1>1, FS_AddElement DEF Tries

\* A row stays sound as time passes and more passwords are tried.
LEMMA SoundLater ==
  ASSUME NEW row \in Account, NEW t1 \in Nat, NEW t2 \in Nat, t1 <= t2,
         NEW n1 \in Nat, NEW n2 \in Nat, n1 <= n2, Sound(row, t1, n1)
  PROVE  Sound(row, t2, n2)
<1>1. MaxRetries * row.level + row.failed \in Int
  BY MaxRetriesAssumption DEF Account
<1>2. row.lastFailed # NoTime => row.lastFailed \in Int
  BY DEF Account, Times
<1>3. QED
  BY <1>1, <1>2 DEF Sound

(***************************************************************************)
(* Type correctness.                                                       *)
(***************************************************************************)
\* Every step keeps the types.
LEMMA TypeStep == TypeOK /\ [Next]_vars => TypeOK'
<1> SUFFICES ASSUME TypeOK, [Next]_vars PROVE TypeOK'
  OBVIOUS
<1>0. NoCopy \in Account
  BY NewAccountType DEF NoCopy
<1>1. ASSUME NEW r \in Requests, Login(r) PROVE TypeOK'
  <2>1. CASE Begin(r)
    BY <2>1 DEF TypeOK, Begin, Goto, Calls
  <2>2. CASE FetchPasswordless(r) \/ FetchLocked(r)
    BY <2>2, <1>0 DEF TypeOK, FetchPasswordless, FetchLocked, Reply, Answers
  <2>3. CASE FetchExpired(r) \/ FetchOpen(r)
    BY <2>3 DEF TypeOK, FetchExpired, FetchOpen, Goto, Verdict, Calls
  <2>4. CASE Unlock(r)
    <3>1. /\ UpdateAuthState(account, 0, NoTime, copy[r].level, NoTime, "active") \in Account
          /\ UpdateAuthState(copy[r], 0, NoTime, copy[r].level, NoTime, "active") \in Account
      <4>1. /\ account \in Account /\ copy[r] \in Account
            /\ copy[r].level \in Nat
            /\ NoTime \in Times /\ "active" \in Statuses
        BY DEF TypeOK, Account, Times, Statuses
      <4>2. QED
        BY <4>1, UpdateAuthStateFields
    <3>2. QED
      BY <2>4, <3>1 DEF TypeOK, Unlock, Goto, Verdict, Calls
  <2>5. CASE RecordFailure(r)
    <3>1. copy[r] \in Account /\ now[r] \in Nat
      BY DEF TypeOK
    <3>2. /\ copy[r].level \in Nat /\ copy[r].failed \in Nat
          /\ copy[r].lockUntil \in Times /\ copy[r].status \in Statuses
      BY <3>1 DEF Account
    <3>3. LockDuration(copy[r].level) \in Int
      BY <3>2, LockDurationType
    <3>4. UpdateAuthState(account, 0, now[r] + LockDuration(copy[r].level),
                          copy[r].level + 1, now[r], "locked") \in Account
      <4>1. /\ account \in Account
            /\ now[r] + LockDuration(copy[r].level) \in Times
            /\ copy[r].level + 1 \in Nat
            /\ now[r] \in Times
            /\ "locked" \in Statuses
        BY <3>1, <3>2, <3>3 DEF TypeOK, Times, Statuses
      <4>2. QED
        BY <4>1, UpdateAuthStateFields
    <3>5. UpdateAuthState(account, copy[r].failed + 1, copy[r].lockUntil,
                          copy[r].level, now[r], copy[r].status) \in Account
      <4>1. /\ account \in Account
            /\ copy[r].failed + 1 \in Nat
            /\ now[r] \in Times
        BY <3>1, <3>2 DEF TypeOK, Times
      <4>2. QED
        BY <4>1, <3>2, UpdateAuthStateFields
    <3>6. account' \in Account
      BY <2>5, <3>4, <3>5 DEF RecordFailure, LimitReached
    <3>7. QED
      BY <2>5, <3>6, <1>0 DEF TypeOK, RecordFailure, LimitReached, Reply, Answers
  <2>6. CASE ResetAuthState(r)
    <3>1. UpdateAuthState(account, 0, NoTime, copy[r].level, NoTime, copy[r].status) \in Account
      <4>1. /\ account \in Account
            /\ copy[r].level \in Nat
            /\ copy[r].status \in Statuses
            /\ NoTime \in Times
        BY DEF TypeOK, Account, Times
      <4>2. QED
        BY <4>1, UpdateAuthStateFields
    <3>2. QED
      BY <2>6, <3>1, <1>0 DEF TypeOK, ResetAuthState, Goto, Reply, Calls, Answers
  <2>7. CASE IssueTokens(r) \/ Abort(r)
    BY <2>7, <1>0 DEF TypeOK, IssueTokens, Abort, Reply, Answers
  <2>8. QED
    BY <1>1, <2>1, <2>2, <2>3, <2>4, <2>5, <2>6, <2>7 DEF Login
<1>2. CASE DeactivateUser \/ UpdateEmailVerifiedAt
  BY <1>2 DEF TypeOK, DeactivateUser, UpdateEmailVerifiedAt, Account, Statuses
<1>3. CASE Tick
  BY <1>3 DEF TypeOK, Tick
<1>4. CASE UNCHANGED vars
  BY <1>4 DEF TypeOK, vars
<1>5. QED
  BY <1>1, <1>2, <1>3, <1>4 DEF Next

\* The initial row, one of two, has the types.
LEMMA InitType == Init => TypeOK
<1> SUFFICES ASSUME Init PROVE TypeOK
  OBVIOUS
<1>1. account \in Account
  <2>1. account = NewAccount(TRUE, FALSE) \/ account = NewAccount(FALSE, TRUE)
    BY DEF Init
  <2>2. NewAccount(TRUE, FALSE) \in Account /\ NewAccount(FALSE, TRUE) \in Account
    BY NewAccountType
  <2>3. QED
    BY <2>1, <2>2
<1>2. NoCopy \in Account
  BY NewAccountType DEF NoCopy
<1>3. clock \in Nat /\ now \in [Requests -> Nat]
  BY DEF Init
<1>4. QED
  BY <1>1, <1>2, <1>3 DEF Init, TypeOK

\* Every variable keeps its type: the rows the requests compute are rows.
THEOREM TypeCorrect == Spec => []TypeOK
  BY InitType, TypeStep, PTL DEF Spec

(***************************************************************************)
(* The inductive invariant, action by action.                              *)
(***************************************************************************)
\* No step takes back a wrong password that has been tried.
LEMMA TriesKept == TypeOK /\ [Next]_vars => WrongTries \subseteq WrongTries'
<1> SUFFICES ASSUME TypeOK, [Next]_vars, NEW s \in Requests, s \in WrongTries
             PROVE  s \in WrongTries'
  BY DEF WrongTries
<1>1. pc[s] \in {"invalid", "error"} /\ guess[s] = "wrong"
  BY DEF WrongTries
<1>2. ASSUME NEW r \in Requests, Login(r) PROVE pc'[s] = pc[s] /\ guess'[s] = guess[s]
  BY <1>1, <1>2 DEF TypeOK, Login, Begin, FetchPasswordless, FetchLocked,
     FetchExpired, FetchOpen, Unlock, RecordFailure, LimitReached, ResetAuthState,
     IssueTokens, Abort, Goto, Reply, InFlight, Calls
<1>3. ASSUME ~\E r \in Requests : Login(r) PROVE pc'[s] = pc[s] /\ guess'[s] = guess[s]
  BY <1>3 DEF Next, DeactivateUser, UpdateEmailVerifiedAt, Tick, vars
<1>4. pc'[s] = pc[s] /\ guess'[s] = guess[s]
  BY <1>2, <1>3 DEF Next, DeactivateUser, UpdateEmailVerifiedAt, Tick, vars
<1>5. QED
  BY <1>1, <1>4 DEF WrongTries

\* A request that a step leaves alone keeps what it knows of its copy and of
\* the account.
LEMMA HoldingKept ==
  ASSUME TypeOK, TypeOK', NEW s \in Requests, Holding(s),
         clock <= clock', Tries <= Tries',
         pc'[s] = pc[s], guess'[s] = guess[s], copy'[s] = copy[s],
         account'.hasPassword = account.hasPassword,
         account.verified => account'.verified
  PROVE  Holding(s)'
<1>1. copy[s] \in Account /\ clock \in Nat /\ clock' \in Nat
  BY DEF TypeOK
<1>2. Sound(copy[s], clock', Tries')
  BY <1>1, SoundLater, TriesMonotone DEF Holding
<1>3. QED
  BY <1>2 DEF Holding

\* Each step of a login keeps the invariant.
LEMMA LoginStep ==
  ASSUME IInv, TypeOK', NEW r \in Requests, Login(r), Tries <= Tries'
  PROVE  IInv'
<1>0. /\ TypeOK
      /\ clock' = clock /\ clock \in Nat /\ Tries \in Nat /\ Tries' \in Nat
      /\ account \in Account /\ account' \in Account /\ copy[r] \in Account
      /\ now[r] \in Nat /\ now[r] <= clock
      /\ Sound(account, clock, Tries)
  BY TriesMonotone DEF IInv, TypeOK, Login, Begin, FetchPasswordless, FetchLocked,
     FetchExpired, FetchOpen, Unlock, RecordFailure, LimitReached, ResetAuthState, IssueTokens, Abort
<1>1. /\ account'.hasPassword = account.hasPassword
      /\ account'.verified = account.verified
  BY <1>0 DEF Login, Begin, FetchPasswordless, FetchLocked, FetchExpired, FetchOpen,
     Unlock, RecordFailure, LimitReached, ResetAuthState, IssueTokens, Abort, UpdateAuthState, Account
<1>2. \A s \in Requests \ {r} : /\ pc'[s] = pc[s] /\ guess'[s] = guess[s]
                                /\ now'[s] = now[s] /\ copy'[s] = copy[s]
  BY <1>0 DEF TypeOK, Login, Begin, FetchPasswordless, FetchLocked, FetchExpired,
     FetchOpen, Unlock, RecordFailure, LimitReached, ResetAuthState, IssueTokens, Abort, Goto, Reply
<1>3. \A s \in Requests : now'[s] <= clock'
  BY <1>0, <1>2 DEF IInv, TypeOK, Login, Begin, FetchPasswordless, FetchLocked,
     FetchExpired, FetchOpen, Unlock, RecordFailure, LimitReached, ResetAuthState, IssueTokens,
     Abort, Goto, Reply
<1>4. \A s \in Holders' \ {r} : Holding(s)'
  <2>. TAKE s \in Holders' \ {r}
  <2>1. s \in Requests \ {r} /\ s \in Holders
    BY <1>2 DEF Holders
  <2>2. Holding(s)
    BY <2>1 DEF IInv
  <2>. QED
    BY <1>0, <1>1, <1>2, <2>1, <2>2, HoldingKept
<1>5. Sound(account, clock, Tries') /\ (r \in Holders => Sound(copy[r], clock, Tries'))
  BY <1>0, SoundLater DEF IInv, Holding
<1>. DEFINE Done == /\ Sound(account', clock, Tries')
                    /\ r \in Holders' => Holding(r)'
                    /\ pc'[r] = "tokens" => account.hasPassword /\ account.verified
<1>6. ASSUME \/ Begin(r) \/ FetchPasswordless(r) \/ FetchLocked(r)
             \/ IssueTokens(r) \/ Abort(r)
      PROVE  Done
  <2>1. account' = account /\ pc'[r] \notin {"unlock", "fail", "reset", "issue"}
    BY <1>6, <1>0 DEF TypeOK, Begin, FetchPasswordless, FetchLocked, IssueTokens,
       Abort, Goto, Reply
  <2>2. pc'[r] = "tokens" => pc[r] = "issue"
    BY <1>6, <1>0 DEF TypeOK, Begin, FetchPasswordless, FetchLocked, IssueTokens,
       Abort, Goto, Reply
  <2>3. pc[r] = "issue" => account.hasPassword /\ account.verified
    BY DEF IInv, Holders, Holding
  <2>. QED
    BY <1>5, <2>1, <2>2, <2>3 DEF Holders
<1>7. ASSUME FetchExpired(r) PROVE Done
  <2>1. /\ account' = account /\ copy'[r] = account /\ pc'[r] = "unlock"
        /\ account.hasPassword
    BY <1>7, <1>0 DEF TypeOK, FetchExpired, Goto
  <2>. QED
    BY <1>0, <1>5, <2>1 DEF Holding
<1>8. ASSUME FetchOpen(r) PROVE Done
  <2>1. /\ account' = account /\ copy'[r] = account /\ guess' = guess
        /\ pc'[r] = Verdict(r) /\ account.hasPassword /\ ~HasLock(account)
    BY <1>8, <1>0 DEF TypeOK, FetchOpen, Goto
  <2>2. account.status # "locked"
    <3>1. account.status = "locked" => account.lockUntil \in Int
      BY <1>0, LockDurationType DEF Sound, Account, Times
    <3>2. QED
      BY <2>1, <3>1, NoTimeAssumption DEF HasLock
  <2>3. guess[r] \in {"right", "wrong"}
    BY <1>0 DEF TypeOK
  <2>. QED
    BY <1>0, <1>5, <2>1, <2>2, <2>3 DEF Holding, Verdict
<1>9. ASSUME Unlock(r) PROVE Done
  <2>. DEFINE c == UpdateAuthState(copy[r], 0, NoTime, copy[r].level, NoTime, "active")
  <2>1. /\ copy'[r] = c /\ guess' = guess /\ pc'[r] = Verdict(r)
        /\ account' = UpdateAuthState(account, 0, NoTime, copy[r].level, NoTime, "active")
        /\ Sound(copy[r], clock, Tries') /\ copy[r].level \in Nat /\ copy[r].failed \in Nat
        /\ account.hasPassword /\ (copy[r].verified => account.verified)
    BY <1>9, <1>0, <1>5 DEF TypeOK, IInv, Unlock, Goto, Holders, Holding, Account
  <2>2. /\ c.status = "active" /\ c.failed = 0 /\ c.lastFailed = NoTime
        /\ c.level = copy[r].level /\ c.verified = copy[r].verified
        /\ account'.status = "active" /\ account'.failed = 0
        /\ account'.lastFailed = NoTime /\ account'.level = copy[r].level
    BY <1>0, <2>1 DEF UpdateAuthState, Account
  <2>3. MaxRetries * copy[r].level <= Tries'
    <3>1. MaxRetries * copy[r].level \in Int
      BY <2>1, MaxRetriesAssumption
    <3>2. QED
      BY <3>1, <2>1, <1>0 DEF Sound
  <2>4. Sound(account', clock, Tries') /\ Sound(c, clock, Tries')
    <3>1. MaxRetries * copy[r].level + 0 = MaxRetries * copy[r].level
      BY <2>1, MaxRetriesAssumption
    <3>2. QED
      BY <2>2, <2>3, <3>1, MaxRetriesAssumption DEF Sound
  <2>5. guess[r] \in {"right", "wrong"}
    BY <1>0 DEF TypeOK
  <2>. QED
    BY <1>0, <1>1, <2>1, <2>2, <2>4, <2>5 DEF Holding, Verdict
<1>10. ASSUME RecordFailure(r) PROVE Done
  <2>1. /\ r \in Holders /\ Holding(r) /\ copy[r].status # "locked" /\ guess[r] = "wrong"
        /\ pc[r] = "fail" /\ pc'[r] \in {"invalid", "error"} /\ guess' = guess
    BY <1>10, <1>0 DEF TypeOK, IInv, RecordFailure, LimitReached, Reply, Holders, Holding
  <2>2. Tries' = Tries + 1
    <3>1. r \notin WrongTries /\ WrongTries' = WrongTries \union {r}
      BY <1>2, <2>1 DEF WrongTries
    <3>2. QED
      BY <3>1, TriesAdd
  <2>3. /\ copy[r].level \in Nat /\ copy[r].failed \in Nat
        /\ copy[r].failed < MaxRetries
        /\ copy[r].lockUntil \in Times
        /\ LockDuration(copy[r].level) \in Int
        /\ MaxRetries * copy[r].level + copy[r].failed <= Tries
    BY <1>0, <2>1, LockDurationType DEF Holding, Sound, Account
  <2>4. MaxRetries * copy[r].level \in Int
    BY <2>3, MaxRetriesAssumption
  <2>5. CASE copy[r].failed + 1 >= MaxRetries
    <3>1. /\ account'.status = "locked" /\ account'.failed = 0
          /\ account'.level = copy[r].level + 1 /\ account'.lastFailed = now[r]
          /\ account'.lockUntil = now[r] + LockDuration(copy[r].level)
      BY <1>10, <1>0, <2>5 DEF RecordFailure, LimitReached, UpdateAuthState, Account
    <3>2. MaxRetries * (copy[r].level + 1) = MaxRetries * copy[r].level + MaxRetries
      BY <2>3, MaxRetriesAssumption
    <3>3. MaxRetries * (copy[r].level + 1) + 0 <= Tries'
      BY <1>0, <2>2, <2>3, <2>4, <2>5, <3>2, MaxRetriesAssumption
    <3>4. (copy[r].level + 1) - 1 = copy[r].level
      BY <2>3
    <3>5. now[r] # NoTime
      BY <1>0, NoTimeAssumption
    <3>6. Sound(account', clock, Tries')
      BY <1>0, <2>3, <3>1, <3>3, <3>4, <3>5, MaxRetriesAssumption DEF Sound
    <3>. QED
      BY <2>1, <3>6 DEF Holders
  <2>6. CASE ~(copy[r].failed + 1 >= MaxRetries)
    <3>1. /\ account'.status = copy[r].status /\ account'.failed = copy[r].failed + 1
          /\ account'.level = copy[r].level /\ account'.lastFailed = now[r]
      BY <1>10, <1>0, <2>6 DEF RecordFailure, LimitReached, UpdateAuthState, Account
    <3>2. MaxRetries * copy[r].level + (copy[r].failed + 1) <= Tries'
      BY <1>0, <2>2, <2>3, <2>4
    <3>3. now[r] # NoTime
      BY <1>0, NoTimeAssumption
    <3>4. Sound(account', clock, Tries')
      BY <1>0, <2>1, <2>3, <2>6, <3>1, <3>2, <3>3, MaxRetriesAssumption DEF Sound
    <3>. QED
      BY <2>1, <3>4 DEF Holders
  <2>. QED
    BY <2>5, <2>6
<1>11. ASSUME ResetAuthState(r) PROVE Done
  <2>1. /\ r \in Holders /\ Holding(r) /\ copy[r].status # "locked"
        /\ copy'[r] = copy[r] \/ pc'[r] = "unverified"
        /\ pc'[r] = "unverified" \/ (pc'[r] = "issue" /\ copy[r].verified)
    BY <1>11, <1>0 DEF TypeOK, IInv, ResetAuthState, Goto, Reply, Holders, Holding
  <2>2. /\ account'.status = copy[r].status /\ account'.failed = 0
        /\ account'.level = copy[r].level /\ account'.lastFailed = NoTime
    BY <1>11, <1>0 DEF ResetAuthState, UpdateAuthState, Account
  <2>3. MaxRetries * copy[r].level + 0 <= Tries'
    <3>1. /\ MaxRetries * copy[r].level \in Int /\ copy[r].failed \in Nat
          /\ MaxRetries * copy[r].level + copy[r].failed <= Tries'
      BY <1>0, <1>5, <2>1, MaxRetriesAssumption DEF Sound, Account
    <3>2. QED
      BY <3>1, <1>0
  <2>4. Sound(account', clock, Tries')
    BY <2>1, <2>2, <2>3, MaxRetriesAssumption DEF Sound
  <2>. QED
    BY <1>0, <1>1, <1>5, <2>1, <2>4 DEF Holding, Holders
<1>12. Done
  BY <1>6, <1>7, <1>8, <1>9, <1>10, <1>11 DEF Login
<1>13. TokensNeedVerifiedEmail'
  BY <1>1, <1>2, <1>12 DEF IInv, TokensNeedVerifiedEmail
<1>14. QED
  BY <1>0, <1>3, <1>4, <1>12, <1>13 DEF IInv, Holders

\* Administration, verification and time keep the invariant.
LEMMA OtherStep ==
  ASSUME IInv, TypeOK', Tries <= Tries',
         DeactivateUser \/ UpdateEmailVerifiedAt \/ Tick \/ UNCHANGED vars
  PROVE  IInv'
<1>0. /\ TypeOK
      /\ clock \in Nat /\ clock' \in Nat /\ clock <= clock'
      /\ account \in Account /\ account' \in Account
      /\ Tries \in Nat /\ Tries' \in Nat
      /\ pc' = pc /\ guess' = guess /\ now' = now /\ copy' = copy
      /\ account'.hasPassword = account.hasPassword
      /\ account.verified => account'.verified
  BY TriesMonotone DEF IInv, TypeOK, DeactivateUser, UpdateEmailVerifiedAt, Tick, vars, Account
<1>1. Sound(account, clock', Tries')
  BY <1>0, SoundLater DEF IInv
<1>2. Sound(account', clock', Tries')
  <2>1. CASE DeactivateUser
    BY <2>1, <1>0, <1>1 DEF DeactivateUser, Sound, Account
  <2>2. CASE UpdateEmailVerifiedAt
    BY <2>2, <1>0, <1>1 DEF UpdateEmailVerifiedAt, Sound, Account
  <2>3. CASE Tick \/ UNCHANGED vars
    BY <2>3, <1>1 DEF Tick, vars
  <2>. QED
    BY <2>1, <2>2, <2>3
<1>3. \A s \in Holders' : Holding(s)'
  <2>. TAKE s \in Holders'
  <2>1. s \in Requests /\ s \in Holders
    BY <1>0 DEF Holders
  <2>2. Holding(s)
    BY <2>1 DEF IInv
  <2>. QED
    BY <1>0, <2>1, <2>2, HoldingKept
<1>4. \A s \in Requests : now'[s] <= clock'
  BY <1>0 DEF IInv, TypeOK
<1>5. TokensNeedVerifiedEmail'
  BY <1>0 DEF IInv, TokensNeedVerifiedEmail
<1>. QED
  BY <1>2, <1>3, <1>4, <1>5 DEF IInv

\* IInv is inductive and holds at the start.
THEOREM Inductive == Spec => []IInv
<1>1. Init => IInv
  <2> SUFFICES ASSUME Init PROVE IInv
    OBVIOUS
  <2>1. TypeOK
    BY InitType
  <2>2. WrongTries = {} /\ Holders = {}
    BY DEF Init, WrongTries, Holders
  <2>3. Tries = 0
    BY <2>2, FS_EmptySet DEF Tries
  <2>4. Sound(account, clock, Tries)
    BY <2>3, MaxRetriesAssumption DEF Init, Sound, NewAccount
  <2>. QED
    BY <2>1, <2>2, <2>4 DEF Init, IInv, TokensNeedVerifiedEmail
<1>2. IInv /\ [Next]_vars => IInv'
  <2> SUFFICES ASSUME IInv, [Next]_vars PROVE IInv'
    OBVIOUS
  <2>1. TypeOK'
    BY TypeStep DEF IInv
  <2>2. Tries <= Tries'
    BY TriesKept, TriesMonotone DEF IInv
  <2>3. CASE \E r \in Requests : Login(r)
    BY <2>1, <2>2, <2>3, LoginStep
  <2>4. CASE DeactivateUser \/ UpdateEmailVerifiedAt \/ Tick \/ UNCHANGED vars
    BY <2>1, <2>2, <2>4, OtherStep
  <2>. QED
    BY <2>3, <2>4 DEF Next
<1>. QED
  BY <1>1, <1>2, PTL DEF Spec

(***************************************************************************)
(* The properties the runs check.                                          *)
(***************************************************************************)
\* A locked row carries exactly the lock of the failure recorded with it.
THEOREM LockMatchesFailureHolds == Spec => []LockMatchesFailure
<1>1. IInv => LockMatchesFailure
  BY DEF IInv, Sound, LockMatchesFailure
<1>. QED
  BY <1>1, Inductive, PTL

\* The row satisfies the domain's checks of counters and failure times.
THEOREM FailureStateValidHolds == Spec => []FailureStateValid
<1>1. IInv => FailureStateValid
  BY DEF IInv, Sound, FailureStateValid
<1>. QED
  BY <1>1, Inductive, PTL

\* Escalation and count never exceed what the wrong passwords tried account for.
THEOREM NoSpuriousLockHolds == Spec => []NoSpuriousLock
<1>1. IInv => NoSpuriousLock
  BY DEF IInv, Sound, NoSpuriousLock, Tries
<1>. QED
  BY <1>1, Inductive, PTL

\* Only an account with a password and a verified address is given tokens.
THEOREM TokensNeedVerifiedEmailHolds == Spec => []TokensNeedVerifiedEmail
<1>1. IInv => TokensNeedVerifiedEmail
  BY DEF IInv
<1>. QED
  BY <1>1, Inductive, PTL

\* With no request left that read the row before, a live lock runs its time.
THEOREM LockHoldsOnceQuietHolds == Spec => LockHoldsOnceQuiet
<1>1. ASSUME IInv, [Next]_vars, LockLive, Quiet PROVE LockKept
  <2>1. /\ TypeOK /\ clock \in Nat /\ account \in Account
        /\ HasLock(account) /\ account.lockUntil \in Int /\ account.lockUntil > clock
    <3>1. /\ TypeOK /\ clock \in Nat /\ account \in Account
          /\ HasLock(account) /\ account.lockUntil > clock
      BY <1>1 DEF IInv, TypeOK, LockLive
    <3>2. account.lockUntil \in Int
      BY <3>1 DEF HasLock, Account, Times
    <3>. QED
      BY <3>1, <3>2
  <2>2. ASSUME NEW r \in Requests, Login(r) PROVE account' = account /\ Quiet'
    <3>1. now[r] \in Nat /\ now[r] <= clock
      BY <1>1, <2>1 DEF IInv, TypeOK
    <3>2. ~Overtaking(r)
      BY <1>1 DEF Quiet
    <3>3. Begin(r) \/ FetchPasswordless(r) \/ FetchLocked(r) \/ IssueTokens(r) \/ Abort(r)
      BY <2>1, <2>2, <3>1, <3>2 DEF Login, FetchExpired, FetchOpen, Unlock,
         RecordFailure, LimitReached, ResetAuthState, Overtaking
    <3>4. /\ account' = account
          /\ \A s \in Requests : pc'[s] = pc[s] \/ pc'[s] \in {"fetch"} \union Answers
      BY <2>1, <3>3 DEF TypeOK, Begin, FetchPasswordless, FetchLocked, IssueTokens,
         Abort, Goto, Reply, Answers
    <3>. QED
      BY <1>1, <3>4 DEF Quiet, Overtaking, Answers
  <2>3. CASE DeactivateUser
    BY <2>1, <2>3 DEF DeactivateUser, Account, LockKept
  <2>4. CASE UpdateEmailVerifiedAt
    BY <1>1, <2>1, <2>4 DEF UpdateEmailVerifiedAt, Account, Quiet, Overtaking, LockKept
  <2>5. CASE Tick \/ UNCHANGED vars
    BY <1>1, <2>5 DEF Tick, vars, Quiet, Overtaking, LockKept
  <2>. QED
    BY <1>1, <2>2, <2>3, <2>4, <2>5 DEF Next, LockKept
<1>2. IInv /\ [Next]_vars => [LockLive /\ Quiet => LockKept]_vars
  BY <1>1
<1>. QED
  BY <1>2, Inductive, PTL DEF Spec, LockHoldsOnceQuiet
=============================================================================
