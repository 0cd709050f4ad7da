---------------------- MODULE AccountLockSerialProofs ----------------------
(***************************************************************************)
(* One request at a time, AccountLock implements LockoutPolicy, serves     *)
(* every lock in full and counts every failure: for any finite set of      *)
(* requests, any threshold and any jail duration.                          *)
(***************************************************************************)
EXTENDS AccountLockSerial, AccountLockProofs

\* The only request in flight decides on what the row still says.
Fresh(r) ==
  /\ pc[r] \in {"unlock", "fail", "reset"} => Lockout(copy[r]) = Lockout(account)
  /\ pc[r] = "unlock" => /\ copy[r].status = "locked"
                         /\ copy[r].lockUntil \in Int
                         /\ copy[r].lockUntil <= now[r]

SInv ==
  /\ IInv
  /\ \A r, s \in InFlight : r = s
  /\ \A r \in InFlight : Fresh(r)

\* Rows with the same lockout agree on its four columns.
LEMMA LockoutFields ==
  ASSUME NEW a, NEW b
  PROVE  Lockout(a) = Lockout(b) <=>
           /\ a.status = b.status /\ a.failed = b.failed
           /\ a.level = b.level /\ a.lockUntil = b.lockUntil
BY DEF Lockout

\* A serial step keeps the copy of the request in flight fresh.
LEMMA FreshStep ==
  ASSUME SInv, TypeOK', [Next /\ OneAtATime]_vars, NEW r \in InFlight'
  PROVE  Fresh(r)'
<1>1. r \in Requests /\ TypeOK /\ (r \in InFlight => Fresh(r))
  BY DEF InFlight, SInv, IInv
<1>2. CASE UNCHANGED vars
  BY <1>1, <1>2 DEF vars, Fresh, InFlight, Lockout
<1>3. ASSUME NEW s \in Requests, Login(s), OneAtATime PROVE Fresh(r)'
  <2>1. s = r
    <3>1. \A q \in Requests \ {s} : pc'[q] = pc[q]
      BY <1>1, <1>3 DEF TypeOK, Login, Begin, FetchPasswordless, FetchLocked,
         FetchExpired, FetchOpen, Unlock, RecordFailure, LimitReached, ResetAuthState,
         IssueTokens, Abort, Goto, Reply
    <3>2. r # s => r \in InFlight
      BY <1>1, <3>1 DEF InFlight
    <3>3. s \in InFlight \/ s \in InFlight'
      BY <1>1, <1>3 DEF TypeOK, Login, Begin, FetchPasswordless, FetchLocked,
         FetchExpired, FetchOpen, Unlock, RecordFailure, LimitReached, ResetAuthState,
         IssueTokens, Abort, Goto, InFlight, Calls
    <3>. QED
      BY <1>3, <3>2, <3>3 DEF SInv, OneAtATime
  <2>2. CASE FetchExpired(r)
    BY <1>1, <2>2 DEF TypeOK, FetchExpired, Goto, Fresh, HasLock, Account, Times
  <2>3. CASE FetchOpen(r)
    BY <1>1, <2>3 DEF TypeOK, FetchOpen, Goto, Fresh, Verdict
  <2>4. CASE Unlock(r)
    <3>1. /\ copy'[r] = UpdateAuthState(copy[r], 0, NoTime, copy[r].level, NoTime, "active")
          /\ account' = UpdateAuthState(account, 0, NoTime, copy[r].level, NoTime, "active")
          /\ pc'[r] # "unlock" /\ copy[r] \in Account /\ account \in Account
      BY <1>1, <2>4 DEF TypeOK, Unlock, Goto, Verdict
    <3>2. /\ account'.status = copy'[r].status /\ account'.failed = copy'[r].failed
          /\ account'.level = copy'[r].level /\ account'.lockUntil = copy'[r].lockUntil
      BY <3>1 DEF UpdateAuthState, Account
    <3>3. Lockout(account') = Lockout(copy'[r])
      BY <3>2, LockoutFields
    <3>. QED
      BY <3>1, <3>3 DEF Fresh
  <2>5. CASE ~(FetchExpired(r) \/ FetchOpen(r) \/ Unlock(r))
    BY <1>1, <1>3, <2>1, <2>5 DEF TypeOK, Login, Begin, FetchPasswordless, FetchLocked,
       RecordFailure, LimitReached, ResetAuthState, IssueTokens, Abort, Goto, Reply, Fresh
  <2>. QED
    BY <2>2, <2>3, <2>4, <2>5
<1>4. ASSUME DeactivateUser \/ UpdateEmailVerifiedAt \/ Tick, OneAtATime PROVE Fresh(r)'
  <2>1. pc' = pc /\ copy' = copy /\ now' = now /\ r \in InFlight
    BY <1>4 DEF DeactivateUser, UpdateEmailVerifiedAt, Tick, InFlight
  <2>2. Lockout(account') = Lockout(account)
    BY <1>4, <2>1 DEF OneAtATime, Lockout
  <2>. QED
    BY <1>1, <2>1, <2>2 DEF Fresh
<1>. QED
  BY <1>2, <1>3, <1>4 DEF Next

\* SInv is inductive over serial steps.
THEOREM SerialInductive == SerialSpec => []SInv
<1>1. SerialSpec => Spec
  <2>1. [Next /\ OneAtATime]_vars => [Next]_vars
    OBVIOUS
  <2>. QED
    BY <2>1, PTL DEF SerialSpec, Spec
<1>2. Init => (\A r, s \in InFlight : r = s) /\ (\A r \in InFlight : Fresh(r))
  BY DEF Init, InFlight, Calls
<1>3. SInv /\ IInv' /\ [Next /\ OneAtATime]_vars => SInv'
  <2> SUFFICES ASSUME SInv, IInv', [Next /\ OneAtATime]_vars PROVE SInv'
    OBVIOUS
  <2>1. \A r, s \in InFlight' : r = s
    BY DEF OneAtATime, SInv, vars, InFlight
  <2>2. \A r \in InFlight' : Fresh(r)'
    BY FreshStep DEF IInv
  <2>. QED
    BY <2>1, <2>2 DEF SInv
<1>4. SerialSpec => []IInv
  BY <1>1, Inductive, PTL
<1>. QED
  BY <1>2, <1>3, <1>4, PTL DEF SerialSpec, SInv

\* One request at a time, every UPDATE is a step of the policy: the refinement
\* ImplementsPolicy, for every value of the constants.
THEOREM SerialImplementsPolicy == SerialSpec => ImplementsPolicy
<1>1. Init => Policy!Init
  BY DEF Init, Policy!Init, Lockout, NewAccount
<1>2. SInv /\ [Next /\ OneAtATime]_vars => [Policy!Next]_(Policy!vars)
  <2> SUFFICES ASSUME SInv, [Next /\ OneAtATime]_vars
               PROVE  [Policy!Next]_(Policy!vars)
    OBVIOUS
  <2>0. TypeOK /\ account \in Account /\ clock \in Nat
    BY DEF SInv, IInv, TypeOK
  <2>1. ASSUME NEW r \in Requests, Login(r) PROVE Policy!Next \/ UNCHANGED Policy!vars
    <3>0. copy[r] \in Account /\ now[r] \in Nat /\ now[r] <= clock
      BY <2>0 DEF SInv, IInv, TypeOK
    <3>1. CASE Unlock(r)
      <4>1. r \in InFlight /\ pc[r] = "unlock"
        BY <3>1 DEF Unlock, InFlight, Calls
      <4>2. /\ Lockout(copy[r]) = Lockout(account)
            /\ copy[r].status = "locked" /\ copy[r].lockUntil \in Int
            /\ copy[r].lockUntil <= now[r]
        BY <4>1 DEF SInv, Fresh
      <4>3. /\ account.status = "locked" /\ account.lockUntil \in Int
            /\ account.lockUntil <= clock /\ account.level = copy[r].level
        BY <4>2, <3>0, <2>0, LockoutFields
      <4>4. Lockout(account') = [status |-> "active", failed |-> 0,
                                 level |-> account.level, lockUntil |-> NoTime]
        <5>1. /\ account'.status = "active" /\ account'.failed = 0
              /\ account'.level = account.level /\ account'.lockUntil = NoTime
          BY <3>1, <2>0, <4>3 DEF Unlock, UpdateAuthState, Account
        <5>. QED
          BY <5>1 DEF Lockout
      <4>5. Policy!Reopen
        BY <3>1, <4>3, <4>4 DEF Policy!Reopen, Policy!Locked, Unlock, Lockout
      <4>. QED
        BY <4>5 DEF Policy!Next
    <3>2. CASE RecordFailure(r)
      <4>1. r \in InFlight /\ pc[r] = "fail" /\ r \in Holders
        BY <3>2 DEF RecordFailure, LimitReached, InFlight, Calls, Holders
      <4>2. /\ Lockout(copy[r]) = Lockout(account)
            /\ copy[r].status # "locked" /\ copy[r].failed < MaxRetries
        BY <4>1 DEF SInv, Fresh, IInv, Holding, Sound
      <4>3. /\ account.status = copy[r].status /\ account.failed = copy[r].failed
            /\ account.level = copy[r].level /\ account.lockUntil = copy[r].lockUntil
            /\ copy[r].failed \in Nat
        BY <4>2, <3>0, LockoutFields DEF Account
      <4>4. CASE copy[r].failed + 1 >= MaxRetries
        <5>1. copy[r].failed + 1 = MaxRetries
          BY <4>2, <4>3, <4>4, MaxRetriesAssumption
        <5>2. Lockout(account') = [status |-> "locked", failed |-> 0,
                                   level |-> account.level + 1,
                                   lockUntil |-> now[r] + LockDuration(account.level)]
          BY <3>2, <2>0, <4>3, <4>4 DEF RecordFailure, LimitReached, UpdateAuthState, Lockout, Account
        <5>3. now[r] \in 0..clock
          BY <3>0, <2>0
        <5>4. Policy!StrikeOut
          BY <3>2, <4>2, <4>3, <5>1, <5>2, <5>3
             DEF Policy!StrikeOut, Policy!Locked, RecordFailure, LimitReached, Lockout
        <5>. QED
          BY <5>4 DEF Policy!Next
      <4>5. CASE ~(copy[r].failed + 1 >= MaxRetries)
        <5>1. copy[r].failed + 1 < MaxRetries
          BY <4>3, <4>5, MaxRetriesAssumption
        <5>2. Lockout(account') = [Lockout(account) EXCEPT !.failed = @ + 1]
          BY <3>2, <2>0, <4>3, <4>5 DEF RecordFailure, LimitReached, UpdateAuthState, Lockout, Account
        <5>3. Policy!Strike
          BY <3>2, <4>2, <4>3, <5>1, <5>2 DEF Policy!Strike, Policy!Locked, RecordFailure, LimitReached, Lockout
        <5>. QED
          BY <5>3 DEF Policy!Next
      <4>. QED
        BY <4>4, <4>5
    <3>3. CASE ResetAuthState(r)
      <4>1. r \in InFlight /\ pc[r] = "reset" /\ r \in Holders
        BY <3>3 DEF ResetAuthState, InFlight, Calls, Holders
      <4>2. Lockout(copy[r]) = Lockout(account) /\ copy[r].status # "locked"
        BY <4>1 DEF SInv, Fresh, IInv, Holding
      <4>3. account.status = copy[r].status /\ account.level = copy[r].level
        BY <4>2, LockoutFields
      <4>4. Lockout(account') = [status |-> account.status, failed |-> 0,
                                 level |-> account.level, lockUntil |-> NoTime]
        <5>1. /\ account'.status = account.status /\ account'.failed = 0
              /\ account'.level = account.level /\ account'.lockUntil = NoTime
          BY <3>3, <2>0, <4>3 DEF ResetAuthState, UpdateAuthState, Account
        <5>. QED
          BY <5>1 DEF Lockout
      <4>5. Policy!Forgive
        BY <3>3, <4>2, <4>3, <4>4 DEF Policy!Forgive, Policy!Locked, ResetAuthState, Lockout
      <4>. QED
        BY <4>5 DEF Policy!Next
    <3>4. CASE ~(Unlock(r) \/ RecordFailure(r) \/ ResetAuthState(r))
      BY <2>1, <3>4 DEF Login, Begin, FetchPasswordless, FetchLocked, FetchExpired,
         FetchOpen, IssueTokens, Abort, Policy!vars, Lockout
    <3>. QED
      BY <3>1, <3>2, <3>3, <3>4
  <2>2. CASE DeactivateUser
    BY <2>0, <2>2 DEF DeactivateUser, Lockout, Account, Policy!Next, Policy!Disable
  <2>3. CASE UpdateEmailVerifiedAt
    BY <2>0, <2>3 DEF UpdateEmailVerifiedAt, Lockout, Account, Policy!vars
  <2>4. CASE Tick
    BY <2>4 DEF Tick, Lockout, Policy!Next, Policy!Advance
  <2>5. CASE UNCHANGED vars
    BY <2>5 DEF vars, Lockout, Policy!vars
  <2>. QED
    BY <2>1, <2>2, <2>3, <2>4, <2>5 DEF Next
<1>. QED
  BY <1>1, <1>2, SerialInductive, PTL DEF SerialSpec, ImplementsPolicy, Policy!Spec

(***************************************************************************)
(* What overlap can break, and nothing else does.                          *)
(***************************************************************************)
\* Without overlap no request decides on a row that was read before a lock.
LEMMA LiveMeansQuiet ==
  ASSUME SInv, LockLive
  PROVE  Quiet
<1> SUFFICES ASSUME NEW r \in Requests, Overtaking(r)
             PROVE  FALSE
  BY DEF Quiet
<1>1. r \in InFlight /\ r \in Holders /\ pc[r] \in {"unlock", "fail", "reset"}
  BY DEF Overtaking, InFlight, Calls, Holders
<1>2. account.status = copy[r].status /\ account.lockUntil = copy[r].lockUntil
  BY <1>1, LockoutFields DEF SInv, Fresh
<1>3. account.status = "locked" /\ account.lockUntil > clock
  BY DEF LockLive, HasLock
<1>4. CASE pc[r] = "unlock"
  <2>1. copy[r].lockUntil \in Int /\ copy[r].lockUntil <= now[r]
    BY <1>1, <1>4 DEF SInv, Fresh
  <2>2. now[r] <= clock /\ now[r] \in Nat /\ clock \in Nat
    BY DEF SInv, IInv, TypeOK
  <2>3. QED
    BY <1>2, <1>3, <2>1, <2>2
<1>5. CASE pc[r] \in {"fail", "reset"}
  BY <1>1, <1>2, <1>3, <1>5 DEF SInv, IInv, Holding
<1>6. QED
  BY <1>1, <1>4, <1>5

\* One request at a time, a lock is lifted by time or by an administrator only.
THEOREM SerialLockServedInFull == SerialSpec => LockServedInFull
<1>1. SerialSpec => Spec
  <2>1. [Next /\ OneAtATime]_vars => [Next]_vars
    OBVIOUS
  <2>2. QED
    BY <2>1, PTL DEF SerialSpec, Spec
<1>2. SInv /\ [LockLive /\ Quiet => LockKept]_vars
        => [LockLive => account'.lockUntil = account.lockUntil]_vars
  BY LiveMeansQuiet DEF LockKept
<1>3. QED
  BY <1>1, <1>2, SerialInductive, LockHoldsOnceQuietHolds, PTL
     DEF LockHoldsOnceQuiet, LockServedInFull

Invalid == {r \in Requests : pc[r] = "invalid"}

\* Nothing has happened but wrong passwords, and attempts that are under way.
Plain ==
  \A r \in Requests : pc[r] \in {"ready", "fetch", "unlock", "fail", "reset", "invalid"}

\* Then, before the first lock, the row has counted each of them.
Counted == Plain /\ account.level = 0 => Cardinality(Invalid) = account.failed

LEMMA CountedFailure ==
  ASSUME SInv, Counted, NEW r \in Requests, RecordFailure(r), Plain', account'.level = 0
  PROVE  Cardinality(Invalid') = account'.failed
<1>1. /\ TypeOK /\ account \in Account /\ copy[r] \in Account
      /\ pc \in [Requests -> {"ready"} \union Calls \union Answers]
  BY DEF SInv, IInv, TypeOK
<1>2. r \in InFlight /\ pc[r] = "fail"
  BY DEF RecordFailure, InFlight, Calls
<1>3. /\ account.level = copy[r].level /\ account.failed = copy[r].failed
      /\ account.level \in Nat /\ account.failed \in Nat
  BY <1>1, <1>2, LockoutFields DEF SInv, Fresh, Account
<1>4. ~LimitReached(copy[r])
  <2> SUFFICES ASSUME LimitReached(copy[r])
               PROVE  FALSE
    OBVIOUS
  <2>1. account'.level = copy[r].level + 1
    BY <1>1 DEF RecordFailure, UpdateAuthState, Account
  <2>2. QED
    BY <1>3, <2>1
<1>5. account'.level = account.level /\ account'.failed = account.failed + 1
  BY <1>1, <1>3, <1>4 DEF RecordFailure, UpdateAuthState, Account
<1>6. \E answer \in {"invalid", "error"} : pc' = [pc EXCEPT ![r] = answer]
  BY DEF RecordFailure, Reply
<1>7. pc' = [pc EXCEPT ![r] = "invalid"]
  BY <1>1, <1>6 DEF Plain
<1>8. Invalid' = Invalid \union {r} /\ r \notin Invalid
  BY <1>1, <1>2, <1>7 DEF Invalid
<1>9. IsFiniteSet(Invalid)
  BY RequestsAssumption, FS_Subset DEF Invalid
<1>10. Cardinality(Invalid') = Cardinality(Invalid) + 1
  BY <1>8, <1>9, FS_AddElement
<1>11. Plain
  BY <1>1, <1>2, <1>7 DEF Plain
<1>12. QED
  BY <1>5, <1>10, <1>11 DEF Counted

LEMMA CountedStep == SInv /\ Counted /\ [Next /\ OneAtATime]_vars => Counted'
<1> SUFFICES ASSUME SInv, Counted, [Next]_vars, Plain', account'.level = 0
             PROVE  Cardinality(Invalid') = account'.failed
  BY DEF Counted
<1>1. /\ TypeOK /\ account \in Account
      /\ pc \in [Requests -> {"ready"} \union Calls \union Answers]
  BY DEF SInv, IInv, TypeOK
<1>2. CASE UNCHANGED pc /\ account'.failed = account.failed /\ account'.level = account.level
  BY <1>2 DEF Counted, Plain, Invalid
<1>3. ASSUME NEW r \in Requests, Login(r)
      PROVE  Cardinality(Invalid') = account'.failed
  <2>1. CASE Begin(r) \/ FetchExpired(r) \/ FetchOpen(r)
    <3>1. pc[r] \in {"ready", "fetch"} /\ UNCHANGED account
      BY <2>1 DEF Begin, FetchExpired, FetchOpen
    <3>2. \E next \in {"fetch", "unlock", "reset", "fail"} : pc' = [pc EXCEPT ![r] = next]
      BY <2>1 DEF Begin, FetchExpired, FetchOpen, Goto, Verdict
    <3>3. Plain /\ Invalid' = Invalid
      BY <1>1, <3>1, <3>2 DEF Plain, Invalid
    <3>4. QED
      BY <3>1, <3>3 DEF Counted
  <2>2. CASE RecordFailure(r)
    BY <2>2, CountedFailure
  <2>3. CASE Unlock(r)
    <3>1. r \in InFlight /\ pc[r] = "unlock" /\ copy[r] \in Account
      BY <2>3 DEF Unlock, InFlight, Calls, SInv, IInv, TypeOK
    <3>2. account.status = "locked" /\ account.level = copy[r].level
      BY <3>1, LockoutFields DEF SInv, Fresh
    <3>3. account.level > 0
      BY <3>2 DEF SInv, IInv, Sound
    <3>4. account'.level = copy[r].level
      BY <1>1, <2>3, <3>1 DEF Unlock, UpdateAuthState, Account
    <3>5. QED
      BY <3>2, <3>3, <3>4
  <2>4. CASE FetchPasswordless(r) \/ FetchLocked(r) \/ ResetAuthState(r) \/ IssueTokens(r)
               \/ Abort(r)
    <3>1. pc'[r] \in {"no_password", "locked", "issue", "unverified", "tokens", "no_user", "error"}
      BY <1>1, <2>4 DEF FetchPasswordless, FetchLocked, ResetAuthState, IssueTokens, Abort,
                        Reply, Goto
    <3>2. QED
      BY <3>1 DEF Plain
  <2>5. QED
    BY <1>3, <2>1, <2>2, <2>3, <2>4 DEF Login
<1>4. CASE DeactivateUser \/ UpdateEmailVerifiedAt \/ Tick \/ UNCHANGED vars
  BY <1>1, <1>2, <1>4 DEF DeactivateUser, UpdateEmailVerifiedAt, Tick, vars, Account
<1>5. QED
  BY <1>3, <1>4 DEF Next

\* One request at a time, MaxRetries wrong passwords and nothing else lock the account.
THEOREM SerialLockedAfterMaxRetries == SerialSpec => []LockedAfterMaxRetries
<1>1. Init => Counted
  <2> SUFFICES ASSUME Init
               PROVE  Cardinality(Invalid) = account.failed
    BY DEF Counted
  <2>1. Invalid = {} /\ account.failed = 0
    BY DEF Init, Invalid, NewAccount
  <2>2. QED
    BY <2>1, FS_EmptySet
<1>2. SInv /\ Counted => LockedAfterMaxRetries
  <2> SUFFICES ASSUME SInv, Counted, \A r \in Requests : pc[r] \in {"ready", "invalid"},
                      Cardinality(Invalid) >= MaxRetries
               PROVE  account.level > 0
    BY DEF LockedAfterMaxRetries, Invalid
  <2>1. account.failed < MaxRetries /\ account.failed \in Nat /\ account.level \in Nat
    BY DEF SInv, IInv, Sound, TypeOK, Account
  <2>2. account.level # 0
    BY <2>1, MaxRetriesAssumption DEF Counted, Plain
  <2>3. QED
    BY <2>1, <2>2
<1>3. QED
  BY <1>1, <1>2, CountedStep, SerialInductive, PTL DEF SerialSpec
=============================================================================
