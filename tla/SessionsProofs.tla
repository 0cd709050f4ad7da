--------------------------- MODULE SessionsProofs ---------------------------
(***************************************************************************)
(* Proofs about Sessions, for any requests, clients and reset tokens.  The *)
(* argument has two layers: StepFacts says what a step can do to a token,  *)
(* whichever action it is, and the invariants follow from those facts.     *)
(***************************************************************************)
EXTENDS Sessions, TLAPS

\* A token whose row is saved or about to be.
Known(t) == row[t] # "none" \/ pc[t] \in {"issue", "save"}

\* A request that has not saved its token has none.
Fresh ==
  \A t \in Tokens :
    pc[t] \in {"ready", "issue", "lookup", "rotate", "save"} => row[t] = "none"

\* A client only holds tokens that were saved.
DeliveredSaved == \A t \in Delivered : row[t] # "none"

\* What a refresh or a logout presents was saved.
TargetsSaved ==
  \A r \in Refreshes \union Logouts :
    pc[r] # "ready" => target[r] \in Tokens /\ row[target[r]] # "none"

\* A token descends from a login that has begun.
FamiliesBegun ==
  \A t \in Tokens : Known(t) => family[t] \in Logins /\ pc[family[t]] # "ready"

\* What a refresh has exchanged is revoked.
RotatedRevoked ==
  \A r \in Refreshes : Rotated(r) => row[target[r]] = "revoked"

\* A refresh past its checks comes from the client of its token.
RotatesOwn ==
  \A r \in Refreshes :
    pc[r] \in {"rotate", "save"} => SameClient(target[r], r)

Fields == {"agent", "address"}

\* The live token of a session knows the client any token of it has known.
HolderKeepsClient ==
  \A f \in Fields : \A t, u \in Tokens :
    /\ row[t] # "none"
    /\ client[t][f] # Unknown
    /\ Holder(u)
    /\ family[t] = family[u]
    => client[u][f] = client[t][f]

\* A reset presents a reset token, and leaves it used.
ResetsUse ==
  \A r \in Resets :
    /\ pc[r] # "ready" => target[r] \in ResetTokens
    /\ pc[r] = "changed" => reset[target[r]] = "used"

IInv ==
  /\ TypeOK
  /\ Fresh
  /\ DeliveredSaved
  /\ TargetsSaved
  /\ FamiliesBegun
  /\ RotatedRevoked
  /\ RotatesOwn
  /\ OneTokenPerSession
  /\ ExchangedOnce
  /\ LogoutEndsSession
  /\ HolderKeepsClient
  /\ SessionKeepsClient
  /\ ResetsUse
  /\ ResetSucceedsOnce

(***************************************************************************)
(* Types.                                                                  *)
(***************************************************************************)
\* A step of a request keeps the types.
LEMMA RequestType ==
  ASSUME TypeOK, TargetsSaved, NEW r \in Requests, Step(r)
  PROVE  TypeOK'
<1>1. CASE LoginFetch(r) \/ LoginIssue(r)
  BY <1>1 DEF TypeOK, LoginFetch, LoginIssue, SaveToken, EmailVerifiedClaim,
              Goto, Calls, Answers, Tokens
<1>2. CASE RefreshBegin(r) \/ LogoutBegin(r)
  BY <1>2 DEF TypeOK, RefreshBegin, LogoutBegin, Goto, Calls, Delivered
<1>3. CASE RefreshLookup(r) \/ RefreshRefused(r) \/ RefreshBeaten(r) \/ LogoutNotFound(r)
  BY <1>3 DEF TypeOK, RefreshLookup, RefreshRefused, RefreshBeaten, LogoutNotFound,
              Goto, Calls, Answers
<1>4. CASE RefreshRotate(r)
  <2>1. target[r] \in Tokens
    BY <1>4 DEF RefreshRotate, TargetsSaved
  <2>2. QED
    BY <1>4, <2>1 DEF TypeOK, RefreshRotate, RevokeByHash, Goto, Calls
<1>5. CASE RefreshSave(r)
  BY <1>5 DEF TypeOK, RefreshSave, SaveToken, EmailVerifiedClaim, Goto, Answers, Tokens
<1>6. CASE LogoutRevoke(r)
  <2>1. target[r] \in Tokens
    BY <1>6 DEF LogoutRevoke, TargetsSaved
  <2>2. PICK answer \in {"loggedOut", "error"} : pc' = [pc EXCEPT ![r] = answer]
    BY <1>6 DEF LogoutRevoke, Goto
  <2>3. QED
    BY <1>6, <2>1, <2>2 DEF TypeOK, LogoutRevoke, RevokeByHash, Answers
<1>7. CASE ResetFetch(r) \/ ChangeFetch(r)
  BY <1>7 DEF TypeOK, ResetFetch, ChangeFetch, Goto, Calls
<1>8. CASE UpdatePasswordHash(r) \/ RevokeAllByUserID(r)
  <2>1. PICK next \in Calls \union Answers : pc' = [pc EXCEPT ![r] = next]
    BY <1>8 DEF UpdatePasswordHash, RevokeAllByUserID, AfterRevocation, Goto, Calls, Answers
  <2>2. QED
    BY <1>8, <2>1 DEF TypeOK, UpdatePasswordHash, RevokeAllByUserID, Passwords
<1>9. CASE MarkUsedByHash(r)
  <2>1. PICK answer \in {"changed", "error"} : pc' = [pc EXCEPT ![r] = answer]
    BY <1>9 DEF MarkUsedByHash, Goto
  <2>2. QED
    BY <1>9, <2>1 DEF TypeOK, MarkUsedByHash, Answers
<1>10. CASE Abort(r)
  BY <1>10 DEF TypeOK, Abort, Goto, Answers
<1>11. QED
  BY <1>1, <1>2, <1>3, <1>4, <1>5, <1>6, <1>7, <1>8, <1>9, <1>10 DEF Step

\* Any step keeps the types.
LEMMA TypeStep == TypeOK /\ TargetsSaved /\ [Next]_vars => TypeOK'
<1> SUFFICES ASSUME TypeOK, TargetsSaved, [Next]_vars PROVE TypeOK'
  OBVIOUS
<1>1. CASE \E r \in Requests : Step(r)
  BY <1>1, RequestType
<1>2. CASE \E t \in ResetTokens : ForgotPassword(t)
  BY <1>2 DEF TypeOK, ForgotPassword
<1>3. CASE UNCHANGED vars
  BY <1>3 DEF TypeOK, vars
<1>4. QED
  BY <1>1, <1>2, <1>3 DEF Next

(***************************************************************************)
(* What a step can do.                                                     *)
(***************************************************************************)
\* A login starts a session under the current password.
Opens(t) ==
  /\ t \in Logins
  /\ pc[t] = "ready"
  /\ pc'[t] = "issue"
  /\ family'[t] = t
  /\ seen'[t] = password

\* A refresh takes over the session of its token.
TakesOver(t) ==
  /\ t \in Refreshes
  /\ pc[t] = "rotate"
  /\ pc'[t] = "save"
  /\ row[target[t]] = "active"
  /\ row'[target[t]] = "revoked"
  /\ family'[t] = family[target[t]]

\* Rows are never forgotten or revived, and saved by who was about to.
RowsGrow ==
  \A t \in Tokens :
    /\ row[t] # "none" => row'[t] # "none"
    /\ row[t] = "revoked" => row'[t] = "revoked"
    /\ row[t] = "none" /\ row'[t] # "none" => pc[t] \in {"issue", "save"}

\* What a started request was given stays.
GivenKept ==
  \A r \in Requests :
    pc[r] # "ready" =>
      pc'[r] # "ready" /\ target'[r] = target[r] /\ client'[r] = client[r]

\* A known token keeps its family, and a login the password it read.
FamilyKept ==
  /\ \A t \in Tokens : Known(t) => family'[t] = family[t]
  /\ \A l \in Logins : pc[l] # "ready" => seen'[l] = seen[l]

\* A token becomes live by a login or by taking a session over.
Arrivals == \A t \in Tokens : Holder(t)' => Holder(t) \/ Opens(t) \/ TakesOver(t)

OneMover ==
  \A r, s \in Requests : pc'[r] # pc[r] /\ pc'[s] # pc[s] => r = s

\* Who has not saved before the step has not saved after it.
Unsaved ==
  \A t \in Tokens :
    pc'[t] \in {"ready", "issue", "lookup", "rotate", "save"} =>
      /\ pc[t] \in {"ready", "issue", "lookup", "rotate", "save"}
      /\ row[t] = "none" => row'[t] = "none"

\* A token is delivered once saved, and presented once delivered.
Deliveries ==
  /\ \A t \in Tokens : pc'[t] = "tokens" => pc[t] = "tokens" \/ row'[t] # "none"
  /\ \A r \in Refreshes \union Logouts :
       pc[r] = "ready" /\ pc'[r] # "ready" => target'[r] \in Delivered

\* A token is exchanged by taking its session over, after its checks.
Exchanges ==
  \A r \in Refreshes :
    /\ Rotated(r)' => Rotated(r) \/ TakesOver(r)
    /\ pc'[r] \in {"rotate", "save"} =>
         pc[r] \in {"rotate", "save"} \/ (pc[r] = "lookup" /\ SameClient(target[r], r))

\* A logout revokes its token while no token becomes live.
Endings ==
  \A l \in Logouts : pc'[l] = "loggedOut" =>
    \/ pc[l] = "loggedOut"
    \/ /\ pc[l] # "ready"
       /\ row[target[l]] = "active"
       /\ row'[target[l]] = "revoked"
       /\ \A t \in Tokens : Holder(t)' => Holder(t)

\* A reset succeeds by using its token, which stays used.
Uses ==
  /\ \A r \in Resets :
       /\ pc[r] = "ready" /\ pc'[r] # "ready" => target'[r] \in ResetTokens
       /\ pc'[r] = "changed" =>
            \/ pc[r] = "changed"
            \/ pc[r] # "ready" /\ reset[target[r]] = "active" /\ reset'[target[r]] = "used"
  /\ \A t \in ResetTokens : reset[t] = "used" => reset'[t] = "used"

StepFact ==
  /\ RowsGrow
  /\ GivenKept
  /\ FamilyKept
  /\ Arrivals
  /\ OneMover
  /\ Unsaved
  /\ Deliveries
  /\ Exchanges
  /\ Endings
  /\ Uses

\* What a request's step can do to rows, families and live tokens.
LEMMA RequestTokens ==
  ASSUME TypeOK, Fresh, TargetsSaved, NEW r \in Requests, Step(r)
  PROVE  RowsGrow /\ GivenKept /\ FamilyKept /\ Arrivals /\ OneMover
<1> USE DEF TypeOK, RowsGrow, GivenKept, FamilyKept, Arrivals, OneMover, Holder, Known, Goto
<1>1. CASE LoginFetch(r)
  BY <1>1 DEF LoginFetch, Fresh, Opens, Requests, Tokens
<1>2. CASE LoginIssue(r) \/ RefreshSave(r)
  BY <1>2 DEF LoginIssue, RefreshSave, SaveToken, Fresh, Requests, Tokens
<1>3. CASE RefreshBegin(r) \/ LogoutBegin(r) \/ ResetFetch(r) \/ ChangeFetch(r)
  BY <1>3 DEF RefreshBegin, LogoutBegin, ResetFetch, ChangeFetch, Requests, Tokens
<1>4. CASE RefreshLookup(r) \/ RefreshRefused(r) \/ RefreshBeaten(r) \/ LogoutNotFound(r)
           \/ UpdatePasswordHash(r) \/ MarkUsedByHash(r) \/ Abort(r)
  <2>1. PICK next \in Calls \union Answers : pc' = [pc EXCEPT ![r] = next]
    BY <1>4 DEF RefreshLookup, RefreshRefused, RefreshBeaten, LogoutNotFound,
                UpdatePasswordHash, MarkUsedByHash, Abort, Calls, Answers
  <2>2. UNCHANGED <<target, client, family, seen, row>>
    BY <1>4 DEF RefreshLookup, RefreshRefused, RefreshBeaten, LogoutNotFound,
                UpdatePasswordHash, MarkUsedByHash, Abort
  <2>3. pc[r] # "ready" /\ next \notin {"issue", "save"}
    BY <1>4, <2>1 DEF RefreshLookup, RefreshRefused, RefreshBeaten, LogoutNotFound,
                UpdatePasswordHash, MarkUsedByHash, Abort, Calls, Requests
  <2>4. QED
    BY <2>1, <2>2, <2>3 DEF Calls, Answers, Requests, Tokens
<1>5. CASE RefreshRotate(r)
  <2>1. target[r] \in Tokens
    BY <1>5 DEF RefreshRotate, TargetsSaved
  <2>2. QED
    BY <1>5, <2>1 DEF RefreshRotate, RevokeByHash, Fresh, TakesOver, Requests, Tokens
<1>6. CASE LogoutRevoke(r)
  <2>1. target[r] \in Tokens
    BY <1>6 DEF LogoutRevoke, TargetsSaved
  <2>2. PICK answer \in {"loggedOut", "error"} : pc' = [pc EXCEPT ![r] = answer]
    BY <1>6 DEF LogoutRevoke
  <2>3. QED
    BY <1>6, <2>1, <2>2 DEF LogoutRevoke, RevokeByHash, Requests, Tokens
<1>7. CASE RevokeAllByUserID(r)
  <2>1. PICK next \in {"markUsed", "changed", "error"} : pc' = [pc EXCEPT ![r] = next]
    BY <1>7 DEF RevokeAllByUserID, AfterRevocation
  <2>2. QED
    BY <1>7, <2>1 DEF RevokeAllByUserID, Requests, Tokens
<1>8. QED
  BY <1>1, <1>2, <1>3, <1>4, <1>5, <1>6, <1>7 DEF Step

\* What a request's step can do to the requests.
LEMMA RequestMoves ==
  ASSUME TypeOK, Fresh, TargetsSaved, ResetsUse, NEW r \in Requests, Step(r)
  PROVE  Unsaved /\ Deliveries /\ Exchanges /\ Endings /\ Uses
<1> USE KindsDisjoint
    DEF TypeOK, Unsaved, Deliveries, Exchanges, Endings, Uses, Rotated, Holder, Goto
<1>1. CASE LoginFetch(r)
  BY <1>1 DEF LoginFetch, Requests, Tokens
<1>2. CASE LoginIssue(r)
  BY <1>2 DEF LoginIssue, SaveToken, Requests, Tokens
<1>3. CASE RefreshSave(r)
  BY <1>3 DEF RefreshSave, SaveToken, Requests, Tokens
<1>4. CASE RefreshBegin(r) \/ LogoutBegin(r)
  BY <1>4 DEF RefreshBegin, LogoutBegin, Requests, Tokens
<1>5. CASE ResetFetch(r) \/ ChangeFetch(r)
  BY <1>5 DEF ResetFetch, ChangeFetch, Requests, Tokens
<1>6. CASE RefreshLookup(r)
  BY <1>6 DEF RefreshLookup, Requests, Tokens
<1>7. CASE RefreshRefused(r) \/ RefreshBeaten(r) \/ LogoutNotFound(r)
           \/ UpdatePasswordHash(r) \/ Abort(r)
  <2>1. PICK next \in {"refused", "error", "revokeAll"} : pc' = [pc EXCEPT ![r] = next]
    BY <1>7 DEF RefreshRefused, RefreshBeaten, LogoutNotFound, UpdatePasswordHash, Abort
  <2>2. QED
    BY <1>7, <2>1 DEF RefreshRefused, RefreshBeaten, LogoutNotFound, UpdatePasswordHash,
                      Abort, Calls, Setters, Requests, Tokens
<1>8. CASE RefreshRotate(r)
  <2>1. target[r] \in Tokens
    BY <1>8 DEF RefreshRotate, TargetsSaved
  <2>2. QED
    BY <1>8, <2>1 DEF RefreshRotate, RevokeByHash, TakesOver, Requests, Tokens
<1>9. CASE LogoutRevoke(r)
  <2>1. target[r] \in Tokens
    BY <1>9 DEF LogoutRevoke, TargetsSaved
  <2>2. PICK answer \in {"loggedOut", "error"} : pc' = [pc EXCEPT ![r] = answer]
    BY <1>9 DEF LogoutRevoke
  <2>3. QED
    BY <1>9, <2>1, <2>2 DEF LogoutRevoke, RevokeByHash, Requests, Tokens
<1>10. CASE RevokeAllByUserID(r)
  <2>1. PICK next \in {"markUsed", "changed", "error"} : pc' = [pc EXCEPT ![r] = next]
    BY <1>10 DEF RevokeAllByUserID, AfterRevocation
  <2>2. r \in Resets => next # "changed"
    BY <1>10, <2>1 DEF RevokeAllByUserID, AfterRevocation, Setters, Requests
  <2>3. QED
    BY <1>10, <2>1, <2>2 DEF RevokeAllByUserID, Setters, Requests, Tokens
<1>11. CASE MarkUsedByHash(r)
  <2>1. target[r] \in ResetTokens
    BY <1>11 DEF MarkUsedByHash, ResetsUse
  <2>2. CASE reset[target[r]] = "active"
    <3>1. PICK answer \in {"changed", "error"} : pc' = [pc EXCEPT ![r] = answer]
      BY <1>11, <2>2 DEF MarkUsedByHash
    <3>2. QED
      BY <1>11, <2>1, <2>2, <3>1 DEF MarkUsedByHash, Requests, Tokens
  <2>3. CASE reset[target[r]] # "active"
    BY <1>11, <2>1, <2>3 DEF MarkUsedByHash, Requests, Tokens
  <2>4. QED
    BY <2>2, <2>3
<1>12. QED
  BY <1>1, <1>2, <1>3, <1>4, <1>5, <1>6, <1>7, <1>8, <1>9, <1>10, <1>11 DEF Step

\* What any step can do.
LEMMA StepFacts == IInv /\ [Next]_vars => StepFact
<1> SUFFICES ASSUME TypeOK, Fresh, TargetsSaved, ResetsUse, [Next]_vars
             PROVE  StepFact
  BY DEF IInv
<1>1. CASE \E r \in Requests : Step(r)
  BY <1>1, RequestTokens, RequestMoves DEF StepFact
<1>2. CASE UNCHANGED <<pc, target, client, family, seen, row>> /\ Uses
  BY <1>2 DEF StepFact, RowsGrow, GivenKept, FamilyKept, Arrivals, OneMover, Unsaved,
              Deliveries, Exchanges, Endings, Holder, Rotated
<1>3. CASE \E t \in ResetTokens : ForgotPassword(t)
  <2>1. UNCHANGED <<pc, target, client, family, seen, row>> /\ Uses
    BY <1>3 DEF ForgotPassword, Uses, TypeOK
  <2>2. QED
    BY <1>2, <2>1
<1>4. CASE UNCHANGED vars
  <2>1. UNCHANGED <<pc, target, client, family, seen, row>> /\ Uses
    BY <1>4 DEF vars, Uses
  <2>2. QED
    BY <1>2, <2>1
<1>5. QED
  BY <1>1, <1>3, <1>4 DEF Next

(***************************************************************************)
(* The invariant.                                                          *)
(***************************************************************************)
\* A token that is saved or about to be was so, or has just become live.
LEMMA KnownStep ==
  ASSUME StepFact, NEW t \in Tokens, Known(t)'
  PROVE  Known(t) \/ Opens(t) \/ TakesOver(t)
  BY DEF StepFact, RowsGrow, Arrivals, Known, Holder

\* A token that is or becomes live descends from a login that had begun, or is
\* that of a login that begins.
LEMMA FamilyStep == IInv /\ StepFact => FamiliesBegun'
<1> SUFFICES ASSUME IInv, StepFact, NEW t \in Tokens, Known(t)'
             PROVE  family'[t] \in Logins /\ pc'[family'[t]] # "ready"
  BY DEF FamiliesBegun, Known
<1> USE DEF IInv, StepFact
<1>1. CASE Known(t)
  BY <1>1 DEF FamiliesBegun, FamilyKept, GivenKept, Requests
<1>2. CASE Opens(t)
  BY <1>2 DEF Opens
<1>3. CASE TakesOver(t)
  <2>1. target[t] \in Tokens /\ Known(target[t])
    BY <1>3 DEF TakesOver, TargetsSaved, Known
  <2>2. QED
    BY <1>3, <2>1 DEF TakesOver, FamiliesBegun, GivenKept, Requests
<1>4. QED
  BY <1>1, <1>2, <1>3, KnownStep

\* The bookkeeping of rows and targets is kept.
LEMMA RowsStep == IInv /\ StepFact => Fresh' /\ DeliveredSaved' /\ TargetsSaved'
<1> SUFFICES ASSUME IInv, StepFact
             PROVE  Fresh' /\ DeliveredSaved' /\ TargetsSaved'
  OBVIOUS
<1> USE DEF IInv, StepFact
<1>1. Fresh'
  BY DEF Fresh, Unsaved
<1>2. DeliveredSaved'
  BY DEF DeliveredSaved, Deliveries, Delivered, RowsGrow
<1>3. TargetsSaved'
  <2> SUFFICES ASSUME NEW r \in Refreshes \union Logouts, pc'[r] # "ready"
               PROVE  target'[r] \in Tokens /\ row'[target'[r]] # "none"
    BY DEF TargetsSaved
  <2>1. CASE pc[r] = "ready"
    <3>1. target'[r] \in Delivered
      BY <2>1 DEF Deliveries
    <3>2. target'[r] \in Tokens /\ row[target'[r]] # "none"
      BY <3>1 DEF DeliveredSaved, Delivered
    <3>3. QED
      BY <3>2 DEF RowsGrow
  <2>2. CASE pc[r] # "ready"
    BY <2>2 DEF TargetsSaved, GivenKept, RowsGrow, Requests
  <2>3. QED
    BY <2>1, <2>2
<1>4. QED
  BY <1>1, <1>2, <1>3

\* What has been exchanged is revoked, and exchanged only once.
LEMMA ExchangeStep ==
  IInv /\ StepFact => RotatedRevoked' /\ RotatesOwn' /\ ExchangedOnce'
<1> SUFFICES ASSUME IInv, StepFact
             PROVE  RotatedRevoked' /\ RotatesOwn' /\ ExchangedOnce'
  OBVIOUS
<1> USE DEF IInv, StepFact
<1>1. ASSUME NEW r \in Refreshes, Rotated(r)
      PROVE  /\ target'[r] = target[r]
             /\ target[r] \in Tokens
             /\ row[target[r]] = "revoked"
  BY <1>1 DEF Rotated, Fresh, GivenKept, TargetsSaved, RotatedRevoked, Requests, Tokens
<1>2. ASSUME NEW r \in Refreshes, TakesOver(r)
      PROVE  /\ target'[r] = target[r]
             /\ target[r] \in Tokens
             /\ row[target[r]] = "active"
             /\ row'[target[r]] = "revoked"
             /\ pc'[r] # pc[r]
  BY <1>2 DEF TakesOver, GivenKept, TargetsSaved, Requests
<1>3. RotatedRevoked'
  <2> SUFFICES ASSUME NEW r \in Refreshes, Rotated(r)'
               PROVE  row'[target'[r]] = "revoked"
    BY DEF RotatedRevoked, Rotated
  <2>1. QED
    BY <1>1, <1>2 DEF Exchanges, RowsGrow
<1>4. RotatesOwn'
  <2> SUFFICES ASSUME NEW r \in Refreshes, pc'[r] \in {"rotate", "save"}
               PROVE  SameClient(target[r], r)'
    BY DEF RotatesOwn
  <2>1. pc[r] # "ready" /\ SameClient(target[r], r)
    BY DEF Exchanges, RotatesOwn
  <2>2. target'[r] = target[r] /\ target[r] \in Tokens /\ pc[target[r]] # "ready"
    BY <2>1 DEF TargetsSaved, Fresh, GivenKept, Requests
  <2>3. client'[r] = client[r] /\ client'[target[r]] = client[target[r]]
    BY <2>1, <2>2 DEF GivenKept, Requests, Tokens
  <2>4. QED
    BY <2>1, <2>2, <2>3 DEF SameClient
<1>5. ExchangedOnce'
  <2> SUFFICES ASSUME NEW r \in Refreshes, NEW s \in Refreshes,
                      Rotated(r)', Rotated(s)', target'[r] = target'[s]
               PROVE  r = s
    BY DEF ExchangedOnce, Rotated
  <2>1. (Rotated(r) \/ TakesOver(r)) /\ (Rotated(s) \/ TakesOver(s))
    BY DEF Exchanges
  <2>2. CASE Rotated(r) /\ Rotated(s)
    BY <2>2, <1>1 DEF ExchangedOnce
  <2>3. CASE TakesOver(r) /\ TakesOver(s)
    BY <2>3, <1>2 DEF OneMover, Requests
  <2>4. QED
    BY <2>1, <2>2, <2>3, <1>1, <1>2
<1>6. QED
  BY <1>3, <1>4, <1>5

\* No known token is of the session a login opens, but the login's own.
LEMMA NewSession ==
  ASSUME IInv, StepFact, NEW t \in Tokens, Opens(t), NEW u \in Tokens, Known(u)',
         family'[u] = family'[t]
  PROVE  u = t
<1> USE DEF IInv, StepFact
<1>1. CASE Known(u)
  BY <1>1 DEF FamilyKept, FamiliesBegun, Opens
<1>2. CASE Opens(u)
  BY <1>2 DEF Opens
<1>3. CASE TakesOver(u)
  <2>1. target[u] \in Tokens /\ Known(target[u])
    BY <1>3 DEF TakesOver, TargetsSaved, Known
  <2>2. QED
    BY <1>3, <2>1 DEF TakesOver, FamiliesBegun, Opens
<1>4. QED
  BY <1>1, <1>2, <1>3, KnownStep

\* What a token brings along that stays live.
LEMMA HolderStays ==
  ASSUME IInv, StepFact, NEW t \in Tokens, Holder(t)
  PROVE  family'[t] = family[t] /\ client'[t] = client[t]
  BY DEF IInv, StepFact, FamilyKept, GivenKept, Fresh, Holder, Known, Requests, Tokens

\* What a token that takes a session over gets from the one it replaces.
LEMMA Successor ==
  ASSUME IInv, StepFact, NEW t \in Tokens, TakesOver(t)
  PROVE  /\ target[t] \in Tokens
         /\ Holder(target[t])
         /\ family'[t] = family[target[t]]
         /\ client'[t] = client[t]
         /\ SameClient(target[t], t)
  BY DEF IInv, StepFact, TakesOver, TargetsSaved, Holder, GivenKept, RotatesOwn, Requests

\* A token that is saved after the step.
LEMMA SavedStep ==
  ASSUME IInv, StepFact, NEW t \in Tokens, row'[t] # "none"
  PROVE  /\ Known(t)
         /\ row[t] # "none" \/ Holder(t)
         /\ pc[t] # "ready"
         /\ family'[t] = family[t]
         /\ client'[t] = client[t]
  BY DEF IInv, StepFact, RowsGrow, Fresh, FamilyKept, GivenKept, Known, Holder, Requests,
         Tokens

\* A token revoked by the step is not live after it.
LEMMA RevokedDead ==
  ASSUME Fresh', NEW t \in Tokens, row'[t] = "revoked"
  PROVE  ~Holder(t)'
  BY DEF Fresh, Holder

\* A session stays single.
LEMMA SingleStep == IInv /\ StepFact /\ Fresh' => OneTokenPerSession'
<1> SUFFICES ASSUME IInv, StepFact, Fresh', NEW t \in Tokens, NEW u \in Tokens,
                    Holder(t)', Holder(u)', family'[t] = family'[u]
             PROVE  t = u
  BY DEF OneTokenPerSession, Holder
<1>1. Known(t)' /\ Known(u)'
  BY DEF Known, Holder
<1>2. CASE Opens(t) \/ Opens(u)
  BY <1>1, <1>2, NewSession
<1>3. CASE Holder(t) /\ Holder(u)
  BY <1>3, HolderStays DEF IInv, OneTokenPerSession
<1>4. CASE TakesOver(t) /\ TakesOver(u)
  BY <1>4 DEF StepFact, TakesOver, OneMover, Requests
<1>5. ASSUME NEW x \in Tokens, NEW y \in Tokens, TakesOver(x), Holder(y), Holder(y)',
             family'[x] = family'[y]
      PROVE  FALSE
  <2>1. family[y] = family[target[x]] /\ Holder(target[x]) /\ target[x] \in Tokens
    BY <1>5, HolderStays, Successor
  <2>2. y = target[x]
    BY <2>1, <1>5 DEF IInv, OneTokenPerSession
  <2>3. QED
    BY <2>2, <1>5, RevokedDead DEF TakesOver
<1>6. QED
  BY <1>2, <1>3, <1>4, <1>5 DEF StepFact, Arrivals

\* A session that was logged out stays over.
LEMMA LogoutStep == IInv /\ StepFact /\ Fresh' => LogoutEndsSession'
<1> SUFFICES ASSUME IInv, StepFact, Fresh', NEW l \in Logouts, NEW t \in Tokens,
                    pc'[l] = "loggedOut", Holder(t)', family'[t] = family'[target'[l]]
             PROVE  FALSE
  BY DEF LogoutEndsSession, Holder
<1> DEFINE x == target[l]
<1>1. pc[l] # "ready" /\ target'[l] = x
  BY DEF StepFact, Endings, GivenKept, Requests
<1>2. x \in Tokens /\ row[x] # "none"
  BY <1>1 DEF IInv, TargetsSaved
<1>3. row'[x] # "none"
  BY <1>2 DEF StepFact, RowsGrow
<1>4. pc[x] # "ready" /\ family'[x] = family[x]
  BY <1>2, <1>3, SavedStep
<1>5. CASE pc[l] = "loggedOut"
  <2>1. CASE Holder(t)
    BY <2>1, <1>1, <1>4, <1>5, HolderStays DEF IInv, LogoutEndsSession
  <2>2. CASE Opens(t)
    <3>1. x = t
      BY <2>2, <1>1, <1>2, <1>3, NewSession DEF Known
    <3>2. QED
      BY <2>2, <3>1, <1>4 DEF Opens
  <2>3. CASE TakesOver(t)
    BY <2>3, <1>1, <1>4, <1>5, Successor DEF IInv, LogoutEndsSession
  <2>4. QED
    BY <2>1, <2>2, <2>3 DEF StepFact, Arrivals
<1>6. CASE row[x] = "active" /\ row'[x] = "revoked" /\ Holder(t)
  <2>1. family[t] = family[x] /\ Holder(x)
    BY <1>1, <1>4, <1>6, HolderStays DEF Holder
  <2>2. t = x
    BY <2>1, <1>2, <1>6 DEF IInv, OneTokenPerSession
  <2>3. QED
    BY <2>2, <1>6, RevokedDead
<1>7. QED
  BY <1>5, <1>6 DEF StepFact, Endings

\* The tokens of a session keep the client it knows.
LEMMA ClientStep ==
  IInv /\ StepFact => HolderKeepsClient' /\ SessionKeepsClient'
<1> SUFFICES ASSUME IInv, StepFact
             PROVE  HolderKeepsClient' /\ SessionKeepsClient'
  OBVIOUS
<1>1. ASSUME NEW f \in Fields, NEW t \in Tokens, NEW u \in Tokens,
             row'[t] # "none", client[t][f] # Unknown, Holder(u), family[t] = family[u]
      PROVE  client[u][f] = client[t][f]
  BY <1>1, SavedStep DEF IInv, HolderKeepsClient, OneTokenPerSession
<1>2. HolderKeepsClient'
  <2> SUFFICES ASSUME NEW f \in Fields, NEW t \in Tokens, NEW u \in Tokens,
                      row'[t] # "none", client'[t][f] # Unknown, Holder(u)',
                      family'[t] = family'[u]
               PROVE  client'[u][f] = client'[t][f]
    BY DEF HolderKeepsClient, Holder
  <2>1. /\ pc[t] # "ready" /\ Known(t)'
        /\ family'[t] = family[t] /\ client'[t] = client[t]
    BY SavedStep DEF Known
  <2>2. CASE Holder(u)
    BY <2>1, <2>2, <1>1, HolderStays
  <2>3. CASE Opens(u)
    BY <2>1, <2>3, NewSession DEF Opens
  <2>4. CASE TakesOver(u)
    <3> DEFINE x == target[u]
    <3>1. x \in Tokens /\ Holder(x) /\ family'[u] = family[x]
      BY <2>4, Successor
    <3>2. client[x][f] = client[t][f]
      <4> HIDE DEF x
      <4>1. QED
        BY <2>1, <3>1, <1>1
    <3>3. client[x][f] \in {Unknown, client[u][f]} /\ client'[u] = client[u]
      BY <2>4, Successor DEF SameClient, Fields
    <3>4. QED
      BY <2>1, <3>2, <3>3
  <2>5. QED
    BY <2>2, <2>3, <2>4 DEF StepFact, Arrivals
<1>3. SessionKeepsClient'
  <2> SUFFICES ASSUME NEW f \in Fields, NEW t \in Tokens, NEW u \in Tokens,
                      row'[t] # "none", client'[t][f] # Unknown,
                      row'[u] # "none", client'[u][f] # Unknown,
                      family'[t] = family'[u]
               PROVE  client'[t][f] = client'[u][f]
    BY DEF SessionKeepsClient, Fields
  <2>1. /\ family[t] = family[u]
        /\ client'[t] = client[t] /\ client'[u] = client[u]
        /\ row[t] # "none" \/ Holder(t)
        /\ row[u] # "none" \/ Holder(u)
    BY SavedStep
  <2>2. CASE row[t] # "none" /\ row[u] # "none"
    BY <2>1, <2>2 DEF IInv, SessionKeepsClient, Fields
  <2>3. CASE Holder(t) \/ Holder(u)
    BY <2>1, <2>3, <1>1
  <2>4. QED
    BY <2>1, <2>2, <2>3
<1>4. QED
  BY <1>2, <1>3

\* The resets that succeed used their token, each another one.
LEMMA ResetStep == IInv /\ StepFact => ResetsUse' /\ ResetSucceedsOnce'
<1> SUFFICES ASSUME IInv, StepFact
             PROVE  ResetsUse' /\ ResetSucceedsOnce'
  OBVIOUS
<1> USE DEF IInv, StepFact
<1>1. ResetsUse'
  BY DEF ResetsUse, Uses, GivenKept, Requests, Setters
<1>2. ResetSucceedsOnce'
  <2> SUFFICES ASSUME NEW r \in Resets, NEW s \in Resets,
                      pc'[r] = "changed", pc'[s] = "changed", target'[r] = target'[s]
               PROVE  r = s
    BY DEF ResetSucceedsOnce
  <2>1. target[r] = target[s]
    BY DEF Uses, GivenKept, Requests
  <2>2. QED
    BY <2>1 DEF Uses, ResetsUse, ResetSucceedsOnce, OneMover, Requests
<1>3. QED
  BY <1>1, <1>2

\* The invariant holds initially.
LEMMA InitIInv == Init => IInv
<1> SUFFICES ASSUME Init PROVE IInv
  OBVIOUS
<1> USE DEF Init
<1>1. Unseen \in Clients
  BY UnknownAssumption DEF Unseen, Clients
<1>2. TypeOK
  BY <1>1 DEF TypeOK, Passwords, Setters
<1>3. Fresh /\ DeliveredSaved /\ TargetsSaved
  BY DEF Fresh, DeliveredSaved, Delivered, TargetsSaved, Tokens, Requests
<1>4. FamiliesBegun /\ RotatedRevoked /\ RotatesOwn
  BY DEF FamiliesBegun, Known, RotatedRevoked, Rotated, RotatesOwn, Tokens, Requests
<1>5. OneTokenPerSession /\ ExchangedOnce /\ LogoutEndsSession
  BY DEF OneTokenPerSession, ExchangedOnce, LogoutEndsSession, Holder, Rotated, Tokens,
         Requests
<1>6. HolderKeepsClient /\ SessionKeepsClient
  BY DEF HolderKeepsClient, SessionKeepsClient, Holder, Tokens
<1>7. ResetsUse /\ ResetSucceedsOnce
  BY DEF ResetsUse, ResetSucceedsOnce, Requests
<1>8. QED
  BY <1>2, <1>3, <1>4, <1>5, <1>6, <1>7 DEF IInv

\* Every step keeps it.
LEMMA StepIInv == IInv /\ [Next]_vars => IInv'
<1> SUFFICES ASSUME IInv, [Next]_vars PROVE IInv'
  OBVIOUS
<1>1. StepFact
  BY StepFacts
<1>2. TypeOK'
  BY TypeStep DEF IInv
<1>3. Fresh' /\ DeliveredSaved' /\ TargetsSaved'
  BY <1>1, RowsStep
<1>4. QED
  BY <1>1, <1>2, <1>3, FamilyStep, ExchangeStep, SingleStep, LogoutStep, ClientStep,
     ResetStep DEF IInv

(***************************************************************************)
(* The theorems.                                                           *)
(***************************************************************************)
\* The inductive invariant holds in every reachable state.
THEOREM Inductive == Spec => []IInv
  BY InitIInv, StepIInv, PTL DEF Spec

\* Every variable ranges over its type.
THEOREM TypeCorrect == Spec => []TypeOK
<1>1. IInv => TypeOK
  BY DEF IInv
<1>2. QED
  BY <1>1, Inductive, PTL

\* Any number of concurrent refreshes leaves a session one live token.
THEOREM OneTokenPerSessionHolds == Spec => []OneTokenPerSession
<1>1. IInv => OneTokenPerSession
  BY DEF IInv
<1>2. QED
  BY <1>1, Inductive, PTL

\* No refresh token is exchanged by two refreshes.
THEOREM ExchangedOnceHolds == Spec => []ExchangedOnce
<1>1. IInv => ExchangedOnce
  BY DEF IInv
<1>2. QED
  BY <1>1, Inductive, PTL

\* A logout that succeeds leaves no live token of its session, ever after.
THEOREM LogoutEndsSessionHolds == Spec => []LogoutEndsSession
<1>1. IInv => LogoutEndsSession
  BY DEF IInv
<1>2. QED
  BY <1>1, Inductive, PTL

\* A session never changes the client it knows.
THEOREM SessionKeepsClientHolds == Spec => []SessionKeepsClient
<1>1. IInv => SessionKeepsClient
  BY DEF IInv
<1>2. QED
  BY <1>1, Inductive, PTL

\* A reset token gives at most one success.
THEOREM ResetSucceedsOnceHolds == Spec => []ResetSucceedsOnce
<1>1. IInv => ResetSucceedsOnce
  BY DEF IInv
<1>2. QED
  BY <1>1, Inductive, PTL

\* No step but a password change leaves a live token of an earlier password
\* where there was none.
THEOREM OldSessionsStayDeadHolds == Spec => OldSessionsStayDead
<1>1. IInv /\ [Next]_vars =>
        [~OldSessionLives /\ password' = password => ~OldSessionLives']_vars
  <2> SUFFICES ASSUME IInv, [Next]_vars, ~OldSessionLives, password' = password,
                      NEW t \in Tokens, Holder(t)', seen'[family'[t]] # password'
               PROVE  FALSE
    BY DEF OldSessionLives, Holder
  <2>1. StepFact
    BY StepFacts
  <2>2. ASSUME NEW u \in Tokens, Holder(u)
        PROVE  seen'[family[u]] = password
    <3>1. family[u] \in Logins /\ pc[family[u]] # "ready"
      BY <2>2 DEF IInv, FamiliesBegun, Known, Holder
    <3>2. QED
      BY <2>1, <2>2, <3>1 DEF StepFact, FamilyKept, OldSessionLives
  <2>3. CASE Holder(t)
    BY <2>1, <2>2, <2>3, HolderStays
  <2>4. CASE Opens(t)
    BY <2>4 DEF Opens
  <2>5. CASE TakesOver(t)
    BY <2>1, <2>2, <2>5, Successor
  <2>6. QED
    BY <2>1, <2>3, <2>4, <2>5 DEF StepFact, Arrivals
<1>2. QED
  BY <1>1, Inductive, PTL DEF Spec, OldSessionsStayDead

=============================================================================
