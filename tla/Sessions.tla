------------------------------ MODULE Sessions ------------------------------
(***************************************************************************)
(* The refresh tokens of one user: logins that issue them, refreshes that  *)
(* rotate them, logouts, and the password changes and resets that revoke   *)
(* them all.  Each handler of auth.Usecase and user.Usecase is a sequence  *)
(* of repository calls, each of them a statement of its own: nothing holds *)
(* from one call to the next but the conditions in the statements.  Any    *)
(* call may fail before its effect (Abort) or, a write, after it.          *)
(*                                                                         *)
(* A refresh token is named by the request that saved its row; its random  *)
(* jti makes every token distinct.  Expiry is a refusal that may happen to *)
(* any token at any time.  Lockout is the subject of module AccountLock.   *)
(***************************************************************************)
EXTENDS Naturals, FiniteSets

CONSTANTS
  Logins,       \* password and Google logins that pass their checks
  Refreshes,    \* POST /auth/refresh
  Logouts,      \* POST /auth/logout
  Changes,      \* PATCH /users/:id/password
  Resets,       \* POST /auth/reset-password
  ResetTokens,  \* the reset tokens ForgotPassword draws
  Agents,       \* User-Agent headers
  Addresses,    \* client addresses
  Unknown,      \* an empty header or address
  None          \* no token yet; also the first password

Requests  == Logins \union Refreshes \union Logouts \union Changes \union Resets
Tokens    == Logins \union Refreshes
Setters   == Changes \union Resets
Passwords == Setters \union {None}
Clients   == [agent : Agents, address : Addresses]
Unseen    == [agent |-> Unknown, address |-> Unknown]

ASSUME KindsDisjoint ==
  /\ Logins \intersect (Refreshes \union Logouts \union Changes \union Resets) = {}
  /\ Refreshes \intersect (Logouts \union Changes \union Resets) = {}
  /\ Logouts \intersect (Changes \union Resets) = {}
  /\ Changes \intersect Resets = {}
ASSUME NoneAssumption     == None \notin Requests \union ResetTokens
ASSUME UnknownAssumption  == Unknown \in Agents \intersect Addresses

VARIABLES
  pc,        \* the next repository call of each request, or its answer
  target,    \* the token a request was given: refresh, logout or reset token
  client,    \* the client a request comes from
  family,    \* the login a token descends from
  seen,      \* the password each login read
  row,       \* the refresh_tokens table: whether each token is saved, revoked
  access,    \* the email_verified claim of the access token each request returned
  password,  \* the password_hash of the user: the request that set it
  reset      \* the password_reset_tokens table

vars == <<pc, target, client, family, seen, row, access, password, reset>>

Goto(r, next) == pc' = [pc EXCEPT ![r] = next]

\* Calls a handler of the kind can have pending, and the answers it can give.
Calls == {"fetch", "issue", "lookup", "rotate", "save", "revoke", "update",
          "revokeAll", "markUsed"}
Answers == {"tokens", "loggedOut", "changed", "refused", "error"}

\* The refresh tokens clients hold.
Delivered == {t \in Tokens : pc[t] = "tokens"}

Init ==
  /\ pc       = [r \in Requests |-> "ready"]
  /\ target   = [r \in Requests |-> None]
  /\ client   = [r \in Requests |-> Unseen]
  /\ family   = [t \in Tokens |-> None]
  /\ seen     = [l \in Logins |-> None]
  /\ row      = [t \in Tokens |-> "none"]
  /\ access   = [t \in Tokens |-> "none"]
  /\ password = None
  /\ reset    = [t \in ResetTokens |-> "none"]

(***************************************************************************)
(* Login and LoginWithGoogle.  The user row is read, then tokens for it    *)
(* are signed and the refresh token is saved.                              *)
(***************************************************************************)
\* GetByEmail, and Compare against the hash just read.
LoginFetch(r) ==
  /\ r \in Logins
  /\ pc[r] = "ready"
  /\ \E c \in Clients : client' = [client EXCEPT ![r] = c]
  /\ seen' = [seen EXCEPT ![r] = password]
  /\ family' = [family EXCEPT ![r] = r]
  /\ Goto(r, "issue")
  /\ UNCHANGED <<target, row, access, password, reset>>

\* The user value a login gets this far with: its EmailVerifiedAt is set.
FetchedUser == [verified |-> TRUE]

\* ParseRefreshToken: the user value of a token has no EmailVerifiedAt.
ParsedUser(user) == [user EXCEPT !.verified = FALSE]

\* The email_verified claim of an access token for the user value.
EmailVerifiedClaim(user) == IF user.verified THEN "verified" ELSE "unverified"

\* The middleware of the private API on the claim.
RequireVerifiedEmail(claim) == claim = "verified"

\* The INSERT of a new token; the tokens are answered unless it reports an
\* error, which it may do although it committed.
SaveToken(r, user) ==
  /\ row' = [row EXCEPT ![r] = "active"]
  /\ \/ /\ Goto(r, "tokens")
        /\ access' = [access EXCEPT ![r] = EmailVerifiedClaim(user)]
     \/ /\ Goto(r, "error")
        /\ UNCHANGED access

\* issueTokens, for the user row that was read.
LoginIssue(r) ==
  /\ r \in Logins
  /\ pc[r] = "issue"
  /\ SaveToken(r, FetchedUser)
  /\ UNCHANGED <<target, client, family, seen, password, reset>>

(***************************************************************************)
(* Refresh.                                                                *)
(***************************************************************************)
RefreshBegin(r) ==
  /\ r \in Refreshes
  /\ pc[r] = "ready"
  /\ \E t \in Delivered, c \in Clients :
       /\ target' = [target EXCEPT ![r] = t]
       /\ client' = [client EXCEPT ![r] = c]
  /\ Goto(r, "lookup")
  /\ UNCHANGED <<family, seen, row, access, password, reset>>

\* Mutation: what the caller does not tell matches too.
AnonymousMatches(t, r) ==
  \A f \in {"agent", "address"} :
    Unknown \in {client[t][f], client[r][f]} \/ client[t][f] = client[r][f]

\* sameClientSession: what the row does not know matches anything.
SameClient(t, r) ==
  \A f \in {"agent", "address"} : client[t][f] \in {Unknown, client[r][f]}

\* GetActiveByHash finds the token and the checks pass.
RefreshLookup(r) ==
  /\ r \in Refreshes
  /\ pc[r] = "lookup"
  /\ row[target[r]] = "active"
  /\ SameClient(target[r], r)
  /\ Goto(r, "rotate")
  /\ UNCHANGED <<target, client, family, seen, row, access, password, reset>>

\* The token is expired, or revoked, or another client's.
RefreshRefused(r) ==
  /\ r \in Refreshes
  /\ pc[r] = "lookup"
  /\ Goto(r, "refused")
  /\ UNCHANGED <<target, client, family, seen, row, access, password, reset>>

\* Mutation: the UPDATE without `revoked_at IS NULL`.
RevokeAny(t) == row' = [row EXCEPT ![t] = "revoked"]

\* The UPDATE of RevokeByHash: it changes an active row or reports an error.
RevokeByHash(t) ==
  /\ row[t] = "active"
  /\ row' = [row EXCEPT ![t] = "revoked"]

\* Mutation: the new token does not replace the old one.
RefreshAdds(r) ==
  /\ r \in Refreshes
  /\ pc[r] = "rotate"
  /\ family' = [family EXCEPT ![r] = family[target[r]]]
  /\ Goto(r, "save")
  /\ UNCHANGED <<target, client, seen, row, access, password, reset>>

\* The token is exchanged for a new one, which is still to be saved: a refresh
\* whose UPDATE commits and reports an error is one that aborts before saving.
RefreshRotate(r) ==
  /\ r \in Refreshes
  /\ pc[r] = "rotate"
  /\ RevokeByHash(target[r])
  /\ family' = [family EXCEPT ![r] = family[target[r]]]
  /\ Goto(r, "save")
  /\ UNCHANGED <<target, client, seen, access, password, reset>>

RefreshBeaten(r) ==
  /\ r \in Refreshes
  /\ pc[r] = "rotate"
  /\ row[target[r]] # "active"
  /\ Goto(r, "error")
  /\ UNCHANGED <<target, client, family, seen, row, access, password, reset>>

\* The tokens are generated for the user value of the token presented.
RefreshSave(r) ==
  /\ r \in Refreshes
  /\ pc[r] = "save"
  /\ SaveToken(r, ParsedUser(FetchedUser))
  /\ UNCHANGED <<target, client, family, seen, password, reset>>

(***************************************************************************)
(* Logout: RevokeByHash of the token in the body.                          *)
(***************************************************************************)
LogoutBegin(r) ==
  /\ r \in Logouts
  /\ pc[r] = "ready"
  /\ \E t \in Delivered : target' = [target EXCEPT ![r] = t]
  /\ Goto(r, "revoke")
  /\ UNCHANGED <<client, family, seen, row, access, password, reset>>

LogoutRevoke(r) ==
  /\ r \in Logouts
  /\ pc[r] = "revoke"
  /\ RevokeByHash(target[r])
  /\ \E answer \in {"loggedOut", "error"} : Goto(r, answer)
  /\ UNCHANGED <<target, client, family, seen, access, password, reset>>

LogoutNotFound(r) ==
  /\ r \in Logouts
  /\ pc[r] = "revoke"
  /\ row[target[r]] # "active"
  /\ Goto(r, "error")
  /\ UNCHANGED <<target, client, family, seen, row, access, password, reset>>

(***************************************************************************)
(* ForgotPassword, ResetPassword and ChangePassword.                       *)
(***************************************************************************)
\* ForgotPassword saves a fresh token and mails it.
ForgotPassword(t) ==
  /\ reset[t] = "none"
  /\ reset' = [reset EXCEPT ![t] = "active"]
  /\ UNCHANGED <<pc, target, client, family, seen, row, access, password>>

\* GetActiveByHash finds the reset token.
ActiveReset(t) == reset[t] = "active"

\* ResetPassword reads its token, active and not expired, and the user.
ResetFetch(r) ==
  /\ r \in Resets
  /\ pc[r] = "ready"
  /\ \E t \in ResetTokens :
       /\ ActiveReset(t)
       /\ target' = [target EXCEPT ![r] = t]
  /\ Goto(r, "update")
  /\ UNCHANGED <<client, family, seen, row, access, password, reset>>

\* ChangePassword reads the user and compares the current password.
ChangeFetch(r) ==
  /\ r \in Changes
  /\ pc[r] = "ready"
  /\ Goto(r, "update")
  /\ UNCHANGED <<target, client, family, seen, row, access, password, reset>>

UpdatePasswordHash(r) ==
  /\ r \in Setters
  /\ pc[r] = "update"
  /\ password' = r
  /\ \E next \in {"revokeAll", "error"} : Goto(r, next)
  /\ UNCHANGED <<target, client, family, seen, row, access, reset>>

\* A reset still has to use its token; a change answers.
AfterRevocation(r) == IF r \in Resets THEN "markUsed" ELSE "changed"

\* Mutation: the user's rows are deleted.
DeleteAllByUserID(r) ==
  /\ r \in Setters
  /\ pc[r] = "revokeAll"
  /\ row' = [t \in {u \in Tokens : row[u] # "active"} |-> row[t]]
  /\ \E next \in {AfterRevocation(r), "error"} : Goto(r, next)
  /\ UNCHANGED <<target, client, family, seen, access, password, reset>>

\* RevokeAllByUserID: every row active at this moment.
RevokeAllByUserID(r) ==
  /\ r \in Setters
  /\ pc[r] = "revokeAll"
  /\ row' = [t \in Tokens |-> IF row[t] = "active" THEN "revoked" ELSE row[t]]
  /\ \E next \in {AfterRevocation(r), "error"} : Goto(r, next)
  /\ UNCHANGED <<target, client, family, seen, access, password, reset>>

\* Mutation: the UPDATE without `used_at IS NULL`.
MarkUsedAgain(r) ==
  /\ r \in Resets
  /\ pc[r] = "markUsed"
  /\ reset' = [reset EXCEPT ![target[r]] = "used"]
  /\ \E answer \in {"changed", "error"} : Goto(r, answer)
  /\ UNCHANGED <<target, client, family, seen, row, access, password>>

\* MarkUsedByHash comes last, and finds the token used if another reset won.
MarkUsedByHash(r) ==
  /\ r \in Resets
  /\ pc[r] = "markUsed"
  /\ \/ /\ reset[target[r]] = "active"
        /\ reset' = [reset EXCEPT ![target[r]] = "used"]
        /\ \E answer \in {"changed", "error"} : Goto(r, answer)
     \/ /\ reset[target[r]] # "active"
        /\ Goto(r, "error")
        /\ UNCHANGED reset
  /\ UNCHANGED <<target, client, family, seen, row, access, password>>

\* A repository call fails without effect and ends the handler.
Abort(r) ==
  /\ pc[r] \in Calls
  /\ Goto(r, "error")
  /\ UNCHANGED <<target, client, family, seen, row, access, password, reset>>

Step(r) ==
  \/ LoginFetch(r)
  \/ LoginIssue(r)
  \/ RefreshBegin(r)
  \/ RefreshLookup(r)
  \/ RefreshRefused(r)
  \/ RefreshRotate(r)
  \/ RefreshBeaten(r)
  \/ RefreshSave(r)
  \/ LogoutBegin(r)
  \/ LogoutRevoke(r)
  \/ LogoutNotFound(r)
  \/ ResetFetch(r)
  \/ ChangeFetch(r)
  \/ UpdatePasswordHash(r)
  \/ RevokeAllByUserID(r)
  \/ MarkUsedByHash(r)
  \/ Abort(r)

Next ==
  \/ \E r \in Requests : Step(r)
  \/ \E t \in ResetTokens : ForgotPassword(t)

Spec == Init /\ [][Next]_vars

(***************************************************************************)
(* What holds however the requests interleave.                             *)
(***************************************************************************)
\* Every variable ranges over its type.
TypeOK ==
  /\ pc \in [Requests -> {"ready"} \union Calls \union Answers]
  /\ target \in [Requests -> Tokens \union ResetTokens \union {None}]
  /\ client \in [Requests -> Clients]
  /\ family \in [Tokens -> Logins \union {None}]
  /\ seen \in [Logins -> Passwords]
  /\ row \in [Tokens -> {"none", "active", "revoked"}]
  /\ access \in [Tokens -> {"none", "verified", "unverified"}]
  /\ password \in Passwords
  /\ reset \in [ResetTokens -> {"none", "active", "used"}]

\* A token that is active, or that its request is about to save.
Holder(t) == row[t] = "active" \/ pc[t] \in {"issue", "save"}

\* A refresh that revoked its token.
Rotated(r) == pc[r] = "save" \/ row[r] # "none"

\* Rotation keeps a session single: of all the tokens that descend from one
\* login at most one is active or on its way, whoever presents which of them.
\* GetActiveByHash is read long before; RevokeByHash decides.
OneTokenPerSession ==
  \A t, u \in Tokens :
    Holder(t) /\ Holder(u) /\ family[t] = family[u] => t = u

\* No token is exchanged twice, however often it is presented at once.
ExchangedOnce ==
  \A r, s \in Refreshes :
    Rotated(r) /\ Rotated(s) /\ target[r] = target[s] => r = s

\* A logout that succeeds ends its session for good: no refresh that had passed
\* its checks brings a successor of the token.
LogoutEndsSession ==
  \A l \in Logouts, t \in Tokens :
    pc[l] = "loggedOut" /\ Holder(t) => family[t] # family[target[l]]

\* The tokens of a session that know their agent or address know the same one,
\* through any chain of rotations (sameClientSession lets an unknown one be
\* bound, and never lets go of a known one).
SessionKeepsClient ==
  \A f \in {"agent", "address"} :
    \A t, u \in {x \in Tokens : row[x] # "none" /\ client[x][f] # Unknown} :
      family[t] = family[u] => client[t][f] = client[u][f]

\* A session that was opened with a password since replaced.
OldSessionLives == \E t \in Tokens : Holder(t) /\ seen[family[t]] # password

\* Once the sessions of earlier passwords are gone they stay gone until the
\* password changes again: no handler revives a token or accepts a revoked one.
OldSessionsStayDead ==
  [][~OldSessionLives /\ password' = password => ~OldSessionLives']_vars

\* Of the resets that present one token at most one reports success, although
\* each of them may have set the password by then.
ResetSucceedsOnce ==
  \A r, s \in Resets :
    pc[r] = "changed" /\ pc[s] = "changed" /\ target[r] = target[s] => r = s

(***************************************************************************)
(* What docs/wiki/02-users-auth.md says and the code does not do.          *)
(***************************************************************************)
\* A password change or reset that has succeeded leaves no session that was
\* opened before it (wiki: every device is signed out).
PasswordChangeEndsSessions ==
  \A c \in Setters :
    pc[c] = "changed" /\ password = c =>
      \A t \in Tokens : row[t] = "active" => seen[family[t]] = c

\* A refresh answers an access token that the private API accepts (wiki: the
\* refresh token is for getting a new access token): it carries the claim of a
\* user whose address is verified.
RefreshedAccessTokenWorks ==
  \A r \in Refreshes : pc[r] = "tokens" => RequireVerifiedEmail(access[r])
=============================================================================
