------------------------------- MODULE SignUp -------------------------------
(***************************************************************************)
(* How accounts come to be and how their addresses become verified:        *)
(* registration, administrators' additions, verification mails and the     *)
(* links in them, and Google sign-in, which finds, links or creates an     *)
(* account.  Each handler is a sequence of repository calls; a transaction *)
(* is one step, its commit: its rows are locked, and unseen, until then.   *)
(*                                                                         *)
(* A user row is named by the request that inserts it and a verification   *)
(* token by the request that draws it.  Any call may fail, with or without *)
(* its effect; at most MaxFaults do.                                       *)
(***************************************************************************)
EXTENDS Naturals, FiniteSets

CONSTANTS
  Registers,  \* POST /auth/register
  Additions,  \* POST /users
  Resends,    \* POST /auth/verify-email/send
  Verifies,   \* followers of a link: POST /auth/verify-email, again on failure
  Googles,    \* GET /auth/google/callback
  Addresses,  \* e-mail addresses
  Subjects,   \* Google account ids
  None,       \* no user, token, address or id
  MaxFaults   \* bound on the calls that fail

Users  == Registers \union Additions \union Googles
Tokens == Registers \union Resends
Requests == Users \union Resends \union Verifies

ASSUME KindsDisjoint ==
  /\ Registers \intersect (Additions \union Resends \union Verifies \union Googles) = {}
  /\ Additions \intersect (Resends \union Verifies \union Googles) = {}
  /\ Resends \intersect (Verifies \union Googles) = {}
  /\ Verifies \intersect Googles = {}
First(r) ==
  CASE r \in Registers \union Resends -> "fetch"
    [] r \in Additions -> "insert"
    [] r \in Googles   -> "exchange"
    [] r \in Verifies  -> "lookup"

ASSUME NoneAssumption == None \notin Requests \union Addresses \union Subjects
ASSUME MaxFaultsAssumption == MaxFaults \in Nat

VARIABLES
  address,     \* the address in each request, or that Google has answered
  subject,     \* the id that Google has answered; None if it is empty
  vouched,     \* the sign-ins whose address Google has said to be verified
  pc,          \* the next call of each request, or its answer
  found,       \* the user a request has read or inserted
  unverified,  \* the sign-ins whose copy of the user has no EmailVerifiedAt
  target,      \* the token that each follower presents
  email,       \* users.email, None for no row
  verified,    \* the users with an email_verified_at
  link,        \* oauth_provider_accounts: the user of each Google account
  token,       \* email_verification_tokens, and whether the mail went out
  expired,     \* the tokens past their expiry
  session,     \* the user of the refresh token a sign-in saved
  faults       \* how many calls have failed

inputs == <<address, subject, vouched>>
vars == <<inputs, pc, found, unverified, target, email, verified, link, token,
          expired, session, faults>>

\* Only Google sign-ins insert a user without a password, and it never gets one.
Passwordless(u) == u \in Googles

(***************************************************************************)
(* Calls that fail.  Each handler has its own idea of what comes next: the *)
(* call after, or an answer, named for its HTTP status.                    *)
(***************************************************************************)
\* handleRegister: the lookup is ignored and the mail best-effort.
RegisterFails ==
  [fetch |-> "insert", insert |-> "error", save |-> "created", mail |-> "created"]

\* addUser.
AdditionFails == [insert |-> "error"]

\* handleSendVerifyEmail: a lookup that fails is answered like an unknown address.
ResendFails == [fetch |-> "ok", save |-> "error", mail |-> "error"]

\* handleVerifyEmail: up to the last call any failure is an invalid token.
VerifyFails == [lookup |-> "unauthorized", apply |-> "unauthorized", mark |-> "error"]

\* handleGoogleCallback: a lookup by id that fails is a miss.
GoogleFails ==
  [exchange |-> "error", provider |-> "email", user |-> "email", email |-> "error",
   link |-> "error", create |-> "error", stamp |-> "error", issue |-> "error"]

Fails(r) ==
  CASE r \in Registers -> RegisterFails
    [] r \in Additions -> AdditionFails
    [] r \in Resends   -> ResendFails
    [] r \in Verifies  -> VerifyFails
    [] r \in Googles   -> GoogleFails

Calls == {"fetch", "insert", "save", "mail", "lookup", "apply", "mark", "exchange",
          "provider", "user", "email", "link", "create", "stamp", "issue"}
Answers == {"ok", "created", "tokens", "unauthorized", "conflict", "error"}

Goto(r, next) == pc' = [pc EXCEPT ![r] = next]

Fault(r) ==
  /\ faults < MaxFaults
  /\ faults' = faults + 1
  /\ Goto(r, Fails(r)[pc[r]])

\* A call whose effect is done is acknowledged, or its answer is lost.
Done(r, next) ==
  \/ /\ Goto(r, next)
     /\ UNCHANGED faults
  \/ Fault(r)

\* A call that only reads, or whose statement the database refuses.
Proceed(r, next) == Goto(r, next) /\ UNCHANGED faults

Init ==
  /\ address = [r \in Requests \ Verifies |-> None]
  /\ subject = [r \in Googles |-> None]
  /\ vouched = {}
  /\ pc = [r \in Requests |-> "ready"]
  /\ found = [r \in Requests \ Verifies |-> None]
  /\ unverified = {}
  /\ target = [v \in Verifies |-> None]
  /\ email = [u \in Users |-> None]
  /\ verified = {}
  /\ link = [s \in Subjects |-> None]
  /\ token = [t \in Tokens |-> "none"]
  /\ expired = {}
  /\ session = [r \in Googles |-> None]
  /\ faults = 0

\* users.email is unique.
Taken(a) == \E u \in Users : email[u] = a

\* The handlers bind their requests; Google's callback carries only a code.
Receive(r) ==
  /\ r \in Users \union Resends
  /\ pc[r] = "ready"
  /\ IF r \in Googles THEN UNCHANGED address
     ELSE \E a \in Addresses : address' = [address EXCEPT ![r] = a]
  /\ Proceed(r, First(r))
  /\ UNCHANGED <<subject, vouched, found, unverified, target, email, verified, link,
                 token, expired, session>>

\* CreateUserTx and CreateUser: the row of request r.
InsertUser(r) == email' = [email EXCEPT ![r] = address[r]]

(***************************************************************************)
(* Register and AddUser.                                                   *)
(***************************************************************************)
RegisterFetch(r) ==
  /\ r \in Registers
  /\ pc[r] = "fetch"
  /\ Proceed(r, IF \E u \in Users : email[u] = address[r] /\ Passwordless(u)
                THEN "conflict" ELSE "insert")
  /\ UNCHANGED <<inputs, found, unverified, target, email, verified, link, token,
                 expired, session>>

\* isDuplicateEmailError never recognises the driver's error: a taken address
\* is an internal error, not a conflict.
InsertTaken(r) ==
  /\ r \in Registers \union Additions
  /\ pc[r] = "insert"
  /\ Taken(address[r])
  /\ Proceed(r, "error")
  /\ UNCHANGED <<inputs, found, unverified, target, email, verified, link, token,
                 expired, session>>

RegisterInsert(r) ==
  /\ r \in Registers
  /\ pc[r] = "insert"
  /\ ~Taken(address[r])
  /\ InsertUser(r)
  /\ found' = [found EXCEPT ![r] = r]
  /\ Done(r, "save")
  /\ UNCHANGED <<inputs, unverified, target, verified, link, token, expired, session>>

AddUser(r) ==
  /\ r \in Additions
  /\ pc[r] = "insert"
  /\ ~Taken(address[r])
  /\ InsertUser(r)
  /\ Done(r, "created")
  /\ UNCHANGED <<inputs, found, unverified, target, verified, link, token, expired,
                 session>>

(***************************************************************************)
(* SendEmailVerification, and the mail that Register sends too.            *)
(***************************************************************************)
ResendFetch(r) ==
  /\ r \in Resends
  /\ pc[r] = "fetch"
  /\ \E u \in Users \ verified :
       /\ email[u] = address[r]
       /\ found' = [found EXCEPT ![r] = u]
       /\ Proceed(r, "save")
  /\ UNCHANGED <<inputs, unverified, target, email, verified, link, token, expired,
                 session>>

\* An unknown or verified address gets the same answer and no mail.
ResendNothing(r) ==
  /\ r \in Resends
  /\ pc[r] = "fetch"
  /\ \A u \in Users : email[u] = address[r] => u \in verified
  /\ Proceed(r, "ok")
  /\ UNCHANGED <<inputs, found, unverified, target, email, verified, link, token,
                 expired, session>>

\* issueEmailVerification: save a fresh token, then mail its link.
SaveVerification(r) ==
  /\ r \in Tokens
  /\ pc[r] = "save"
  /\ token' = [token EXCEPT ![r] = "saved"]
  /\ Done(r, "mail")
  /\ UNCHANGED <<inputs, found, unverified, target, email, verified, link, expired,
                 session>>

SendVerifyEmail(r) ==
  /\ r \in Tokens
  /\ pc[r] = "mail"
  /\ token' = [token EXCEPT ![r] = "mailed"]
  /\ Done(r, IF r \in Registers THEN "created" ELSE "ok")
  /\ UNCHANGED <<inputs, found, unverified, target, email, verified, link, expired,
                 session>>

\* The expiry of a link that was mailed and not followed yet.
Expire(t) ==
  /\ token[t] = "mailed"
  /\ t \notin expired
  /\ expired' = expired \union {t}
  /\ UNCHANGED <<inputs, pc, found, unverified, target, email, verified, link, token,
                 session, faults>>

(***************************************************************************)
(* VerifyEmail.                                                            *)
(***************************************************************************)
VerifyBegin(v) ==
  /\ v \in Verifies
  /\ pc[v] = "ready"
  /\ \E t \in Tokens :
       /\ token[t] \in {"mailed", "used"}
       /\ target' = [target EXCEPT ![v] = t]
  /\ Proceed(v, "lookup")
  /\ UNCHANGED <<inputs, found, unverified, email, verified, link, token, expired,
                 session>>

\* Mutation: the expiry is compared the wrong way round.
ActiveLate(t) == token[t] \in {"saved", "mailed"} /\ t \in expired

\* GetActiveByHash finds an unused token, and it has not expired.
Active(t) == token[t] \in {"saved", "mailed"} /\ t \notin expired

\* Mutation: the token is claimed before the address is verified.
VerifyLookupClaims(v) ==
  /\ v \in Verifies
  /\ pc[v] = "lookup"
  /\ Active(target[v])
  /\ token' = [token EXCEPT ![target[v]] = "used"]
  /\ Proceed(v, "apply")
  /\ UNCHANGED <<inputs, found, unverified, target, email, verified, link, expired,
                 session>>

VerifyLookup(v) ==
  /\ v \in Verifies
  /\ pc[v] = "lookup"
  /\ Active(target[v])
  /\ Proceed(v, "apply")
  /\ UNCHANGED <<inputs, found, unverified, target, email, verified, link, token,
                 expired, session>>

VerifyRefused(v) ==
  /\ v \in Verifies
  /\ pc[v] = "lookup"
  /\ ~Active(target[v])
  /\ Proceed(v, "unauthorized")
  /\ UNCHANGED <<inputs, found, unverified, target, email, verified, link, token,
                 expired, session>>

\* UpdateEmailVerifiedAt of the token's user.
VerifyApply(v) ==
  /\ v \in Verifies
  /\ pc[v] = "apply"
  /\ verified' = verified \union {found[target[v]]}
  /\ Done(v, "mark")
  /\ UNCHANGED <<inputs, found, unverified, target, email, link, token, expired,
                 session>>

\* Mutation: the UPDATE without `used_at IS NULL`.
VerifyMarkAgain(v) ==
  /\ v \in Verifies
  /\ pc[v] = "mark"
  /\ token' = [token EXCEPT ![target[v]] = "used"]
  /\ Done(v, "ok")
  /\ UNCHANGED <<inputs, found, unverified, target, email, verified, link, expired,
                 session>>

\* MarkUsedByHash: the UPDATE changes an unused row.
VerifyMark(v) ==
  /\ v \in Verifies
  /\ pc[v] = "mark"
  /\ token[target[v]] # "used"
  /\ token' = [token EXCEPT ![target[v]] = "used"]
  /\ Done(v, "ok")
  /\ UNCHANGED <<inputs, found, unverified, target, email, verified, link, expired,
                 session>>

VerifyMarked(v) ==
  /\ v \in Verifies
  /\ pc[v] = "mark"
  /\ token[target[v]] = "used"
  /\ Proceed(v, "error")
  /\ UNCHANGED <<inputs, found, unverified, target, email, verified, link, token,
                 expired, session>>

\* Told that it failed, the user follows the link again.
FollowAgain(v) ==
  /\ v \in Verifies
  /\ pc[v] \in {"unauthorized", "error"}
  /\ Proceed(v, "lookup")
  /\ UNCHANGED <<inputs, found, unverified, target, email, verified, link, token,
                 expired, session>>

(***************************************************************************)
(* LoginWithGoogle.                                                        *)
(***************************************************************************)
\* What the sign-in goes on with.
Recognise(r, a, s, vouches) ==
  /\ address' = [address EXCEPT ![r] = a]
  /\ subject' = [subject EXCEPT ![r] = s]
  /\ vouched' = IF vouches THEN vouched \union {r} ELSE vouched
  /\ Proceed(r, IF s = None THEN "email" ELSE "provider")
  /\ UNCHANGED <<found, unverified, target, email, verified, link, token, expired,
                 session>>

\* Mutation: EmailVerified is not looked at.
ExchangeAny(r) ==
  /\ r \in Googles
  /\ pc[r] = "exchange"
  /\ \E a \in Addresses, s \in Subjects \union {None}, vouches \in BOOLEAN :
       Recognise(r, a, s, vouches)

\* Google answers the account behind the code, and vouches for the address.
Exchange(r) ==
  /\ r \in Googles
  /\ pc[r] = "exchange"
  /\ \E a \in Addresses, s \in Subjects \union {None} : Recognise(r, a, s, TRUE)

\* It answers no address, or one that it does not vouch for.
ExchangeRefused(r) ==
  /\ r \in Googles
  /\ pc[r] = "exchange"
  /\ Proceed(r, "unauthorized")
  /\ UNCHANGED <<inputs, found, unverified, target, email, verified, link, token,
                 expired, session>>

\* GetUserIDByProvider.
LookupProvider(r) ==
  /\ r \in Googles
  /\ pc[r] = "provider"
  /\ found' = [found EXCEPT ![r] = link[subject[r]]]
  /\ Proceed(r, IF link[subject[r]] = None THEN "email" ELSE "user")
  /\ UNCHANGED <<inputs, unverified, target, email, verified, link, token, expired,
                 session>>

\* The copy of u that sign-in r goes on with.
Copy(r, u) ==
  unverified' = IF u \in verified THEN unverified \ {r} ELSE unverified \union {r}

\* GetByID.
LookupUser(r) ==
  /\ r \in Googles
  /\ pc[r] = "user"
  /\ Copy(r, found[r])
  /\ Proceed(r, IF found[r] \in verified THEN "issue" ELSE "stamp")
  /\ UNCHANGED <<inputs, found, target, email, verified, link, token, expired, session>>

\* Mutation: GetByEmail without its WHERE.
LookupAnyEmail(r) ==
  /\ r \in Googles
  /\ pc[r] = "email"
  /\ \E u \in {x \in Users : email[x] # None} :
       /\ found' = [found EXCEPT ![r] = u]
       /\ Copy(r, u)
  /\ Proceed(r, "link")
  /\ UNCHANGED <<inputs, target, email, verified, link, token, expired, session>>

\* GetByEmail.
LookupEmail(r) ==
  /\ r \in Googles
  /\ pc[r] = "email"
  /\ \E u \in Users :
       /\ email[u] = address[r]
       /\ found' = [found EXCEPT ![r] = u]
       /\ Copy(r, u)
  /\ Proceed(r, "link")
  /\ UNCHANGED <<inputs, target, email, verified, link, token, expired, session>>

LookupEmailMissing(r) ==
  /\ r \in Googles
  /\ pc[r] = "email"
  /\ ~Taken(address[r])
  /\ Proceed(r, "create")
  /\ UNCHANGED <<inputs, found, unverified, target, email, verified, link, token,
                 expired, session>>

\* Some other Google account is linked to u: UNIQUE (user_id, provider).
LinkedElsewhere(r, u) == \E s \in Subjects \ {subject[r]} : link[s] = u

\* The upsert of linkOAuthProvider: ON CONFLICT (provider, provider_user_id) the
\* row moves to the user.
Upsert(r, u) ==
  link' = [s \in Subjects |-> IF s = subject[r] THEN u ELSE link[s]]

AfterLink(r) == IF r \in unverified THEN "stamp" ELSE "issue"

\* Mutation: ON CONFLICT (user_id, provider): the user's other link is replaced.
LinkByUser(r) ==
  /\ r \in Googles
  /\ pc[r] = "link"
  /\ link' = [s \in Subjects |->
                IF s = subject[r] THEN found[r]
                ELSE IF link[s] = found[r] THEN None ELSE link[s]]
  /\ Done(r, AfterLink(r))
  /\ UNCHANGED <<inputs, found, unverified, target, email, verified, token, expired,
                 session>>

LinkFound(r) ==
  /\ r \in Googles
  /\ pc[r] = "link"
  /\ IF subject[r] = None THEN Proceed(r, AfterLink(r)) /\ UNCHANGED link
     ELSE /\ ~LinkedElsewhere(r, found[r])
          /\ Upsert(r, found[r])
          /\ Done(r, AfterLink(r))
  /\ UNCHANGED <<inputs, found, unverified, target, email, verified, token, expired,
                 session>>

LinkRefused(r) ==
  /\ r \in Googles
  /\ pc[r] = "link"
  /\ subject[r] # None
  /\ LinkedElsewhere(r, found[r])
  /\ Proceed(r, "error")
  /\ UNCHANGED <<inputs, found, unverified, target, email, verified, link, token,
                 expired, session>>

\* GenerateAccessToken: the claim says whether the copy has an EmailVerifiedAt.
EmailVerifiedClaim(r) == r \notin unverified

\* Mutation: the copy is not updated with the row.
StampRowOnly(r) ==
  /\ r \in Googles
  /\ pc[r] = "stamp"
  /\ verified' = verified \union {found[r]}
  /\ Done(r, "issue")
  /\ UNCHANGED <<inputs, found, unverified, target, email, link, token, expired,
                 session>>

\* UpdateEmailVerifiedAt of the user found, whatever its address.
Stamp(r) ==
  /\ r \in Googles
  /\ pc[r] = "stamp"
  /\ verified' = verified \union {found[r]}
  /\ unverified' = unverified \ {r}
  /\ Done(r, "issue")
  /\ UNCHANGED <<inputs, found, target, email, link, token, expired, session>>

\* issueTokens: the claims come from the copy.
Issue(r) ==
  /\ r \in Googles
  /\ pc[r] = "issue"
  /\ session' = [session EXCEPT ![r] = found[r]]
  /\ Done(r, "tokens")
  /\ UNCHANGED <<inputs, found, unverified, target, email, verified, link, token,
                 expired>>

\* Mutation: the address is not unique.
CreateDuplicate(r) ==
  /\ r \in Googles
  /\ pc[r] = "create"
  /\ InsertUser(r)
  /\ verified' = verified \union {r}
  /\ found' = [found EXCEPT ![r] = r]
  /\ session' = [session EXCEPT ![r] = r]
  /\ IF subject[r] = None THEN UNCHANGED link ELSE Upsert(r, r)
  /\ Done(r, "tokens")
  /\ UNCHANGED <<inputs, unverified, target, token, expired>>

\* Mutation: the link is not part of the transaction.
CreateLinksFirst(r) ==
  /\ r \in Googles
  /\ pc[r] = "create"
  /\ IF subject[r] = None THEN UNCHANGED link ELSE Upsert(r, r)
  /\ IF Taken(address[r])
     THEN /\ Proceed(r, "error")
          /\ UNCHANGED <<email, verified, found, session>>
     ELSE /\ InsertUser(r)
          /\ verified' = verified \union {r}
          /\ found' = [found EXCEPT ![r] = r]
          /\ session' = [session EXCEPT ![r] = r]
          /\ Done(r, "tokens")
  /\ UNCHANGED <<inputs, unverified, target, token, expired>>

\* createOAuthUser: the user, its refresh token and its link in one transaction.
CreateOAuthUser(r) ==
  /\ r \in Googles
  /\ pc[r] = "create"
  /\ ~Taken(address[r])
  /\ InsertUser(r)
  /\ verified' = verified \union {r}
  /\ found' = [found EXCEPT ![r] = r]
  /\ session' = [session EXCEPT ![r] = r]
  /\ IF subject[r] = None THEN UNCHANGED link ELSE Upsert(r, r)
  /\ Done(r, "tokens")
  /\ UNCHANGED <<inputs, unverified, target, token, expired>>

\* Another request inserted the address since the lookup.
CreateBeaten(r) ==
  /\ r \in Googles
  /\ pc[r] = "create"
  /\ Taken(address[r])
  /\ Proceed(r, "error")
  /\ UNCHANGED <<inputs, found, unverified, target, email, verified, link, token,
                 expired, session>>

\* A call fails without effect.
Fail(r) ==
  /\ pc[r] \in DOMAIN Fails(r)
  /\ Fault(r)
  /\ UNCHANGED <<inputs, found, unverified, target, email, verified, link, token,
                 expired, session>>

RegisterStep(r) == RegisterFetch(r) \/ RegisterInsert(r) \/ InsertTaken(r) \/ AddUser(r)
MailStep(r) ==
  ResendFetch(r) \/ ResendNothing(r) \/ SaveVerification(r) \/ SendVerifyEmail(r)
VerifyStep(v) ==
  VerifyLookup(v) \/ VerifyRefused(v) \/ VerifyApply(v) \/ VerifyMark(v) \/ VerifyMarked(v)
GoogleStep(r) ==
  \/ Exchange(r) \/ ExchangeRefused(r) \/ LookupProvider(r) \/ LookupUser(r) \/ LookupEmail(r)
  \/ LookupEmailMissing(r) \/ LinkFound(r) \/ LinkRefused(r) \/ Stamp(r) \/ Issue(r)
  \/ CreateOAuthUser(r) \/ CreateBeaten(r)

Next ==
  \/ \E r \in Requests :
       Receive(r) \/ RegisterStep(r) \/ MailStep(r) \/ VerifyStep(r) \/ GoogleStep(r)
         \/ Fail(r)
  \/ \E v \in Verifies : VerifyBegin(v) \/ FollowAgain(v)
  \/ \E t \in Tokens : Expire(t)

Spec == Init /\ [][Next]_vars

\* The server runs every request it has accepted to its answer, and the user who
\* is told that it failed follows the link again.
Fairness == \A v \in Verifies : WF_vars(VerifyStep(v) \/ FollowAgain(v))

FairSpec == Spec /\ Fairness

(***************************************************************************)
(* What holds however the requests interleave and fail.                    *)
(***************************************************************************)
\* The users that exist.
Rows == {u \in Users : email[u] # None}

\* Every variable ranges over its type, and every reference to a user is to a row.
TypeOK ==
  /\ address \in [Requests \ Verifies -> Addresses \union {None}]
  /\ subject \in [Googles -> Subjects \union {None}]
  /\ vouched \subseteq Googles
  /\ pc \in [Requests -> Calls \union Answers \union {"ready"}]
  /\ \A r \in Requests : pc[r] \in DOMAIN Fails(r) \union Answers \union {"ready"}
  /\ found \in [Requests \ Verifies -> Rows \union {None}]
  /\ unverified \subseteq Googles
  /\ target \in [Verifies -> Tokens \union {None}]
  /\ email \in [Users -> Addresses \union {None}]
  /\ verified \subseteq Rows
  /\ link \in [Subjects -> Rows \union {None}]
  /\ token \in [Tokens -> {"none", "saved", "mailed", "used"}]
  /\ expired \subseteq Tokens
  /\ session \in [Googles -> Rows \union {None}]
  /\ faults \in 0..MaxFaults

\* A Google sign-in opens a session of a user whose address Google has asserted
\* for this Google account, in this sign-in or an earlier one: no fault, race or
\* move of a link lets one person into another's account.
SignsInOwner ==
  \A r \in Googles : session[r] # None =>
    \E q \in vouched :
      subject[q] = subject[r] /\ address[q] = email[session[r]]

\* One Google account with one address is one user: however many first sign-ins
\* overlap, all their sessions are of the same user.
OneAccountPerSubject ==
  \A r, q \in Googles :
    /\ session[r] # None /\ session[q] # None
    /\ subject[r] = subject[q]
    /\ \A o \in vouched : subject[o] = subject[r] => address[o] = address[r]
    => session[r] = session[q]

\* The address of a user counts as verified only if Google vouched for it or the
\* link in a mail sent to it was followed.
VerifiedProven ==
  \A u \in verified :
    \/ \E r \in vouched : address[r] = email[u]
    \/ \E v \in Verifies :
         target[v] # None /\ found[target[v]] = u /\ address[target[v]] = email[u]

\* The tokens of a Google sign-in pass requireVerifiedEmail, and rightly so: their
\* claim is taken from a copy, and the copy keeps up with the row.
SignInTokenAccepted ==
  \A r \in Googles : pc[r] = "tokens" => EmailVerifiedClaim(r) /\ session[r] \in verified

\* Of the followers of one link at most one is told that it worked, although
\* each of them may have verified the address by then.
VerifySucceedsOnce ==
  \A v, w \in Verifies : pc[v] = "ok" /\ pc[w] = "ok" /\ target[v] = target[w] => v = w

\* A link is spent only once its user is verified, whichever call fails.
UsedMeansVerified == \A t \in Tokens : token[t] = "used" => found[t] \in verified

\* A Google account stays with its user, unless Google has asserted two
\* addresses for it.
LinkStable ==
  [][\A s \in Subjects : link[s] # None /\ link'[s] # link[s] =>
       \E r, q \in vouched :
         /\ subject[r] = s /\ subject[q] = s
         /\ address[r] # address[q]]_vars

\* Whoever follows a link, again and again if need be, gets the address verified
\* unless the link expires, however calls fail meanwhile.
PresentedLinkVerifies ==
  \A v \in Verifies :
    pc[v] = "lookup" ~>
      \E t \in Tokens : target[v] = t /\ (found[t] \in verified \/ t \in expired)
=============================================================================
