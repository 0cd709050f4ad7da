---------------------------- MODULE SignUpProofs ----------------------------
(***************************************************************************)
(* Proofs about SignUp, for any requests, addresses, Google accounts and   *)
(* number of failures.  The argument has two layers: the step facts say    *)
(* what a step can do to users, links and copies, whichever action it is   *)
(* and whichever of its calls fails, and the invariants follow from them.  *)
(***************************************************************************)
EXTENDS SignUp, TLAPS

\* A request that may still insert its user has not done so.
Unborn ==
  \A r \in Users :
    pc[r] \in {"ready", "fetch", "insert", "exchange", "provider", "user", "email", "create"}
      => email[r] = None

\* A request that has begun has an address, and so has one that Google answered.
Addressed ==
  /\ \A r \in Registers \union Additions \union Resends :
       pc[r] # "ready" => address[r] \in Addresses
  /\ \A r \in vouched : address[r] \in Addresses

\* The addresses of the users differ.
AddressesUnique ==
  \A u, w \in Users : email[u] # None /\ email[u] = email[w] => u = w

\* What Google has answered a sign-in, and whom it has found.
GoogleAt(r) ==
  /\ pc[r] \in {"ready", "exchange"} =>
       r \notin vouched /\ found[r] = None /\ session[r] = None
  /\ pc[r] \in {"provider", "user", "email", "link", "create", "stamp", "issue"} =>
       r \in vouched
  /\ pc[r] = "provider" => subject[r] # None
  /\ pc[r] \in {"user", "link", "stamp", "issue"} => found[r] # None
  /\ pc[r] = "link" => address[r] = email[found[r]]
GoogleState == \A r \in Googles : GoogleAt(r)

\* Google has asserted the address of u for the account s.
Asserted(s, u) == \E q \in vouched : subject[q] = s /\ address[q] = email[u]

LinkProven == \A s \in Subjects : link[s] # None => Asserted(s, link[s])
Recognised(r) == found[r] # None => Asserted(subject[r], found[r])
FoundProven == \A r \in Googles : Recognised(r)

\* The copy of a sign-in keeps up with the row.
CopyAt(r) ==
  /\ r \in unverified => pc[r] \in {"link", "stamp", "error"}
  /\ pc[r] = "link" /\ r \notin unverified => found[r] \in verified
  /\ pc[r] = "issue" => found[r] \in verified
  /\ pc[r] = "tokens" => session[r] \in verified
Copies == \A r \in Googles : CopyAt(r)

\* A token is drawn for the user of the address it is mailed to.
MailAt(t) ==
  /\ pc[t] \in {"ready", "fetch", "insert"} => found[t] = None
  /\ pc[t] \in {"ready", "fetch", "insert", "save"} => token[t] = "none"
  /\ pc[t] \in {"save", "mail"} => found[t] # None
  /\ pc[t] = "mail" => token[t] = "saved"
  /\ token[t] # "none" => found[t] # None
  /\ found[t] # None => address[t] = email[found[t]]
Mails == \A t \in Tokens : MailAt(t)

\* A follower presents a token that was mailed.
FollowAt(v) ==
  /\ pc[v] = "ready" => target[v] = None
  /\ pc[v] # "ready" => target[v] \in Tokens /\ token[target[v]] \in {"mailed", "used"}
  /\ pc[v] = "mark" => found[target[v]] \in verified
  /\ pc[v] = "ok" => token[target[v]] = "used"
Follows == \A v \in Verifies : FollowAt(v)

IInv ==
  /\ TypeOK
  /\ Unborn
  /\ Addressed
  /\ AddressesUnique
  /\ GoogleState
  /\ LinkProven
  /\ FoundProven
  /\ SignsInOwner
  /\ Copies
  /\ Mails
  /\ Follows
  /\ UsedMeansVerified
  /\ VerifySucceedsOnce
  /\ VerifiedProven

(***************************************************************************)
(* What comes after a call that fails.                                     *)
(***************************************************************************)
\* The kinds of requests are disjoint, so each has its own table.
LEMMA FailsTable ==
  /\ \A r \in Registers :
       /\ DOMAIN Fails(r) = {"fetch", "insert", "save", "mail"}
       /\ Fails(r)["fetch"] = "insert" /\ Fails(r)["insert"] = "error"
       /\ Fails(r)["save"] = "created" /\ Fails(r)["mail"] = "created"
  /\ \A r \in Additions : DOMAIN Fails(r) = {"insert"} /\ Fails(r)["insert"] = "error"
  /\ \A r \in Resends :
       /\ DOMAIN Fails(r) = {"fetch", "save", "mail"}
       /\ Fails(r)["fetch"] = "ok" /\ Fails(r)["save"] = "error" /\ Fails(r)["mail"] = "error"
  /\ \A r \in Verifies :
       /\ DOMAIN Fails(r) = {"lookup", "apply", "mark"}
       /\ Fails(r)["lookup"] = "unauthorized" /\ Fails(r)["apply"] = "unauthorized"
       /\ Fails(r)["mark"] = "error"
  /\ \A r \in Googles :
       /\ DOMAIN Fails(r) = {"exchange", "provider", "user", "email", "link", "create",
                             "stamp", "issue"}
       /\ Fails(r)["provider"] = "email" /\ Fails(r)["user"] = "email"
       /\ \A c \in {"exchange", "email", "link", "create", "stamp", "issue"} :
            Fails(r)[c] = "error"
<1>1. \A r \in Registers : Fails(r) = RegisterFails
  BY KindsDisjoint DEF Fails
<1>2. \A r \in Additions : Fails(r) = AdditionFails
  BY KindsDisjoint DEF Fails
<1>3. \A r \in Resends : Fails(r) = ResendFails
  BY KindsDisjoint DEF Fails
<1>4. \A r \in Verifies : Fails(r) = VerifyFails
  BY KindsDisjoint DEF Fails
<1>5. \A r \in Googles : Fails(r) = GoogleFails
  BY KindsDisjoint DEF Fails
<1>6. QED
  BY <1>1, <1>2, <1>3, <1>4, <1>5
     DEF RegisterFails, AdditionFails, ResendFails, VerifyFails, GoogleFails

(***************************************************************************)
(* What a step of one request can do.                                      *)
(***************************************************************************)
Step(r) ==
  \/ Receive(r) \/ RegisterStep(r) \/ MailStep(r) \/ VerifyStep(r) \/ GoogleStep(r)
  \/ Fail(r)
  \/ /\ r \in Verifies
     /\ VerifyBegin(r) \/ FollowAgain(r)

LEMMA NextSteps ==
  ASSUME Next
  PROVE  (\E r \in Requests : Step(r)) \/ (\E t \in Tokens : Expire(t))
  BY DEF Next, Step, Requests

\* What the step facts need of the strengthening.
Base == TypeOK /\ Unborn /\ Addressed /\ GoogleState /\ Mails /\ Follows

Early == {"ready", "fetch", "insert", "exchange", "provider", "user", "email", "create"}

\* A step moves its own request only, to a call of its own or to an answer.
Moves(r) ==
  /\ pc' = [pc EXCEPT ![r] = pc'[r]]
  /\ pc'[r] \in Calls \union Answers
  /\ pc'[r] \in DOMAIN Fails(r) \union Answers
  /\ faults' \in 0..MaxFaults
  /\ r \in Users /\ pc'[r] \in Early => pc[r] \in Early

LEMMA MovesStep ==
  ASSUME Base, NEW r \in Requests, Step(r)
  PROVE  Moves(r)
<1> USE FailsTable, MaxFaultsAssumption
    DEF Base, TypeOK, Moves, Proceed, Done, Fault, Goto, Calls, Answers, Early
<1>1. CASE Receive(r)
  <2>1. First(r) \in Calls /\ First(r) \in DOMAIN Fails(r)
    BY <1>1, KindsDisjoint DEF Receive, First, Users
  <2>2. QED
    BY <1>1, <2>1 DEF Receive, Users, Requests
<1>2. CASE RegisterStep(r)
  <2>1. CASE RegisterFetch(r)
    BY <2>1 DEF RegisterFetch
  <2>2. CASE InsertTaken(r)
    BY <2>2 DEF InsertTaken
  <2>3. CASE RegisterInsert(r)
    BY <2>3 DEF RegisterInsert
  <2>4. CASE AddUser(r)
    BY <2>4 DEF AddUser
  <2>5. QED
    BY <1>2, <2>1, <2>2, <2>3, <2>4 DEF RegisterStep
<1>3. CASE MailStep(r)
  <2>1. CASE ResendFetch(r)
    BY <2>1, KindsDisjoint DEF ResendFetch, Users
  <2>2. CASE ResendNothing(r)
    BY <2>2 DEF ResendNothing
  <2>3. CASE SaveVerification(r)
    BY <2>3 DEF SaveVerification, Tokens
  <2>4. CASE SendVerifyEmail(r)
    BY <2>4 DEF SendVerifyEmail, Tokens
  <2>5. QED
    BY <1>3, <2>1, <2>2, <2>3, <2>4 DEF MailStep
<1>4. CASE VerifyStep(r)
  <2>1. CASE VerifyLookup(r)
    BY <2>1 DEF VerifyLookup
  <2>2. CASE VerifyRefused(r)
    BY <2>2 DEF VerifyRefused
  <2>3. CASE VerifyApply(r)
    BY <2>3 DEF VerifyApply
  <2>4. CASE VerifyMark(r)
    BY <2>4 DEF VerifyMark
  <2>5. CASE VerifyMarked(r)
    BY <2>5 DEF VerifyMarked
  <2>6. QED
    BY <1>4, <2>1, <2>2, <2>3, <2>4, <2>5 DEF VerifyStep
<1>5. CASE GoogleStep(r)
  <2>1. CASE Exchange(r)
    BY <2>1 DEF Exchange, Recognise
  <2>2. CASE ExchangeRefused(r) \/ LookupProvider(r) \/ LookupUser(r)
    BY <2>2 DEF ExchangeRefused, LookupProvider, LookupUser
  <2>3. CASE LookupEmail(r) \/ LookupEmailMissing(r)
    BY <2>3 DEF LookupEmail, LookupEmailMissing
  <2>4. CASE LinkFound(r) \/ LinkRefused(r)
    BY <2>4 DEF LinkFound, LinkRefused, AfterLink
  <2>5. CASE Stamp(r) \/ Issue(r)
    BY <2>5 DEF Stamp, Issue
  <2>6. CASE CreateOAuthUser(r) \/ CreateBeaten(r)
    BY <2>6 DEF CreateOAuthUser, CreateBeaten
  <2>7. QED
    BY <1>5, <2>1, <2>2, <2>3, <2>4, <2>5, <2>6 DEF GoogleStep
<1>6. CASE Fail(r)
  <2>1. CASE r \in Registers
    BY <1>6, <2>1 DEF Fail
  <2>2. CASE r \in Additions
    BY <1>6, <2>2 DEF Fail
  <2>3. CASE r \in Resends
    BY <1>6, <2>3 DEF Fail
  <2>4. CASE r \in Verifies
    BY <1>6, <2>4, KindsDisjoint DEF Fail, Users
  <2>5. CASE r \in Googles
    BY <1>6, <2>5 DEF Fail
  <2>6. QED
    BY <2>1, <2>2, <2>3, <2>4, <2>5 DEF Requests, Users
<1>7. CASE r \in Verifies /\ (VerifyBegin(r) \/ FollowAgain(r))
  BY <1>7, KindsDisjoint DEF VerifyBegin, FollowAgain, Users
<1>8. QED
  BY <1>1, <1>2, <1>3, <1>4, <1>5, <1>6, <1>7 DEF Step

\* A step inserts at most its own user, under an address that nobody has.
Inserts(r) ==
  \/ UNCHANGED email
  \/ /\ r \in Users
     /\ pc[r] \in {"insert", "create"}
     /\ pc'[r] \notin Early
     /\ ~Taken(address[r])
     /\ address[r] \in Addresses
     /\ email' = [email EXCEPT ![r] = address[r]]
     /\ UNCHANGED inputs

LEMMA InsertsStep ==
  ASSUME Base, NEW r \in Requests, Step(r)
  PROVE  Inserts(r)
<1> USE DEF Inserts
<1>1. CASE \/ Receive(r) \/ MailStep(r) \/ VerifyStep(r) \/ Fail(r)
           \/ VerifyBegin(r) \/ FollowAgain(r)
  BY <1>1 DEF Receive, MailStep, ResendFetch, ResendNothing, SaveVerification,
              SendVerifyEmail, VerifyStep, VerifyLookup, VerifyRefused, VerifyApply,
              VerifyMark, VerifyMarked, Fail, VerifyBegin, FollowAgain
<1>2. CASE RegisterStep(r)
  <2>1. CASE RegisterFetch(r) \/ InsertTaken(r)
    BY <2>1 DEF RegisterFetch, InsertTaken
  <2>2. CASE RegisterInsert(r) \/ AddUser(r)
    BY <2>2, FailsTable
       DEF RegisterInsert, AddUser, InsertUser, Base, TypeOK, Addressed, Users, Early,
           Done, Fault, Goto
  <2>3. QED
    BY <1>2, <2>1, <2>2 DEF RegisterStep
<1>3. CASE GoogleStep(r)
  <2>1. CASE CreateOAuthUser(r)
    BY <2>1, FailsTable
       DEF CreateOAuthUser, InsertUser, Base, TypeOK, Addressed, GoogleState, GoogleAt, Users, Early,
           Done, Fault, Goto
  <2>2. CASE ~CreateOAuthUser(r)
    BY <1>3, <2>2
       DEF GoogleStep, Exchange, Recognise, ExchangeRefused, LookupProvider, LookupUser,
           LookupEmail, LookupEmailMissing, LinkFound, LinkRefused, Stamp, Issue,
           CreateBeaten
  <2>3. QED
    BY <2>1, <2>2
<1>4. QED
  BY <1>1, <1>2, <1>3 DEF Step

\* The users that exist stay as they are.
LEMMA RowsKept ==
  ASSUME Base, NEW r \in Requests, Inserts(r)
  PROVE  /\ \A u \in Users : email[u] # None => email'[u] = email[u]
         /\ Rows \subseteq Rows'
  BY NoneAssumption DEF Base, TypeOK, Unborn, Inserts, Rows

\* A step binds at most its own request's inputs, and Google answers once.
Binds(r) ==
  /\ address' \in [Requests \ Verifies -> Addresses \union {None}]
  /\ subject' \in [Googles -> Subjects \union {None}]
  /\ vouched \subseteq vouched'
  /\ vouched' \subseteq Googles \intersect (vouched \union {r})
  /\ \A q \in Requests \ Verifies :
       q # r \/ pc[q] \notin {"ready", "exchange"} => address'[q] = address[q]
  /\ \A q \in Googles : q # r \/ pc[q] # "exchange" => subject'[q] = subject[q]
  /\ Addressed'

LEMMA BindsStep ==
  ASSUME Base, NEW r \in Requests, Step(r), Moves(r)
  PROVE  Binds(r)
<1> USE DEF Base, TypeOK, Binds, Addressed
<1>1. CASE Receive(r)
  <2>1. CASE r \in Googles
    BY <1>1, <2>1, KindsDisjoint DEF Receive, Requests, Users, Moves
  <2>2. CASE r \notin Googles
    <3>1. PICK a \in Addresses : address' = [address EXCEPT ![r] = a]
      BY <1>1, <2>2 DEF Receive
    <3>2. r \in Requests \ Verifies /\ UNCHANGED <<subject, vouched>> /\ pc[r] = "ready"
      BY <1>1, KindsDisjoint DEF Receive, Requests, Users
    <3>3. QED
      BY <2>2, <3>1, <3>2, KindsDisjoint DEF Requests, Users, Moves
  <2>3. QED
    BY <2>1, <2>2
<1>2. CASE Exchange(r)
  <2>1. PICK a \in Addresses, s \in Subjects \union {None} :
          /\ address' = [address EXCEPT ![r] = a]
          /\ subject' = [subject EXCEPT ![r] = s]
          /\ vouched' = vouched \union {r}
    BY <1>2 DEF Exchange, Recognise
  <2>2. r \in Googles /\ pc[r] = "exchange"
    BY <1>2 DEF Exchange
  <2>3. QED
    BY <2>1, <2>2, KindsDisjoint DEF Requests, Users, Moves
<1>3. CASE ~Receive(r) /\ ~Exchange(r)
  <2>1. UNCHANGED inputs
    BY <1>3
       DEF Step, RegisterStep, RegisterFetch, RegisterInsert, InsertTaken, AddUser, MailStep,
           ResendFetch, ResendNothing, SaveVerification, SendVerifyEmail, VerifyStep,
           VerifyLookup, VerifyRefused, VerifyApply, VerifyMark, VerifyMarked, GoogleStep,
           ExchangeRefused, LookupProvider, LookupUser, LookupEmail, LookupEmailMissing,
           LinkFound, LinkRefused, Stamp, Issue, CreateOAuthUser, CreateBeaten, Fail,
           VerifyBegin, FollowAgain
  <2>2. pc[r] # "ready" \/ r \in Verifies
    BY <1>3, FailsTable
       DEF Step, RegisterStep, RegisterFetch, RegisterInsert, InsertTaken, AddUser, MailStep,
           ResendFetch, ResendNothing, SaveVerification, SendVerifyEmail, VerifyStep,
           VerifyLookup, VerifyRefused, VerifyApply, VerifyMark, VerifyMarked, GoogleStep,
           ExchangeRefused, LookupProvider, LookupUser, LookupEmail, LookupEmailMissing,
           LinkFound, LinkRefused, Stamp, Issue, CreateOAuthUser, CreateBeaten, Fail,
           VerifyBegin, FollowAgain, Requests, Users
  <2>3. QED
    BY <2>1, <2>2, KindsDisjoint DEF inputs, Moves, Requests, Users
<1>4. QED
  BY <1>1, <1>2, <1>3

\* What Google has asserted of an account and a user that exists, it has for good.
LEMMA AssertedKept ==
  ASSUME Base, NEW r \in Requests, Inserts(r), Binds(r),
         NEW s, NEW u \in Rows, Asserted(s, u)
  PROVE  Asserted(s, u)'
<1>1. PICK q \in vouched : subject[q] = s /\ address[q] = email[u]
  BY DEF Asserted
<1>2. q \in Googles /\ pc[q] \notin {"ready", "exchange"}
  BY DEF Base, TypeOK, GoogleState, GoogleAt
<1>3. email'[u] = email[u]
  BY RowsKept DEF Rows
<1>4. q \in vouched' /\ address'[q] = address[q] /\ subject'[q] = subject[q]
  BY <1>2, KindsDisjoint DEF Binds, Requests, Users
<1>5. QED
  BY <1>1, <1>3, <1>4 DEF Asserted

\* A step reads or inserts a user for its own request: a sign-in, one whose address
\* Google has asserted; a request for a mail, one that has the address.
Finds(r) ==
  \/ UNCHANGED found
  \/ /\ r \in Requests \ Verifies
     /\ found' = [found EXCEPT ![r] = found'[r]]
     /\ found'[r] \in Rows' \union {None}
     /\ pc[r] \in {"fetch", "insert", "provider", "email", "create"}
     /\ r \in Googles => Recognised(r)'
     /\ r \in Googles => UNCHANGED inputs
     /\ r \in Tokens => address'[r] = email'[found'[r]] /\ found'[r] # None /\ pc'[r] # "fetch"

LEMMA FindsStep ==
  ASSUME Base, LinkProven, NEW r \in Requests, Step(r), Moves(r), Inserts(r), Binds(r)
  PROVE  Finds(r)
<1> USE DEF Finds
<1>1. CASE RegisterInsert(r)
  <2>1. r \in Registers /\ r \notin Googles /\ r \in Requests \ Verifies /\ r \in Users
    BY <1>1, KindsDisjoint DEF RegisterInsert, Requests, Users
  <2>2. address[r] \in Addresses /\ email'[r] = address[r] /\ UNCHANGED address
    BY <1>1, <2>1 DEF RegisterInsert, InsertUser, Base, TypeOK, Addressed, inputs
  <2>3. found' = [found EXCEPT ![r] = r] /\ found'[r] = r /\ pc[r] = "insert" /\ pc'[r] # "fetch"
    BY <1>1, <2>1, FailsTable
       DEF RegisterInsert, Base, TypeOK, Done, Fault, Goto
  <2>4. r \in Rows' /\ r # None
    BY <2>1, <2>2, NoneAssumption DEF Rows, Requests
  <2>5. QED
    BY <2>1, <2>2, <2>3, <2>4
<1>2. CASE ResendFetch(r)
  <2>1. PICK u \in Users : email[u] = address[r] /\ found' = [found EXCEPT ![r] = u]
    BY <1>2 DEF ResendFetch
  <2>2. /\ r \in Resends /\ r \notin Googles /\ r \in Requests \ Verifies
        /\ pc[r] = "fetch" /\ pc'[r] = "save" /\ UNCHANGED <<address, email>>
    BY <1>2, KindsDisjoint DEF ResendFetch, Requests, Users, Proceed, Goto, inputs, Base, TypeOK
  <2>3. address[r] \in Addresses
    BY <2>2 DEF Base, Addressed
  <2>4. u \in Rows' /\ u # None
    BY <2>1, <2>2, <2>3, NoneAssumption DEF Rows, Requests
  <2>5. QED
    BY <2>1, <2>2, <2>4 DEF Base, TypeOK
<1>3. CASE LookupProvider(r)
  <2>1. /\ r \in Googles /\ r \notin Tokens /\ r \in Requests \ Verifies
        /\ pc[r] = "provider" /\ UNCHANGED <<inputs, email>>
    BY <1>3, KindsDisjoint DEF LookupProvider, Requests, Users, Tokens
  <2>2. subject[r] \in Subjects
    BY <2>1 DEF Base, TypeOK, GoogleState, GoogleAt
  <2>3. found' = [found EXCEPT ![r] = link[subject[r]]] /\ found'[r] = link[subject[r]]
    BY <1>3, <2>1 DEF LookupProvider, Base, TypeOK
  <2>4. found'[r] \in Rows' \union {None}
    BY <2>1, <2>2, <2>3 DEF Base, TypeOK, Rows
  <2>5. Recognised(r)'
    BY <2>1, <2>2, <2>3 DEF LinkProven, Recognised, Asserted, inputs
  <2>6. QED
    BY <2>1, <2>3, <2>4, <2>5
<1>4. CASE LookupEmail(r)
  <2>1. PICK u \in Users : email[u] = address[r] /\ found' = [found EXCEPT ![r] = u]
    BY <1>4 DEF LookupEmail
  <2>2. /\ r \in Googles /\ r \notin Tokens /\ r \in Requests \ Verifies
        /\ pc[r] = "email" /\ UNCHANGED <<inputs, email>>
    BY <1>4, KindsDisjoint DEF LookupEmail, Requests, Users, Tokens
  <2>3. r \in vouched /\ address[r] \in Addresses
    BY <2>2 DEF Base, GoogleState, GoogleAt, Addressed
  <2>4. u \in Rows' /\ found'[r] = u
    BY <2>1, <2>2, <2>3, NoneAssumption DEF Rows, Base, TypeOK
  <2>5. Recognised(r)'
    BY <2>1, <2>2, <2>3, <2>4 DEF Recognised, Asserted, inputs
  <2>6. QED
    BY <2>1, <2>2, <2>4, <2>5
<1>5. CASE CreateOAuthUser(r)
  <2>1. /\ r \in Googles /\ r \notin Tokens /\ r \in Requests \ Verifies /\ r \in Users
        /\ pc[r] = "create" /\ UNCHANGED inputs
    BY <1>5, KindsDisjoint DEF CreateOAuthUser, Requests, Users, Tokens
  <2>2. r \in vouched /\ address[r] \in Addresses
    BY <2>1 DEF Base, GoogleState, GoogleAt, Addressed
  <2>3. email'[r] = address[r] /\ found' = [found EXCEPT ![r] = r] /\ found'[r] = r
    BY <1>5, <2>1 DEF CreateOAuthUser, InsertUser, Base, TypeOK
  <2>4. r \in Rows'
    BY <2>1, <2>2, <2>3, NoneAssumption DEF Rows, Requests
  <2>5. Recognised(r)'
    BY <2>1, <2>2, <2>3, <2>4 DEF Recognised, Asserted, inputs
  <2>6. QED
    BY <2>1, <2>3, <2>4, <2>5
<1>6. CASE /\ ~RegisterInsert(r) /\ ~ResendFetch(r) /\ ~LookupProvider(r)
           /\ ~LookupEmail(r) /\ ~CreateOAuthUser(r)
  BY <1>6
     DEF Step, Receive, RegisterStep, RegisterFetch, InsertTaken, AddUser, MailStep,
         ResendNothing, SaveVerification, SendVerifyEmail, VerifyStep, VerifyLookup,
         VerifyRefused, VerifyApply, VerifyMark, VerifyMarked, GoogleStep, Exchange,
         Recognise, ExchangeRefused, LookupUser, LookupEmailMissing, LinkFound,
         LinkRefused, Stamp, Issue, CreateBeaten, Fail, VerifyBegin, FollowAgain
<1>7. QED
  BY <1>1, <1>2, <1>3, <1>4, <1>5, <1>6

\* A step links at most its own Google account, and to a user of the address that
\* Google has answered it.
Links(r) ==
  \/ UNCHANGED link
  \/ /\ r \in Googles
     /\ pc[r] \in {"link", "create"}
     /\ subject[r] \in Subjects
     /\ found'[r] \in Rows'
     /\ email'[found'[r]] = address[r]
     /\ pc[r] = "link" => UNCHANGED <<email, found>>
     /\ pc[r] = "create" => email[found'[r]] = None /\ ~Taken(address[r])
     /\ UNCHANGED inputs
     /\ link' = [s \in Subjects |-> IF s = subject[r] THEN found'[r] ELSE link[s]]

LEMMA LinksStep ==
  ASSUME Base, NEW r \in Requests, Step(r), Moves(r)
  PROVE  Links(r)
<1> USE DEF Links
<1>1. CASE LinkFound(r)
  <2>1. CASE subject[r] = None
    BY <1>1, <2>1 DEF LinkFound
  <2>2. CASE subject[r] # None
    <3>1. r \in Googles /\ pc[r] = "link" /\ UNCHANGED <<email, found>> /\ UNCHANGED inputs
      BY <1>1 DEF LinkFound
    <3>2. found[r] \in Rows /\ email[found[r]] = address[r]
      BY <3>1, KindsDisjoint DEF Base, TypeOK, GoogleState, GoogleAt, Requests, Users
    <3>3. Upsert(r, found[r])
      BY <1>1, <2>2 DEF LinkFound
    <3>4. QED
      BY <2>2, <3>1, <3>2, <3>3 DEF Upsert, Base, TypeOK, Rows
  <2>3. QED
    BY <2>1, <2>2
<1>2. CASE CreateOAuthUser(r)
  <2>1. CASE subject[r] = None
    BY <1>2, <2>1 DEF CreateOAuthUser
  <2>2. CASE subject[r] # None
    <3>1. /\ r \in Googles /\ r \in Users /\ pc[r] = "create" /\ UNCHANGED inputs
          /\ r \in Requests \ Verifies /\ ~Taken(address[r])
      BY <1>2, KindsDisjoint DEF CreateOAuthUser, Users, Requests
    <3>2. address[r] \in Addresses /\ email[r] = None
      BY <3>1 DEF Base, GoogleState, GoogleAt, Addressed, Unborn
    <3>3. found'[r] = r /\ email'[r] = address[r]
      BY <1>2, <3>1 DEF CreateOAuthUser, InsertUser, Base, TypeOK
    <3>4. r \in Rows'
      BY <3>1, <3>2, <3>3, NoneAssumption DEF Rows, Requests
    <3>5. Upsert(r, r)
      BY <1>2, <2>2 DEF CreateOAuthUser
    <3>6. QED
      BY <2>2, <3>1, <3>2, <3>3, <3>4, <3>5 DEF Upsert, Base, TypeOK
  <2>3. QED
    BY <2>1, <2>2
<1>3. CASE ~LinkFound(r) /\ ~CreateOAuthUser(r)
  BY <1>3
     DEF Step, Receive, RegisterStep, RegisterFetch, RegisterInsert, InsertTaken, AddUser,
         MailStep, ResendFetch, ResendNothing, SaveVerification, SendVerifyEmail, VerifyStep,
         VerifyLookup, VerifyRefused, VerifyApply, VerifyMark, VerifyMarked, GoogleStep,
         Exchange, Recognise, ExchangeRefused, LookupProvider, LookupUser, LookupEmail,
         LookupEmailMissing, LinkRefused, Stamp, Issue, CreateBeaten, Fail, VerifyBegin,
         FollowAgain
<1>4. QED
  BY <1>1, <1>2, <1>3

\* A step verifies a user that it has found, or whose link it follows.
Stamps(r) ==
  \/ UNCHANGED verified
  \/ /\ r \in Googles
     /\ pc[r] \in {"stamp", "create"}
     /\ found'[r] \in Rows'
     /\ verified' = verified \union {found'[r]}
  \/ /\ r \in Verifies
     /\ pc[r] = "apply"
     /\ UNCHANGED <<found, target, email>>
     /\ target[r] \in Tokens
     /\ found[target[r]] \in Rows
     /\ verified' = verified \union {found[target[r]]}

LEMMA StampsStep ==
  ASSUME Base, NEW r \in Requests, Step(r), Moves(r), Inserts(r)
  PROVE  Stamps(r)
<1> USE DEF Stamps
<1>1. CASE VerifyApply(r)
  <2>1. /\ r \in Verifies /\ pc[r] = "apply" /\ UNCHANGED <<found, target, email>>
        /\ verified' = verified \union {found[target[r]]}
    BY <1>1 DEF VerifyApply
  <2>2. target[r] \in Tokens /\ token[target[r]] # "none"
    BY <2>1 DEF Base, Follows, FollowAt
  <2>3. found[target[r]] \in Rows
    BY <2>2, KindsDisjoint DEF Base, Mails, MailAt, TypeOK, Tokens, Requests, Users
  <2>4. QED
    BY <2>1, <2>2, <2>3
<1>2. CASE Stamp(r)
  <2>1. /\ r \in Googles /\ pc[r] = "stamp" /\ UNCHANGED found /\ UNCHANGED email
        /\ verified' = verified \union {found[r]}
    BY <1>2 DEF Stamp
  <2>2. found[r] \in Rows
    BY <2>1, KindsDisjoint DEF Base, TypeOK, GoogleState, GoogleAt, Requests, Users
  <2>3. QED
    BY <2>1, <2>2 DEF Rows
<1>3. CASE CreateOAuthUser(r)
  <2>1. r \in Googles /\ r \in Users /\ r \in Requests \ Verifies /\ pc[r] = "create"
    BY <1>3, KindsDisjoint DEF CreateOAuthUser, Users, Requests
  <2>2. address[r] \in Addresses
    BY <2>1 DEF Base, GoogleState, GoogleAt, Addressed
  <2>3. found'[r] = r /\ email'[r] = address[r] /\ verified' = verified \union {r}
    BY <1>3, <2>1 DEF CreateOAuthUser, InsertUser, Base, TypeOK
  <2>4. QED
    BY <2>1, <2>2, <2>3, NoneAssumption DEF Rows
<1>4. CASE ~VerifyApply(r) /\ ~Stamp(r) /\ ~CreateOAuthUser(r)
  BY <1>4
     DEF Step, Receive, RegisterStep, RegisterFetch, RegisterInsert, InsertTaken, AddUser,
         MailStep, ResendFetch, ResendNothing, SaveVerification, SendVerifyEmail, VerifyStep,
         VerifyLookup, VerifyRefused, VerifyMark, VerifyMarked, GoogleStep, Exchange,
         Recognise, ExchangeRefused, LookupProvider, LookupUser, LookupEmail,
         LookupEmailMissing, LinkFound, LinkRefused, Issue, CreateBeaten, Fail, VerifyBegin,
         FollowAgain
<1>5. QED
  BY <1>1, <1>2, <1>3, <1>4

\* A step opens at most its own session, with the user that it has found.
Opens(r) ==
  \/ UNCHANGED session
  \/ /\ r \in Googles
     /\ pc[r] \in {"issue", "create"}
     /\ found'[r] \in Rows'
     /\ session' = [session EXCEPT ![r] = found'[r]]

LEMMA OpensStep ==
  ASSUME Base, NEW r \in Requests, Step(r), Moves(r)
  PROVE  Opens(r)
<1> USE DEF Opens
<1>1. CASE Issue(r)
  <2>1. /\ r \in Googles /\ pc[r] = "issue" /\ UNCHANGED <<found, email>>
        /\ session' = [session EXCEPT ![r] = found[r]]
    BY <1>1 DEF Issue
  <2>2. found[r] \in Rows
    BY <2>1, KindsDisjoint DEF Base, TypeOK, GoogleState, GoogleAt, Requests, Users
  <2>3. QED
    BY <2>1, <2>2 DEF Rows
<1>2. CASE CreateOAuthUser(r)
  <2>1. r \in Googles /\ r \in Users /\ r \in Requests \ Verifies /\ pc[r] = "create"
    BY <1>2, KindsDisjoint DEF CreateOAuthUser, Users, Requests
  <2>2. address[r] \in Addresses
    BY <2>1 DEF Base, GoogleState, GoogleAt, Addressed
  <2>3. found'[r] = r /\ email'[r] = address[r] /\ session' = [session EXCEPT ![r] = r]
    BY <1>2, <2>1 DEF CreateOAuthUser, InsertUser, Base, TypeOK
  <2>4. QED
    BY <2>1, <2>2, <2>3, NoneAssumption DEF Rows
<1>3. CASE ~Issue(r) /\ ~CreateOAuthUser(r)
  BY <1>3
     DEF Step, Receive, RegisterStep, RegisterFetch, RegisterInsert, InsertTaken, AddUser,
         MailStep, ResendFetch, ResendNothing, SaveVerification, SendVerifyEmail, VerifyStep,
         VerifyLookup, VerifyRefused, VerifyApply, VerifyMark, VerifyMarked, GoogleStep,
         Exchange, Recognise, ExchangeRefused, LookupProvider, LookupUser, LookupEmail,
         LookupEmailMissing, LinkFound, LinkRefused, Stamp, CreateBeaten, Fail, VerifyBegin,
         FollowAgain
<1>4. QED
  BY <1>1, <1>2, <1>3

\* A step saves or mails its own token, or uses the one that it follows.
Draws(r) ==
  \/ UNCHANGED token
  \/ r \in Tokens /\ pc[r] = "save" /\ token' = [token EXCEPT ![r] = "saved"]
  \/ r \in Tokens /\ pc[r] = "mail" /\ token' = [token EXCEPT ![r] = "mailed"]
  \/ /\ r \in Verifies
     /\ pc[r] = "mark"
     /\ target[r] \in Tokens
     /\ token' = [token EXCEPT ![target[r]] = "used"]

LEMMA DrawsStep ==
  ASSUME Base, NEW r \in Requests, Step(r)
  PROVE  Draws(r)
<1> USE DEF Draws
<1>1. CASE SaveVerification(r) \/ SendVerifyEmail(r)
  BY <1>1 DEF SaveVerification, SendVerifyEmail
<1>2. CASE VerifyMark(r)
  BY <1>2 DEF VerifyMark, Base, Follows, FollowAt
<1>3. CASE ~SaveVerification(r) /\ ~SendVerifyEmail(r) /\ ~VerifyMark(r)
  BY <1>3
     DEF Step, Receive, RegisterStep, RegisterFetch, RegisterInsert, InsertTaken, AddUser,
         MailStep, ResendFetch, ResendNothing, VerifyStep, VerifyLookup, VerifyRefused,
         VerifyApply, VerifyMarked, GoogleStep, Exchange, Recognise, ExchangeRefused,
         LookupProvider, LookupUser, LookupEmail, LookupEmailMissing, LinkFound, LinkRefused,
         Stamp, Issue, CreateOAuthUser, CreateBeaten, Fail, VerifyBegin, FollowAgain
<1>4. QED
  BY <1>1, <1>2, <1>3

\* A follower chooses its link when it begins, and is told that it worked only by
\* the call that uses the token.
Pursues(r) ==
  IF r \in Verifies
  THEN /\ IF pc[r] = "ready"
          THEN /\ pc'[r] = "lookup"
               /\ target' = [target EXCEPT ![r] = target'[r]]
               /\ target'[r] \in Tokens
               /\ token[target'[r]] \in {"mailed", "used"}
          ELSE UNCHANGED target
       /\ pc'[r] = "mark" => pc[r] = "apply" /\ found[target[r]] \in verified'
       /\ pc'[r] = "ok" =>
            /\ pc[r] = "mark"
            /\ token[target[r]] # "used"
            /\ token' = [token EXCEPT ![target[r]] = "used"]
       /\ UNCHANGED <<found, email>>
  ELSE UNCHANGED target

LEMMA PursuesStep ==
  ASSUME Base, NEW r \in Requests, Step(r)
  PROVE  Pursues(r)
<1> USE DEF Pursues
<1>1. CASE r \in Verifies
  <2> USE <1>1, FailsTable DEF Base, TypeOK, Proceed, Done, Fault, Goto
  <2>1. CASE VerifyLookup(r) \/ VerifyRefused(r) \/ VerifyMarked(r)
    BY <2>1 DEF VerifyLookup, VerifyRefused, VerifyMarked
  <2>2. CASE VerifyApply(r)
    BY <2>2 DEF VerifyApply
  <2>3. CASE VerifyMark(r)
    BY <2>3 DEF VerifyMark
  <2>4. CASE VerifyBegin(r)
    <3>1. PICK t \in Tokens :
            token[t] \in {"mailed", "used"} /\ target' = [target EXCEPT ![r] = t]
      BY <2>4 DEF VerifyBegin
    <3>2. QED
      BY <2>4, <3>1 DEF VerifyBegin
  <2>5. CASE FollowAgain(r)
    BY <2>5 DEF FollowAgain
  <2>6. CASE Fail(r)
    BY <2>6 DEF Fail
  <2>7. Fail(r) \/ VerifyStep(r) \/ VerifyBegin(r) \/ FollowAgain(r)
    BY KindsDisjoint
       DEF Step, Receive, RegisterStep, RegisterFetch, RegisterInsert, InsertTaken, AddUser,
           MailStep, ResendFetch, ResendNothing, SaveVerification, SendVerifyEmail,
           GoogleStep, Exchange, ExchangeRefused, LookupProvider, LookupUser, LookupEmail,
           LookupEmailMissing, LinkFound, LinkRefused, Stamp, Issue, CreateOAuthUser,
           CreateBeaten, Users, Tokens
  <2>8. QED
    BY <2>1, <2>2, <2>3, <2>4, <2>5, <2>6, <2>7 DEF VerifyStep
<1>2. CASE r \notin Verifies
  BY <1>2
     DEF Step, Receive, RegisterStep, RegisterFetch, RegisterInsert, InsertTaken, AddUser,
         MailStep, ResendFetch, ResendNothing, SaveVerification, SendVerifyEmail, VerifyStep,
         VerifyLookup, VerifyRefused, VerifyApply, VerifyMark, VerifyMarked, GoogleStep,
         Exchange, Recognise, ExchangeRefused, LookupProvider, LookupUser, LookupEmail,
         LookupEmailMissing, LinkFound, LinkRefused, Stamp, Issue, CreateOAuthUser,
         CreateBeaten, Fail
<1>3. QED
  BY <1>1, <1>2

\* A step copies a user for its own sign-in only.
LEMMA CopiesOwn ==
  ASSUME Base, NEW r \in Requests, Step(r)
  PROVE  /\ unverified' \subseteq Googles
         /\ \A q \in Googles \ {r} : q \in unverified' <=> q \in unverified
<1>1. CASE LookupUser(r)
  BY <1>1 DEF LookupUser, Copy, Base, TypeOK
<1>2. CASE LookupEmail(r)
  BY <1>2 DEF LookupEmail, Copy, Base, TypeOK
<1>3. CASE Stamp(r)
  BY <1>3 DEF Stamp, Base, TypeOK
<1>4. CASE ~LookupUser(r) /\ ~LookupEmail(r) /\ ~Stamp(r)
  <2>1. UNCHANGED unverified
    BY <1>4
       DEF Step, Receive, RegisterStep, RegisterFetch, RegisterInsert, InsertTaken, AddUser,
           MailStep, ResendFetch, ResendNothing, SaveVerification, SendVerifyEmail,
           VerifyStep, VerifyLookup, VerifyRefused, VerifyApply, VerifyMark, VerifyMarked,
           GoogleStep, Exchange, Recognise, ExchangeRefused, LookupProvider,
           LookupEmailMissing, LinkFound, LinkRefused, Issue, CreateOAuthUser, CreateBeaten,
           Fail, VerifyBegin, FollowAgain
  <2>2. QED
    BY <2>1 DEF Base, TypeOK
<1>5. QED
  BY <1>1, <1>2, <1>3, <1>4

\* What a sign-in has been answered and found, and its copy, after a step of its own.
LEMMA SignInStep ==
  ASSUME Base, Copies, NEW r \in Googles, Step(r)
  PROVE  GoogleAt(r)' /\ CopyAt(r)'
<1> USE FailsTable
    DEF Base, TypeOK, GoogleState, GoogleAt, Copies, CopyAt, Proceed, Done, Fault, Goto
<1>1. r \in Requests /\ r \in Requests \ Verifies /\ r \in Users
  BY KindsDisjoint DEF Requests, Users
<1>2. CASE Receive(r)
  <2>1. First(r) = "exchange"
    BY KindsDisjoint DEF First
  <2>2. QED
    BY <1>1, <1>2, <2>1 DEF Receive
<1>3. CASE Exchange(r)
  BY <1>1, <1>3 DEF Exchange, Recognise
<1>4. CASE ExchangeRefused(r)
  BY <1>1, <1>4 DEF ExchangeRefused, inputs
<1>5. CASE LookupProvider(r)
  BY <1>1, <1>5 DEF LookupProvider, inputs
<1>6. CASE LookupUser(r)
  BY <1>1, <1>6 DEF LookupUser, Copy, inputs
<1>7. CASE LookupEmail(r)
  <2>1. PICK u \in Users :
          email[u] = address[r] /\ found' = [found EXCEPT ![r] = u] /\ Copy(r, u)
    BY <1>7 DEF LookupEmail
  <2>2. u # None
    BY NoneAssumption DEF Requests
  <2>3. QED
    BY <1>1, <1>7, <2>1, <2>2 DEF LookupEmail, Copy, inputs
<1>8. CASE LookupEmailMissing(r) \/ LinkRefused(r) \/ CreateBeaten(r)
  BY <1>1, <1>8 DEF LookupEmailMissing, LinkRefused, CreateBeaten, inputs
<1>9. CASE LinkFound(r)
  BY <1>1, <1>9 DEF LinkFound, AfterLink, inputs
<1>10. CASE Stamp(r)
  BY <1>1, <1>10 DEF Stamp, inputs
<1>11. CASE Issue(r)
  BY <1>1, <1>11 DEF Issue, inputs
<1>12. CASE CreateOAuthUser(r)
  BY <1>1, <1>12 DEF CreateOAuthUser, inputs
<1>13. CASE Fail(r)
  BY <1>1, <1>13 DEF Fail, inputs
<1>14. Receive(r) \/ GoogleStep(r) \/ Fail(r)
  BY KindsDisjoint
     DEF Step, RegisterStep, RegisterFetch, RegisterInsert, InsertTaken, AddUser, MailStep,
         ResendFetch, ResendNothing, SaveVerification, SendVerifyEmail, VerifyStep,
         VerifyLookup, VerifyRefused, VerifyApply, VerifyMark, VerifyMarked, Tokens
<1>15. QED
  BY <1>2, <1>3, <1>4, <1>5, <1>6, <1>7, <1>8, <1>9, <1>10, <1>11, <1>12, <1>13, <1>14
     DEF GoogleStep

\* What a request for a mail has found and drawn after a step of its own.
LEMMA MailsStep ==
  ASSUME Base, NEW r \in Tokens, Step(r), Finds(r), Inserts(r), Binds(r)
  PROVE  MailAt(r)'
<1> USE FailsTable DEF Base, TypeOK, Mails, MailAt, Proceed, Done, Fault, Goto
<1>1. /\ r \in Requests /\ r \in Requests \ Verifies /\ r \notin Googles
      /\ r \in Registers \/ r \in Resends
  BY KindsDisjoint DEF Requests, Users, Tokens
<1>2. CASE Receive(r)
  <2>1. First(r) = "fetch" /\ pc[r] = "ready" /\ UNCHANGED <<found, token>>
    BY <1>1, <1>2, KindsDisjoint DEF First, Receive
  <2>2. QED
    BY <1>1, <1>2, <2>1 DEF Receive
<1>3. CASE RegisterFetch(r) \/ InsertTaken(r) \/ ResendNothing(r)
  <2>1. UNCHANGED <<found, token, address, email>>
    BY <1>3 DEF RegisterFetch, InsertTaken, ResendNothing, inputs
  <2>2. CASE RegisterFetch(r)
    BY <1>1, <2>1, <2>2 DEF RegisterFetch
  <2>3. CASE InsertTaken(r)
    BY <1>1, <2>1, <2>3 DEF InsertTaken
  <2>4. CASE ResendNothing(r)
    BY <1>1, <2>1, <2>4 DEF ResendNothing
  <2>5. QED
    BY <1>3, <2>2, <2>3, <2>4
<1>4. CASE RegisterInsert(r)
  <2>1. /\ r \in Users /\ r # None /\ UNCHANGED <<token, address>>
        /\ found' = [found EXCEPT ![r] = r]
        /\ email' = [email EXCEPT ![r] = address[r]]
    BY <1>1, <1>4, NoneAssumption, KindsDisjoint
       DEF RegisterInsert, InsertUser, inputs, Users
  <2>2. pc[r] = "insert" /\ pc'[r] \in {"save", "error"}
    BY <1>1, <1>4 DEF RegisterInsert
  <2>3. QED
    BY <1>1, <2>1, <2>2
<1>5. CASE ResendFetch(r)
  <2>1. PICK u \in Users : email[u] = address[r] /\ found' = [found EXCEPT ![r] = u]
    BY <1>5 DEF ResendFetch
  <2>2. u # None /\ UNCHANGED <<token, address, email>>
    BY <1>5, NoneAssumption DEF ResendFetch, Requests, inputs
  <2>3. pc[r] = "fetch" /\ pc'[r] = "save"
    BY <1>1, <1>5 DEF ResendFetch
  <2>4. QED
    BY <1>1, <2>1, <2>2, <2>3
<1>6. CASE SaveVerification(r) \/ SendVerifyEmail(r)
  <2>1. UNCHANGED <<found, address, email>>
    BY <1>6 DEF SaveVerification, SendVerifyEmail, inputs
  <2>2. CASE SaveVerification(r)
    BY <1>1, <2>1, <2>2 DEF SaveVerification
  <2>3. CASE SendVerifyEmail(r)
    BY <1>1, <2>1, <2>3 DEF SendVerifyEmail
  <2>4. QED
    BY <1>6, <2>2, <2>3
<1>7. CASE Fail(r)
  <2>1. UNCHANGED <<found, token, address, email>>
    BY <1>7 DEF Fail, inputs
  <2>2. QED
    BY <1>1, <1>7, <2>1 DEF Fail
<1>8. \/ Receive(r) \/ RegisterFetch(r) \/ InsertTaken(r) \/ RegisterInsert(r) \/ MailStep(r)
      \/ Fail(r)
  BY <1>1, KindsDisjoint
     DEF Step, RegisterStep, AddUser, VerifyStep, VerifyLookup, VerifyRefused, VerifyApply,
         VerifyMark, VerifyMarked, GoogleStep, Exchange, ExchangeRefused, LookupProvider,
         LookupUser, LookupEmail, LookupEmailMissing, LinkFound, LinkRefused, Stamp, Issue,
         CreateOAuthUser, CreateBeaten
<1>9. QED
  BY <1>2, <1>3, <1>4, <1>5, <1>6, <1>7, <1>8 DEF MailStep

(***************************************************************************)
(* The strengthening, conjunct by conjunct.                                *)
(***************************************************************************)
Facts(r) ==
  /\ Moves(r) /\ Inserts(r) /\ Binds(r) /\ Finds(r) /\ Links(r) /\ Stamps(r)
  /\ Opens(r) /\ Draws(r) /\ Pursues(r)

LEMMA StepFacts ==
  ASSUME IInv, NEW r \in Requests, Step(r)
  PROVE  Base /\ Facts(r)
<1>1. Base /\ LinkProven
  BY DEF IInv, Base
<1>2. Moves(r) /\ Inserts(r) /\ Draws(r) /\ Pursues(r)
  BY <1>1, MovesStep, InsertsStep, DrawsStep, PursuesStep
<1>3. Binds(r) /\ Links(r) /\ Stamps(r) /\ Opens(r)
  BY <1>1, <1>2, BindsStep, LinksStep, StampsStep, OpensStep
<1>4. Finds(r)
  BY <1>1, <1>2, <1>3, FindsStep
<1>5. QED
  BY <1>1, <1>2, <1>3, <1>4 DEF Facts

LEMMA TypesStep ==
  ASSUME Base, NEW r \in Requests, Step(r), Facts(r)
  PROVE  TypeOK'
<1>1. Rows \subseteq Rows'
  BY RowsKept DEF Facts
<1>2. /\ pc' \in [Requests -> Calls \union Answers \union {"ready"}]
      /\ \A q \in Requests : pc'[q] \in DOMAIN Fails(q) \union Answers \union {"ready"}
      /\ faults' \in 0..MaxFaults
  BY DEF Facts, Moves, Base, TypeOK
<1>3. /\ address' \in [Requests \ Verifies -> Addresses \union {None}]
      /\ subject' \in [Googles -> Subjects \union {None}]
      /\ vouched' \subseteq Googles
  BY DEF Facts, Binds
<1>4. found' \in [Requests \ Verifies -> Rows' \union {None}]
  BY <1>1 DEF Facts, Finds, Base, TypeOK
<1>5. unverified' \subseteq Googles
  BY CopiesOwn
<1>6. target' \in [Verifies -> Tokens \union {None}]
  BY DEF Facts, Pursues, Base, TypeOK
<1>7. email' \in [Users -> Addresses \union {None}]
  BY DEF Facts, Inserts, Base, TypeOK
<1>8. verified' \subseteq Rows'
  BY <1>1 DEF Facts, Stamps, Base, TypeOK
<1>9. link' \in [Subjects -> Rows' \union {None}]
  BY <1>1 DEF Facts, Links, Base, TypeOK
<1>10. token' \in [Tokens -> {"none", "saved", "mailed", "used"}]
  BY DEF Facts, Draws, Base, TypeOK
<1>11. expired' \subseteq Tokens
  <2>1. UNCHANGED expired
    BY DEF Step, Receive, RegisterStep, RegisterFetch, RegisterInsert, InsertTaken, AddUser,
           MailStep, ResendFetch, ResendNothing, SaveVerification, SendVerifyEmail,
           VerifyStep, VerifyLookup, VerifyRefused, VerifyApply, VerifyMark, VerifyMarked,
           GoogleStep, Exchange, Recognise, ExchangeRefused, LookupProvider, LookupUser,
           LookupEmail, LookupEmailMissing, LinkFound, LinkRefused, Stamp, Issue,
           CreateOAuthUser, CreateBeaten, Fail, VerifyBegin, FollowAgain
  <2>2. QED
    BY <2>1 DEF Base, TypeOK
<1>12. session' \in [Googles -> Rows' \union {None}]
  BY <1>1 DEF Facts, Opens, Base, TypeOK
<1>13. QED
  BY <1>2, <1>3, <1>4, <1>5, <1>6, <1>7, <1>8, <1>9, <1>10, <1>11, <1>12 DEF TypeOK

\* Users.
LEMMA UsersStep ==
  ASSUME Base, AddressesUnique, NEW r \in Requests, Facts(r)
  PROVE  Unborn' /\ AddressesUnique'
<1>1. CASE UNCHANGED email
  BY <1>1 DEF Facts, Moves, Base, TypeOK, Unborn, AddressesUnique, Requests, Early
<1>2. CASE ~UNCHANGED email
  <2>1. /\ r \in Users /\ pc'[r] \notin Early /\ ~Taken(address[r])
        /\ email' = [email EXCEPT ![r] = address[r]]
    BY <1>2 DEF Facts, Inserts
  <2>2. Unborn'
    BY <2>1 DEF Facts, Moves, Base, TypeOK, Unborn, Requests, Early
  <2>3. AddressesUnique'
    BY <2>1 DEF Base, TypeOK, AddressesUnique, Taken
  <2>4. QED
    BY <2>2, <2>3
<1>3. QED
  BY <1>1, <1>2

\* Sign-ins: one step moves one, and what Google has asserted stays.
LEMMA SignInsStep ==
  ASSUME Base, Copies, NEW r \in Requests, Step(r), Facts(r)
  PROVE  GoogleState' /\ Copies'
<1> SUFFICES ASSUME NEW q \in Googles
             PROVE  GoogleAt(q)' /\ CopyAt(q)'
  BY DEF GoogleState, Copies
<1>1. CASE q = r
  BY <1>1, SignInStep
<1>2. CASE q # r
  <2>1. q \in Requests /\ q \in Requests \ Verifies
    BY KindsDisjoint DEF Requests, Users
  <2>2. /\ pc'[q] = pc[q] /\ found'[q] = found[q] /\ session'[q] = session[q]
        /\ subject'[q] = subject[q] /\ address'[q] = address[q]
        /\ q \in vouched' <=> q \in vouched
        /\ q \in unverified' <=> q \in unverified
    BY <1>2, <2>1, CopiesOwn
       DEF Facts, Moves, Finds, Opens, Binds, Base, TypeOK
  <2>3. verified \subseteq verified'
    BY DEF Facts, Stamps
  <2>4. found[q] # None => email'[found[q]] = email[found[q]]
    BY <2>1, RowsKept DEF Facts, Base, TypeOK, Rows
  <2>5. QED
    BY <2>2, <2>3, <2>4 DEF Base, GoogleState, GoogleAt, Copies, CopyAt
<1>3. QED
  BY <1>1, <1>2

LEMMA ProvenStep ==
  ASSUME Base, LinkProven, FoundProven, NEW r \in Requests, Facts(r)
  PROVE  LinkProven' /\ FoundProven'
<1>1. \A s \in Subjects \union {None}, u \in Rows : Asserted(s, u) => Asserted(s, u)'
  BY AssertedKept DEF Facts
<1>2. FoundProven'
  <2> SUFFICES ASSUME NEW q \in Googles, found'[q] # None
               PROVE  Asserted(subject[q], found[q])'
    BY DEF FoundProven, Recognised
  <2>1. q \in Requests \ Verifies
    BY KindsDisjoint DEF Requests, Users
  <2>2. CASE found'[q] = found[q]
    <3>1. found[q] \in Rows /\ Asserted(subject[q], found[q])
      BY <2>1, <2>2 DEF Base, TypeOK, FoundProven, Recognised
    <3>2. pc[q] \notin {"ready", "exchange"}
      BY <2>2 DEF Base, GoogleState, GoogleAt
    <3>3. subject'[q] = subject[q] /\ subject[q] \in Subjects \union {None}
      BY <3>2 DEF Facts, Binds, Base, TypeOK
    <3>4. QED
      BY <1>1, <2>2, <3>1, <3>3 DEF Asserted
  <2>3. CASE found'[q] # found[q]
    BY <2>1, <2>3 DEF Facts, Finds, Base, TypeOK, Recognised
  <2>4. QED
    BY <2>2, <2>3
<1>3. LinkProven'
  <2> SUFFICES ASSUME NEW s \in Subjects, link'[s] # None
               PROVE  Asserted(s, link[s])'
    BY DEF LinkProven
  <2>1. CASE link'[s] = link[s]
    <3>1. link[s] \in Rows /\ Asserted(s, link[s])
      BY <2>1 DEF Base, TypeOK, LinkProven
    <3>2. QED
      BY <1>1, <2>1, <3>1 DEF Asserted
  <2>2. CASE link'[s] # link[s]
    <3>1. r \in Googles /\ s = subject[r] /\ link'[s] = found'[r] /\ UNCHANGED inputs
      BY <2>2 DEF Facts, Links
    <3>2. Recognised(r)'
      BY <1>2, <3>1 DEF FoundProven
    <3>3. QED
      BY <2>2, <3>1, <3>2 DEF Recognised, inputs
  <2>3. QED
    BY <2>1, <2>2
<1>4. QED
  BY <1>2, <1>3

LEMMA OwnerStep ==
  ASSUME Base, SignsInOwner, NEW r \in Requests, Facts(r), FoundProven'
  PROVE  SignsInOwner'
<1> SUFFICES ASSUME NEW q \in Googles, session'[q] # None
             PROVE  Asserted(subject[q], session[q])'
  BY DEF SignsInOwner, Asserted
<1>1. CASE session'[q] = session[q]
  <2>1. session[q] \in Rows /\ Asserted(subject[q], session[q])
    BY <1>1 DEF Base, TypeOK, SignsInOwner, Asserted
  <2>2. pc[q] \notin {"ready", "exchange"}
    BY <1>1 DEF Base, GoogleState, GoogleAt
  <2>3. subject'[q] = subject[q] /\ subject[q] \in Subjects \union {None}
    BY <2>2 DEF Facts, Binds, Base, TypeOK
  <2>4. \A s \in Subjects \union {None}, u \in Rows : Asserted(s, u) => Asserted(s, u)'
    BY AssertedKept DEF Facts
  <2>5. QED
    BY <1>1, <2>1, <2>3, <2>4 DEF Asserted
<1>2. CASE session'[q] # session[q]
  <2>1. q = r /\ session'[q] = found'[q]
    BY <1>2 DEF Facts, Opens, Base, TypeOK
  <2>2. Recognised(q)'
    BY DEF FoundProven
  <2>3. QED
    BY <2>1, <2>2 DEF Recognised
<1>3. QED
  BY <1>1, <1>2

\* What a token was drawn for stays.
LEMMA DrawnKept ==
  ASSUME Base, NEW r \in Requests, Facts(r), NEW t \in Tokens, found[t] # None
  PROVE  /\ found'[t] = found[t]
         /\ address'[t] = address[t]
         /\ email'[found[t]] = email[found[t]]
<1>1. t \in Requests /\ t \in Requests \ Verifies /\ t \in Registers \union Resends
  BY KindsDisjoint DEF Tokens, Requests, Users
<1>2. pc[t] \notin {"ready", "fetch", "insert", "exchange", "provider", "email", "create"}
  BY <1>1, FailsTable DEF Base, TypeOK, Mails, MailAt, Answers
<1>3. found'[t] = found[t]
  BY <1>1, <1>2 DEF Facts, Finds, Base, TypeOK
<1>4. address'[t] = address[t]
  BY <1>1, <1>2 DEF Facts, Binds
<1>5. email'[found[t]] = email[found[t]]
  BY <1>1, RowsKept DEF Facts, Base, TypeOK, Rows
<1>6. QED
  BY <1>3, <1>4, <1>5

\* Mails and their links.
LEMMA TokensStep ==
  ASSUME Base, NEW r \in Requests, Step(r), Facts(r)
  PROVE  Mails'
<1> SUFFICES ASSUME NEW t \in Tokens
             PROVE  MailAt(t)'
  BY DEF Mails
<1>1. CASE t = r
  BY <1>1, MailsStep DEF Facts
<1>2. CASE t # r
  <2>1. t \in Requests /\ t \in Requests \ Verifies /\ t \in Registers \union Resends
    BY KindsDisjoint DEF Tokens, Requests, Users
  <2>2. pc'[t] = pc[t] /\ found'[t] = found[t]
    BY <1>2, <2>1 DEF Facts, Moves, Finds, Base, TypeOK
  <2>3. token'[t] = token[t] \/ (token[t] \in {"mailed", "used"} /\ token'[t] = "used")
    BY <1>2 DEF Facts, Draws, Base, TypeOK, Follows, FollowAt
  <2>4. found[t] # None => address'[t] = address[t] /\ email'[found[t]] = email[found[t]]
    BY DrawnKept
  <2>5. QED
    BY <2>2, <2>3, <2>4 DEF Base, Mails, MailAt
<1>3. QED
  BY <1>1, <1>2

LEMMA LinkIsDrawn ==
  ASSUME Base, NEW v \in Verifies, target[v] # None
  PROVE  target[v] \in Tokens /\ found[target[v]] # None
  BY DEF Base, TypeOK, Follows, FollowAt, Mails, MailAt

LEMMA FollowsStep ==
  ASSUME Base, NEW r \in Requests, Facts(r)
  PROVE  Follows'
<1> SUFFICES ASSUME NEW v \in Verifies
             PROVE  FollowAt(v)'
  BY DEF Follows
<1>1. v \in Requests
  BY DEF Requests
<1>2. \A t \in Tokens : token[t] \in {"mailed", "used"} => token'[t] \in {"mailed", "used"}
  <2>1. SUFFICES ASSUME NEW t \in Tokens, token[t] \in {"mailed", "used"}
                 PROVE  token'[t] \in {"mailed", "used"}
    OBVIOUS
  <2>2. pc[t] # "save" /\ pc[t] # "mail"
    BY <2>1 DEF Base, Mails, MailAt
  <2>3. QED
    BY <2>1, <2>2 DEF Facts, Draws, Base, TypeOK
<1>3. \A t \in Tokens : token[t] = "used" => token'[t] = "used"
  <2>1. SUFFICES ASSUME NEW t \in Tokens, token[t] = "used"
                 PROVE  token'[t] = "used"
    OBVIOUS
  <2>2. pc[t] # "save" /\ pc[t] # "mail"
    BY <2>1 DEF Base, Mails, MailAt
  <2>3. QED
    BY <2>1, <2>2 DEF Facts, Draws, Base, TypeOK
<1>4. CASE v = r
  <2>1. CASE pc[v] = "ready"
    <3>1. pc'[v] = "lookup" /\ target'[v] \in Tokens /\ token[target'[v]] \in {"mailed", "used"}
      BY <1>4, <2>1 DEF Facts, Pursues
    <3>2. QED
      BY <1>2, <3>1 DEF FollowAt
  <2>2. CASE pc[v] # "ready"
    <3>1. /\ target'[v] = target[v] /\ target[v] \in Tokens
          /\ token[target[v]] \in {"mailed", "used"} /\ pc'[v] # "ready"
      BY <1>4, <2>2 DEF Facts, Pursues, Moves, Base, Follows, FollowAt, Calls, Answers
    <3>2. token'[target[v]] \in {"mailed", "used"}
      BY <1>2, <3>1
    <3>3. pc'[v] = "mark" => found'[target[v]] \in verified'
      BY <1>4 DEF Facts, Pursues
    <3>4. pc'[v] = "ok" => token'[target[v]] = "used"
      BY <1>4, <3>1 DEF Facts, Pursues, Base, TypeOK
    <3>5. QED
      BY <3>1, <3>2, <3>3, <3>4 DEF FollowAt
  <2>3. QED
    BY <2>1, <2>2
<1>5. CASE v # r
  <2>1. pc'[v] = pc[v] /\ target'[v] = target[v]
    BY <1>1, <1>5 DEF Facts, Moves, Pursues, Base, TypeOK
  <2>2. CASE target[v] = None
    BY <2>1, <2>2, NoneAssumption
       DEF Base, Follows, FollowAt, Tokens, Requests, Users
  <2>3. CASE target[v] # None
    <3>1. target[v] \in Tokens /\ found'[target[v]] = found[target[v]]
      BY <2>3, LinkIsDrawn, DrawnKept
    <3>2. verified \subseteq verified'
      BY DEF Facts, Stamps
    <3>3. QED
      BY <1>2, <1>3, <2>1, <3>1, <3>2 DEF Base, Follows, FollowAt
  <2>4. QED
    BY <2>2, <2>3
<1>6. QED
  BY <1>4, <1>5

LEMMA UsedStep ==
  ASSUME Base, UsedMeansVerified, NEW r \in Requests, Facts(r)
  PROVE  UsedMeansVerified'
<1> SUFFICES ASSUME NEW t \in Tokens, token'[t] = "used"
             PROVE  found'[t] \in verified'
  BY DEF UsedMeansVerified
<1>1. verified \subseteq verified'
  BY DEF Facts, Stamps
<1>2. found[t] # None /\ found[t] \in verified
  <2>1. CASE token[t] = "used"
    BY <2>1 DEF UsedMeansVerified, Base, Mails, MailAt
  <2>2. CASE token[t] # "used"
    <3>1. r \in Verifies /\ pc[r] = "mark" /\ t = target[r]
      BY <2>2 DEF Facts, Draws, Base, TypeOK
    <3>2. QED
      BY <3>1, LinkIsDrawn, NoneAssumption
         DEF Base, Follows, FollowAt, Tokens, Requests, Users
  <2>3. QED
    BY <2>1, <2>2
<1>3. QED
  BY <1>1, <1>2, DrawnKept

LEMMA OnceStep ==
  ASSUME Base, VerifySucceedsOnce, NEW r \in Requests, Facts(r)
  PROVE  VerifySucceedsOnce'
<1> SUFFICES ASSUME NEW v \in Verifies, NEW w \in Verifies,
                    pc'[v] = "ok", pc'[w] = "ok", target'[v] = target'[w], v # w
             PROVE  FALSE
  BY DEF VerifySucceedsOnce
<1>1. v \in Requests /\ w \in Requests
  BY DEF Requests
<1>2. \A q \in Verifies \ {r} : pc'[q] = pc[q] /\ target'[q] = target[q]
  BY DEF Facts, Moves, Pursues, Base, TypeOK, Requests
<1>3. \A q \in Verifies : q = r /\ pc'[q] = "ok" =>
        token[target[q]] # "used" /\ target'[q] = target[q]
  BY DEF Facts, Pursues
<1>4. \A q \in Verifies : pc[q] = "ok" => token[target[q]] = "used"
  BY DEF Base, Follows, FollowAt
<1>5. QED
  BY <1>1, <1>2, <1>3, <1>4 DEF VerifySucceedsOnce

LEMMA ProofsStep ==
  ASSUME Base, VerifiedProven, NEW r \in Requests, Step(r), Facts(r), FoundProven'
  PROVE  VerifiedProven'
<1> DEFINE Proof(u) ==
      \/ \E q \in vouched : address[q] = email[u]
      \/ \E v \in Verifies :
           target[v] # None /\ found[target[v]] = u /\ address[target[v]] = email[u]
<1>1. ASSUME NEW u \in verified  PROVE Proof(u)'
  <2>1. u \in Rows /\ email'[u] = email[u] /\ Proof(u)
    BY RowsKept DEF Facts, Base, TypeOK, Rows, VerifiedProven
  <2>2. CASE \E q \in vouched : address[q] = email[u]
    <3>1. PICK q \in vouched : address[q] = email[u]
      BY <2>2
    <3>2. q \in Requests \ Verifies /\ pc[q] \notin {"ready", "exchange"}
      BY KindsDisjoint DEF Base, TypeOK, GoogleState, GoogleAt, Requests, Users
    <3>3. q \in vouched' /\ address'[q] = address[q]
      BY <3>2 DEF Facts, Binds
    <3>4. QED
      BY <2>1, <3>1, <3>3
  <2>3. CASE \E v \in Verifies :
               target[v] # None /\ found[target[v]] = u /\ address[target[v]] = email[u]
    <3>1. PICK v \in Verifies :
            target[v] # None /\ found[target[v]] = u /\ address[target[v]] = email[u]
      BY <2>3
    <3>2. target[v] \in Tokens /\ found[target[v]] # None
      BY <3>1, LinkIsDrawn
    <3>3. pc[v] # "ready"
      BY <3>1 DEF Base, Follows, FollowAt
    <3>4. target'[v] = target[v]
      BY <3>3 DEF Facts, Pursues, Base, TypeOK
    <3>5. found'[target[v]] = u /\ address'[target[v]] = address[target[v]]
      BY <3>1, <3>2, DrawnKept
    <3>6. QED
      BY <2>1, <3>1, <3>4, <3>5
  <2>4. QED
    BY <2>1, <2>2, <2>3
<1>2. ASSUME NEW u \in verified', u \notin verified  PROVE Proof(u)'
  <2>1. CASE r \in Googles /\ u = found'[r] /\ u \in Rows'
    <3>1. Asserted(subject[r], found[r])'
      BY <2>1, NoneAssumption DEF FoundProven, Recognised, Rows, Requests
    <3>2. QED
      BY <2>1, <3>1 DEF Asserted
  <2>2. CASE /\ r \in Verifies /\ UNCHANGED <<found, target, email>>
             /\ target[r] \in Tokens /\ u = found[target[r]] /\ u \in Rows
    <3>1. target[r] # None
      BY <2>2, NoneAssumption DEF Tokens, Requests, Users
    <3>2. u # None
      BY <2>2, NoneAssumption DEF Rows, Requests
    <3>3. address[target[r]] = email[u]
      BY <2>2, <3>2 DEF Base, Mails, MailAt
    <3>4. address'[target[r]] = address[target[r]]
      BY <2>2, <3>2, DrawnKept
    <3>5. QED
      BY <2>2, <3>1, <3>3, <3>4
  <2>3. QED
    BY <1>2, <2>1, <2>2 DEF Facts, Stamps
<1>3. QED
  BY <1>1, <1>2 DEF VerifiedProven

LEMMA InvInit == Init => IInv
<1> SUFFICES ASSUME Init
             PROVE  IInv
  OBVIOUS
<1>1. TypeOK
  BY MaxFaultsAssumption DEF Init, TypeOK, Rows
<1>2. \A r \in Requests : pc[r] = "ready"
  BY DEF Init
<1>3. Users \subseteq Requests /\ Tokens \subseteq Requests
  BY DEF Users, Tokens, Requests
<1>4. Unborn /\ Addressed /\ AddressesUnique
  BY <1>2, <1>3 DEF Init, Unborn, Addressed, AddressesUnique, Requests, Users
<1>5. GoogleState /\ Copies
  BY <1>2, KindsDisjoint
     DEF Init, GoogleState, GoogleAt, Copies, CopyAt, Requests, Users
<1>6. LinkProven /\ FoundProven /\ SignsInOwner /\ VerifiedProven
  BY KindsDisjoint
     DEF Init, LinkProven, FoundProven, Recognised, SignsInOwner, VerifiedProven, Requests,
         Users
<1>7. Mails
  BY <1>2, <1>3, KindsDisjoint DEF Init, Mails, MailAt, Tokens, Requests, Users
<1>8. Follows
  BY <1>2 DEF Init, Follows, FollowAt, Requests
<1>9. UsedMeansVerified
  BY DEF Init, UsedMeansVerified
<1>10. VerifySucceedsOnce
  BY <1>2 DEF Init, VerifySucceedsOnce, Requests
<1>11. QED
  BY <1>1, <1>4, <1>5, <1>6, <1>7, <1>8, <1>9, <1>10 DEF IInv

LEMMA InvNext == IInv /\ [Next]_vars => IInv'
<1> SUFFICES ASSUME IInv, [Next]_vars
             PROVE  IInv'
  OBVIOUS
<1>1. ASSUME NEW r \in Requests, Step(r)
      PROVE  IInv'
  <2>1. Base /\ Facts(r)
    BY <1>1, StepFacts
  <2>2. TypeOK' /\ Unborn' /\ AddressesUnique' /\ Addressed'
    BY <1>1, <2>1, TypesStep, UsersStep DEF IInv, Facts, Binds
  <2>3. GoogleState' /\ Copies'
    BY <1>1, <2>1, SignInsStep DEF IInv
  <2>4. LinkProven' /\ FoundProven'
    BY <2>1, ProvenStep DEF IInv
  <2>5. SignsInOwner' /\ VerifiedProven'
    BY <1>1, <2>1, <2>4, OwnerStep, ProofsStep DEF IInv
  <2>6. Mails' /\ Follows' /\ UsedMeansVerified' /\ VerifySucceedsOnce'
    BY <1>1, <2>1, TokensStep, FollowsStep, UsedStep, OnceStep DEF IInv
  <2>7. QED
    BY <2>2, <2>3, <2>4, <2>5, <2>6 DEF IInv
<1>2. ASSUME NEW t \in Tokens, Expire(t)
      PROVE  IInv'
  BY <1>2
     DEF Expire, IInv, TypeOK, Rows, Unborn, Addressed, AddressesUnique, GoogleState,
         GoogleAt, LinkProven, Asserted, FoundProven, Recognised, SignsInOwner, Copies,
         CopyAt, Mails, MailAt, Follows, FollowAt, UsedMeansVerified, VerifySucceedsOnce,
         VerifiedProven, inputs
<1>3. CASE UNCHANGED vars
  BY <1>3
     DEF vars, IInv, TypeOK, Rows, Unborn, Addressed, AddressesUnique, GoogleState,
         GoogleAt, LinkProven, Asserted, FoundProven, Recognised, SignsInOwner, Copies,
         CopyAt, Mails, MailAt, Follows, FollowAt, UsedMeansVerified, VerifySucceedsOnce,
         VerifiedProven, inputs
<1>4. QED
  BY <1>1, <1>2, <1>3, NextSteps

\* The inductive invariant holds of every behaviour.
THEOREM Inductive == Spec => []IInv
  BY InvInit, InvNext, PTL DEF Spec

(***************************************************************************)
(* The properties.                                                         *)
(***************************************************************************)
\* Every variable of a sign-up keeps its type, and no reference to a user is to a
\* row that does not exist.
THEOREM TypeCorrect == Spec => []TypeOK
  BY Inductive, PTL DEF IInv

\* No fault, race or move of a link lets a Google account into the account of a
\* user whose address Google has not asserted for it.
THEOREM SignsInOwnerHolds == Spec => []SignsInOwner
  BY Inductive, PTL DEF IInv

\* However many first sign-ins of one Google account with one address overlap,
\* their sessions are of one user: rows have distinct addresses.
THEOREM OneAccountPerSubjectHolds == Spec => []OneAccountPerSubject
<1>1. ASSUME TypeOK, AddressesUnique, SignsInOwner
      PROVE  OneAccountPerSubject
  <2> SUFFICES ASSUME NEW r \in Googles, NEW q \in Googles,
                      session[r] # None, session[q] # None, subject[r] = subject[q],
                      \A o \in vouched : subject[o] = subject[r] => address[o] = address[r]
               PROVE  session[r] = session[q]
    BY DEF OneAccountPerSubject
  <2>1. email[session[r]] = address[r] /\ email[session[q]] = address[r]
    BY <1>1 DEF SignsInOwner
  <2>2. session[r] \in Rows /\ session[q] \in Rows
    BY <1>1 DEF TypeOK
  <2>3. QED
    BY <1>1, <2>1, <2>2 DEF AddressesUnique, Rows
<1>2. IInv => OneAccountPerSubject
  BY <1>1 DEF IInv
<1>3. QED
  BY <1>2, Inductive, PTL

\* Only an assertion by Google, or a link that was mailed to the address and
\* followed, makes it count as verified.
THEOREM VerifiedProvenHolds == Spec => []VerifiedProven
  BY Inductive, PTL DEF IInv

\* The claim in the tokens of a sign-in is right, although it is taken from a copy
\* of the row that was read calls before.
THEOREM SignInTokenAcceptedHolds == Spec => []SignInTokenAccepted
<1>1. IInv => SignInTokenAccepted
  BY DEF IInv, Copies, CopyAt, SignInTokenAccepted, EmailVerifiedClaim
<1>2. QED
  BY <1>1, Inductive, PTL

\* One follower of a link at most is told that it worked.
THEOREM VerifySucceedsOnceHolds == Spec => []VerifySucceedsOnce
  BY Inductive, PTL DEF IInv

\* No failure spends a link before its user is verified.
THEOREM UsedMeansVerifiedHolds == Spec => []UsedMeansVerified
  BY Inductive, PTL DEF IInv

\* A link moves to another user only if Google has asserted two addresses for the
\* account: lookups whose errors are swallowed, lost answers and races do not move it.
THEOREM LinkStableHolds == Spec => LinkStable
<1> DEFINE Stable ==
      \A s \in Subjects : link[s] # None /\ link'[s] # link[s] =>
        \E r, q \in vouched :
          /\ subject[r] = s /\ subject[q] = s
          /\ address[r] # address[q]
<1>1. ASSUME IInv, IInv', [Next]_vars
      PROVE  [Stable]_vars
  <2> SUFFICES ASSUME NEW s \in Subjects, link[s] # None, link'[s] # link[s]
               PROVE  \E r, q \in vouched :
                        subject[r] = s /\ subject[q] = s /\ address[r] # address[q]
    OBVIOUS
  <2>1. PICK r \in Requests : Step(r)
    BY <1>1, NextSteps DEF Expire, vars
  <2>2. Base /\ Facts(r)
    BY <1>1, <2>1, StepFacts
  <2>3. /\ r \in Googles /\ s = subject[r] /\ pc[r] \in {"link", "create"}
        /\ link'[s] = found'[r] /\ found'[r] \in Rows' /\ email'[found'[r]] = address[r]
    BY <2>2 DEF Facts, Links
  <2>4. r \in vouched
    BY <2>2, <2>3 DEF Base, GoogleState, GoogleAt
  <2>5. PICK q \in vouched : subject[q] = s /\ address[q] = email[link[s]]
    BY <1>1 DEF IInv, LinkProven, Asserted
  <2>6. link[s] \in Rows /\ email'[link[s]] = email[link[s]]
    BY <2>2, RowsKept DEF Facts, Base, TypeOK, Rows
  <2>7. address[q] # address[r]
    BY <1>1, <2>3, <2>5, <2>6 DEF IInv, AddressesUnique, Rows
  <2>8. QED
    BY <2>3, <2>4, <2>5, <2>7
<1>2. QED
  BY <1>1, Inductive, PTL DEF Spec, LinkStable
=============================================================================
