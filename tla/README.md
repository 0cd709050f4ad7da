# Verification of the hexagon-template booking backend

TLA+ models of the Go program under `src/`, the TLC instances that check them and the TLAPS proofs
about them. Line references are to `src/`.

1. [The system](#1-the-system): components, state, operations, interactions, hard behaviours
2. [Modules and how they correspond to the code](#2-modules)
3. [Runs, bounds and results](#3-runs)
4. [Disagreements between code and documentation](#4-disagreements)
5. [Proofs](#5-proofs)
6. [What is only model-checked, and what is not modelled](#6-limits)
7. [Plan](#7-plan)

## 1. The system

An Echo server in front of use cases (`auth`, `user`, `hotel`, `room`, `search`, `upload`) that own the
decisions, and GORM repositories (`postgres`) that own the state. A use case holds no state between
requests; it runs as a sequence of repository calls, and **each call is an autocommitted statement
of its own**. The exceptions are `CreateUserTx` (postgres/user.go:94), whose callback inserts a refresh token
and a Google link in the transaction of the user's row, and the creation of a hotel or a room, which inserts
images, payment options or amenities with it. So the
unit of interleaving, and of failure, is the repository call. Every request runs in its own goroutine
with a context that its client may cancel between any two calls.

| Component | State it keeps | Operations | Correct when |
|---|---|---|---|
| Password login and lockout (`auth/usecase.go:253-329, 785-830`) | five columns of the `users` row: status, failed_login_attempts, lock_until, lock_escalation_level, last_failed_login_at | Login: GetByEmail, handleLockState, Compare, recordFailure / resetAuthState, issueTokens | a lock is the one its failure imposes; nobody is locked without the failures to pay for it; a lock is served; the escalation rises only |
| Sessions (`auth/usecase.go:331-421, 870-882`, `postgres/refresh_token.go`) | `refresh_tokens`: hash, client, expiry, revoked_at | Save, GetActiveByHash, RevokeByHash, RevokeAllByUserID; Refresh, Logout | a session has one live token; a token is exchanged once; what is ended stays ended; a session stays with its client |
| Password change and reset (`user/usecase.go:118-158`, `auth/usecase.go:489-583`) | `users.password_hash`, `password_reset_tokens` | ChangePassword, ForgotPassword, ResetPassword | old sessions end; a reset token is good for one reset |
| Registration and e-mail verification (`auth/usecase.go:216-251, 423-487`) | the `users` row, `email_verification_tokens` | Register, SendEmailVerification, VerifyEmail | a verified address is proven; a link succeeds once and is spent only on success; a link followed again works in the end |
| Google sign-in (`auth/usecase.go:585-784`) | `users`, `oauth_provider_accounts` | exchange, lookup by Google account, by address, insert, link (upsert), stamp | a sign-in opens its owner's account; a Google account leads to one user; a link stays |
| JWT and access control (`pkg/jwt`, `httpserver/middleware_auth.go`) | none (claims inside tokens) | sign, parse, RequireAuth, requireVerifiedEmail | claims say what the user row said |
| User administration (`user/usecase.go`) | the `users` row | ListUsers, GetUserByID, AddUser, UpdateProfile, ChangePassword, DeactivateUser | a deactivation sticks; an addition races a registration safely |
| Room allocation (`search/room_allocation.go`) | none (pure) | split guests over rooms, backtracking, single-type quantity | finds a placement exactly when one exists |
| Search (`postgres/search.go`, `search/usecase.go`) | reads hotels, rooms, inventories in chunks of ids | filters, availability per night, combinations, pages | what it offers is available every night; pages lose no match |
| Hotels, rooms (`hotel`, `room`, `postgres/hotel.go`, `postgres/room.go`) | insert-only resources | create in a transaction, list in three reads | all or nothing; what is listed is whole |
| Upload (`upload/usecase.go`, `pkg/storage/s3`) | objects in a bucket | open, recognise, rewind, store, file by file | a batch that fails has stored its first files whole and nothing else |
| Rate limiter, routing, responses, validation (`httpserver`) | limiter table per address | middleware | |
| Hashing, mail, Sentry, configuration, migrations, seed, generated docs | none of the program's own | | |

**Interactions.** Login, sign-up, verification, password change and deactivation meet in one `users`
row; login, refresh, logout, change and reset meet in `refresh_tokens`; registration, additions,
verification links and Google sign-ins meet in `users.email`, `email_verification_tokens` and
`oauth_provider_accounts`; an upload's address is shown by a hotel, which a listing and a search read in
pieces while rooms and nights are added. There are no locks, versions
or callbacks: rows are the only shared state, `WHERE` conditions (`revoked_at IS NULL`, `used_at IS NULL`)
and unique keys the only guards, and two columns' worth of a decision are often taken from
a copy read several calls earlier.

**Hard behaviours**, listed line by line under `hazards` in `PROJECT.json`:
stale copies written back without a condition (lockout), checks made long before the statement that
acts on them (sessions), handlers that stop between two dependent statements, statements that commit
though the caller sees an error, one token presented several times at once, lookups whose failure is taken
for a miss, an upsert that moves a link, results that are paged through while they change, long legal
histories of failures and expired locks, and arithmetic at its limits.

## 2. Modules

| Module | Models | State |
|---|---|---|
| `AccountLock` | `auth.Usecase.Login` against one `users` row, any number of requests, beside `DeactivateUser`, `UpdateEmailVerifiedAt` and the clock | `account` (the row's columns that matter), `clock`; per request `pc` (its next repository call or its answer), `guess` (whether its password is right), `now` and `copy` (the locals `now` and `u`) |
| `LockoutPolicy` | abstract: the lockout with atomic attempts | `clock`, `lockout` |
| `AccountLockSerial` | `AccountLock` without overlap; the refinement mapping to `LockoutPolicy` | |
| `Sessions` | the refresh tokens of one user under logins, refreshes, logouts, password changes and resets | `row`, `reset`, `password` (the tables); per request `pc`, `target` (the token it was given), `client`; `family`, `seen`, `access` record what tokens carry or descend from |
| `SignUp` | Register, AddUser, SendEmailVerification, VerifyEmail and LoginWithGoogle over users, verification tokens and Google links, with calls that fail | `email`, `verified`, `link`, `token`, `session` (the tables), `expired`; per request `pc`, `address`, `subject`, `found` (the user it has read), `unverified` (whether its copy lacks `EmailVerifiedAt`), `target`; `vouched` (what Google has asserted), `faults` |
| `RoomAllocation` | `search/room_allocation.go` as functions, each beside the definition it is measured against | |
| `HotelSearch` | the three searches of one hotel (`postgres/search.go`) as separate reads, while rooms and inventories are inserted; uses `RoomAllocation` | `rooms`, `inventory` (the tables); `pc`, `criteria`, `found`, `candidates`, `answer` of one search |
| `Upload` | `upload.Usecase.UploadImages` over the object storage | `objects` (the bucket); per request `batch`, `uploadPc`, `current`, `offset` (where its reader stands); `uploadFaults` |
| `Catalog` | composes `Upload` and `RoomAllocation` with the hotels: adding hotels, rooms and nights, listing hotels, searching many hotels and paging through the results | `hotels`, `rooms`, `inventory` (the tables); `addPc`, `asked` of additions; `listPc`, `listed` of a listing; `searchPc`, `criteria`, `request`, `hits`, `chunk`, `read`, `free`, `pages` of a search; `due` records what matched when it began |
| `MC*` | TLC instances | |
| `*Proofs` | TLAPS proofs about the module they are named after | |

**AccountLock.** One action per outcome of a repository call together with everything the handler
does locally until its next call: `Begin` (takes `now`), `FetchPasswordless`, `FetchLocked`,
`FetchExpired` and `FetchOpen` (GetByEmail and handleLockState's branches), `Unlock` (the UPDATE that
clears a served lock), `RecordFailure`, `ResetAuthState`, `IssueTokens`. `UpdateAuthState` writes the
five columns whatever they hold, from the copy. `Abort` is any call failing without effect. An UPDATE
may also commit and report an error: `RecordFailure` then answers `error`, and so does `Abort` after
an `Unlock`. `LockDuration` is `jailDuration * (1 << level)` in signed words of `WordHalf`.
Passwords are right or wrong; `Compare` is local. `ready` and the answers are pc values without a call.

**Sessions.** A refresh token is named by the request that saves its row (its random `jti` makes
every token distinct); a session is the login its tokens descend from (`family`, a history variable,
as are `seen` and `access`). Expiry is a refusal that may come at any lookup. `SaveToken` may report
an error although the row is saved, and so may the UPDATEs of `UpdatePasswordHash`, `RevokeAllByUserID`,
`MarkUsedByHash` and a logout after they have taken effect; a refresh to which this happens in `RevokeByHash` is one
that aborts before its save. A token is presented only if it was answered (`Delivered`).
Logout needs a Bearer access token of the same user, which any login's answer supplies, so logouts
are not tied to a session of their own. `Abort` is any call failing without effect. Of the claims only
`email_verified` is there: `EmailVerifiedClaim` is what it is for a user value, `FetchedUser` the value a login reads,
`ParsedUser` the one that `ParseRefreshToken` makes of a token, `RequireVerifiedEmail` the middleware that wants it.

**SignUp.** One action per outcome of a repository call, as above, for any number of requests of five kinds. A
user row is named by the request that inserts it, a verification token by the request that draws it.
`Fails` gives for each handler what follows a call that fails, which differs: Register ignores a failed lookup
and a failed mail, a resend answers a failed lookup like an unknown address, and a Google sign-in takes
a failed lookup of its link for a miss (auth/usecase.go:682-690) and goes on by address. `Fail` is a failure without
effect; `Done` lets any writing call take effect and be reported as failed. `InsertTaken`,
`LinkedElsewhere` and `CreateBeaten` are the unique keys of the migrations. `CreateOAuthUser` is the one
transaction: users, refresh token and link are inserted together, or none is. Two requests that look up one
address and both insert are the point of the module, so `LookupEmailMissing` and `CreateOAuthUser` are separate
steps. Google answers any address and account, or an account id that is empty; an address
it does not vouch for is refused (`ExchangeRefused`). `Expire` is the clock against `verifyTTL`.

**RoomAllocation.** A party is its adults and the ages of its children; a child over `ChildMaxAge` counts
as an adult, as in `normalizeGuest`. `Backtrack` is `dfs` with its order and its remaining counts; the
order among requests with equally many choices is unspecified in Go (`sort.Slice`) and taken by index.
`Assignable` (some assignment of room types exists), `Placeable` (some way of spreading the party is
assignable) and `Roomy` (enough beds) are the reference definitions: they enumerate, and share with the
algorithms only `CandidateCanFit` and the accompaniment rule. `Ordered` is the sorting of a set by a strict total
order, given as a set of pairs; the order of requests, of combinations and of hotels are its uses.

**HotelSearch.** `LoadRooms`, `LoadCandidates` (inventory, then amenities, which never change) and one
answering action per endpoint. `CreateRoom` and `CreateInventory` may come between any two reads;
nothing updates or deletes either, and booking does not exist yet. A read may fail: `Abort` ends a search without
candidates, `AmenitiesFail` is the last read of `SearchHotelRooms`, which comes after the match was computed. Rooms come from the database in any
order, so candidates are an unordered function. Prices are small integers. Left out: descriptive
fields.

**Upload.** `UploadBegin` takes the files of both form fields, `RefuseSize` and `ReadHeader` open a file,
`DetectImageContentType` recognises and rewinds it, `Store` and `StoreFails` are PutObject. An object is named by its upload
and file, since its key is random, and records which part of the file it holds: from the `start`, or
from behind the `header`. Nothing is removed after a failure.

**Catalog.** `CreateHotel` is the transaction of postgres/hotel.go:99-152, `ReadBack` the read that follows it; a
failure of either is answered as an error, of the second with the hotel in place. `ColumnDefault` is the default of
GORM's tag that replaces a zero value. A listing is three reads (`ListHotels`, `PreloadImages`,
`PreloadPaymentOptions`), a search one read of hotels, one of rooms per chunk of hotels and one of inventories per
chunk of rooms (`chunkStrings`), and an answer that filters, slices and forgets: the next page starts over.
`SearchFails` is a read that fails and a guest who asks again. `Init` is the seeded database or an empty one. What
is required of rooms for a party is `MinimumRequiredRooms` of `RoomAllocation`. Hotels are numbered in the order of
the query, so a hotel may be added before or after those that a guest has seen.

Each model has a few operators marked *Mutation*. They are variants of the definition that follows
them, wrong the way a slip in that code would be; no specification uses them. `PROJECT.json` pairs
each checked property with one that breaks it.

## 3. Runs

| Run | Instance | Shows |
|---|---|---|
| `account_lock` | 4 logins, threshold 2, clock 0..2, lock of 1 tick; 1.5 million states | types; `LockMatchesFailure` (the four columns of a lock are always one failure's, however copies overwrite each other), `FailureStateValid`, `NoSpuriousLock` (levels and counts are paid for by wrong passwords), `TokensNeedVerifiedEmail`, `LockHoldsOnceQuiet` (a live lock is out of reach of every request that reads it) |
| `account_lock_serial` | 5 logins one at a time, threshold 2, clock 0..3 | `ImplementsPolicy` (refinement: in particular the escalation never falls), `LockedAfterMaxRetries`, `LockServedInFull`: what overlap can break |
| `sessions` | 1 login, 2 refreshes, 1 logout, 1 password change, 2 resets of one token, 2 known agents and an unknown one; 1.5 million states | `OneTokenPerSession`, `ExchangedOnce`, `LogoutEndsSession`, `SessionKeepsClient` along a chain of rotations, `ResetSucceedsOnce`, `OldSessionsStayDead` |
| `sign_up` | any 4 of 1 registration, 1 addition, 1 resend, 2 followers of links and 2 Google sign-ins; 2 addresses, 2 Google accounts, 1 call that fails | `SignsInOwner`, `OneAccountPerSubject`, `VerifiedProven`, `SignInTokenAccepted`, `VerifySucceedsOnce`, `UsedMeansVerified`, `LinkStable`, and the liveness property `PresentedLinkVerifies` |
| `catalog` | a seeded or empty database, 1 added hotel, 2 added rooms, 2 nights, 1 upload, 1 listing or 1 search in pages of 1 or 2, chunks of 1 hotel and 2 rooms, 1 fault of each kind; 298 000 states | `UploadStoresPrefix`, `ListedWhole`, `ListedImagesStored`, `ShownMatch`, `PagesMissNothing`, `RepeatsExplained`, `MatchKept` |
| `hotel_search` | 2 room types of 5 kinds, one invalid, 2 nights, up to 2 rooms free, parties of up to 4 adults and 3 children, 1 or 2 rooms requested, limit 1 | `OffersAreFree`, `MatchHasPlacement`, `BacktrackingComplete`, `OfferIsLeastPlacement` (where the party can be put into rooms of one type, the quantity offered is the least that takes it), `MatchingTypeIsOffered` (what the two search algorithms owe each other), `CheapestKept` |
| `minimum_rooms` | as `hotel_search` | violated, see 4 |
| `unaccompanied_combination` | as `hotel_search`, for parties of one adult with small children | violated, see 4 |
| `inactive_login`, `lost_failures` | as `account_lock` | violated, see 4 |
| `late_session`, `refreshed_access` | one login, one refresh, at most one change | violated, see 4 |

**Fairness.** `FairSpec` of `SignUp` is the only fair specification: weak fairness on the steps of a follower of a
link, `VerifyStep(v) \/ FollowAgain(v)`. The server runs each accepted request in a goroutine to its
answer, and waits for nothing but its database calls, which return or fail; so a step that stays
enabled is taken. That the user who is told of a failure follows the link again is an assumption
about the user, and what the property is about: `PresentedLinkVerifies` says that following it again works. No
fairness is assumed of other requests, of failures (at most `MaxFaults`; with no bound a call could fail each time) or
of expiry. All other properties are safety properties.

**Why the bounds are enough.** Two requests race for one row; a third is needed to act on what the
race left; four logins with threshold 2 reach a lock, its expiry and a second lock (level 2) while
copies from before each of them are still in flight. The serial run adds a fifth so that a second
escalation is followed by another attempt. Clock 2 lets a lock of one tick end with copies of two
different times around. `WordHalf = 1024` is never reached with these levels: wrapping is covered by
the proofs, which hold for any word. In `sessions`, one login and two refreshes make a chain of rotations with one
racing, while a logout, a change and a reset may come at any call; the proofs cover more sessions. Two known agents
beside the unknown one are what a chain can confuse; addresses are treated like agents by `sameClientSession`, and the
run has only the unknown one, while the proof covers any addresses.
The search needs a type too small for a share of the party, one large enough, and one that is inactive;
two nights to differ; two requests to compete for the last room of a type; ages on both
sides of the limit in both orders. In `sign_up`, four requests are a registration or resend with its two followers
and a sign-in, or two sign-ins and two others that race them; two addresses and two accounts are
what a link can confuse. The failure may be any call of any of them. `MCSignUp` numbers
requests of a kind, addresses and accounts by first use, since a symmetry set is unsound for liveness, and
brings an addition first, whose one insert races like that of a registration. `MCCatalog` leaves out the
interleavings that cannot be seen: uploads and listings beside searches (one only writes what the other never reads).
Chunks of one hotel and two rooms put a boundary between any two, and pages of one make two
hotels two searches. The proofs of section 5 remove the bounds for every property of every passing run but the
liveness of `sign_up`.

**Deadlock.** The search and catalog runs say `CHECK_DEADLOCK FALSE`: they end when the guest has every page and each
row is inserted. So does `sign_up`: each of its requests runs once. The session runs say `CHECK_DEADLOCK FALSE`: each request runs once, and when all have
answered and every reset token is drawn, the instance is over. `AccountLock` never deadlocks, an
administrator can always act.

**Symmetry.** Requests of a kind are interchangeable, and so are the known agents; no property tells
them apart and none is a liveness property.

## 4. Disagreements

Each is a run that TLC finds violated; the line and the quotation are under `findings`.

- `inactive_login`: an account that was deactivated logs in. `handleLockState` looks at locked rows
  only; nothing compares the status with inactive.
- `lost_failures`: overlapping wrong passwords are counted from stale copies; more than the threshold
  can be answered "invalid" with no lock. `account_lock_serial` shows that overlap is the only cause.
- `late_session`: RevokeAllByUserID revokes the rows of one moment; a login or refresh past its checks
  saves its row afterwards and outlives the password change. `OldSessionsStayDead` is what does hold.
- `refreshed_access`: ParseRefreshToken returns a user without EmailVerifiedAt, so a refreshed access
  token says `email_verified: false` and the private API refuses it.

- `minimum_rooms`: the least room count is only looked for among even splits. One adult with children of
  12 and 11, in this order, is refused two rooms, although the 12-year-old counts as an adult and could
  stay with the younger one; with the ages swapped the search succeeds.
- `unaccompanied_combination`: combinations are offered by the totals of guests. One adult with two children of 11
  gets two rooms of a type that takes one adult and one child, so a child is alone in one of them. The wiki
  (04-search-booking.md:109-114) wants an adult in each room with children, when combinations are generated too.
  `OfferIsLeastPlacement` is what does hold: if the party can be put into rooms of the type, the offer is right.

More that no run states. A payment option that is added as disabled is stored as enabled, since GORM leaves a zero
field with a default in its tag (postgres/hotel.go:49) to that default, and the search then finds the hotel by it
(`ColumnDefault` of `Catalog`); the wiki (03-hotel-room.md:28) says that an option can be switched off. A login that
read the row before a deactivation writes the old status back (auth/usecase.go:327). A taken address is answered by
Register and AddUser as an internal error, where the annotations (httpserver/auth.go:51) and the wiki
(05-api-reference.md:126, "email đã tồn tại") name a conflict: `isDuplicateEmailError` looks for an error of
`lib/pq` while the driver is pgx. `handleRegister` is documented to return tokens and returns none. The wiki sorts
the hotels of a search by match and price (04-search-booking.md:53); the query's own order is kept. The wiki lists
BMP among the formats of an upload (03-hotel-room.md:40); `detectImageContentType` refuses it. Combinations are of
one type only, where the wiki's example mixes two. The wiki describes the flags of a match differently:
`flexibleMatch` (04-search-booking.md:51) as rooms that are available but not enough, where the code sets it if the
party fits in more rooms than requested; `strictMatch` (04-search-booking.md:65) as at least as many rooms available
as requested, where the code sets it if the rooms required are exactly those requested. The wiki
(02-users-auth.md:115) has a logout end every session where `Logout` revokes the one token it is given; and
`recordFailure`'s shift overflows from level 24 on with the default quarter of an hour, but a row needs centuries of
served locks, or a deactivation before each, to get there.

## 5. Proofs

All theorems hold for any finite set of login requests, any sets of session, sign-up and upload requests, clients,
addresses, Google accounts, batches and reset tokens, any number of failures, any threshold, duration, word size and
clock bound, and for any finite sets of hotels and rooms, any nights, kinds of rooms, parties, ages, chunk and page
sizes. The assumptions are those named in the modules (`RequestsAssumption`, ..., `KindsDisjoint`, `NoneAssumption`,
`UnknownAssumption`), which TLC evaluates in every run. Those on rooms and searches are what the handlers have
validated before a statement runs: a kind takes an adult and its occupancy holds its beds
(`Catalog`'s `KindsAssumption`), a search has an adult, a room and a night (`CriteriaAssumption`). `HotelSearch` has
the validation in its actions, so its kinds may be invalid and only their fields are typed.

`AccountLockProofs` proves `TypeOK` and the five properties of the `account_lock` run. They are
not inductive: a blind UPDATE from a copy can only be judged by what the copy was. The
strengthening `IInv` says that the row is *sound* for the wrong passwords tried so far and that
**every copy a request holds is sound too**: it was a sound row when it was read, and neither time nor
the tries go back. A failure adds itself to the tries at the very moment its
UPDATE raises the count, so a stale copy plus one is still paid for.

`AccountLockSerialProofs` proves `SerialImplementsPolicy`. Its invariant adds that the copy of the one
request in flight agrees with the row on the lockout columns; then each UPDATE is a step of
`LockoutPolicy` and everything else a stutter. From the same invariant follow the two properties that overlap breaks.
A live lock means that no request is past its check (`LiveMeansQuiet`), so `LockServedInFull` is the serial form of
`LockHoldsOnceQuiet`; and before the first lock the row has counted every wrong password (`Counted`), so
the threshold locks (`LockedAfterMaxRetries`).

`SessionsProofs` proves `TypeOK` and all five other invariants of the `sessions` run, and the action
property `OldSessionsStayDead`. The argument has two layers. `StepFact` says what a step can do,
whichever action it is: rows are never forgotten or revived, what a request was given stays, a token
becomes live only by a login opening a session or by a refresh taking one over, at most one request
moves. The invariant `IInv` follows from those facts alone: presented tokens were saved, exchanged
tokens are revoked, sessions descend from logins that have begun, and **the live token of a session
knows the client that any of its tokens ever knew** (`HolderKeepsClient`), which is what
`SessionKeepsClient` lacks to be inductive.

`SignUpProofs` proves `TypeOK` and all other safety properties of the `sign_up` run, the action property `LinkStable` included. It
has the same two layers. The step facts (`Moves`, `Inserts`, `Binds`, `Finds`, `Links`, `Stamps`, `Opens`, `Draws`,
`Pursues`) say what a step may do to each table, whichever action it is and whether its call fails. The
invariant `IInv` then follows: a request that may still insert has not (`Unborn`), addresses are unique
(`AddressesUnique`), and **whatever a link or a sign-in leads to, Google has asserted the address of that user for that
account** (`LinkProven`, `FoundProven`), which stays true because assertions, and addresses of rows, are never taken
back (`AssertedKept`). `SignsInOwner` is this fact at the moment of the session; `OneAccountPerSubject` and
`LinkStable` are this fact and unique addresses. `Copies` ties each copy to the row, `Mails` and
`Follows` each token to the address it was mailed to.

`UploadProofs` proves `UploadStoresPrefix`. It says how much is stored but not how far a request is;
`UploadInv` says both: at file `current`, exactly the files before it are stored (`Reached`), a file
is stored only after it was rewound, and every object is a whole image (`Pure`).

`CatalogProofs`, first part, proves `ListedWhole` and `ListedImagesStored`, and that `UploadStoresPrefix` survives the
composition: every step of the catalog is a step of the uploads or leaves them alone, so `UploadInv` is kept. `CatalogInv`
adds how far each addition is (`AdditionAt`), that hotels show only images of uploads that were answered
(`HotelsShowUploads`), and that what a listing has read so far is still so (`ReadOf`), since a hotel that is there never
changes: this is what makes three reads as good as one. `AsksAssumption` says that an administrator's request, as a parameter,
names no images; they are chosen when it is sent.

`RoomAllocationProofs` proves what the functions of `search/room_allocation.go` compute, for any candidates and
party. Some need an induction: over the positions of `dfs`, and over sums. There is no induction theorem to cite (see 6), so each goes by **least counterexample**: a nonempty set of
naturals has a least element, and the set of those for which the claim fails, were it nonempty, would have one that
the recursion refutes. Sums are handled by counting tokens: a sum is the cardinality of a set of pairs. The results:

- `AllocationIsAssignment`: the search with its order of fewest choices first succeeds exactly if the requests can be
  assigned room types at all. Its lemma says that `dfs` at a position succeeds exactly if the rest of the order can be
  assigned within what remains.
- `MinimumIsFirst`: the count found is the first whose even split is assignable, and 0 means there is none **however
  many rooms one takes**, although the loop stops at the rooms available.
- `MinimumOfMore`: more rooms, of more types, never need more rooms for the party. Its core is that an assignment to
  fewer candidates is one to more (`AssignableOfMore`).
- `QuantityIsLeastRoomy`: the rounded-up quotients are the least number of rooms of a type that has the beds.
- `OfferIsLeast`: of a type whose free rooms can take the party with no child alone, the same quotients are the least
  number of rooms that can. Three bounds on the totals decide: beds for the adults, beds for the children, and no more
  children than the adults can have beside them (`SumBeside`); if they hold, the party is placed room by room
  (`EverybodyAccompanied`, by least counterexample over the number of rooms). The third does not depend on the number of rooms, so if any number
  takes the party, the quotients do.
- `MatchingTypeQuantity`: a type that alone makes a match is offered by the other search, in no more rooms. The beds
  of the split are summed over its rooms.

`HotelSearchProofs` proves `TypeOK` and the six other invariants of the `hotel_search` run. `IInv` says that the tables hold
only what was validated (`TablesSound`); that a search reads on from valid criteria and has found active rooms
(`SearchSound`); that each candidate has the beds and the price of its row and the amenities asked for, and **is still
free, in as many rooms as the search has counted, in every night of the stay** (`CandidatesSound`): as many rows as
nights are a row of every night, and rows are only inserted; and that an answer is empty or one of the three that the
algorithms make of the candidates (`AnswerSound`). The properties follow from `IInv` and the theorems of
`RoomAllocationProofs` at the candidates read.

`CatalogProofs`, second part, proves all other invariants of the `catalog` run. `RowsSound` says that rows refer to rows
there are; from it and `MinimumOfMore` what a party requires of a hotel only falls while rooms and nights are inserted
(`RequiredKept`), which is `MatchKept`. For the pages, that is not enough: in the middle of a search a room may be
added behind the chunk that has been read, and the hotel's match is then better than what the search will answer.
The proof counts over the **sure hotels** (`SureHotels`): those that match with the rooms this search has read as
free, or will still read (`WillRead`). A sure hotel stays sure (`SureKept`), between two searches the sure hotels are
the matching ones (`SureMatches`), and at the answer they are the answered ones (`SureAnswers`), in the order of their
numbers. `PagingInv` then says where hotels stand among the sure ones: whatever is on a page or due is sure
(`ToldIsSure`, hence `ShownMatch`); a hotel that is due and not yet seen has as many sure hotels before it as the pages so far
hold, and a further page is announced (`UnseenIsAhead`, hence `PagesMissNothing`), because hotels before it are only added; and a
hotel that was on a page has moved back by no more than the sure hotels have grown since (`MovesExplained`, hence
`RepeatsExplained`).

## 6. Limits

- Only model-checked: liveness (`PresentedLinkVerifies`), which is out of the prover's reach, and the
  six violations of section 4.
- The library's induction theorems take an operator as a parameter and cannot be instantiated by the provers. The
  inductions of `RoomAllocationProofs` therefore go over least elements of sets of naturals, and `Backtrack` is a
  recursive function of one argument, a pair.
- The inductive invariants are proved and not run: `SearchInv`, `IInv` of `HotelSearch` and the like range over all
  sequences of hotels or all naturals. TLC checks the properties they imply.
- A stay is counted in calendar nights. The code divides hours between local midnights by 24
  (postgres/search.go:527), which differs across a daylight-saving change.
- `cmd/seed` is an initial state of `Catalog`. Running it again beside the server is not modelled: it deletes the demo
  hotel with its rooms and nights and inserts them again (cmd/seed/main.go:63-89), so the demo rows would be withdrawn,
  while the server itself deletes nothing.
- Paging: a guest follows the pages he is answered; offsets far beyond the results, where the product of page and size
  leaves the word (httpserver/request.go:258), are not modelled.
- Time: expiry of refresh and reset tokens is a refusal at any time, not a clock. `AccountLock` has one
  clock; the skew between servers is not modelled.
- `AccountLock` and `Sessions` have one user: rows of different users do not meet in those handlers. They do in
  `SignUp`, which has many.

**Not modelled**, and why: hashing, signing, mail contents, text validation, the match of names and
locations in a search, and response shapes (local and without state); `UpdateProfile`, which writes a name and a
phone that no decision reads, `CreateAmenity` and the plain listings (one statement each); the rate
limiter (it bounds the speed of requests, not their overlap); Sentry; configuration; wiring of the server; connection
pooling; generated documentation.

## 7. Plan

Done: all modules of section 2 with their runs, and a proof of every safety property that a passing run checks.
Next, in this order:

1. An abstract search (one atomic read of the database at the moment of the answer would give the same hotels or
   fewer) that `Catalog` implements between inserts, with its refinement proved from `SureAnswers`.
2. Composition of `AccountLock` and `Sessions`: a login that the lockout lets through and the session it
   opens; a deactivated account's sessions.
