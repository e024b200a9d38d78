# Verification of the Sienne identity provider

TLA+ models of `idp-server`, an OAuth2/OIDC identity provider in Go with MySQL
as its source of truth and Redis for caches, one-time keys and streams. The
server runs as several stateless nodes. What is hard to test in it happens
between two round trips: another request, another node, a key that expires, a
Redis command that fails. The models therefore take one step per round trip and
let everything else happen in between.

## The system and what is modelled

| Part of the server | Module | State |
|---|---|---|
| refresh rotation, grants, whole-user token revocation | `RefreshToken`, abstract spec `TokenFamily` | token rows, Redis token hashes, grace and family keys, blacklist |
| authorize endpoint, consent, code, password and client-credentials grants | `AuthCode` | codes, consents with InnoDB's row and gap locks, token rows |
| device authorization grant | `DeviceCode` | code hash, user-code key, WATCHes |
| password login, rate limits, account lock | `Login` | failure counters, lock keys, user row |
| worker pools of the login | `WorkerPool` | queues, jobs, callers that gave up |
| second-factor challenge (TOTP, passkey, push) and its pages | `MFAChallenge` | challenge hash, state bitfield, TOTP step keys, sessions, cookie |
| session and MFA bitmasks | `StateMask` (operators) | none |
| TOTP and passkey enrolment | `Enrolment` | pending secrets, ceremonies, credentials, the session replaced |
| sessions, logout, logout-all, admin logout | `Session` | row, cached hash and state, user index |
| registration, federated login and provisioning | `Accounts` | users, upstream state keys |
| roles, permissions, administrators' audit trail | `Roles` | roles, role and mask of users, latest events |
| OAuth clients, redirect URIs, short links | `Registry` | clients, URIs with their row locks, links, clicks |
| audit stream, consumer group, dead letters, replay | `AuditStream` | stream, pending list, retry counters, dead letters, table |
| signing-key rotation on several nodes | `KeyRotation` | `jwk_keys`, key files, per-node key manager, broadcasts |

The parts meet in few places. Every login ends in `createSession`, which
`Session` models in full, and `Login` and `MFAChallenge` as their last steps.
`Login` hands over to `MFAChallenge` where a second factor is due, and its jobs
run in `WorkerPool`. `Enrolment` ends a session the way `Session` does and creates
the challenge that `MFAChallenge` goes on with, whose operators on masks come
from `StateMask`. The grants of `AuthCode` and `DeviceCode` end in token rows;
what becomes of a refresh token then is `RefreshToken`. A whole-user logout is
in two halves: `Session` has the sessions, `RefreshToken` the tokens. `Registry`
produces the clients that `AuthCode` takes as given, and `Roles` has the guard
in front of both `Registry` and the registration of `Accounts`.

Modules that share no state are checked in one TLC run as a sum: a variable
`part`, fixed in the initial state, says which of them goes on while the other
stays as it starts. `MC_Grants` is `AuthCode` and `DeviceCode`, `MC_Session` is
`Session` and `Enrolment`, `MC_Login` is `Login` and `Accounts`, `MC_Directory` is
`Roles` and `Registry`, and `MC_MFAChallenge` is `MFAChallenge` beside all entries
that can be saved and read back through `StateMask`. The configurations use the same model values in several parts, so that
one group of permutations serves all of them.

## How state and actions correspond to the code

Each action is the code between two points where others may run, with the
checks, early returns and writes of that stretch. `pc` names the next round
trip. Requests refused on their form alone change nothing and are not steps.
`PROJECT.json` maps each definition to its lines.

* **RefreshToken.** A call is a grant (`GrantAccessToken` ... `SaveRefreshToken`)
  or an exchange (`CheckRefreshTokenReplay` ... `RotateRefreshTokenCache`, with
  `TryRefreshTokenGraceReplay` for the loser). A call mints at most one token of
  each kind, named after the call. Lua scripts and MySQL transactions are atomic.
  Redis writes whose error the service drops may fail when `CacheMayFail`;
  with `StaleReads` a lookup may return an older state of the row. All clocks
  agree. One user and one client.
* **AuthCode.** A slot holds an authorize, consent or token request. The code is
  consumed in a transaction of its own, before client, redirect URI and PKCE are
  checked; a commit may be lost to the caller and yet done (`CommitUnknown`).
  Accepting a consent is SELECT ... FOR UPDATE, then an upsert with the union:
  with `GapLocks` (REPEATABLE READ) two requests that both find no row block each
  other's insert and MySQL rolls one back. Who is logged in is a variable, the
  token cache is left out.
* **Login.** One login per slot, one step per store call. The collation of the
  users table finds one row under several spellings; Redis keeps the failure
  counters by the name as typed and the lock by the user, and a success resets
  the counters of the name as the row has it. `wrong` counts, by name as typed,
  the wrong passwords callers are told of while the counter and the lock live. A
  dropped connection fails every later store call of its login. Keys with a
  time to live may go at any moment, and an administrator may unlock an account
  or reset a password, in two calls.
* **WorkerPool.** A call submits, waits, or gives up; a job is in a queue, with
  an IO worker, in the CPU queue, or with a CPU worker while the IO worker waits.
* **StateMask.** Masks are sets of bit names.
* **MFAChallenge.** One challenge, several requests, from the page's handler to
  the session. `GetMFAChallenge` is a pipeline without MULTI: with `TornReads`
  other clients come between its two reads. `VersionLimit` stands for 2^32 - 1. A
  TOTP step key lives 120 s, longer than the code is valid, so it never expires
  here. The code is ready for push challenges although today's login passes
  only TOTP and passkey to `updateMFAChallengeMode`. The script's migration of
  challenges that have no bitfield is left out.
* **Enrolment.** `Confirm` goes from the pending secret to the row in four store
  calls; after a wrong code the page begins another setup, which replaces the
  pending secret. The session's end is its row, then its cache entry.
* **Accounts.** A federated callback looks a person up by stable uuid, then name,
  then email, then tries usernames with growing suffixes and inserts; any error
  of the insert is followed by one more lookup. With `StaleReads` lookups see an
  older state. The lookup by the raw subject, which comes before the stable uuid,
  is taken to find nothing: uuids are random or derived. An account that is locked
  or disabled is refused before its session (`CallFails`).
* **Roles.** A mask is the set of its bits. `Init` has the rows of `migrate.sql`,
  some of whose masks (`Seeded`) are not the ones of `pkg/rbac` (`Builtin`); a
  bootstrap brings those in, one upsert after the other, and writes one event.
  The guard reads the caller's mask at the beginning of the request; check and
  write are separate calls; a write may be done and its answer lost; the audit
  event comes last and may fail. An event is there once the repository has it,
  which by default is the stream: `AuditStream` has its way to the table.
* **Registry.** `Init` has the clients of `migrate.sql`, which `CreateClient` would
  not all accept. Its defaults and refusals (`Accepted`, `Model`) are tried on
  every combination of input. A registration of URIs is one transaction that
  inserts row by row and waits for rows others have inserted. `created` and
  `promised` hold what creators of clients and links were told.
* **DeviceCode.** One code, polls and deciding users. The clock has `Second`
  readings in a second and times in the hash are cut to whole seconds
  (`FormatTime`), so the code expires up to a second early and two polls may come
  that much closer than the interval. Keys disappear at some time from
  `DeviceTTL` on; an HSET after that creates a hash with only the written fields
  (`full = FALSE`).
* **Session.** `ReplicaRow` gives what a lagging replica may return. A cached
  entry without its state key is active by its status, so the torn read of `Get`
  does no harm and is not split. Natural expiry is left out.
* **AuditStream.** Each process runs a read and a reclaim loop. A Redis command may
  fail or its reply may be lost; a process may crash. A `Malformed` event has no
  event type, or other fields that do not decode; it is dead-lettered at once.
  The replay command skips dead letters without id or type and adds the others
  again; which of the two a malformed one is stays open. The dead-letter stream is a
  set. Retry counters expire after 24 h against a reclaim every 15 s; that expiry
  is left out.
* **KeyRotation.** A kid is the second of the decision to rotate; the key itself
  is named by the node that generated it. Each node runs a loop, a subscription
  and an administrator task. `CreateActiveKey` is atomic: its UPDATE locks
  the active row, so a second transaction waits. The loop's rounds have a context
  of 30 s, `RotateTimeout`; a manual rotation is bounded only by its HTTP
  request, and the model gives it the same limit. The boot path, which falls
  back to a generated key, is left out.

## Runs

| Run | Checks | Distinct states |
|---|---|---|
| `refresh_race` | one live row per family, agreement of all successful refreshes, the inductive invariant, refinement of `TokenFamily` | 216,554 |
| `refresh_reuse` | a detected reuse blocks the family while its marker lives (Redis up) | 339,533 |
| `refresh_logout` | no family hit by a logout has a live row again | 2.0 M |
| `grants` | a code buys tokens once, tokens follow the grant, consents add up; device tokens go to who approved and only in time, polls keep their distance to within a second | 2.8 M |
| `login` | wrong passwords are bounded for each name as typed, a reported lock holds, a permanent lock key has its row; the unique keys of users stand and identities find their row | 2.0 M |
| `pool` | jobs are where their calls say, within the pools' limits; every call returns and every job ends | 13,514 |
| `mfa` | hash and bitfield agree, decisions are final, a challenge that is gone stays gone but for torn copies, one session per TOTP step, push sessions were approved, the browser keeps its cookie; what is saved can be stored and comes back | 248,863 |
| `session_primary` | ended sessions stay ended, the index covers the cache; factors were proved, the challenge replaces the session | 1.4 M |
| `directory` | system roles keep a mask of theirs and roles in use exist, the audit trail tells what the rows hold, clients and short links stay as their creators were told, counts add up | 847,164 |
| `audit` | nothing lost, only exhausted or malformed events dead-lettered; every message is acknowledged | 210,616 |
| `keys` | no token outlives its key, the inductive invariant; every node ends up on the active key | 264,710 |
| `mfa_buttons` | violated: the push page's buttons decide | |

In `audit`, `NothingLost` and `EventuallyAcknowledged` together say that every
event ends in the table or among the dead letters. `session_primary` assumes strong reads by id
(`mysql.strong_read`), off by default; `Session_replica.cfg` shows what happens
without. `grants` assumes REPEATABLE READ, MySQL's default: with `GapLocks = FALSE`
in `Grants.cfg` two acceptances that both find no row lose one of the two.
`login` assumes up-to-date readers: with `StaleReads = TRUE` in `Login.cfg` the
loser of a provisioning race may not find the winner's row, although the comment
at `authn/service.go:695` says that the lookup makes the two converge. The type
invariants of the modules hold in the same instances; those with an inductive
invariant contain them.

`mfa_buttons` shows a disagreement inside the code. The buttons of
`login_push.html` send `approve` and `deny`, and the handler's tests expect
these to decide the challenge; `DecideMFAPush` accepts only `approved` and
`denied`, so every click is refused.

Other guarantees that the code does not give, most of them announced by a comment
or an article, have a configuration with which TLC prints the counterexample.
They are kept for the reader who wonders why the property is missing above.
Where several properties share a configuration, the file names the first one;
another is put in its place:

| Configuration | Property it refutes | What happens |
|---|---|---|
| `RefreshToken_loser.cfg` | `LoserGetsWinnersResponse` | a concurrent retry within the grace period fails: it lost the database rotation before the winner wrote the grace key |
| `RefreshToken_marker.cfg` | `ReuseEndsFamily` | the family marker expires before the family's newest token |
| `RefreshToken_inflight.cfg` | `ReuseEndsFamilyWhileMarked` | a rotation in flight escapes the family marker |
| `RefreshToken_blacklist.cfg` | `RevokedAccessTokenRefused` | a token created during a logout is revoked and not blacklisted |
| `RefreshToken_blacklist.cfg` | `RevokedAccessTokenInactive` | the same token is introspected as active |
| `MFAChallenge_consume.cfg` | `ConsumedOnce` | two requests that read a challenge before either deletes it both open a session |
| `MFAChallenge_resurrect.cfg` | `ConsumedStaysGone` | a torn read brings a consumed challenge back |
| `Grants_replica.cfg` | `NotAskedAgain` | a lagging replica hides the consent just given |
| `Grants_forward.cfg` | `StatusMovesForward` | a late decision overwrites a later status of a device code |
| `Session_race.cfg` | `CacheFollowsRows` | a login's cache write outlives a whole-user logout |
| `Session_replica.cfg` | `NotFoundMeansNoRow` | a logout misses a row the replica does not have yet |
| `Login_merge.cfg` | `SameAccount` | an identity is merged into one account and later given another |
| `Login_merge.cfg` | `ConsumedOnce` | two callbacks read a state before either deletes it |
| `Login_merge.cfg` | `LockAlwaysBacked` | the row cannot be locked, and a dropped connection keeps the lock key from being cleared |
| `Directory_role.cfg` | `RolesAlwaysExist` | a role is assigned between the count of its users and its deletion |
| `Session_retry.cfg` | `WrongCodeKeepsSecret` | after a wrong code the page begins a new setup, and the QR code scanned before is void |
| `Session_retry.cfg` | `EnabledSecretStays` | of two confirmations in flight the second replaces the secret of the first |
| `KeyRotation_lock.cfg` | `ReplacedKeyWasDue` | two nodes rotate the same due key |
| `KeyRotation_lock.cfg` | `PublishedBeforeUse` (an `INVARIANT`) | a new key signs before all nodes publish it |
| `KeyRotation_lock.cfg` | `JWKSMatchesRows` (an `INVARIANT`) | two rotations in one second: the loser's key file is published |

A smaller one needs no model: the comment at `logout_all_handler.go:58` says that the
cookie is deleted in any case, but the error path returns before.

### Bounds

| Module | Bounds | Why they are enough |
|---|---|---|
| `RefreshToken` | 3 calls; 4 for reuse, 5 in `_inflight` | a grant and two refreshes of its token make a race; reuse of a rotated token takes a fourth |
| `AuthCode` | 2 slots, 3 requests, 1 login, one user, a public and a confidential client | an authorize or consent request and two exchanges, or two acceptances and an authorize request |
| `DeviceCode` | 2 polls, 2 deciders, 2 readings a second, TTL and interval 2 s, clock to 2.5 s | polls and decisions compete, at whole and half seconds, and the code expires under both |
| `Login` | 2 slots, 4 tries, one account with two spellings and a name without one, thresholds 2, 2, 2 and 3, 1 administrator's call; MySQL may fail | both locks are reached, by a login that races another one, with tries left afterwards |
| `WorkerPool` | 3 callers, 1 worker and 1 place in each pool | both queues are full with one caller more waiting |
| `MFAChallenge` | 3 requests, 2 TOTP steps, `VersionLimit` 2 | one starts, one decides or consumes, one holds an old copy; the version wraps. It also holds with 4 requests and 1 step (2.8 M states) |
| `Session` | 2 calls, 2 sessions of one user and 1 of another | what a logout must and must not touch |
| `Accounts` | 2 slots, 3 requests, 2 candidates | two identities whose names sanitise to the same username, and local rows in their way |
| `Roles` | 2 slots, 3 requests, 3 system roles of which one is seeded with another mask, 1 other | create a role, then two requests that race; a bootstrap that changes some roles, once more after a failure |
| `Registry` | 2 slots, 3 requests, 2 attempts, a seeded client and another, 2 codes | create a client, then two registrations in opposite orders; two creators of one client or code |
| `Enrolment` | 2 slots, 4 requests, 3 secrets, 1 ceremony, 2 time steps | begin, confirm, and another tab that does the same |
| `AuditStream` | 1 process, 3 messages, 2 retries, 2 faults | its two loops share messages; a crash follows a lost reply |
| `KeyRotation` | 2 nodes with 3 tasks each, clock to 1 | a stale key set and a fresh one, a late commit and a timely one; longer periods are left to the proof |

Symmetry is used only in runs without liveness. Most runs switch deadlock
checking off: requests end and messages run out. The loops of `KeyRotation` and
the callers of `WorkerPool` never do, and deadlock is checked there.

### Fairness

`AuditStream!FairSpec` assumes that each loop goes on when it can: both are
`for` loops whose errors only skip a round. Failures are bounded by `MaxFaults`,
so the claim is about a system whose faults end. `KeyRotation!FairSpec` assumes
that the ticker keeps starting rounds and that a started task goes on. Nothing
is assumed of broadcasts or the clock. `PoolFairness` assumes that goroutines run
and jobs end (weak fairness of a caller's next step), and that a goroutine
waiting to send into a queue gets its turn (strong fairness of `Submit` and
`SubmitCPU`), since Go serves the senders of a channel in their order. Nobody has
to cancel.

## Proofs

TLAPS checks the theorems for every value of the constants that satisfies the
named assumptions: any number of users, sessions, slots, nodes and events, any
lifetimes, thresholds and queue sizes. Every safety property a passing run lists
is stated by a theorem. Apart from `RotationInv` they are not inductive as they
stand. Each module of proofs first gives the invariant that is, in parts: what
the stores hold, what a request at a given step holds of them, and what the
history says. Then it has one lemma per action, or per group of actions that
write alike, that the action keeps it.

A module of proofs extends the module its runs check, so that the property in the
theorem is the property in the configuration. Where that module holds an instance
(`R`, `G`, `E`, `D`, `A`) the theorem is about the instance's specification, and
what it needs of the constants is a hypothesis, named in the table's third column.

| Module | Theorems | From |
| --- | --- | --- |
| `RefreshTokenProofs` | `RotationInvariant`, `TypeCorrect`, `SingleHolder`, `Agreement`, `LogoutIsFinal`, `RotationFinality`, `ReuseIsBlocked`, `Refinement` | `BoundsAssumption`, `IdentityAssumption` |
| `KeyRotationProofs` | `KeyInvariant`, `ActiveKeyIsUnique`, `NoTokenOutlivesItsKey` | `RotationAssumption` |
| `SessionProofs` | `TypeCorrect`, `IndexIsComplete`, `EndedIsFinal` | `SessionAssumption`; the last one `StaleReads => StrongRead` |
| | `FactorsAreProved`, `SessionIsReplaced` (Enrolment) | `EnrolData` |
| `GrantProofs` | `GrantTypeCorrect`, `CodeBuysOnce`, `TokensComeFromGrant`, `ConsentsStand` | `AuthCodeAssumption`; the last two `GapLocks`, the last one also `~StaleReads` |
| | `DeviceTokensToApprover`, `DevicePollsSpaced` (DeviceCode) | `DeviceAssumption` |
| `LoginProofs` | `FailuresAreBounded`, `ReportedLockoutHolds`, `LockKeyIsBacked` | `LoginAssumption` |
| | `EachJobInOnePlace` (WorkerPool) | `PoolAssumption` |
| | `OwnRowIsFound`, `AccountsTypeCorrect` (Accounts) | `AccountsData`; `AccountsBounds` |
| `AuditStreamProofs` | `AuditTypeCorrect`, `NoEventIsLost`, `DeadLettersExhausted` | `AuditAssumption` |
| `MFAChallengeProofs` | `ChallengeTypeCorrect`, `KeysNeverDisagree`, `DecisionsAreFinal`, `ConsumedIsGone`, `StepBuysOneSession`, `PushSessionsApproved`, `OpenLoginsKeepCookie`, `TripsKeepState` | `ChallengeAssumption` |
| `DirectoryProofs` | `RolesAreKept`, `TrailIsTrue` (Roles) | `RolesData` |
| | `PromisesAreKept`, `RegistrationsAddUp` (Registry) | `RegistryData` |

The hypotheses that say something of the deployment: `GapLocks` is InnoDB's
default isolation, which the code does not change. `~StaleReads` is a reader that
does not lag, `StaleReads => StrongRead` allows it to lag where
`mysql.strong_read.session_by_id` is on. `AccountsData` needs `~StaleReads` as
well, because a login that cannot see its own row yet is merged by name.
`AccountsBounds` does not: unique keys are the primary's. The rest are shapes:
the tables are well formed at the start, the built-in roles are the seeded ones, placeholders are
not values, bounds are numbers, sets that are counted are finite.

The arguments, and why each invariant is needed:

* **Refresh tokens.** `RotationInv` adds to the types what a call at a given step
  holds (`CallInv`), that families are closed under rotation and a replaced row is
  revoked (`RowInv`), and that the grace key, the call about to write it and the
  responses all name the row's one successor (`ReplyInv`). The transaction
  re-checks the row, so its UPDATE and INSERT move liveness from one row to one
  other (`RowSwap`), which is also the step of `TokenFamily` that `Refinement`
  needs. `ReuseIsBlocked` is about Redis alone, and `ReuseInv` ties it to the rows:
  a hash key is of its row's family (`HashFamilyInv`), and the family-revoked key
  outlives the reused token's (`MarkedInv`). That fails for a key without expiry,
  which `rotate_token.lua` writes for a row already expired; `LastingInv` shows
  that such a token is never rotated, so its reuse is never detected, because
  nobody has it before it has expired (`HandedInv`).
* **Keys.** `KeyInv` says that any key set, installed or about to be, was read in
  the past, and that its signing key is active or was retired by a rotation that
  committed after the read, hence at most `RotateTimeout` after a decision no
  earlier than the read less `RotateTimeout`. So a token never outlives its key
  when `RetireAfter >= MaxStale + RotateTimeout + TokenTTL`.
* **Sessions.** `SessionInv`: an enrolment ends only the session it began with
  (`EnrolInHand`); a logout between its steps still reaches every session it is to
  end, through the rows or through the ids in hand (`CoversInHand`); an ended
  session has a logged-out row and no entry and cannot be saved again.
* **Enrolment.** `EnrolInv`: a row that was written used up its time step, a
  ceremony is still the one its user began, and of the submissions with one time
  step one comes to the upsert (`OneUpsert`).
* **Grants.** `RedeemInv` needs the row lock of `ConsumeByCode`: one exchange at a
  time is past the look at the code, and one that is about to issue tokens finds
  none of its code (`OnceInv`). `ConsentInv` says what the locks of the upsert
  give: the row as read is the row as it is (`LockInv`), so no scope a user agreed
  to is overwritten. `DeviceInv`: an approved status names its approver in the
  hash and in every copy, and an unbroken WATCH means that the comparison of the
  poll times still holds; the stored time is less than a second behind the poll.
* **Login.** `LoginInv`: the lock is set at the threshold of some spelling, and
  from then on each login in flight may add one failure and none joins them
  (`FailInv`); an account
  reported as locked stays so, and a login that began later ends at the hash
  (`LockoutInv`); an active account with a permanent lock key has an unlock or a
  lock in flight (`BackInv`). `PoolInv`: each queue holds exactly the jobs that
  are at it.
* **Accounts.** `AccInv`: a callback whose identity has a row goes straight to
  it, `user_uuid` being unique. `AccTyped`: the unique keys, and that the
  callbacks that have consumed a state together with those that still may are no
  more than have arrived (`Counted`).
* **Audit stream.** `AuditInv`: a loop acknowledges a message only after its event
  is in a table (`StoredInv`), every message still waits or has its event stored
  (`CoveredInv`), and the retry counter together with the loops that have not
  counted yet never runs ahead of the failures (`RetriedInv`).
* **Challenges.** `ChallengeInv`: the mask is the one of the fields beside it
  (`KeysInv`), a TOTP step is reserved by one request, before its session
  (`TOTPInv`), a request that creates a session has deleted the challenge
  (`GoneInv`), and the hash and every copy hold the one decision that was saved
  (`DecideInv`). `TripsKeepState` is the round trip of `StateMask`'s conversions.
* **Roles and clients.** `RoleInv`: what a request has checked still holds when it
  writes, unless another request about the same role came between
  (`RoleRequestOK`, `OneAbout`), and a subject that a request has changed and still
  owes an event (`Owes`) is as that event will say, unless requests about
  it overlapped (`TrailInv`); bootstraps that overlap owe the same. `RegInv`: what a
  transaction has inserted is new, transactions that run at once have not
  inserted the same URI (`InsertsApart`), a client or link is stored as its
  creator was told, and no step changes the target of a link (`LinksStay`), so
  the redirects that have resolved it still have it.

Each inductive invariant was model-checked before it was proved.

Only model-checked: the four liveness properties (`EventuallyAcknowledged`,
`EveryCallReturns`, `EveryJobEnds`, `EventuallyInSync`), since the prover handles
neither fairness nor ENABLED; and what the runs with a counterexample show.
`RotationFinality`, the `TypeCorrect`s and `ActiveKeyIsUnique` state parts or
consequences of the invariants; not all of them are listed by a run.

## Not modelled

* JWT signing, TOTP codes, password hashes and secret encryption: pure functions
  on cryptographic data. The models use what they promise.
* Discovery, JWKS and userinfo only read; the key set that JWKS publishes is
  `KeyRotation`'s view. Of introspection there is the decision (`MayIntrospectActive`),
  not the claims.
* Portal and console pages, listings and request logging: they render and change
  nothing.
* What handlers make of a result: status codes, redirects, pages. The cookies of
  logins and logouts are modelled where a property needs them. Audit events other
  than those about roles (a login, a new client) enter `AuditStream` as any event
  does; that they match what happened is not stated.
* Configuration, bootstrap and wiring run once, before the first request. That
  includes the boot path of the key manager, which falls back to a generated key
  when the table cannot be reached and then starts no loop: such a node never
  joins the others, so nothing `KeyRotation` states holds for it.
* `AuthorizationCodeCacheRepository`, `SaveNonce`, `ExistsNonce`,
  `IncrementFailedLogin` and `ResetFailedLogin` have no callers.
* Inside modelled parts: natural expiry of sessions, the migration of challenges
  without a bitfield, passkey sign counts, the synchronous audit mode, panicking
  jobs. WebAuthn's verification and the upstream provider are external and taken
  to answer as their protocols say.

Logout-all is not composed of `Session` and `RefreshToken`: its two halves share
no state and run one after the other, so the properties of each carry over.
