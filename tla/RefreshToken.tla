---------------------------- MODULE RefreshToken ----------------------------
(***************************************************************************)
(* Refresh-token issue, rotation, grace replay and whole-user revocation:  *)
(* the token service (application/token/service.go), the token part of the *)
(* session service (application/session/service.go), MySQL (token_repo.go) *)
(* and the Redis scripts check_refresh_replay, rotate_token, revoke_token. *)
(*                                                                         *)
(* Every call is a process that takes one step per database or Redis round *)
(* trip.  A call mints at most one access and one refresh token, and both  *)
(* carry the identity of the call that minted them.  All tokens belong to  *)
(* one user and one client.                                                *)
(***************************************************************************)
EXTENDS Integers, FiniteSets

CONSTANTS
    Calls,          \* concurrent token-endpoint calls; also token identities
    Logouts,        \* concurrent logoutUser calls for the tokens' user
    Fingerprints,   \* replay fingerprints (client and user-agent digest)
    Modes,          \* values of "client.RefreshTokenTTLSeconds > 0", a subset of BOOLEAN
    RefreshTTL,     \* client.RefreshTokenTTLSeconds
    GracePeriod,    \* refreshTokenGracePeriod
    MaxTime,        \* bound on the clock
    CacheMayFail,   \* whether Redis writes whose error the service drops may fail
    StaleReads,     \* whether reads go to a lagging replica
    None            \* no token, no fingerprint

ASSUME BoundsAssumption ==
    /\ RefreshTTL \in Nat \ {0}
    /\ GracePeriod \in Nat \ {0}
    /\ MaxTime \in Nat
    /\ Modes \subseteq BOOLEAN
    /\ CacheMayFail \in BOOLEAN
    /\ StaleReads \in BOOLEAN

ASSUME IdentityAssumption ==
    /\ None \notin Calls
    /\ None \notin Fingerprints

VARIABLES
    now,            \* the clock all nodes, MySQL and Redis share, in seconds
    \* MySQL oauth_refresh_tokens
    rows,           \* refresh tokens that have a row
    expires,        \* expires_at
    revoked,        \* rows whose revoked_at is set
    replacedBy,     \* replaced_by_token_id
    root,           \* history: the granted token a row descends from
    \* MySQL oauth_access_tokens
    accessRows,     \* access tokens that have a row
    accessRevoked,  \* rows whose revoked_at is set
    \* Redis
    hash,           \* refresh-token hash keys
    grace,          \* grace-response keys, by old token
    familyRevoked,  \* expiry of the family-revoked keys, 0 when absent
    accessHash,     \* access-token hash keys
    blacklist,      \* revoked-access-token marker keys
    refreshMarker,  \* revoked-refresh-token marker keys
    \* token-endpoint calls
    pc,             \* next round trip of the call, or its outcome
    old,            \* the presented refresh token
    fp,             \* the replay fingerprint of the request
    rotates,        \* the client issues refresh tokens
    at,             \* s.now() of the call
    response,       \* the refresh token handed back, with the access token minted beside it
    \* logoutUser calls
    lpc,
    listedAccess,
    listedRefresh,
    loggedOut       \* history: families whose live row a logout's UPDATE hit

db == <<rows, expires, revoked, replacedBy, root, accessRows, accessRevoked>>
redis == <<hash, grace, familyRevoked, accessHash, blacklist, refreshMarker>>
call == <<pc, old, fp, rotates, at, response>>
logout == <<lpc, listedAccess, listedRefresh, loggedOut>>
vars == <<now, db, redis, call, logout>>

-----------------------------------------------------------------------------
(* Values. *)

Outcomes == {"ok", "invalid", "error"}

Steps == {"idle", "find", "mint", "saveAccess", "rotate", "rotateCache", "graceReplay",
          "grantSaveAccess", "grantRefresh", "grantSaveRefresh"} \cup Outcomes

LogoutSteps == {"listAccess", "listRefresh", "revokeAccess", "revokeRefresh",
                "blacklist", "done", "failed"}

HashStatus == {"absent", "active", "rotated", "compromised"}

HashType == [status: HashStatus, family: Calls \cup {None}, graceUntil: Int,
             bindFp: Fingerprints \cup {None}, exp: Int]

GraceType == [token: Calls \cup {None}, exp: Int]

Forever == MaxTime + RefreshTTL + 1

NoHash == [status |-> "absent", family |-> None,
           graceUntil |-> 0, bindFp |-> None, exp |-> 0]

NoGrace == [token |-> None, exp |-> 0]

TypeOK ==
    /\ now \in 0..MaxTime
    /\ rows \subseteq Calls /\ revoked \subseteq Calls
    /\ expires \in [Calls -> Int]
    /\ replacedBy \in [Calls -> Calls \cup {None}]
    /\ root \in [Calls -> Calls \cup {None}]
    /\ accessRows \subseteq Calls /\ accessRevoked \subseteq Calls
    /\ hash \in [Calls -> HashType]
    /\ grace \in [Calls -> GraceType]
    /\ familyRevoked \in [Calls -> Int]
    /\ accessHash \subseteq Calls /\ blacklist \subseteq Calls
    /\ refreshMarker \subseteq Calls
    /\ pc \in [Calls -> Steps]
    /\ old \in [Calls -> Calls \cup {None}]
    /\ fp \in [Calls -> Fingerprints \cup {None}]
    /\ rotates \in [Calls -> BOOLEAN]
    /\ at \in [Calls -> 0..MaxTime]
    /\ response \in [Calls -> Calls \cup {None}]
    /\ lpc \in [Logouts -> LogoutSteps]
    /\ listedAccess \in [Logouts -> SUBSET Calls]
    /\ listedRefresh \in [Logouts -> SUBSET Calls]
    /\ loggedOut \subseteq Calls

Init ==
    /\ now = 0
    /\ rows = {} /\ revoked = {} /\ accessRows = {} /\ accessRevoked = {}
    /\ expires = [t \in Calls |-> 0]
    /\ replacedBy = [t \in Calls |-> None]
    /\ root = [t \in Calls |-> None]
    /\ hash = [t \in Calls |-> NoHash]
    /\ grace = [t \in Calls |-> NoGrace]
    /\ familyRevoked = [t \in Calls |-> 0]
    /\ accessHash = {} /\ blacklist = {} /\ refreshMarker = {}
    /\ pc = [c \in Calls |-> "idle"]
    /\ old = [c \in Calls |-> None]
    /\ fp = [c \in Calls |-> None]
    /\ rotates = [c \in Calls |-> FALSE]
    /\ at = [c \in Calls |-> 0]
    /\ response = [c \in Calls |-> None]
    /\ lpc = [l \in Logouts |-> "listAccess"]
    /\ listedAccess = [l \in Logouts |-> {}]
    /\ listedRefresh = [l \in Logouts |-> {}]
    /\ loggedOut = {}

Tick ==
    /\ now < MaxTime
    /\ now' = now + 1
    /\ UNCHANGED <<db, redis, call, logout>>

Goto(c, step) == pc' = [pc EXCEPT ![c] = step]

-----------------------------------------------------------------------------
(* MySQL.  The SQL text defines an active row. *)

Unrevoked(t) == t \in rows /\ t \notin revoked /\ replacedBy[t] = None

ActiveRow(t) == Unrevoked(t) /\ expires[t] > now

\* What a SELECT of an active row may answer: the truth on the primary, and on
\* a lagging replica also the row's earlier states (no row yet, then active).
SeenActive(t) ==
    {ActiveRow(t)} \cup (IF StaleReads THEN {FALSE, (t \in rows /\ expires[t] > now)} ELSE {})

SeenActiveAccess(t) ==
    {t \in accessRows \ accessRevoked} \cup (IF StaleReads THEN {FALSE, (t \in accessRows)} ELSE {})

-----------------------------------------------------------------------------
(* Redis scripts. *)

HashExists(t) == hash[t].status # "absent" /\ hash[t].exp > now

FamilyMarked(t) == familyRevoked[hash[t].family] > now

\* The decision of check_refresh_replay.lua for old token t: 0 continue,
\* 1 grace replay, -1 reject, -2 reject and revoke the family.
ReplayCode(t, f) ==
    IF ~HashExists(t) THEN 0
    ELSE IF FamilyMarked(t) THEN -1
    ELSE CASE hash[t].status = "active" -> 0
           [] hash[t].status = "rotated" ->
                IF now <= hash[t].graceUntil /\ hash[t].bindFp \in {None, f}
                THEN IF grace[t].exp > now THEN 1 ELSE -1
                ELSE -2
           [] OTHER -> -1

\* The writes of check_refresh_replay.lua: none unless the decision is -2.
ReplayEffect(t, f) ==
    IF ReplayCode(t, f) = -2
    THEN /\ familyRevoked' = [familyRevoked EXCEPT ![hash[t].family] =
                IF hash[t].exp = Forever THEN now + 60 ELSE hash[t].exp]
         /\ hash' = [hash EXCEPT ![t].status = "compromised"]
    ELSE UNCHANGED <<familyRevoked, hash>>

\* rotate_token.lua: mark the old hash rotated, create the new one in family
\* fam, keep the response for the grace period.
RotateTokenInto(t, new, f, fam) ==
    /\ hash' = [hash EXCEPT
         ![t].status = "rotated", ![t].graceUntil = now + GracePeriod, ![t].bindFp = f,
         ![new] = [NoHash EXCEPT !.status = "active", !.family = fam,
                                 !.exp = IF expires[new] > now THEN expires[new] ELSE Forever]]
    /\ grace' = [grace EXCEPT ![t] = [token |-> new, exp |-> now + GracePeriod]]

\* Mutant: a rotated token starts a family of its own, as a granted one does.
RotateTokenNewFamily(t, new, f) == RotateTokenInto(t, new, f, new)

RotateTokenScript(t, new, f) == RotateTokenInto(t, new, f, hash[t].family)

RotateTokenApplies(t) ==
    HashExists(t) /\ hash[t].status = "active" /\ ~FamilyMarked(t)

-----------------------------------------------------------------------------
(* exchangeRefreshToken. *)

\* Clients present tokens that some call has returned.
HandedOut(t) == \E c \in Calls : pc[c] = "ok" /\ response[c] = t

\* CheckRefreshTokenReplay at the head of the exchange.  A code above 0 returns
\* the cached response and one below 0 rejects.
CheckRefreshTokenReplay(c, t, f, m) ==
    /\ pc[c] = "idle"
    /\ HandedOut(t)
    /\ old' = [old EXCEPT ![c] = t]
    /\ fp' = [fp EXCEPT ![c] = f]
    /\ rotates' = [rotates EXCEPT ![c] = m]
    /\ ReplayEffect(t, f)
    /\ LET code == ReplayCode(t, f)
       IN  /\ Goto(c, CASE code = 0 -> "find" [] code = 1 -> "ok" [] OTHER -> "invalid")
           /\ response' = [response EXCEPT ![c] = IF code = 1 THEN grace[t].token ELSE None]
    /\ UNCHANGED <<now, db, grace, accessHash, blacklist, refreshMarker, at, logout>>

\* FindActiveRefreshTokenBySHA256, the user lookup, and the call's own clock.
FindActiveRefreshToken(c) ==
    /\ pc[c] = "find"
    /\ \E seen \in SeenActive(old[c]) : Goto(c, IF seen THEN "mint" ELSE "invalid")
    /\ at' = [at EXCEPT ![c] = now]
    /\ UNCHANGED <<now, db, redis, old, fp, rotates, response, logout>>

\* The access token is stored before the rotation is attempted.
CreateAccessToken(c) ==
    /\ pc[c] = "mint"
    /\ accessRows' = accessRows \cup {c}
    /\ Goto(c, "saveAccess")
    /\ UNCHANGED <<now, rows, expires, revoked, replacedBy, root, accessRevoked, redis,
                   old, fp, rotates, at, response, logout>>

\* Best effort: the error is dropped.  A client that issues no refresh tokens
\* gets its answer here and the presented token stays as it is.
SaveAccessToken(c) ==
    /\ pc[c] = "saveAccess"
    /\ \/ accessHash' = accessHash \cup {c}
       \/ CacheMayFail /\ UNCHANGED accessHash
    /\ Goto(c, IF rotates[c] THEN "rotate" ELSE "ok")
    /\ UNCHANGED <<now, db, hash, grace, familyRevoked, blacklist, refreshMarker,
                   old, fp, rotates, at, response, logout>>

\* RotateRefreshToken of the repository: one transaction on the primary that
\* locks the old row, re-checks it, and swaps it for the new one.  (Mutant:
\* the UPDATE of the old row is missing.)
SwapKeepingOld(c) ==
    /\ rows' = rows \cup {c}
    /\ expires' = [expires EXCEPT ![c] = at[c] + RefreshTTL]
    /\ root' = [root EXCEPT ![c] = root[old[c]]]
    /\ UNCHANGED <<revoked, replacedBy>>

SwapRow(c) ==
    /\ rows' = rows \cup {c}
    /\ expires' = [expires EXCEPT ![c] = at[c] + RefreshTTL]
    /\ revoked' = revoked \cup {old[c]}
    /\ replacedBy' = [replacedBy EXCEPT ![old[c]] = c]
    /\ root' = [root EXCEPT ![c] = root[old[c]]]

RotateTransaction(c, usable) ==
    /\ pc[c] = "rotate"
    /\ IF usable
       THEN SwapRow(c) /\ Goto(c, "rotateCache")
       ELSE UNCHANGED <<rows, expires, revoked, replacedBy, root>> /\ Goto(c, "graceReplay")
    /\ UNCHANGED <<now, accessRows, accessRevoked, redis,
                   old, fp, rotates, at, response, logout>>

\* Mutants: no re-check under the lock; no look at revoked_at.
RotateWithoutRecheck(c) == RotateTransaction(c, TRUE)
RotateRevokedToo(c) ==
    RotateTransaction(c, replacedBy[old[c]] = None /\ expires[old[c]] > at[c])

\* The re-check compares expires_at with the call's clock, not the server's.
RotateRefreshToken(c) ==
    RotateTransaction(c, Unrevoked(old[c]) /\ expires[old[c]] > at[c])

\* Mutant: the grace replay answers with the call's own access token and
\* unstored refresh token.
GraceReplayOwnToken(c) ==
    /\ pc[c] = "graceReplay"
    /\ Goto(c, "ok")
    /\ response' = [response EXCEPT ![c] = c]
    /\ UNCHANGED <<now, db, redis, old, fp, rotates, at, logout>>

\* RotateRefreshToken of the Redis cache, whose every error is dropped.
RotateRefreshTokenCache(c) ==
    /\ pc[c] = "rotateCache"
    /\ \/ RotateTokenApplies(old[c]) /\ RotateTokenScript(old[c], c, fp[c])
       \/ /\ CacheMayFail \/ ~RotateTokenApplies(old[c])
          /\ UNCHANGED <<hash, grace>>
    /\ Goto(c, "ok")
    /\ response' = [response EXCEPT ![c] = c]
    /\ UNCHANGED <<now, db, familyRevoked, accessHash, blacklist, refreshMarker,
                   old, fp, rotates, at, logout>>

\* tryRefreshTokenGraceReplay after a failed rotation.
TryRefreshTokenGraceReplay(c) ==
    /\ pc[c] = "graceReplay"
    /\ ReplayEffect(old[c], fp[c])
    /\ LET code == ReplayCode(old[c], fp[c])
       IN  /\ Goto(c, IF code = 1 THEN "ok" ELSE "invalid")
           /\ response' = [response EXCEPT ![c] = IF code = 1 THEN grace[old[c]].token ELSE None]
    /\ UNCHANGED <<now, db, grace, accessHash, blacklist, refreshMarker,
                   old, fp, rotates, at, logout>>

-----------------------------------------------------------------------------
(* issueUserGrantTokens, the tail of every grant that involves a user. *)

\* The clock is read by the caller, then the access token is stored.
GrantAccessToken(c, m) ==
    /\ pc[c] = "idle"
    /\ accessRows' = accessRows \cup {c}
    /\ at' = [at EXCEPT ![c] = now]
    /\ rotates' = [rotates EXCEPT ![c] = m]
    /\ Goto(c, "grantSaveAccess")
    /\ UNCHANGED <<now, rows, expires, revoked, replacedBy, root, accessRevoked, redis,
                   old, fp, response, logout>>

GrantSaveAccessToken(c) ==
    /\ pc[c] = "grantSaveAccess"
    /\ \/ accessHash' = accessHash \cup {c}
       \/ CacheMayFail /\ UNCHANGED accessHash
    /\ Goto(c, IF rotates[c] THEN "grantRefresh" ELSE "ok")
    /\ UNCHANGED <<now, db, hash, grace, familyRevoked, blacklist, refreshMarker,
                   old, fp, rotates, at, response, logout>>

CreateRefreshToken(c) ==
    /\ pc[c] = "grantRefresh"
    /\ rows' = rows \cup {c}
    /\ expires' = [expires EXCEPT ![c] = at[c] + RefreshTTL]
    /\ root' = [root EXCEPT ![c] = c]
    /\ Goto(c, "grantSaveRefresh")
    /\ UNCHANGED <<now, revoked, replacedBy, accessRows, accessRevoked, redis,
                   old, fp, rotates, at, response, logout>>

\* HSET and EXPIRE in one transaction; a lifetime already over deletes the key.
SaveRefreshToken(c) ==
    /\ pc[c] = "grantSaveRefresh"
    /\ \/ hash' = [hash EXCEPT ![c] = [NoHash EXCEPT !.status = "active", !.family = c,
                                                     !.exp = expires[c]]]
       \/ CacheMayFail /\ UNCHANGED hash
    /\ Goto(c, "ok")
    /\ response' = [response EXCEPT ![c] = c]
    /\ UNCHANGED <<now, db, grace, familyRevoked, accessHash, blacklist, refreshMarker,
                   old, fp, rotates, at, logout>>

\* A round trip that fails ends the call; a failed rotation transaction still
\* consults the grace cache.
CallFails(c) ==
    /\ \/ pc[c] \in {"find", "mint", "graceReplay", "grantRefresh"} /\ Goto(c, "error")
       \/ pc[c] = "rotate" /\ Goto(c, "graceReplay")
    /\ UNCHANGED <<now, db, redis, old, fp, rotates, at, response, logout>>

-----------------------------------------------------------------------------
(* revokeUserTokens, the token part of logoutUser. *)

LogoutGoto(l, step) == lpc' = [lpc EXCEPT ![l] = step]

ListActiveAccessTokens(l) ==
    /\ lpc[l] = "listAccess"
    /\ \E L \in SUBSET Calls :
         /\ \A t \in Calls : (t \in L) \in SeenActiveAccess(t)
         /\ listedAccess' = [listedAccess EXCEPT ![l] = L]
    /\ LogoutGoto(l, "listRefresh")
    /\ UNCHANGED <<now, db, redis, call, listedRefresh, loggedOut>>

ListActiveRefreshTokens(l) ==
    /\ lpc[l] = "listRefresh"
    /\ \E L \in SUBSET Calls :
         /\ \A t \in Calls : (t \in L) \in SeenActive(t)
         /\ listedRefresh' = [listedRefresh EXCEPT ![l] = L]
    /\ LogoutGoto(l, "revokeAccess")
    /\ UNCHANGED <<now, db, redis, call, listedAccess, loggedOut>>

RevokeAccessTokensByUserID(l) ==
    /\ lpc[l] = "revokeAccess"
    /\ accessRevoked' = accessRows
    /\ LogoutGoto(l, "revokeRefresh")
    /\ UNCHANGED <<now, rows, expires, revoked, replacedBy, root, accessRows, redis, call,
                   listedAccess, listedRefresh, loggedOut>>

RevokeRefreshTokensByUserID(l) ==
    /\ lpc[l] = "revokeRefresh"
    /\ revoked' = revoked \cup {t \in Calls : ActiveRow(t)}
    /\ loggedOut' = loggedOut \cup {root[t] : t \in {u \in Calls : ActiveRow(u)}}
    /\ LogoutGoto(l, "blacklist")
    /\ UNCHANGED <<now, rows, expires, replacedBy, root, accessRows, accessRevoked, redis, call,
                   listedAccess, listedRefresh>>

\* RevokeAccessToken: the marker the bearer middleware looks up.
RevokeAccessToken(l, t) ==
    /\ lpc[l] = "blacklist"
    /\ t \in listedAccess[l]
    /\ blacklist' = blacklist \cup {t}
    /\ listedAccess' = [listedAccess EXCEPT ![l] = @ \ {t}]
    /\ UNCHANGED <<now, db, hash, grace, familyRevoked, accessHash, refreshMarker, call,
                   lpc, listedRefresh, loggedOut>>

\* RevokeRefreshToken, after the last access token.
RevokeRefreshToken(l, t) ==
    /\ lpc[l] = "blacklist"
    /\ listedAccess[l] = {}
    /\ t \in listedRefresh[l]
    /\ refreshMarker' = refreshMarker \cup {t}
    /\ listedRefresh' = [listedRefresh EXCEPT ![l] = @ \ {t}]
    /\ UNCHANGED <<now, db, hash, grace, familyRevoked, accessHash, blacklist, call,
                   lpc, listedAccess, loggedOut>>

LogoutReturns(l) ==
    /\ lpc[l] = "blacklist"
    /\ listedAccess[l] = {} /\ listedRefresh[l] = {}
    /\ LogoutGoto(l, "done")
    /\ UNCHANGED <<now, db, redis, call, listedAccess, listedRefresh, loggedOut>>

\* Any failed round trip returns at once and leaves the rest undone.
LogoutFails(l) ==
    /\ lpc[l] \notin {"done", "failed"}
    /\ LogoutGoto(l, "failed")
    /\ UNCHANGED <<now, db, redis, call, listedAccess, listedRefresh, loggedOut>>

\* RequireBearerToken: the marker and the signature decide, not the row.
BearerAccepts(t) == t \in accessRows /\ t \notin blacklist

\* isServerIssuedAccessToken: a cached entry decides before the row.
IsServerIssued(t) == t \in accessHash \/ TRUE \in SeenActiveAccess(t)

\* Introspect: what it may report as active.
MayIntrospectActive(t) == BearerAccepts(t) /\ IsServerIssued(t)

-----------------------------------------------------------------------------

ExchangeStep(c) ==
    \/ \E t \in Calls, f \in Fingerprints, m \in Modes : CheckRefreshTokenReplay(c, t, f, m)
    \/ FindActiveRefreshToken(c)
    \/ CreateAccessToken(c)
    \/ SaveAccessToken(c)
    \/ RotateRefreshToken(c)
    \/ RotateRefreshTokenCache(c)
    \/ TryRefreshTokenGraceReplay(c)

GrantStep(c) ==
    \/ \E m \in Modes : GrantAccessToken(c, m)
    \/ GrantSaveAccessToken(c)
    \/ CreateRefreshToken(c)
    \/ SaveRefreshToken(c)

LogoutStep(l) ==
    \/ ListActiveAccessTokens(l)
    \/ ListActiveRefreshTokens(l)
    \/ RevokeAccessTokensByUserID(l)
    \/ RevokeRefreshTokensByUserID(l)
    \/ \E t \in Calls : RevokeAccessToken(l, t)
    \/ \E t \in Calls : RevokeRefreshToken(l, t)
    \/ LogoutReturns(l)
    \/ LogoutFails(l)

Next ==
    \/ Tick
    \/ \E c \in Calls : ExchangeStep(c) \/ GrantStep(c) \/ CallFails(c)
    \/ \E l \in Logouts : LogoutStep(l)

Spec == Init /\ [][Next]_vars

-----------------------------------------------------------------------------
(* Properties. *)

\* One live token per family.  However many calls present the same token, at
\* whatever interleaving of the replay check, the read of the row and the
\* rotation transaction, the rows that descend from one grant never hold two
\* that are neither revoked nor replaced.
OneLiveTokenPerFamily ==
    \A t, u \in rows :
        Unrevoked(t) /\ Unrevoked(u) /\ root[t] = root[u] => t = u

\* Concurrent refreshes agree.  Two successful exchanges of the same refresh
\* token, one by rotation and one by grace replay or both by replay, hand back
\* the same new refresh token: the one the database says replaced it.
RefreshesAgree ==
    \A c \in Calls :
        pc[c] = "ok" /\ old[c] # None /\ rotates[c] => response[c] = replacedBy[old[c]]

\* Whole-user logout ends the families it reaches.  Once the UPDATE of a
\* logoutUser call has hit a family, no token of that family is usable again,
\* not even one that a refresh in flight inserts afterwards.
LogoutEndsFamilies ==
    \A t \in rows : root[t] \in loggedOut => ~Unrevoked(t)

\* A token replaced in the database is never replaced again, and no step
\* brings a revoked row back.
RotationIsFinal ==
    [][/\ revoked \subseteq revoked'
       /\ \A t \in Calls : replacedBy[t] # None => replacedBy'[t] = replacedBy[t]]_vars

\* Reuse detection reaches every descendant.  While the family-revoked key set
\* by a detected reuse of token t lives, which is until t itself would have
\* expired, no exchange of any cached token that descends from the same grant
\* passes the replay check.
ReuseBlocksFamily ==
    [][\A c \in Calls :
          pc[c] = "idle" /\ pc'[c] = "find" /\ HashExists(old'[c])
          => ~\E t \in rows : /\ root[t] = root[old'[c]]
                              /\ hash[t].status = "compromised"
                              /\ hash[t].exp > now]_vars

\* What the refresh path's comments promise a retry: a call that loses the race
\* for its token to a call with the same fingerprint, within the grace period,
\* gets the winner's response and not a rejection.
LoserGetsWinnersResponse ==
    [][\A c \in Calls :
          pc[c] # "invalid" /\ pc'[c] = "invalid"
          => LET w == replacedBy[old[c]]
             IN  ~(old[c] # None /\ w # None /\ fp[w] = fp[c] /\ now < at[w] + GracePeriod)]_vars

\* What the design article says of a detected reuse: the whole family is
\* invalid from then on, so no later call passes the replay check with one of
\* its tokens.
ReuseEndsFamily ==
    [][\A c \in Calls :
          pc[c] = "idle" /\ pc'[c] = "find" /\ ActiveRow(old'[c])
          => ~\E t \in rows : root[t] = root[old'[c]] /\ hash[t].status = "compromised"]_vars

\* The same while the family-revoked key is still there: even then a token
\* that a concurrent refresh inserted must not pass the replay check.
ReuseEndsFamilyWhileMarked ==
    [][\A c \in Calls :
          pc[c] = "idle" /\ pc'[c] = "find" /\ ActiveRow(old'[c])
          => familyRevoked[root[old'[c]]] <= now]_vars

\* What revokeUserTokens says it is for: once it has returned, an access token
\* it revoked in the database is refused by the bearer middleware too.
RevokedAccessTokenRefused ==
    \A l \in Logouts : lpc[l] = "done" => \A t \in accessRevoked : ~BearerAccepts(t)

\* What Introspect's comment asks of an active token: it is not revoked.  Once a
\* logout has returned, no token whose row it revoked is reported as active.
RevokedAccessTokenInactive ==
    \A l \in Logouts : lpc[l] = "done" => \A t \in accessRevoked : ~MayIntrospectActive(t)

-----------------------------------------------------------------------------
(* The promise of the store: at any time a family has one holder or is over. *)

Holder == [f \in Calls |->
    IF \E t \in rows : root[t] = f /\ Unrevoked(t)
    THEN CHOOSE t \in rows : root[t] = f /\ Unrevoked(t)
    ELSE None]

Families == INSTANCE TokenFamily WITH
    Tokens <- Calls, Nobody <- None, used <- rows, holder <- Holder

\* The rows of the database implement the abstract token family: a rotation
\* hands the family from its one holder to a token never used before, and a
\* logout ends families for good.
ImplementsTokenFamily == Families!Spec

-----------------------------------------------------------------------------
(* The inductive invariant behind the properties of the rows. *)

Exchanging == {"find", "mint", "saveAccess", "rotate", "rotateCache", "graceReplay"}

Granting == {"idle", "grantSaveAccess", "grantRefresh", "grantSaveRefresh"}

\* A call in the exchange has a token in hand, one in a grant has none, and a
\* row appears only at the step that inserts it.
CallInv ==
    \A c \in Calls :
        /\ pc[c] \in Exchanging => old[c] \in Calls
        /\ pc[c] \in Granting => old[c] = None
        /\ c \in rows => pc[c] \in {"rotateCache", "grantSaveRefresh", "ok"}

\* Families are closed under rotation, a replaced row is revoked, and the two
\* properties of the rows hold.
RowInv ==
    /\ \A t \in rows : root[t] \in rows
    /\ revoked \subseteq rows
    /\ \A t \in Calls : replacedBy[t] # None => t \in revoked
    /\ loggedOut \subseteq rows
    /\ OneLiveTokenPerFamily
    /\ LogoutEndsFamilies

\* The grace key, the call about to write it and every returned response name
\* the row's one successor.
ReplyInv ==
    /\ \A c \in Calls : pc[c] = "rotateCache" => replacedBy[old[c]] = c
    /\ \A t \in Calls : IF grace[t].token = None THEN grace[t].exp <= 0
                                                 ELSE grace[t].token = replacedBy[t]
    /\ \A c \in Calls : pc[c] = "ok" /\ old[c] # None /\ rotates[c] => response[c] # None
    /\ RefreshesAgree

\* Inductive invariant: the database and the calls in flight agree on who
\* rotated which token, whatever Redis forgot.
RotationInv == TypeOK /\ CallInv /\ RowInv /\ ReplyInv
=============================================================================
