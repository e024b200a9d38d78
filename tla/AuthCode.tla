------------------------------ MODULE AuthCode ------------------------------
(***************************************************************************)
(* The authorization code grant, from the authorize endpoint through the   *)
(* consent page to the token endpoint, with the two grants that need no    *)
(* code (password, client credentials).                                    *)
(*                                                                         *)
(* Requests run concurrently, one step per store call; any call may fail.  *)
(* Clients do not change here (Registry has their registration), so a      *)
(* request reads its client when it arrives.  A request that is refused    *)
(* on its parameters alone changes nothing and is not a step.  Sessions    *)
(* are abstracted to who is logged in (Session has their rows and cache),  *)
(* and the token cache is left out (RefreshToken has it).                  *)
(***************************************************************************)
EXTENDS Naturals, FiniteSets

CONSTANTS
    Slots,          \* slots of concurrent requests
    MaxRequests,    \* bound: requests in all; their numbers name codes and tokens
    MaxLogins,      \* bound: logins in the browser
    Users, Nobody,
    Clients, Client,    \* client ids, and the registration of each
    URIs, Verifiers,
    Asks,           \* the scope sets that requests ask for
    StoresFail,     \* whether store calls may fail
    StaleReads,     \* whether a replica may lag behind the primary
    GapLocks        \* whether a locking read of no row locks the gap (REPEATABLE READ)

Scopes == {"openid", "offline_access"}

\* What client.Model holds that the flows look at.
Registration ==
    [grants : SUBSET {"authorization_code", "refresh_token", "client_credentials", "password"},
     uris : SUBSET URIs, scopes : SUBSET Scopes,
     auth : {"client_secret_basic", "client_secret_post", "none"}, secret : BOOLEAN,
     requirePKCE : BOOLEAN, requireConsent : BOOLEAN]

ASSUME AuthCodeAssumption ==
    /\ {MaxRequests, MaxLogins} \subseteq Nat
    /\ {StoresFail, StaleReads, GapLocks} \subseteq BOOLEAN
    /\ Client \in [Clients -> Registration] /\ Asks \subseteq SUBSET Scopes
    /\ Nobody \notin Users \cup Clients \cup URIs \cup Verifiers

VARIABLES
    who, active,    \* the user named by the browser's cookie; users with a live session
    consent,        \* oauth_consents: scopes by user and client; {} when no row
    code,           \* oauth_authorization_codes, by number of the request
    access, refresh,    \* token rows
    req,            \* the request in each slot
    count, logins,  \* bounded counters
    agreed,         \* history: scopes whose acceptance was confirmed to the user
    askedAgain      \* history: an agreed consent was asked for again

tokens == <<access, refresh>>
history == <<agreed, askedAgain>>
browser == <<who, active, logins>>
vars == <<browser, consent, code, tokens, req, count, history>>

Numbers == 1..MaxRequests

\* A PKCE challenge is named by the verifier that meets it: the verifier itself
\* (plain) or its hash (S256), taken to have no collisions.  Nobody is none.
MaybeVerifier == Verifiers \cup {Nobody}

NoCode == [client |-> Nobody, user |-> Nobody, uri |-> Nobody, scopes |-> {},
           challenge |-> Nobody, status |-> "none"]

CodeRows == [client : Clients \cup {Nobody}, user : Users \cup {Nobody}, uri : URIs \cup {Nobody},
             scopes : SUBSET Scopes, challenge : MaybeVerifier,
             status : {"none", "fresh", "consumed", "expired"}]

Steps == {"idle", "session", "consent", "code", "load", "select", "upsert", "consume", "update",
          "access", "refresh"}

\* A free slot.
Idle == [pc |-> "idle", no |-> 0, grant |-> "none",
         client |-> Nobody, user |-> Nobody, uri |-> Nobody, scopes |-> {},
         challenge |-> Nobody, verifier |-> Nobody,
         code |-> 0,        \* number of the code presented
         found |-> {}]      \* consent row as read

\* An access token row; the last four fields say how it was obtained.
Token(r) == [no |-> req[r].no, client |-> req[r].client, user |-> req[r].user,
             scopes |-> req[r].scopes, grant |-> req[r].grant, code |-> req[r].code,
             uri |-> req[r].uri, verifier |-> req[r].verifier]

TypeOK ==
    /\ who \in Users \cup {Nobody} /\ active \subseteq Users
    /\ consent \in [Users -> [Clients -> SUBSET Scopes]]
    /\ code \in [Numbers -> CodeRows]
    /\ \A t \in access : t.no \in Numbers /\ t.client \in Clients /\ t.scopes \subseteq Scopes
    /\ refresh \subseteq {t.no : t \in access}
    /\ \A r \in Slots :
        /\ req[r].pc \in Steps /\ req[r].no \in 0..MaxRequests
        /\ req[r].pc = "refresh" => req[r].user \in Users
    /\ count \in 0..MaxRequests /\ logins \in 0..MaxLogins

\* Users may have agreed to openid before.
Init ==
    /\ who = Nobody /\ active = {}
    /\ consent \in [Users -> [Clients -> {{}, {"openid"}}]]
    /\ \A u \in Users, c \in Clients : consent[u][c] # {} => Client[c].requireConsent
    /\ code = [n \in Numbers |-> NoCode]
    /\ access = {} /\ refresh = {}
    /\ req = [r \in Slots |-> Idle]
    /\ count = 0 /\ logins = 0
    /\ agreed = consent
    /\ askedAgain = FALSE

-----------------------------------------------------------------------------
(* Control of one request, and what happens around it. *)

At(r, step) == req[r].pc = step

Goto(r, step) == req' = [req EXCEPT ![r].pc = step]

\* The request is answered and forgotten; the answer stands beside each use.
Return(r) == req' = [req EXCEPT ![r] = Idle]

Free(r) == At(r, "idle") /\ count < MaxRequests

Begin(r, fields) ==
    /\ count' = count + 1
    /\ req' = [req EXCEPT ![r] = [fields EXCEPT !.no = count + 1]]
    /\ UNCHANGED <<browser, consent, code, tokens, history>>

\* A store call fails, and the request with it.
CallFails(r) ==
    /\ StoresFail
    /\ ~At(r, "idle")
    /\ Return(r)  \* server_error
    /\ UNCHANGED <<browser, consent, code, tokens, count, history>>

\* The commit that consumes a code takes effect but is reported as an error.
CommitUnknown(r) ==
    /\ StoresFail /\ At(r, "update")
    /\ code' = [code EXCEPT ![req[r].code].status = "consumed"]
    /\ Return(r)  \* server_error
    /\ UNCHANGED <<browser, consent, tokens, count, history>>

\* A login starts a session and sets the cookie; the session the cookie named
\* before goes on.  A logout ends the session and drops the cookie.
LogIn(u) ==
    /\ u # who /\ logins < MaxLogins
    /\ who' = u /\ active' = active \cup {u} /\ logins' = logins + 1
    /\ UNCHANGED <<consent, code, tokens, req, count, history>>

LogOut ==
    /\ who # Nobody
    /\ who' = Nobody /\ active' = active \ {who}
    /\ UNCHANGED <<logins, consent, code, tokens, req, count, history>>

\* codeTTL passes.
Expire(n) ==
    /\ code[n].status = "fresh"
    /\ code' = [code EXCEPT ![n].status = "expired"]
    /\ UNCHANGED <<browser, consent, tokens, req, count, history>>

-----------------------------------------------------------------------------
(* The authorize endpoint. *)

\* No scope means openid.
Requested(scopes) == IF scopes = {} THEN {"openid"} ELSE scopes

ValidatePKCE(c, challenge) == challenge = Nobody => ~Client[c].requirePKCE

\* The checks of Authorize before it looks at the session.
AuthorizeAccepts(c, uri, scopes, challenge) ==
    /\ "authorization_code" \in Client[c].grants
    /\ uri \in Client[c].uris
    /\ Requested(scopes) \subseteq Client[c].scopes
    /\ ValidatePKCE(c, challenge)

\* A request without a cookie is sent to the login page at once.
Authorize(r, c, uri, scopes, challenge) ==
    /\ AuthorizeAccepts(c, uri, scopes, challenge) /\ who # Nobody
    /\ Begin(r, [Idle EXCEPT !.pc = "session", !.client = c, !.user = who, !.uri = uri,
                             !.scopes = Requested(scopes), !.challenge = challenge])

FindActiveSession(r) ==
    /\ At(r, "session")
    /\ IF req[r].user \notin active
       THEN Return(r)  \* RequireLogin
       ELSE Goto(r, IF Client[req[r].client].requireConsent THEN "consent" ELSE "code")
    /\ UNCHANGED <<browser, consent, code, tokens, count, history>>

HasConsentFor(row, scopes) == scopes \subseteq row

\* A replica that lags may still show no row.
HasActiveConsent(r) ==
    /\ At(r, "consent")
    /\ \E row \in {consent[req[r].user][req[r].client]} \cup (IF StaleReads THEN {{}} ELSE {}) :
        IF HasConsentFor(row, req[r].scopes)
        THEN Goto(r, "code") /\ UNCHANGED askedAgain
        ELSE /\ Return(r)  \* RequireConsent
             /\ askedAgain' = (askedAgain
                    \/ req[r].scopes \subseteq agreed[req[r].user][req[r].client])
    /\ UNCHANGED <<browser, consent, code, tokens, count, agreed>>

NewCode(r) ==
    [client |-> req[r].client, user |-> req[r].user, uri |-> req[r].uri,
     scopes |-> req[r].scopes, challenge |-> req[r].challenge, status |-> "fresh"]

CreateCode(r) ==
    /\ At(r, "code")
    /\ code' = [code EXCEPT ![req[r].no] = NewCode(r)]
    /\ Return(r)  \* redirect with the code
    /\ UNCHANGED <<browser, consent, tokens, count, history>>

-----------------------------------------------------------------------------
(* The consent page.  Showing it (Prepare) and denying change nothing. *)

\* The authorize request in return_to, checked against the client.
ReturnToAccepted(c, uri, scopes) ==
    uri \in Client[c].uris /\ Requested(scopes) \subseteq Client[c].scopes

Decide(r, c, uri, scopes) ==
    /\ who # Nobody /\ ReturnToAccepted(c, uri, scopes)
    /\ Begin(r, [Idle EXCEPT !.pc = "load", !.client = c, !.user = who,
                             !.scopes = Requested(scopes)])

LoadContext(r) ==
    /\ At(r, "load")
    /\ IF req[r].user \notin active
       THEN Return(r)  \* ErrLoginRequired
       ELSE Goto(r, "select")
    /\ UNCHANGED <<browser, consent, code, tokens, count, history>>

SameRow(r, s) == req[r].user = req[s].user /\ req[r].client = req[s].client

\* Other transactions that hold the lock on the row, or on the gap where it
\* would be.
Holders(r) == {s \in Slots \ {r} : At(s, "upsert") /\ SameRow(r, s)}

\* Mutant: a plain SELECT.
RowFreeAlways(r) == TRUE

\* SELECT ... FOR UPDATE waits for a locked row; gap locks are shared.
RowFree(r) == Holders(r) = {} \/ consent[req[r].user][req[r].client] = {}

UpsertSelectExisting(r) ==
    /\ At(r, "select") /\ RowFree(r)
    /\ req' = [req EXCEPT ![r].pc = "upsert", ![r].found = consent[req[r].user][req[r].client]]
    /\ UNCHANGED <<browser, consent, code, tokens, count, history>>

\* The insert waits for the gap locks of others.
MayInsert(r) == GapLocks => \A s \in Holders(r) : req[s].found # {}

\* Two transactions that wait for each other's gap lock: one is rolled back.
UpsertDeadlock(r) ==
    /\ At(r, "upsert") /\ ~MayInsert(r)
    /\ Return(r)  \* server_error
    /\ UNCHANGED <<browser, consent, code, tokens, count, history>>

UpsertActiveConsent(r) ==
    /\ At(r, "upsert") /\ MayInsert(r)
    /\ consent' = [consent EXCEPT ![req[r].user][req[r].client] = req[r].found \cup req[r].scopes]
    /\ agreed' = [agreed EXCEPT ![req[r].user][req[r].client] = @ \cup req[r].scopes]
    /\ Return(r)  \* redirect to return_to
    /\ UNCHANGED <<browser, code, tokens, count, askedAgain>>

-----------------------------------------------------------------------------
(* The token endpoint. *)

\* What a request presents to prove which client sends it.
Credentials == [method : {"client_secret_basic", "client_secret_post", "none"}, right : BOOLEAN]

\* The three plugins; each refuses credentials sent the way of another.
ClientSecretBasic(cred) == cred.method = "client_secret_basic" /\ cred.right

ClientSecretPost(cred) == cred.method = "client_secret_post" /\ cred.right

NoSecret(cred) == cred.method = "none"

\* validateClientSecret asks for the secret of any client that has one.
ValidateClientSecret(c, cred) == Client[c].secret => cred.method # "none" /\ cred.right

\* The registration, not the request, says which plugin decides.
ClientAuthenticates(c, cred) ==
    CASE Client[c].auth = "client_secret_basic" -> ClientSecretBasic(cred)
      [] Client[c].auth = "client_secret_post"  -> ClientSecretPost(cred)
      [] Client[c].auth = "none"                -> NoSecret(cred)

\* TokenHandler.Handle up to the grant's own steps.
MayUse(c, grant) ==
    /\ grant \in Client[c].grants
    /\ \E cred \in Credentials : ClientAuthenticates(c, cred) /\ ValidateClientSecret(c, cred)

\* A code that was never issued is refused.
ExchangeAuthorizationCode(r, c, n, uri, v) ==
    /\ code[n] # NoCode
    /\ MayUse(c, "authorization_code") /\ uri \in Client[c].uris
    /\ Begin(r, [Idle EXCEPT !.pc = "consume", !.grant = "authorization_code", !.client = c,
                             !.code = n, !.uri = uri, !.verifier = v])

\* No scope means all the client's.
GrantScopes(c, scopes) == IF scopes = {} THEN Client[c].scopes ELSE scopes

ExchangeClientCredentials(r, c, scopes) ==
    /\ MayUse(c, "client_credentials") /\ GrantScopes(c, scopes) \subseteq Client[c].scopes
    /\ Begin(r, [Idle EXCEPT !.pc = "access", !.grant = "client_credentials", !.client = c,
                             !.scopes = GrantScopes(c, scopes)])

\* With the right password of an active account; others are refused.
ExchangePassword(r, c, u, scopes) ==
    /\ MayUse(c, "password") /\ GrantScopes(c, scopes) \subseteq Client[c].scopes
    /\ Begin(r, [Idle EXCEPT !.pc = "access", !.grant = "password", !.client = c, !.user = u,
                             !.scopes = GrantScopes(c, scopes)])

-----------------------------------------------------------------------------
(* ConsumeByCode and the checks that follow it. *)

\* Mutant: consumed_at is written and never read.
ConsumedIgnored(n) == code[n].status \in {"fresh", "consumed"}

Consumable(n) == code[n].status = "fresh"

ConsumeSelect(r) ==
    /\ At(r, "consume")
    /\ ~\E s \in Slots : At(s, "update") /\ req[s].code = req[r].code  \* FOR UPDATE
    /\ IF Consumable(req[r].code)
       THEN Goto(r, "update")
       ELSE Return(r)  \* ErrInvalidCode
    /\ UNCHANGED <<browser, consent, code, tokens, count, history>>

\* Mutant: any verifier will do.
VerifierUnchecked(c, v, k) == k.challenge = Nobody => ~Client[c].requirePKCE

ValidateCodeVerifier(c, v, k) ==
    IF k.challenge = Nobody THEN ~Client[c].requirePKCE ELSE v = k.challenge

\* The code is spent before the request is compared with it.
ConsumeUpdate(r) ==
    LET k == code[req[r].code]
    IN  /\ At(r, "update")
        /\ code' = [code EXCEPT ![req[r].code].status = "consumed"]
        /\ IF /\ k.client = req[r].client /\ k.uri = req[r].uri
              /\ ValidateCodeVerifier(req[r].client, req[r].verifier, k)
           THEN req' = [req EXCEPT ![r].pc = "access", ![r].user = k.user, ![r].scopes = k.scopes]
           ELSE Return(r)  \* ErrInvalidCode, ErrInvalidRedirectURI, ErrInvalidCodeVerifier
        /\ UNCHANGED <<browser, consent, tokens, count, history>>

-----------------------------------------------------------------------------
(* issueUserGrantTokens, and the end of exchangeClientCredentials. *)

ShouldIssueRefreshToken(r) ==
    /\ req[r].grant # "client_credentials"
    /\ "refresh_token" \in Client[req[r].client].grants
    /\ "offline_access" \in req[r].scopes

\* The copy in the cache is best effort; so is what follows the last row, except
\* that mintIDToken may fail and leave the tokens unsent.
CreateAccessToken(r) ==
    /\ At(r, "access")
    /\ access' = access \cup {Token(r)}
    /\ IF ShouldIssueRefreshToken(r)
       THEN Goto(r, "refresh")
       ELSE Return(r)  \* tokens
    /\ UNCHANGED <<browser, consent, code, refresh, count, history>>

CreateRefreshToken(r) ==
    /\ At(r, "refresh")
    /\ refresh' = refresh \cup {req[r].no}
    /\ Return(r)  \* tokens
    /\ UNCHANGED <<browser, consent, code, access, count, history>>

-----------------------------------------------------------------------------

\* A request arrives in a free slot.
Arrive(r) ==
    /\ Free(r)
    /\ \/ \E c \in Clients, uri \in URIs, scopes \in Asks, ch \in MaybeVerifier :
            Authorize(r, c, uri, scopes, ch)
       \/ \E c \in Clients, uri \in URIs, scopes \in Asks : Decide(r, c, uri, scopes)
       \/ \E c \in Clients, n \in Numbers, uri \in URIs, v \in MaybeVerifier :
            ExchangeAuthorizationCode(r, c, n, uri, v)
       \/ \E c \in Clients, scopes \in Asks :
            \/ ExchangeClientCredentials(r, c, scopes)
            \/ \E u \in Users : ExchangePassword(r, c, u, scopes)

AuthorizeStep(r) ==
    FindActiveSession(r) \/ HasActiveConsent(r) \/ CreateCode(r)

ConsentStep(r) ==
    LoadContext(r) \/ UpsertSelectExisting(r) \/ UpsertDeadlock(r) \/ UpsertActiveConsent(r)

TokenStep(r) ==
    ConsumeSelect(r) \/ ConsumeUpdate(r) \/ CreateAccessToken(r) \/ CreateRefreshToken(r)

Next ==
    \/ \E r \in Slots :
        \/ Arrive(r) \/ AuthorizeStep(r) \/ ConsentStep(r) \/ TokenStep(r)
        \/ CallFails(r) \/ CommitUnknown(r)
    \/ LogOut
    \/ \E u \in Users : LogIn(u)
    \/ \E n \in Numbers : Expire(n)

Spec == Init /\ [][Next]_vars

-----------------------------------------------------------------------------
(* Properties. *)

\* A code buys tokens once.  However two exchanges of a code interleave with
\* each other and with its expiry, and whichever of their calls fail, at most
\* one access token row ever comes from it.
CodeRedeemedOnce ==
    \A s, t \in access : s.code # 0 /\ s.code = t.code => s = t

\* Tokens follow the grant.  A token from a code names the user and scopes of
\* the code, was asked for by the client, at the redirect URI and with the
\* verifier the code is bound to, and when its client requires consent the
\* user's consent covers it.  No refresh token goes without offline_access
\* and a user.
TokensFollowGrant ==
    \A t \in access :
        /\ t.grant = "authorization_code" =>
            LET k == code[t.code]
            IN  /\ <<t.client, t.user, t.uri, t.scopes>> = <<k.client, k.user, k.uri, k.scopes>>
                /\ k.challenge # Nobody => t.verifier = k.challenge
                /\ Client[t.client].requireConsent => t.scopes \subseteq consent[t.user][t.client]
        /\ t.scopes \subseteq Client[t.client].scopes
        /\ t.no \in refresh => t.user \in Users /\ "offline_access" \in t.scopes

\* The authorize endpoint does not ask again for scopes already agreed to.
NotAskedAgain == ~askedAgain

\* Consents add up.  Scopes whose acceptance was confirmed stay granted, and are
\* not asked for again: concurrent acceptances for one client, including two
\* that both find no row, never overwrite each other.
ConsentsAddUp ==
    /\ \A u \in Users, c \in Clients : agreed[u][c] \subseteq consent[u][c]
    /\ NotAskedAgain
=============================================================================
