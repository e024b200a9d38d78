----------------------------- MODULE Enrolment -----------------------------
(***************************************************************************)
(* How a logged-in user gets a second factor: the TOTP setup page (begin,  *)
(* confirm, and the login challenge that replaces the session afterwards)  *)
(* and the registration of a passkey, from application/mfa,                *)
(* application/passkey and their handlers.                                 *)
(*                                                                         *)
(* Requests run concurrently, one step per store call; any call may fail   *)
(* and keys with a time to live may go at any moment.  Secrets, ceremonies *)
(* and credentials are numbers; a TOTP code is the secret and the time     *)
(* step it was computed from.  A form that does not bind, whose return_to  *)
(* is not local or whose CSRF token differs changes nothing and is not a   *)
(* step.  What becomes of the login challenge is MFAChallenge's subject.   *)
(***************************************************************************)
EXTENDS Naturals, FiniteSets

CONSTANTS
    Slots,          \* slots of concurrent requests
    MaxRequests,    \* bound: requests in all
    Sessions, Users,
    MaxSecrets,     \* bound: secrets generated
    MaxCeremonies,  \* bound: passkey registrations begun
    TimeSteps,      \* TOTP time steps codes are computed from
    Credentials,    \* ids authenticators give new credentials
    StoresFail      \* whether store calls may fail

VARIABLES
    owner,          \* the user of each session, fixed
    sessionRow, sessionCache,   \* sessions whose row is active, and that are cached
    totp,           \* user_totp: secret by user, 0 for no row
    enrolment,      \* Redis: pending secret by session, 0 for no key
    usedSteps,      \* Redis: reserved time steps by user
    ceremony,       \* Redis: passkey registrations by number: the user who began it
    credential,     \* webauthn_credentials: user by credential id
    req,            \* the request in each slot
    count, secrets, ceremonies, \* bounded counters
    proved,         \* history: secrets a user proved to hold
    confirmed,      \* history: number of rows written, by user and time step
    replaced,       \* history: sessions answered with a login challenge
    begun,          \* history: who began each ceremony
    answers         \* history: who began the ceremony a credential came from

sessions == <<owner, sessionRow, sessionCache>>
totpVars == <<totp, enrolment, usedSteps>>
passkeyVars == <<ceremony, credential>>
bounds == <<count, secrets, ceremonies>>
history == <<proved, confirmed, replaced, begun, answers>>
vars == <<sessions, totpVars, passkeyVars, req, bounds, history>>

None == "none"

Steps == {"idle", "load", "find", "save", "get", "reserve", "upsert", "delete", "challenge",
          "logout", "uncache", "begin", "getsetup", "store", "consume"}

\* A free slot.
Idle == [pc |-> "idle", op |-> "none", session |-> None,
         secret |-> 0, step |-> 0,      \* the code submitted
         login |-> FALSE,               \* return_to is set
         entry |-> 0,                   \* enrolment or ceremony in hand
         credential |-> None]

TypeOK ==
    /\ owner \in [Sessions -> Users]
    /\ sessionRow \subseteq Sessions /\ sessionCache \subseteq Sessions
    /\ totp \in [Users -> 0..MaxSecrets] /\ enrolment \in [Sessions -> 0..MaxSecrets]
    /\ usedSteps \subseteq Users \X TimeSteps
    /\ ceremony \in [1..MaxCeremonies -> Users \cup {None}]
    /\ credential \in [Credentials -> Users \cup {None}]
    /\ \A r \in Slots :
        /\ req[r].pc \in Steps /\ req[r].session \in Sessions \cup {None}
        /\ req[r].pc \in {"reserve", "upsert"} => req[r].entry \in 1..secrets
        /\ req[r].pc \in {"store", "consume"} => req[r].entry \in 1..ceremonies
    /\ count \in 0..MaxRequests /\ secrets \in 0..MaxSecrets /\ ceremonies \in 0..MaxCeremonies

Init ==
    /\ owner \in [Sessions -> Users]
    /\ sessionRow = Sessions /\ sessionCache = Sessions
    /\ totp = [u \in Users |-> 0] /\ enrolment = [s \in Sessions |-> 0] /\ usedSteps = {}
    /\ ceremony = [k \in 1..MaxCeremonies |-> None]
    /\ credential = [c \in Credentials |-> None]
    /\ req = [r \in Slots |-> Idle]
    /\ count = 0 /\ secrets = 0 /\ ceremonies = 0
    /\ proved = {} /\ confirmed = [p \in Users \X TimeSteps |-> 0] /\ replaced = {}
    /\ begun = [k \in 1..MaxCeremonies |-> None]
    /\ answers = [c \in Credentials |-> None]

-----------------------------------------------------------------------------
(* Control of one request. *)

At(r, step) == req[r].pc = step

Goto(r, step) == req' = [req EXCEPT ![r].pc = step]

Return(r) == req' = [req EXCEPT ![r] = Idle]

User(r) == owner[req[r].session]

Free(r) == At(r, "idle") /\ count < MaxRequests

Begin(r, fields) ==
    /\ count' = count + 1
    /\ req' = [req EXCEPT ![r] = fields]
    /\ UNCHANGED <<sessions, totpVars, passkeyVars, secrets, ceremonies, history>>

\* A store call fails: the setup pages show the error and nothing else.
CallFails(r) ==
    /\ StoresFail /\ ~At(r, "idle")
    /\ Return(r)  \* server error
    /\ UNCHANGED <<sessions, totpVars, passkeyVars, bounds, history>>

\* Redis drops an enrolment or a ceremony whose time is over.  A reserved time
\* step stays for as long as codes of the step are accepted.
Expire ==
    /\ \/ /\ UNCHANGED ceremony
          /\ \E s \in Sessions : enrolment[s] # 0 /\ enrolment' = [enrolment EXCEPT ![s] = 0]
       \/ /\ UNCHANGED enrolment
          /\ \E k \in 1..ceremonies :
                ceremony[k] # None /\ ceremony' = [ceremony EXCEPT ![k] = None]
    /\ UNCHANGED <<sessions, totp, usedSteps, credential, req, bounds, history>>

\* Both services have a loadUser: the cache first, then the row.
LoadedOrRefused(r, step) ==
    /\ At(r, "load")
    /\ IF req[r].session \in sessionCache \cup sessionRow
       THEN Goto(r, step)
       ELSE Return(r)  \* ErrLoginRequired
    /\ UNCHANGED <<sessions, totpVars, passkeyVars, bounds, history>>

LoadUser(r) ==
    \/ req[r].op \in {"setup", "retry"} /\ LoadedOrRefused(r, "find")
    \/ req[r].op = "confirm" /\ LoadedOrRefused(r, "get")

LoadPasskeyUser(r) ==
    \/ req[r].op = "begin" /\ LoadedOrRefused(r, "begin")
    \/ req[r].op = "finish" /\ LoadedOrRefused(r, "getsetup")

-----------------------------------------------------------------------------
(* The TOTP setup page. *)

\* GET: BeginSetup, and BeginLoginChallenge for a user who has TOTP already.
Setup(r, s, login) ==
    Begin(r, [Idle EXCEPT !.pc = "load", !.op = "setup", !.session = s, !.login = login])

FindByUserID(r) ==
    /\ At(r, "find")
    /\ CASE totp[User(r)] = 0                  -> Goto(r, "save")
         [] totp[User(r)] # 0 /\ req[r].login  -> Goto(r, "challenge")
         [] totp[User(r)] # 0 /\ ~req[r].login -> Return(r)  \* AlreadyEnabled
    /\ UNCHANGED <<sessions, totpVars, passkeyVars, bounds, history>>

\* A new secret each time, over whatever was pending.
SaveTOTPEnrollment(r) ==
    /\ At(r, "save") /\ secrets < MaxSecrets
    /\ secrets' = secrets + 1
    /\ enrolment' = [enrolment EXCEPT ![req[r].session] = secrets + 1]
    /\ Return(r)  \* page with the QR code
    /\ UNCHANGED <<sessions, totp, usedSteps, passkeyVars, count, ceremonies, history>>

\* POST: ConfirmSetup with a code; secret 0 is a code of no secret.
Confirm(r, s, k, t, login) ==
    /\ k <= secrets
    /\ Begin(r, [Idle EXCEPT !.pc = "load", !.op = "confirm", !.session = s, !.login = login,
                             !.secret = k, !.step = t])

\* writeError with preserve: the error page comes from another BeginSetup.
WriteError(r) ==
    req' = [req EXCEPT ![r] = [Idle EXCEPT !.pc = "load", !.op = "retry", !.session = req[r].session]]

\* VerifyCodeWithStep, for an enrolment that is there.
Matches(r, k) == k # 0 /\ req[r].secret = k

VerifyCode(r) ==
    LET k == enrolment[req[r].session]
    IN  /\ At(r, "get")
        /\ IF Matches(r, k)
           THEN req' = [req EXCEPT ![r].pc = "reserve", ![r].entry = k]
           ELSE WriteError(r)  \* ErrEnrollmentExpired, ErrInvalidTOTPCode
        /\ proved' = IF Matches(r, k) THEN proved \cup {<<User(r), k>>} ELSE proved
        /\ UNCHANGED <<sessions, totpVars, passkeyVars, bounds, confirmed, replaced, begun, answers>>

ReserveTOTPStepUse(r) ==
    /\ At(r, "reserve")
    /\ IF <<User(r), req[r].step>> \in usedSteps
       THEN WriteError(r) /\ UNCHANGED usedSteps  \* ErrTOTPCodeReused
       ELSE Goto(r, "upsert") /\ usedSteps' = usedSteps \cup {<<User(r), req[r].step>>}
    /\ UNCHANGED <<sessions, totp, enrolment, passkeyVars, bounds, history>>

\* Mutant: the enrolment is read again when the row is written.
UpsertPending(r) == enrolment[req[r].session]

UpsertSecret(r) == req[r].entry

Upsert(r) ==
    /\ At(r, "upsert")
    /\ totp' = [totp EXCEPT ![User(r)] = UpsertSecret(r)]
    /\ confirmed' = [confirmed EXCEPT ![<<User(r), req[r].step>>] = @ + 1]
    /\ Goto(r, "delete")
    /\ UNCHANGED <<sessions, enrolment, usedSteps, passkeyVars, bounds, proved, replaced, begun, answers>>

DeleteTOTPEnrollment(r) ==
    /\ At(r, "delete")
    /\ enrolment' = [enrolment EXCEPT ![req[r].session] = 0]
    /\ IF req[r].login
       THEN Goto(r, "challenge")
       ELSE Return(r)  \* Enabled
    /\ UNCHANGED <<sessions, totp, usedSteps, passkeyVars, bounds, history>>

-----------------------------------------------------------------------------
(* The login challenge that takes the session's place. *)

CreateLoginChallenge(r) ==
    /\ At(r, "challenge")
    /\ Goto(r, "logout")
    /\ UNCHANGED <<sessions, totpVars, passkeyVars, bounds, history>>

\* invalidateCurrentSession: the row, then the cached copy.
LogoutBySessionID(r) ==
    /\ At(r, "logout")
    /\ sessionRow' = sessionRow \ {req[r].session}
    /\ Goto(r, "uncache")
    /\ UNCHANGED <<owner, sessionCache, totpVars, passkeyVars, bounds, history>>

\* Mutant: the cached copy is left to expire.
CacheKept(r) == sessionCache

CacheWithout(r) == sessionCache \ {req[r].session}

DeleteSession(r) ==
    /\ At(r, "uncache")
    /\ sessionCache' = CacheWithout(r)
    /\ replaced' = replaced \cup {req[r].session}
    /\ Return(r)  \* TOTPRequired, with the challenge; the session cookie is dropped
    /\ UNCHANGED <<owner, sessionRow, totpVars, passkeyVars, bounds, proved, confirmed, begun, answers>>

-----------------------------------------------------------------------------
(* Passkey registration. *)

BeginPasskey(r, s) ==
    /\ ceremonies < MaxCeremonies
    /\ Begin(r, [Idle EXCEPT !.pc = "load", !.op = "begin", !.session = s])

\* ListByUserID and BeginRegistration change nothing; SaveMFAChallenge.
SaveCeremony(r) ==
    /\ At(r, "begin") /\ ceremonies < MaxCeremonies
    /\ ceremonies' = ceremonies + 1
    /\ ceremony' = [ceremony EXCEPT ![ceremonies + 1] = User(r)]
    /\ begun' = [begun EXCEPT ![ceremonies + 1] = User(r)]
    /\ Return(r)  \* setup_id and options
    /\ UNCHANGED <<sessions, totpVars, credential, count, secrets, proved, confirmed, replaced,
                   answers>>

\* The browser answers ceremony k with credential c.
FinishPasskey(r, s, k, c) ==
    /\ k \in 1..ceremonies
    /\ Begin(r, [Idle EXCEPT !.pc = "load", !.op = "finish", !.session = s, !.entry = k,
                             !.credential = c])

OwnCeremony(r) == ceremony[req[r].entry] = User(r)

GetCeremony(r) ==
    /\ At(r, "getsetup")
    /\ IF OwnCeremony(r)
       THEN Goto(r, "store")
       ELSE Return(r)  \* ErrPasskeySetupExpired
    /\ UNCHANGED <<sessions, totpVars, passkeyVars, bounds, history>>

\* FinishRegistration, then the row, which a second answer with the same
\* credential overwrites.
UpsertCredential(r) ==
    /\ At(r, "store")
    /\ credential' = [credential EXCEPT ![req[r].credential] = User(r)]
    /\ answers' = [answers EXCEPT ![req[r].credential] = begun[req[r].entry]]
    /\ Goto(r, "consume")
    /\ UNCHANGED <<sessions, totpVars, ceremony, bounds, proved, confirmed, replaced, begun>>

DeleteCeremony(r) ==
    /\ At(r, "consume")
    /\ ceremony' = [ceremony EXCEPT ![req[r].entry] = None]
    /\ Return(r)  \* enabled
    /\ UNCHANGED <<sessions, totpVars, credential, bounds, history>>

-----------------------------------------------------------------------------

\* A request arrives in a free slot.
Arrive(r) ==
    /\ Free(r)
    /\ \E s \in Sessions :
        \/ \E login \in BOOLEAN :
            \/ Setup(r, s, login)
            \/ \E k \in 0..MaxSecrets, t \in TimeSteps : Confirm(r, s, k, t, login)
        \/ BeginPasskey(r, s)
        \/ \E k \in 1..MaxCeremonies, c \in Credentials : FinishPasskey(r, s, k, c)

TOTPStep(r) ==
    \/ LoadUser(r) \/ FindByUserID(r) \/ SaveTOTPEnrollment(r)
    \/ VerifyCode(r) \/ ReserveTOTPStepUse(r) \/ Upsert(r) \/ DeleteTOTPEnrollment(r)
    \/ CreateLoginChallenge(r) \/ LogoutBySessionID(r) \/ DeleteSession(r)

PasskeyStep(r) ==
    \/ LoadPasskeyUser(r) \/ SaveCeremony(r) \/ GetCeremony(r)
    \/ UpsertCredential(r) \/ DeleteCeremony(r)

Next ==
    \/ \E r \in Slots : Arrive(r) \/ TOTPStep(r) \/ PasskeyStep(r) \/ CallFails(r)
    \/ Expire

Spec == Init /\ [][Next]_vars

-----------------------------------------------------------------------------
(* Properties. *)

\* A factor is one its user proved to hold.  The TOTP secret in use was proved,
\* even when another tab or a failed attempt puts a new secret into the
\* enrolment between the check of the code and the write of the row; the codes
\* of one time step enable TOTP at most once, however submissions interleave;
\* and a passkey belongs to the user who began the ceremony its response
\* answers, whichever session brings the response.
FactorsWereProved ==
    /\ \A u \in Users : totp[u] # 0 => <<u, totp[u]>> \in proved
    /\ \A p \in Users \X TimeSteps : confirmed[p] <= 1
    /\ \A c \in Credentials : credential[c] = answers[c]

\* Once the answer with the login challenge is out, the session it replaces
\* lets nobody in, through the cache or through the row.
ChallengeReplacesSession ==
    replaced \cap (sessionRow \cup sessionCache) = {}

\* What the setup page's error handler says it does after a wrong code: the
\* user goes on with the QR code at hand, so the pending secret stays.
WrongCodeKeepsSecret ==
    [][\A r \in Slots :
          LET s == req[r].session
          IN  At(r, "save") /\ req[r].op = "retry" /\ ~At(r, "save")' /\ enrolment[s] # 0
              => enrolment'[s] = enrolment[s]]_vars

\* A second factor, once enabled, is not exchanged for another.
EnabledSecretStays ==
    [][\A u \in Users : totp[u] # 0 => totp'[u] = totp[u]]_vars
=============================================================================
