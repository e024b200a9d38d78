---------------------------- MODULE MFAChallenge ----------------------------
(***************************************************************************)
(* One MFA challenge, from the login that creates it to the session that   *)
(* consumes it: the second-factor pages (login_totp_handler.go and         *)
(* login_push_handler.go), the service behind them                         *)
(* (application/authn/service.go), the Redis hash, the packed state key    *)
(* and save_mfa_challenge.lua.                                             *)
(*                                                                         *)
(* Every request is a process that takes one step per Redis or MySQL round *)
(* trip that changes state or whose answer others may change.  All         *)
(* requests belong to the challenge's user; what they present (a TOTP      *)
(* code, a passkey response, the push match code) is correct, since a      *)
(* wrong one is refused before anything is written.  The login's browser   *)
(* keeps the challenge in a cookie, which some answers clear.              *)
(***************************************************************************)
EXTENDS Naturals, FiniteSets, StateMask

CONSTANTS
    Requests,       \* second-factor requests for the challenge; a request that
                    \* begins a passkey login also names the WebAuthn session
    LoginModes,     \* modes for updateMFAChallengeMode: the login now passes
                    \* totp and passkey, the rest of the code is ready for push
    Words,          \* actions that push approvers submit
    TOTPSteps,      \* time steps whose codes the user types
    VersionLimit,   \* largest state version, 2^32 - 1 in the script
    TornReads       \* whether Redis serves other clients between the two
                    \* commands GetMFAChallenge pipelines

ASSUME ChallengeAssumption ==
    /\ LoginModes \subseteq {"totp", "passkey", "push"}
    /\ VersionLimit \in Nat \ {0}
    /\ TornReads \in BOOLEAN
    /\ Unset \notin Requests \cup TOTPSteps
    /\ Unset \notin {"totp", "passkey", "push", "pending", "approved", "denied"}

VARIABLES
    login,          \* progress of the login that opens the challenge
    hash,           \* challenge hash key: mode, push status, passkey session
    state,          \* challenge state key: mask and version
    expired,        \* ExpiresAt has passed, and with it the TTL of both keys
    cookie,         \* the login's browser holds the challenge cookie
    usedSteps,      \* TOTP step keys reserved for login
    pc,             \* next step of the request, or its outcome
    op,             \* the handler that serves it
    arg,            \* TOTP step, WebAuthn session or action submitted
    entry,          \* the handler's copy of the challenge
    deleted,        \* history: requests whose DEL was served
    sessionRows,    \* login_sessions rows, by the request that inserted them
    sessionCache    \* cached sessions

redis == <<hash, state, expired>>
vars == <<login, redis, cookie, usedSteps, pc, op, arg, entry, deleted, sessionRows, sessionCache>>

-----------------------------------------------------------------------------
(* Values. *)

Handlers == {"totp", "begin", "finish", "decide", "poll", "finalize"}

\* A poll that sees an approval goes on to FinalizeMFAPush.
Steps == {"idle", "state", "finalize", "save", "reserve", "delete", "session", "cache",
          "saved", "ok", "pending", "refused", "expired"}

Modes == {"totp", "passkey", "push"}

Fields == [mode: Modes, push: {"pending", "approved", "denied"},
           session: Requests \cup {Unset}]

NoFields == [mode |-> "totp", push |-> "pending", session |-> Unset]

NoState == [mask |-> {}, ver |-> 0]

Absent == [NoFields EXCEPT !.mode = "absent"]

Present == hash # Absent

TypeOK ==
    /\ login \in {"start", "created", "open", "failed"}
    /\ hash \in Fields \cup {Absent}
    /\ state \in [mask: SUBSET ChallengeBits, ver: 0..VersionLimit]
    /\ {expired, cookie} \subseteq BOOLEAN
    /\ usedSteps \subseteq TOTPSteps
    /\ pc \in [Requests -> Steps]
    /\ op \in [Requests -> Handlers \cup {Unset}]
    /\ arg \in [Requests -> Requests \cup TOTPSteps \cup Words \cup {Unset}]
    /\ entry \in [Requests -> [fields: Fields, mask: SUBSET ChallengeBits,
                               ver: 0..VersionLimit]]
    /\ deleted \subseteq Requests
    /\ sessionRows \subseteq Requests
    /\ sessionCache \subseteq Requests

Init ==
    /\ login = "start"
    /\ hash = Absent
    /\ state = NoState
    /\ expired = FALSE
    /\ cookie = FALSE
    /\ usedSteps = {}
    /\ pc = [r \in Requests |-> "idle"]
    /\ op = [r \in Requests |-> Unset]
    /\ arg = [r \in Requests |-> Unset]
    /\ entry = [r \in Requests |-> [fields |-> NoFields, mask |-> {}, ver |-> 0]]
    /\ deleted = {}
    /\ sessionRows = {}
    /\ sessionCache = {}

Goto(r, step) == pc' = [pc EXCEPT ![r] = step]

-----------------------------------------------------------------------------
(* The challenge repository. *)

\* GetMFAChallenge after both reads: the mask is rebuilt from the hash fields,
\* the mode and the push status from the mask.
Decode(fields, st) ==
    LET mask == NormalizeMFAChallengeStateMask(st.mask, fields.mode, fields.push, fields.session)
    IN  [fields |-> [mode |-> MFAModeFromStateMask(mask, fields.mode),
                     push |-> MFAPushStatusFromStateMask(mask, fields.push),
                     session |-> fields.session],
         mask |-> mask, ver |-> st.ver]

NextVersion(ver) == IF ver + 1 > VersionLimit THEN 1 ELSE ver + 1

\* Mutant: the script skips the version comparison.
AcceptsAnyVersion(e, mask) == WellFormed(mask) /\ KeepsDecision(state.mask, mask)

\* Mutant: the script does not protect a stored decision.
AcceptsRewrite(e, mask) == state.ver = e.ver /\ WellFormed(mask)

ScriptAccepts(e, mask) ==
    /\ state.ver = e.ver
    /\ WellFormed(mask)
    /\ KeepsDecision(state.mask, mask)

StoredFields(e, mask) ==
    [mode |-> MFAModeFromStateMask(mask, e.fields.mode),
     push |-> MFAPushStatusFromStateMask(mask, e.fields.push),
     session |-> e.fields.session]

\* Mutant: an update writes the hash and the version, not the packed mask.
StoreFieldsOnly(e, mask) ==
    /\ hash' = StoredFields(e, mask)
    /\ state' = [mask |-> IF Present THEN state.mask ELSE mask, ver |-> NextVersion(state.ver)]

Store(e, mask) ==
    /\ hash' = StoredFields(e, mask)
    /\ state' = [mask |-> mask, ver |-> NextVersion(state.ver)]

\* SaveMFAChallenge: TRUE when the script stored the entry.
SaveMFAChallenge(e, stored) ==
    LET mask == NormalizeMFAChallengeStateMask(e.mask, e.fields.mode, e.fields.push, e.fields.session)
    IN  IF ScriptAccepts(e, mask)
        THEN stored = TRUE /\ Store(e, mask)
        ELSE stored = FALSE /\ UNCHANGED <<hash, state>>

-----------------------------------------------------------------------------
(* The login. *)

\* createMFAChallenge of the authentication service.
CreateMFAChallenge ==
    /\ login = "start"
    /\ SaveMFAChallenge([fields |-> NoFields, mask |-> {}, ver |-> 0], TRUE)
    /\ login' = "created"
    /\ UNCHANGED <<cookie, expired, usedSteps, pc, op, arg, entry, deleted, sessionRows, sessionCache>>

\* updateMFAChallengeMode reads the challenge back and saves the mode.  No
\* request knows the challenge before the login answers, so nothing but its
\* expiry comes between.  The answer sets the cookie.
UpdateMFAChallengeMode(m) ==
    /\ login = "created"
    /\ IF Present /\ ~expired
       THEN \E stored \in BOOLEAN :
              /\ SaveMFAChallenge([Decode(hash, state) EXCEPT !.fields.mode = m], stored)
              /\ login' = IF stored THEN "open" ELSE "failed"
       ELSE login' = "failed" /\ UNCHANGED <<hash, state>>
    /\ cookie' = (login' = "open")
    /\ UNCHANGED <<expired, usedSteps, pc, op, arg, entry, deleted, sessionRows, sessionCache>>

\* createLoginChallenge of the MFA service, after TOTP enrolment: the challenge
\* is open at once and its mode and push status are left empty.
CreateLoginChallenge ==
    /\ login = "start"
    /\ SaveMFAChallenge([fields |-> [mode |-> Unset, push |-> Unset, session |-> Unset],
                         mask |-> {}, ver |-> 0], TRUE)
    /\ login' = "open"
    /\ cookie' = TRUE
    /\ UNCHANGED <<expired, usedSteps, pc, op, arg, entry, deleted, sessionRows, sessionCache>>

\* Both keys carry the challenge's remaining time as TTL.
Expire ==
    /\ login # "start" /\ ~expired
    /\ expired' = TRUE
    /\ hash' = Absent
    /\ state' = NoState
    /\ UNCHANGED <<login, cookie, usedSteps, pc, op, arg, entry, deleted, sessionRows, sessionCache>>

-----------------------------------------------------------------------------
(* The second factor. *)

\* Options handed to a client that it can still answer.
Offered == {b \in Requests : op[b] = "begin" /\ pc[b] = "saved"}

\* The words DecideMFAPush knows: the states they lead to.
Decisions == {"approved", "denied"}

Answers(h) ==
    CASE h = "totp" -> TOTPSteps
      [] h = "finish" -> Offered
      [] h = "decide" -> Words \cap Decisions
      [] OTHER -> {Unset}

\* A TOTP code and a poll name the challenge by the cookie and are turned away
\* without it; the page itself (loadChallengeData) is such a poll that does not
\* finalize.  The others find the challenge in the form.
Handle(r, h) ==
    IF h = "finalize" THEN pc[r] = "finalize"
    ELSE /\ login = "open" /\ pc[r] = "idle"
         /\ h \in {"totp", "poll"} => cookie

\* Mutant: FinalizeMFAPush only looks for a rejection, and so does the poll.
NotDenied(e) == e.fields.push # "denied"

\* FinalizeMFAPush turns a rejected and an undecided challenge away.
PushApproved(e) == e.fields.push = "approved"

\* writePushStatus: an approval is finalized at once.
AfterPoll(e) == IF e.fields.mode = "push" /\ PushApproved(e) THEN "finalize" ELSE "pending"

\* Where the handler goes after its checks on the copy it read.
AfterGet(h, a, e) ==
    CASE h = "totp" -> "reserve"
      [] h = "begin" -> IF e.fields.mode = "passkey" THEN "save" ELSE "refused"
      [] h = "finish" -> IF e.fields.mode = "passkey" /\ e.fields.session = a
                         THEN "delete" ELSE "refused"
      [] h = "decide" -> IF e.fields.mode = "push" THEN "save" ELSE "refused"
      [] h = "poll" -> AfterPoll(e)
      [] h = "finalize" -> IF PushApproved(e) THEN "delete" ELSE "pending"

\* The change the handler makes to its copy before it saves it.
Amended(r, h, a, e) ==
    CASE h = "begin" -> [e EXCEPT !.fields.session = r]
      [] h = "decide" -> [e EXCEPT !.fields.push = a]
      [] OTHER -> e

Received(r, h, a, e) ==
    /\ entry' = [entry EXCEPT ![r] = Amended(r, h, a, e)]
    /\ Goto(r, AfterGet(h, a, e))
    /\ UNCHANGED cookie

\* ErrMFAChallengeExpired: the login's browser loses its cookie, an approver
\* has none, and a poll ignores what FinalizeMFAPush says.
AnswerExpired(r, h) ==
    /\ Goto(r, IF h = "finalize" THEN "pending" ELSE "expired")
    /\ cookie' = (cookie /\ h \in {"decide", "finalize"})

\* Mutant: any failed attempt clears the cookie.
AnswerErrorAndForget(r, h) ==
    /\ Goto(r, IF h = "finalize" THEN "pending" ELSE "refused")
    /\ cookie' = (cookie /\ h \in {"decide", "finalize"})

\* Any other error.  The TOTP form is shown again with the challenge read once
\* more, and the cookie goes if that read, should it succeed, finds none.
AnswerError(r, h) ==
    /\ Goto(r, IF h = "finalize" THEN "pending" ELSE "refused")
    /\ \/ UNCHANGED cookie
       \/ h = "totp" /\ ~(Present /\ ~expired) /\ cookie' = FALSE

\* DecideMFAPush knows no other word and does not look at the challenge.
DecideUnknownAction(r, w) ==
    /\ w \in Words \ Decisions
    /\ Handle(r, "decide")
    /\ op' = [op EXCEPT ![r] = "decide"]
    /\ arg' = [arg EXCEPT ![r] = w]
    /\ AnswerError(r, "decide")
    /\ UNCHANGED <<login, redis, usedSteps, entry, deleted, sessionRows, sessionCache>>

\* GetMFAChallenge, both commands of the pipeline served back to back.
GetMFAChallenge(r, h, a) ==
    /\ Handle(r, h)
    /\ op' = [op EXCEPT ![r] = h]
    /\ arg' = [arg EXCEPT ![r] = a]
    /\ IF Present /\ ~expired
       THEN Received(r, h, a, Decode(hash, state))
       ELSE AnswerExpired(r, h) /\ UNCHANGED entry
    /\ UNCHANGED <<login, redis, usedSteps, deleted, sessionRows, sessionCache>>

\* GetMFAChallenge, other clients served between HMGET and BITFIELD.
GetMFAChallengeHash(r, h, a) ==
    /\ TornReads
    /\ Handle(r, h)
    /\ Present /\ ~expired
    /\ op' = [op EXCEPT ![r] = h]
    /\ arg' = [arg EXCEPT ![r] = a]
    /\ entry' = [entry EXCEPT ![r].fields = hash]
    /\ Goto(r, "state")
    /\ UNCHANGED <<login, redis, cookie, usedSteps, deleted, sessionRows, sessionCache>>

GetMFAChallengeState(r) ==
    /\ pc[r] = "state"
    /\ Received(r, op[r], arg[r], Decode(entry[r].fields, state))
    /\ UNCHANGED <<login, redis, usedSteps, op, arg, deleted, sessionRows, sessionCache>>

\* SaveMFAChallenge of BeginMFAPasskey and DecideMFAPush: a conflict and an
\* illegal transition are both refused, by the former as an expired challenge.
SaveChallenge(r) ==
    /\ pc[r] = "save"
    /\ \E stored \in BOOLEAN :
         /\ SaveMFAChallenge(entry[r], stored)
         /\ CASE stored -> Goto(r, "saved") /\ UNCHANGED cookie
              [] ~stored /\ op[r] = "begin" -> AnswerExpired(r, "begin")
              [] OTHER -> AnswerError(r, op[r])
    /\ UNCHANGED <<login, expired, usedSteps, op, arg, entry, deleted, sessionRows, sessionCache>>

\* Mutant: SET without NX.
ReserveAlways(r) ==
    /\ pc[r] = "reserve"
    /\ usedSteps' = usedSteps \cup {arg[r]}
    /\ Goto(r, "delete")
    /\ UNCHANGED <<login, redis, cookie, op, arg, entry, deleted, sessionRows, sessionCache>>

\* ReserveTOTPStepUse is SET NX; its key outlives the code's validity.
ReserveTOTPStepUse(r) ==
    /\ pc[r] = "reserve"
    /\ usedSteps' = usedSteps \cup {arg[r]}
    /\ IF arg[r] \in usedSteps THEN AnswerError(r, "totp")
       ELSE Goto(r, "delete") /\ UNCHANGED cookie
    /\ UNCHANGED <<login, redis, op, arg, entry, deleted, sessionRows, sessionCache>>

\* DeleteMFAChallenge deletes both keys and does not say whether they existed.
DeleteMFAChallenge(r) ==
    /\ pc[r] = "delete"
    /\ hash' = Absent
    /\ state' = NoState
    /\ deleted' = deleted \cup {r}
    /\ Goto(r, "session")
    /\ UNCHANGED <<login, expired, cookie, usedSteps, op, arg, entry, sessionRows, sessionCache>>

\* createSession: the row first, then the cache.
CreateSession(r) ==
    /\ pc[r] = "session"
    /\ sessionRows' = sessionRows \cup {r}
    /\ Goto(r, "cache")
    /\ UNCHANGED <<login, redis, cookie, usedSteps, op, arg, entry, deleted, sessionCache>>

\* The answer swaps the challenge cookie for the session's.  VerifyTOTP still
\* looks for a passkey, and the session stays when that fails.
SaveSession(r) ==
    /\ pc[r] = "cache"
    /\ sessionCache' = sessionCache \cup {r}
    /\ \/ Goto(r, "ok") /\ cookie' = FALSE
       \/ op[r] = "totp" /\ AnswerError(r, "totp")
    /\ UNCHANGED <<login, redis, usedSteps, op, arg, entry, deleted, sessionRows>>

\* Any lookup or round trip on the way may fail and end the request there.
RequestFails(r) ==
    /\ pc[r] \in {"state", "finalize", "save", "reserve", "delete", "session", "cache"}
    /\ AnswerError(r, IF pc[r] = "finalize" THEN "finalize" ELSE op[r])
    /\ UNCHANGED <<login, redis, usedSteps, op, arg, entry, deleted, sessionRows, sessionCache>>

-----------------------------------------------------------------------------

RequestStep(r) ==
    \/ \E h \in Handlers : \E a \in Answers(h) : GetMFAChallenge(r, h, a)
    \/ \E h \in Handlers : \E a \in Answers(h) : GetMFAChallengeHash(r, h, a)
    \/ \E w \in Words : DecideUnknownAction(r, w)
    \/ GetMFAChallengeState(r)
    \/ SaveChallenge(r)
    \/ ReserveTOTPStepUse(r)
    \/ DeleteMFAChallenge(r)
    \/ CreateSession(r)
    \/ SaveSession(r)
    \/ RequestFails(r)

Next ==
    \/ CreateMFAChallenge
    \/ \E m \in LoginModes : UpdateMFAChallengeMode(m)
    \/ CreateLoginChallenge
    \/ Expire
    \/ \E r \in Requests : RequestStep(r)

Spec == Init /\ [][Next]_vars

-----------------------------------------------------------------------------
(* Properties. *)

\* The two Redis keys never tell different stories: they exist together, and
\* the mask says the same of mode, decision and passkey session as the hash,
\* although every handler rebuilds one from the other; and the version, which
\* wraps, is never 0, the version of a missing key.
StateMatchesHash ==
    IF Present
    THEN /\ MFAModeFromStateMask(state.mask, Unset) = hash.mode
         /\ MFAPushStatusFromStateMask(state.mask, Unset) = hash.push
         /\ "bound" \in state.mask <=> hash.session # Unset
         /\ state.ver \in 1..VersionLimit
    ELSE state = NoState

\* A push decision is final: while the challenge exists no save, not even one
\* computed from a torn or outdated read, turns approved into denied or back
\* or reopens the question.
DecisionIsFinal ==
    [][Present /\ Present' /\ hash.push # "pending" => hash'.push = hash.push]_vars

\* One login per TOTP step: of all requests that present the code of one time
\* step, on this or on a resurrected challenge, at most one inserts a session.
OneSessionPerTOTPStep ==
    \A r, s \in sessionRows :
        op[r] = "totp" /\ op[s] = "totp" /\ arg[r] = arg[s] => r = s

\* The copy a request saved was read with the state key already gone: the two
\* reads of GetMFAChallenge had a DEL or the expiry between them.
TornCopySaved == \E r \in Requests : pc[r] = "saved" /\ entry[r].ver = 0

\* A consumed or expired challenge stays gone: the version check refuses every
\* save computed from a copy read before the DEL or the expiry, and lets only a
\* copy through whose two reads the DEL or the expiry came between.
GoneForGood ==
    [][login # "start" /\ ~Present /\ Present' => TornCopySaved']_vars

\* FinalizeMFAPush inserts a session only for a challenge that some approver
\* approved and that no approver managed to deny (unless a torn copy brought
\* the challenge back).
PushSessionWasApproved ==
    ~TornCopySaved =>
    \A r \in sessionRows : op[r] = "finalize" =>
        /\ \E d \in Requests : op[d] = "decide" /\ arg[d] = "approved" /\ pc[d] = "saved"
        /\ ~\E d \in Requests : op[d] = "decide" /\ arg[d] = "denied" /\ pc[d] = "saved"

\* The login's browser can always go on: while the challenge is open it has the
\* cookie, whatever its requests were answered.  The exceptions are a passkey
\* login that lost a race with another save, which BeginMFAPasskey reports as
\* an expired challenge, and a challenge that a torn copy brought back.
CookieWhileOpen ==
    login = "open" /\ Present /\ ~expired
    => cookie \/ TornCopySaved \/ \E r \in Requests : op[r] = "begin" /\ pc[r] = "expired"

\* What TestLoginPushHandlerPostApprove expects of the page's buttons: they are
\* not turned away while the challenge waits for a decision.
ButtonsDecide ==
    [][\A r \in Requests :
         /\ pc[r] = "idle" /\ op'[r] = "decide" /\ arg'[r] \in {"approve", "deny"}
         /\ Present /\ ~expired /\ hash.mode = "push" /\ hash.push = "pending"
         => pc'[r] # "refused"]_vars

\* What the handlers' comments say of consuming the challenge at once, against
\* a concurrent save: once a request has deleted it, it is not usable again.
ConsumedStaysGone ==
    [][deleted # {} => ~Present' \/ expired']_vars

\* What VerifyTOTP's comment says of deleting the challenge at once: the
\* challenge cannot be used twice, so it yields at most one session.
ConsumedOnce == Cardinality(sessionRows) <= 1
=============================================================================
