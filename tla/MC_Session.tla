----------------------------- MODULE MC_Session -----------------------------
(***************************************************************************)
(* Session and Enrolment for TLC.  They share no state, so their           *)
(* interleavings show nothing new: part says which of the two goes on, and *)
(* the other stays as it starts.  Session has two sessions of one user and *)
(* one of another, Enrolment two sessions of one user or of two.           *)
(***************************************************************************)
EXTENDS Session, TLC

CONSTANTS
    s1, s2, s3, u1, u2,
    Slots, MaxRequests, Enrolling, MaxSecrets, MaxCeremonies,   \* of Enrolment
    TimeSteps, Credentials, StoresFail

VARIABLES
    part,           \* "session" or "enrolment"
    owner, sessionRow, sessionCache, totp, enrolment, usedSteps, ceremony, credential,
    enrolReq, enrolCount, secrets, ceremonies, proved, confirmed, replaced, begun, answers

enrolVars == <<owner, sessionRow, sessionCache, totp, enrolment, usedSteps, ceremony, credential,
               enrolReq, enrolCount, secrets, ceremonies, proved, confirmed, replaced,
               begun, answers>>
mcVars == <<part, vars, enrolVars>>

OneUser == [s \in {s1, s2} |-> u1]
TwoUsers == [s \in {s1, s2, s3} |-> IF s = s3 THEN u2 ELSE u1]

E == INSTANCE Enrolment WITH Sessions <- Enrolling, req <- enrolReq, count <- enrolCount

\* Both have several initial states, one of them is enough for the other.
MCInit ==
    /\ part \in {"session", "enrolment"}
    /\ Init /\ E!Init
    /\ part = "session" \/ \A c \in Calls : op[c] = "logout" /\ target[c] = s1
    /\ part = "enrolment" \/ \A s \in Enrolling : owner[s] = u1

Goes(p) == part = p /\ UNCHANGED part

MCNext ==
    \/ Goes("session") /\ Next /\ UNCHANGED enrolVars
    \/ Goes("enrolment") /\ E!Next /\ UNCHANGED vars

MCSpec == MCInit /\ [][MCNext]_mcVars

\* The configurations name slots as they name calls: one permutation then serves
\* both parts.
Symmetry == Permutations(Calls) \cup Permutations(Enrolling)

-----------------------------------------------------------------------------
(* Properties of Enrolment. *)

\* Factors in use were proved by their user (ConfirmSetup, FinishSetup).
FactorsWereProved == E!FactorsWereProved

\* The login challenge after an enrolment replaces the session that asked for
\* it (invalidateCurrentSession).
ChallengeReplacesSession == E!ChallengeReplacesSession

\* A wrong code keeps the secret on the page (comment on writeError): see
\* Session_retry.cfg.
WrongCodeKeepsSecret == E!WrongCodeKeepsSecret

\* A secret in use is not replaced (ErrTOTPAlreadyEnabled): see
\* Session_retry.cfg.
EnabledSecretStays == E!EnabledSecretStays
=============================================================================
