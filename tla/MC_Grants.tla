----------------------------- MODULE MC_Grants -----------------------------
(***************************************************************************)
(* AuthCode and DeviceCode for TLC.  They share no state, so their         *)
(* interleavings show nothing new: part says which of the two goes on, and *)
(* the other stays as it starts.                                           *)
(*                                                                         *)
(* The clients are a public one that must use PKCE and needs consent, and  *)
(* a confidential one with every grant and neither.                        *)
(***************************************************************************)
EXTENDS AuthCode, TLC

CONSTANTS
    public, confidential,
    Polls, Deciders, Second, DeviceTTL, Interval, MaxTime   \* of DeviceCode

ASSUME DeviceAssumption ==
    /\ {Second, DeviceTTL, Interval, MaxTime} \subseteq Nat \ {0}
    /\ Interval >= Second /\ MaxTime >= Second
    /\ Nobody \notin Deciders

VARIABLES
    part,           \* "code" or "device"
    now, born, entry, userKey, watch, pc, seen, at, polledAt, issued, dpc, action, approvers

deviceVars == <<now, born, entry, userKey, watch, pc, seen, at, polledAt, issued,
                dpc, action, approvers>>
mcVars == <<part, vars, deviceVars>>

MCClient ==
    public :> [grants |-> {"authorization_code", "refresh_token"},
               uris |-> URIs, scopes |-> Scopes, auth |-> "none", secret |-> FALSE,
               requirePKCE |-> TRUE, requireConsent |-> TRUE]
    @@ confidential :>
              [grants |-> {"authorization_code", "refresh_token", "client_credentials", "password"},
               uris |-> URIs, scopes |-> {"openid"}, auth |-> "client_secret_basic", secret |-> TRUE,
               requirePKCE |-> FALSE, requireConsent |-> FALSE]

D == INSTANCE DeviceCode WITH code <- entry

\* Both have several initial states; one of the other part is enough for each.
MCInit ==
    /\ part \in {"code", "device"}
    /\ Init /\ D!Init
    /\ part = "device" \/ now = 0
    /\ part = "code" \/ \A u \in Users, c \in Clients : consent[u][c] = {}

Goes(p) == part = p /\ UNCHANGED part

MCNext ==
    \/ Goes("code") /\ Next /\ UNCHANGED deviceVars
    \/ Goes("device") /\ D!Next /\ UNCHANGED vars

MCSpec == MCInit /\ [][MCNext]_mcVars

\* The configurations name polls as they name slots, and deciders as URIs: one
\* permutation then serves both parts.
Symmetry == Permutations(Slots) \cup Permutations(URIs)

-----------------------------------------------------------------------------
(* Properties of DeviceCode. *)

\* Tokens go to the user who approved, and only while the code lives
\* (exchangeDeviceCode, Decide).
IssuedToApprover == D!IssuedToApprover

\* Polls that TouchPoll lets through are apart by the interval, less the fraction
\* of a second that last_polled_at has lost.
PollsSpaced == D!PollsSpaced

\* The status moves forward only (comment on the port): see Grants_forward.cfg.
StatusMovesForward == D!StatusMovesForward
=============================================================================
