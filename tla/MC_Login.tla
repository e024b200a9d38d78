------------------------------ MODULE MC_Login ------------------------------
(***************************************************************************)
(* Login and Accounts for TLC.  They share no state, so their              *)
(* interleavings show nothing new: part says which of the two goes on, and *)
(* the other stays as it starts.                                           *)
(***************************************************************************)
EXTENDS Login, TLC

CONSTANTS
    Slots, MaxRequests, Identities, Claims, Sanitized, Forms,   \* of Accounts
    Earlier, States, MaxCandidates, StaleReads, StoresFail

VARIABLES
    part,           \* "login" or "accounts"
    users, state, metadata, accReq, accCount, sessions, consumed

accountVars == <<users, state, metadata, accReq, accCount, sessions, consumed>>
mcVars == <<part, vars, accountVars>>

\* One account, found by its username and by another spelling of it, and a name
\* that finds none.
MCSpellings == {"ann", "ANN", "zoe"}
MCAccount == [n \in MCSpellings |-> IF n = "zoe" THEN Nobody ELSE CHOOSE u \in Users : TRUE]
MCUsername == [u \in Users |-> "ann"]

\* Two people whose names sanitise to the same username; registrations that
\* take the name of the first or their email.
MCIdentities == {"i1", "i2"}
MCClaims == "i1" :> [username |-> "ann", email |-> <<"a", "corp">>]
         @@ "i2" :> [username |-> "Ann!", email |-> <<"", "">>]
MCSanitized == "ann" :> "ann" @@ "Ann!" :> "ann"
MCForms == {[username |-> "ann", email |-> <<"x", "corp">>],
            [username |-> "bob", email |-> <<"a", "corp">>]}
MCEarlier == {<<>>, <<[owner |-> "local", username |-> <<"ann", 0>>, email |-> <<"x", "corp">>]>>}

A == INSTANCE Accounts WITH req <- accReq, count <- accCount

\* Both have several initial states, one of them is enough for the other.
MCInit ==
    /\ part \in {"login", "accounts"}
    /\ Init /\ A!Init
    /\ part = "login" \/ \A u \in Users : status[u] = "active"
    /\ part = "accounts" \/ (users = <<>> /\ metadata /\ \A s \in States : state[s] = "fresh")

Goes(p) == part = p /\ UNCHANGED part

MCNext ==
    \/ Goes("login") /\ Next /\ UNCHANGED accountVars
    \/ Goes("accounts") /\ A!Next /\ UNCHANGED vars

MCSpec == MCInit /\ [][MCNext]_mcVars

\* The configurations name slots as they name logins: one permutation then
\* serves both parts.
Symmetry == Permutations(Logins) \cup Permutations(States)

-----------------------------------------------------------------------------
(* Properties of Accounts. *)

\* The users table keeps its unique keys, with usernames among the candidates
\* allocateFederatedUsername may try, and requests refer to rows that exist.
AccountsTypeOK == A!TypeOK

\* An identity is signed in to its own row (resolveExistingUser,
\* provisionFederatedUser).
IdentityFindsItsRow == A!IdentityFindsItsRow

\* One identity, one account (comment on federatedSubjectUserUUID): see
\* Login_merge.cfg.
SameAccount == A!SameAccount

\* One callback per state (comment in beginAuthentication): see
\* Login_merge.cfg.
ConsumedOnce == A!ConsumedOnce
=============================================================================
