---------------------------- MODULE MC_Directory ----------------------------
(***************************************************************************)
(* Roles and Registry for TLC.  They share no state, so their              *)
(* interleavings show nothing new: part says which of the two goes on, and *)
(* the other stays as it starts.                                           *)
(***************************************************************************)
EXTENDS Naturals, Sequences, FiniteSets, TLC

CONSTANTS
    Slots, StoresFail,
    MaxRoleRequests, Users, Admin, Builtin, Seeded, CustomRoles, Masks, \* Roles
    MaxRequests, ClientIds, SeededClients, Inputs, URILists,            \* Registry
    ShortCodes, Targets, MaxAttempts

VARIABLES
    part,                                                               \* the one that goes on
    roles, role, mask, roleReq, roleCount, trail, overlapped, unrecorded,   \* Roles
    clients, uris, links, clicks, expired, regReq, regCount,            \* Registry
    registered, unsure, created, promised

roleVars == <<roles, role, mask, roleReq, roleCount, trail, overlapped, unrecorded>>
registryVars == <<clients, uris, links, clicks, expired, regReq, regCount,
                  registered, unsure, created, promised>>
vars == <<part, roleVars, registryVars>>

\* Two roles that migrate.sql and pkg/rbac agree on, and one whose seeded mask
\* lacks a bit.
MCSeeded ==
    "end_user" :> {} @@ "security_admin" :> {"AuthExec", "OpsManage", "UserManage"}
    @@ "super_admin" :> {"AuthExec", "OpsManage", "UserManage", "KeyRead"}
MCBuiltin ==
    "end_user" :> {} @@ "security_admin" :> {"AuthExec", "OpsManage", "UserManage", "KeyRead"}
    @@ "super_admin" :> {"AuthExec", "OpsManage", "UserManage", "KeyRead"}
MCMasks == {{"AuthExec", "OpsManage"}}

\* Every combination of settings; two URIs, one of them there from the start, in
\* both orders.
MCInputs ==
    [type : {"public", "confidential"}, method : {"", "none", "client_secret_post"},
     pkce : BOOLEAN, grants : SUBSET {"authorization_code", "refresh_token", "client_credentials"},
     uris : {{}, {"a"}}, logout : {{"b"}}, secret : BOOLEAN]
MCURILists == {<<"a", "b">>, <<"b", "a">>}

\* A client of migrate.sql, which CreateClient would refuse: refresh tokens
\* without the code grant.
MCSeededClients ==
    "legacy-client" :> [type |-> "confidential", method |-> "client_secret_basic", pkce |-> FALSE,
                        grants |-> {"password", "refresh_token"}, secret |-> TRUE,
                        redirect |-> {}, post_logout |-> {}]

R == INSTANCE Roles WITH MaxRequests <- MaxRoleRequests, req <- roleReq, count <- roleCount

G == INSTANCE Registry WITH Codes <- ShortCodes, req <- regReq, count <- regCount

Init ==
    /\ part \in {"roles", "registry"} /\ R!Init /\ G!Init
    /\ part = "registry" => \A u \in Users : role[u] = "super_admin"

Goes(p) == part = p /\ UNCHANGED part

Next ==
    \/ Goes("roles") /\ R!Next /\ UNCHANGED registryVars
    \/ Goes("registry") /\ G!Next /\ UNCHANGED roleVars

Spec == Init /\ [][Next]_vars

Symmetry == Permutations(Slots)

-----------------------------------------------------------------------------
(* Properties of the two modules. *)

\* System roles keep a mask of theirs and roles in use exist (UpdateRole,
\* DeleteRole, AssignRole).
RolesStand == R!RolesStand

\* Roles in use exist even when requests overlap: see Directory_role.cfg.
RolesAlwaysExist == R!RolesAlwaysExist

\* The latest audit event about a role or user tells what its row holds, unless
\* requests about it overlapped or the latest change has no event
\* (recordAdminAuditEvent).
TrailTells == R!TrailTells

\* Clients and short links stay as their creators were told (CreateClient,
\* Create).
PromisesKept == G!PromisesKept

\* The counts RegisterRedirectURIs answers add up to the rows.
CountsAddUp == G!CountsAddUp
=============================================================================
