------------------------------ MODULE Accounts ------------------------------
(***************************************************************************)
(* How rows of the users table come about: an administrator registers a    *)
(* user (application/register), or someone signs in through the upstream   *)
(* OpenID provider and is merged into an existing row or given a new one   *)
(* (external/oidc_provider.go, the federated plugin and                    *)
(* resolveExistingUser / provisionFederatedUser of application/authn).     *)
(*                                                                         *)
(* Requests run concurrently, one step per store call; lookups go to the   *)
(* reader, which may lag (StaleReads), and rows are never deleted.  A user *)
(* row is named by its id; its user_uuid by the identity it is derived     *)
(* from.  A username is the sanitised name and the suffix tried (0: none), *)
(* an email the part before the @ and the domain.  Input a format check    *)
(* refuses changes nothing and is not a step.  The guard in front of       *)
(* /register is in Roles, what a session is used for in Session.           *)
(***************************************************************************)
EXTENDS Naturals, Sequences, FiniteSets

CONSTANTS
    Slots,          \* slots of concurrent requests
    MaxRequests,    \* bound: requests in all
    Identities,     \* people the upstream provider knows
    Claims,         \* username and email the provider gives for each identity
    Sanitized,      \* sanitizeFederatedUsername, by raw name
    Forms,          \* username and email of the registrations tried
    Earlier,        \* contents the users table may have at the start
    States,         \* OIDC state values
    MaxCandidates,  \* usernames allocateFederatedUsername tries (100 in the code)
    StaleReads,     \* whether lookups may miss the latest rows
    StoresFail      \* whether store and provider calls may fail

VARIABLES
    users,          \* users rows by id: [owner, username, email]
    state,          \* Redis, by OIDC state: fresh (not generated yet), saved or gone
    metadata,       \* the provider's discovery document is in memory
    req, count,     \* the request in each slot; bounded counter
    sessions,       \* sessions created: <<identity, user id>>
    consumed        \* history: callbacks that got past consumeState, by state

vars == <<users, state, metadata, req, count, sessions, consumed>>
stores == <<users, state, metadata, count, sessions, consumed>>

Local == "local"            \* owner of a row with a random user_uuid
NoEmail == <<"", "">>

Idle == [pc |-> "idle", op |-> "none",
         identity |-> Local, state |-> Local,
         username |-> <<"", 0>>, email |-> NoEmail,
         again |-> FALSE,           \* looking up after a failed Create
         own |-> 0,                 \* history: the identity's row when this began
         user |-> 0]                \* the row found or created

Steps == {"idle", "discovery", "begin", "getstate", "delstate", "exchange", "uuid", "name",
          "mail", "allocate", "create", "session", "username", "email", "insert"}

Ids == 1..Len(users)

TypeOK ==
    /\ \A u \in Ids : users[u].owner \in Identities \cup {Local}
                      /\ users[u].username[2] < MaxCandidates
    /\ \A u, v \in Ids : u # v => /\ users[u].username # users[v].username
                                  /\ users[u].email # users[v].email
                                  /\ users[u].owner # Local => users[u].owner # users[v].owner
    /\ state \in [States -> {"fresh", "saved", "gone"}] /\ metadata \in BOOLEAN
    /\ \A r \in Slots : req[r].pc \in Steps /\ req[r].user \in 0..Len(users)
    /\ count \in 0..MaxRequests
    /\ sessions \subseteq Identities \X Ids
    /\ consumed \in [States -> 0..MaxRequests]

Init ==
    /\ users \in Earlier /\ state \in [States -> {"fresh", "saved"}] /\ metadata \in BOOLEAN
    /\ req = [r \in Slots |-> Idle] /\ count = 0
    /\ sessions = {} /\ consumed = [s \in States |-> 0]

-----------------------------------------------------------------------------
(* Control of one request. *)

At(r, step) == req[r].pc = step

Goto(r, step) == req' = [req EXCEPT ![r].pc = step]

Return(r) == req' = [req EXCEPT ![r] = Idle]

\* The row provisioned for an identity; 0 for none.
OwnRow(i) == IF \E u \in Ids : users[u].owner = i
             THEN CHOOSE u \in Ids : users[u].owner = i ELSE 0

Begin(r, fields) ==
    /\ At(r, "idle") /\ count < MaxRequests
    /\ count' = count + 1
    /\ req' = [req EXCEPT ![r] = fields]
    /\ UNCHANGED <<users, state, metadata, sessions, consumed>>

\* A store or provider call fails and with it the request.  A failing Create
\* of a federated user is looked up again first (see CreateFederated).  At
\* "session" this is also the refusal of an account that is locked or disabled.
CallFails(r) ==
    /\ StoresFail /\ req[r].pc \notin {"idle", "create"}
    /\ Return(r)  \* the error
    /\ UNCHANGED stores

\* getOne on the reader: the first Len(users) - lag rows are there.
Finds(Test(_)) ==
    LET hits(n) == {u \in 1..n : Test(users[u])}
        first(n) == IF hits(n) = {} THEN 0 ELSE CHOOSE u \in hits(n) : TRUE
    IN  {first(n) : n \in IF StaleReads THEN 0..Len(users) ELSE {Len(users)}}

\* INSERT INTO users, under the unique keys of user_uuid, username and email.
Conflicts(row) ==
    \E u \in Ids : \/ users[u].username = row.username
                   \/ users[u].email = row.email
                   \/ users[u].owner = row.owner /\ row.owner # Local

Insert(row) == ~Conflicts(row) /\ users' = Append(users, row)

-----------------------------------------------------------------------------
(* Registration. *)

Register(r, f) ==
    Begin(r, [Idle EXCEPT !.pc = "username", !.op = "register",
                          !.username = <<f.username, 0>>, !.email = f.email])

ExistingByUsername(r) ==
    /\ At(r, "username")
    /\ \E u \in Finds(LAMBDA row : row.username = req[r].username) :
        IF u # 0 THEN Return(r)  \* ErrUsernameAlreadyUsed
        ELSE Goto(r, "email")
    /\ UNCHANGED stores

ExistingByEmail(r) ==
    /\ At(r, "email")
    /\ \E u \in Finds(LAMBDA row : row.email = req[r].email) :
        IF u # 0 THEN Return(r)  \* ErrEmailAlreadyUsed
        ELSE Goto(r, "insert")
    /\ UNCHANGED stores

\* A unique key taken since the two lookups is the driver's error, not a 409.
CreateRegistered(r) ==
    /\ At(r, "insert")
    /\ LET row == [owner |-> Local, username |-> req[r].username, email |-> req[r].email]
       IN  Insert(row) \/ (Conflicts(row) /\ UNCHANGED users)
    /\ Return(r)
    /\ UNCHANGED <<state, metadata, count, sessions, consumed>>

-----------------------------------------------------------------------------
(* The upstream provider. *)

\* Authenticate without a code sends the browser to the provider; with a code
\* it is the callback of a person the provider knows.
Authenticate(r) ==
    LET first == IF metadata THEN "begin" ELSE "discovery"
        second == IF metadata THEN "getstate" ELSE "discovery"
    IN  \/ Begin(r, [Idle EXCEPT !.pc = first, !.op = "begin"])
        \/ \E s \in States, i \in Identities :
            /\ state[s] # "fresh"
            /\ Begin(r, [Idle EXCEPT !.pc = second, !.op = "callback", !.state = s,
                               !.identity = i, !.own = OwnRow(i)])

\* The document was not in memory: two requests may both fetch it.
LoadDiscovery(r) ==
    /\ At(r, "discovery")
    /\ metadata' = TRUE
    /\ Goto(r, IF req[r].op = "begin" THEN "begin" ELSE "getstate")
    /\ UNCHANGED <<users, state, count, sessions, consumed>>

\* beginAuthentication saves a fresh state and redirects.
BeginAuthentication(r) ==
    /\ At(r, "begin")
    /\ \E s \in States : state[s] = "fresh" /\ state' = [state EXCEPT ![s] = "saved"]
    /\ Return(r)  \* to the provider
    /\ UNCHANGED <<users, metadata, count, sessions, consumed>>

GetState(r) ==
    /\ At(r, "getstate")
    /\ IF state[req[r].state] = "saved" THEN Goto(r, "delstate")
       ELSE Return(r)  \* state is invalid or expired
    /\ UNCHANGED stores

\* DeleteState does not ask whether there was anything to delete.
DeleteState(r) ==
    /\ At(r, "delstate")
    /\ state' = [state EXCEPT ![req[r].state] = "gone"]
    /\ consumed' = [consumed EXCEPT ![req[r].state] = @ + 1]
    /\ Goto(r, "exchange")
    /\ UNCHANGED <<users, metadata, count, sessions>>

\* The rest of completeAuthentication: code, userinfo or id_token, claims.
ExchangeCode(r) ==
    /\ At(r, "exchange")
    /\ Goto(r, "uuid")
    /\ UNCHANGED stores

Expire ==
    /\ \E s \in States : state[s] = "saved" /\ state' = [state EXCEPT ![s] = "gone"]
    /\ UNCHANGED <<users, metadata, req, count, sessions, consumed>>

-----------------------------------------------------------------------------
(* The local account of a federated identity. *)

Given(r) == Claims[req[r].identity]

\* On to the session; that the account may be locked or disabled is in CallFails.
Resolved(r, u) == req' = [req EXCEPT ![r].pc = "session", ![r].user = u]

\* The uuid derived from provider and subject.  The lookup of the subject itself
\* before it finds nothing: user_uuids are random or derived, and those fixed in
\* migrate.sql are taken not to be subjects of the provider.
FindByUserUUID(r) ==
    /\ At(r, "uuid")
    /\ \E u \in Finds(LAMBDA row : row.owner = req[r].identity) :
        IF u # 0 THEN Resolved(r, u) ELSE Goto(r, "name")
    /\ UNCHANGED stores

\* The name is looked up as the provider spells it.
FindByUsername(r) ==
    /\ At(r, "name")
    /\ \E u \in Finds(LAMBDA row : row.username = <<Given(r).username, 0>>) :
        IF u # 0 /\ Given(r).username # "" THEN Resolved(r, u) ELSE Goto(r, "mail")
    /\ UNCHANGED stores

\* With nothing found a first login is provisioned; a second look gives up.
FindByEmail(r) ==
    /\ At(r, "mail")
    /\ \E u \in Finds(LAMBDA row : row.email = Given(r).email) :
        IF u # 0 /\ Given(r).email # NoEmail THEN Resolved(r, u)
        ELSE IF req[r].again THEN Return(r)  \* the error of Create
        ELSE Goto(r, "allocate")
    /\ UNCHANGED stores

\* candidateFederatedUsername and sanitizeFederatedUsername.  An empty email
\* stands for what comes after it, the display name or the subject.
Candidate(c) == Sanitized[IF c.username # "" THEN c.username ELSE c.email[1]]

\* Mutant: the loop has no end.
AllocateForever(r) ==
    /\ At(r, "allocate")
    /\ LET i == IF req[r].username[1] = "" THEN 0 ELSE req[r].username[2]
           candidate == <<Candidate(Given(r)), i>>
       IN  \E u \in Finds(LAMBDA row : row.username = candidate) :
            req' = [req EXCEPT ![r].pc = IF u = 0 THEN "create" ELSE "allocate",
                               ![r].username = IF u = 0 THEN candidate ELSE <<candidate[1], i + 1>>]
    /\ UNCHANGED stores

\* allocateFederatedUsername: one lookup per suffix.
AllocateFederatedUsername(r) ==
    /\ At(r, "allocate")
    /\ LET i == IF req[r].username[1] = "" THEN 0 ELSE req[r].username[2]
           candidate == <<Candidate(Given(r)), i>>
       IN  \E u \in Finds(LAMBDA row : row.username = candidate) :
            \/ /\ u = 0
               /\ req' = [req EXCEPT ![r].pc = "create", ![r].username = candidate]
            \/ /\ u # 0 /\ i + 1 < MaxCandidates
               /\ req' = [req EXCEPT ![r].username = <<candidate[1], i + 1>>]
            \/ /\ u # 0 /\ i + 1 >= MaxCandidates
               /\ Return(r)  \* allocate federated username exhausted
    /\ UNCHANGED stores

\* The email is the provider's or one made from the uuid.
NewRow(r) ==
    [owner |-> req[r].identity, username |-> req[r].username,
     email |-> IF Given(r).email # NoEmail THEN Given(r).email
               ELSE <<req[r].identity, "federated.local">>]

\* Mutant: only name and email are looked up again.
LookupNameAgain(r) ==
    req' = [req EXCEPT ![r].pc = "name", ![r].again = TRUE, ![r].own = OwnRow(req[r].identity)]

\* Where the account is looked up after a failed Create.
LookupAgain(r) ==
    req' = [req EXCEPT ![r].pc = "uuid", ![r].again = TRUE, ![r].own = OwnRow(req[r].identity)]

\* Any error of Create, a taken unique key or another, is followed by one more
\* resolveExistingUser.
CreateFederated(r) ==
    /\ At(r, "create")
    /\ \/ /\ Insert(NewRow(r))
          /\ Resolved(r, Len(users) + 1)
       \/ /\ Conflicts(NewRow(r)) \/ StoresFail
          /\ LookupAgain(r)
          /\ UNCHANGED users
    /\ UNCHANGED <<state, metadata, count, sessions, consumed>>

\* createSession for the account.
CreateSession(r) ==
    /\ At(r, "session")
    /\ sessions' = sessions \cup {<<req[r].identity, req[r].user>>}
    /\ Return(r)  \* signed in
    /\ UNCHANGED <<users, state, metadata, count, consumed>>

Next ==
    \/ \E r \in Slots :
        \/ \E f \in Forms : Register(r, f)
        \/ ExistingByUsername(r) \/ ExistingByEmail(r) \/ CreateRegistered(r)
        \/ Authenticate(r) \/ LoadDiscovery(r) \/ BeginAuthentication(r)
        \/ GetState(r) \/ DeleteState(r) \/ ExchangeCode(r)
        \/ FindByUserUUID(r) \/ FindByUsername(r) \/ FindByEmail(r)
        \/ AllocateFederatedUsername(r) \/ CreateFederated(r) \/ CreateSession(r)
        \/ CallFails(r)
    \/ Expire

Spec == Init /\ [][Next]_vars

-----------------------------------------------------------------------------
(* Properties *)

\* An identity finds its own row.  If it has one when its callback arrives it is
\* signed in to that row, whatever other rows carry its name or email
\* (resolveExistingUser looks up the stable uuid first).  A first login that
\* loses the race for the row ends up in it too: the look after the failed
\* Create neither gives up nor takes an account that only shares the name or
\* the email (provisionFederatedUser).
IdentityFindsItsRow ==
    \A r \in Slots : req[r].own # 0 =>
        /\ At(r, "session") => req[r].user = req[r].own
        /\ req[r].again => req[r].pc \in {"uuid", "session"}

\* One identity, one account, as the comment on federatedSubjectUserUUID has it.
\* Does not hold: while one login of an identity without a row is signed in to
\* an account that shares its name, another may provision a row of its own
\* (Login_merge.cfg).
SameAccount ==
    \A s, t \in sessions : s[1] = t[1] => s = t

\* Each state is consumed by one callback, as the comment in
\* beginAuthentication has it.  Does not hold: see Login_merge.cfg.
ConsumedOnce == \A s \in States : consumed[s] <= 1

=============================================================================
