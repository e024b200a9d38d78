------------------------------ MODULE Registry ------------------------------
(***************************************************************************)
(* What administrators register: OAuth clients with the URIs a login and a *)
(* logout may redirect to (application/client, client_repo.go) and short   *)
(* links (application/shorturl, short_url_repo.go), with the redirect of a *)
(* short link, which anyone may follow.                                    *)
(*                                                                         *)
(* Requests run concurrently, one step per store call or statement of a    *)
(* transaction; a row another transaction has inserted and not committed   *)
(* is waited for, and MySQL ends a cycle of such waits by rolling one      *)
(* transaction back.  Names, scopes and the format of URIs are left out:   *)
(* input a format check refuses changes nothing and is not a step.  The    *)
(* guard in front of these operations is in Roles.                         *)
(***************************************************************************)
EXTENDS Naturals, Sequences, FiniteSets

CONSTANTS
    Slots,          \* slots of concurrent requests
    MaxRequests,    \* bound: requests in all
    ClientIds,
    SeededClients,  \* clients of migrate.sql, by client_id
    Inputs,         \* settings tried in CreateClient
    URILists,       \* lists of URIs tried in the registrations
    Codes, Targets, \* short codes and target URLs
    MaxAttempts,    \* codes generated for one link (8 in the code)
    StoresFail      \* whether store calls may fail

VARIABLES
    clients,        \* oauth_clients and its child tables, by client_id
    uris,           \* committed URIs of clients, by table and client_id
    links, clicks,  \* short_urls: target and click_count, by code
    expired,        \* codes of links whose expires_at is over
    req, count,     \* the request in each slot; bounded counter
    registered,     \* history: RegisteredCounts answered, by table and client_id
    unsure,         \* history: a commit whose outcome the server does not know
    created,        \* history: clients as their creators were told, by client_id
    promised        \* history: targets as the creators of links were told, by code

vars == <<clients, uris, links, clicks, expired, req, count, registered, unsure, created, promised>>
clientVars == <<clients, uris, registered, unsure, created>>
linkVars == <<links, clicks, expired, promised>>

None == "none"

\* The two tables of URIs: oauth_client_redirect_uris, oauth_client_post_logout_redirect_uris.
Tables == {"redirect", "post_logout"}

Idle == [pc |-> "idle", op |-> "none",
         client |-> None, model |-> <<>>,
         table |-> "redirect",
         todo |-> <<>>,             \* URIs still to insert
         mine |-> {},               \* URIs inserted and not committed
         code |-> None, target |-> None,
         attempts |-> 0]            \* codes generated so far

Steps == {"idle", "find", "insert", "register", "commit", "create", "resolve", "click"}

Init ==
    /\ clients = [c \in ClientIds |-> IF c \in DOMAIN SeededClients THEN SeededClients[c] ELSE <<>>]
    /\ uris = [t \in Tables |->
                [c \in ClientIds |-> IF c \in DOMAIN SeededClients THEN SeededClients[c][t] ELSE {}]]
    /\ links = [k \in Codes |-> None] /\ clicks = [k \in Codes |-> 0] /\ expired = {}
    /\ req = [r \in Slots |-> Idle] /\ count = 0
    /\ registered = [t \in Tables |-> [c \in ClientIds |-> 0]] /\ unsure = FALSE
    /\ created = clients /\ promised = [k \in Codes |-> None]

-----------------------------------------------------------------------------
(* Control of one request. *)

At(r, step) == req[r].pc = step

Goto(r, step) == req' = [req EXCEPT ![r].pc = step]

Return(r) == req' = [req EXCEPT ![r] = Idle]

Free(r) == At(r, "idle") /\ count < MaxRequests

Begin(r, fields) ==
    /\ count' = count + 1
    /\ req' = [req EXCEPT ![r] = fields]
    /\ UNCHANGED <<clientVars, linkVars>>

\* A store call fails; an open transaction is rolled back.
CallFails(r) ==
    /\ StoresFail /\ ~At(r, "idle")
    /\ Return(r)  \* the error
    /\ UNCHANGED <<clientVars, linkVars, count>>

-----------------------------------------------------------------------------
(* Clients. *)

\* normalizeClientSettings: the method that goes without saying.
AuthMethod(in) ==
    IF in.method # "" THEN in.method
    ELSE IF in.type = "public" THEN "none" ELSE "client_secret_basic"

\* normalizeClientSettings: what it accepts.  The type defaults to confidential
\* and PKCE to required before this.
Settings(in) ==
    /\ (in.type = "public") <=> (AuthMethod(in) = "none")
    /\ in.type = "public" => in.pkce

\* normalizeGrantTypes, and the check after it in CreateClient.
GrantTypes(in) ==
    /\ in.grants # {}
    /\ "refresh_token" \in in.grants => "authorization_code" \in in.grants
    /\ "client_credentials" \in in.grants => in.type = "confidential"

\* normalizeClientRedirectURIs: only the code grant has redirect URIs.
RedirectURIs(in) == IF "authorization_code" \in in.grants THEN in.uris ELSE {}

\* normalizeClientSecret.
ClientSecret(in) == (AuthMethod(in) # "none") <=> in.secret

Accepted(in) ==
    /\ Settings(in) /\ GrantTypes(in) /\ ClientSecret(in)
    /\ "authorization_code" \in in.grants => in.uris # {}  \* ErrRedirectURIRequired

\* The client CreateClient stores.
Model(in) ==
    [type |-> in.type, method |-> AuthMethod(in), pkce |-> in.pkce, grants |-> in.grants,
     secret |-> in.secret, redirect |-> RedirectURIs(in), post_logout |-> in.logout]

\* The settings are looked at after FindByClientID: a refusal is a refusal.
CreateClient(r, c, in) ==
    /\ At(r, "idle") /\ Accepted(in)
    /\ Begin(r, [Idle EXCEPT !.pc = "find", !.op = "client", !.client = c, !.model = Model(in)])

RegisterRedirectURIs(r, c, list) ==
    Begin(r, [Idle EXCEPT !.pc = "find", !.op = "uris", !.client = c, !.table = "redirect",
                          !.todo = list])

RegisterPostLogoutRedirectURIs(r, c, list) ==
    Begin(r, [Idle EXCEPT !.pc = "find", !.op = "uris", !.client = c, !.table = "post_logout",
                          !.todo = list])

FindByClientID(r) ==
    /\ At(r, "find")
    /\ LET q == req[r] IN
        \/ /\ q.op = "client" /\ clients[q.client] = <<>>
           /\ Goto(r, "insert")
        \/ /\ q.op = "uris" /\ clients[q.client] # <<>>
           /\ Goto(r, "register")
        \/ /\ \/ q.op = "client" /\ clients[q.client] # <<>>
              \/ q.op = "uris" /\ clients[q.client] = <<>>
           /\ Return(r)  \* already exists, not found
    /\ UNCHANGED <<clientVars, linkVars, count>>

\* The transaction of client_repo's CreateClient, under the unique key of
\* client_id.  The answer to its COMMIT may be lost.
InsertClient(r) ==
    /\ At(r, "insert")
    /\ LET c == req[r].client
           model == req[r].model
       IN
        \/ /\ clients[c] = <<>>
           /\ clients' = [clients EXCEPT ![c] = model]
           /\ uris' = [t \in Tables |-> [uris[t] EXCEPT ![c] = model[t]]]
           /\ \/ created' = [created EXCEPT ![c] = model]
              \/ StoresFail /\ UNCHANGED created
        \/ clients[c] # <<>> /\ UNCHANGED <<clients, uris, created>>  \* duplicate key
    /\ Return(r)
    /\ UNCHANGED <<registered, unsure, linkVars, count>>

Next1(r) == Head(req[r].todo)

\* The transaction r waits for before it can insert its next URI.
WaitsFor(r, s) ==
    /\ r # s /\ At(r, "register") /\ req[r].todo # <<>>
    /\ req[s].client = req[r].client /\ req[s].table = req[r].table
    /\ Next1(r) \in req[s].mine

\* Mutant: what was there already counts too.
InsertedAll(r, u) == {u}

\* INSERT IGNORE affects a row only if the URI is new.
Inserted(r, u) == {u} \ uris[req[r].table][req[r].client]

InsertIgnore(r) ==
    /\ At(r, "register") /\ req[r].todo # <<>>
    /\ ~\E s \in Slots : WaitsFor(r, s)
    /\ req' = [req EXCEPT ![r].todo = Tail(@), ![r].mine = @ \cup Inserted(r, Next1(r))]
    /\ UNCHANGED <<clientVars, linkVars, count>>

\* Each of two transactions waits for the other: one is rolled back.
Deadlock(r) ==
    /\ \E s \in Slots : WaitsFor(r, s) /\ WaitsFor(s, r)
    /\ Return(r)  \* the error
    /\ UNCHANGED <<clientVars, linkVars, count>>

Commit(r) ==
    /\ At(r, "register") /\ req[r].todo = <<>>
    /\ LET c == req[r].client
           t == req[r].table
       IN
        /\ uris' = [uris EXCEPT ![t][c] = @ \cup req[r].mine]
        /\ \/ /\ registered' = [registered EXCEPT ![t][c] = @ + Cardinality(req[r].mine)]
              /\ UNCHANGED unsure
           \/ /\ StoresFail  \* the answer to COMMIT is lost
              /\ unsure' = TRUE /\ UNCHANGED registered
    /\ Return(r)
    /\ UNCHANGED <<clients, created, linkVars, count>>

-----------------------------------------------------------------------------
(* Short links. *)

\* With a code of the caller's choice, or None to have codes generated.
CreateLink(r, k, t) ==
    Begin(r, [Idle EXCEPT !.pc = "create", !.op = "link", !.code = k, !.target = t])

\* Mutant: a link that is there is overwritten.
PutAnyway(k) == TRUE

\* INSERT under the unique key of code: whether it succeeds.
Put(k) == links[k] = None

\* Another code may be generated.
Retries(r) == req[r].code = None /\ req[r].attempts + 1 < MaxAttempts

\* A generated code that is taken is replaced, MaxAttempts times at most.  The
\* answer to the INSERT may be lost.
InsertLink(r) ==
    /\ At(r, "create")
    /\ \E k \in IF req[r].code = None THEN Codes ELSE {req[r].code} :
        \/ /\ Put(k)
           /\ links' = [links EXCEPT ![k] = req[r].target]
           /\ \/ promised' = [promised EXCEPT ![k] = req[r].target]
              \/ StoresFail /\ UNCHANGED promised
           /\ Return(r)
        \/ /\ ~Put(k) /\ UNCHANGED <<links, promised>>
           /\ IF Retries(r)
              THEN req' = [req EXCEPT ![r].attempts = @ + 1]
              ELSE Return(r)  \* ErrCodeAlreadyExists
    /\ UNCHANGED <<clientVars, clicks, expired, count>>

Redirect(r, k) == Begin(r, [Idle EXCEPT !.pc = "resolve", !.op = "redirect", !.code = k])

\* FindActiveByCode, and the expiry, in Resolve.
Resolve(r) ==
    /\ At(r, "resolve")
    /\ LET k == req[r].code IN
        IF links[k] # None /\ k \notin expired
        THEN req' = [req EXCEPT ![r].pc = "click", ![r].target = links[k]]
        ELSE Return(r)  \* not found, expired
    /\ UNCHANGED <<clientVars, linkVars, count>>

\* click_count = click_count + 1 in the statement.
IncrementClick(r) ==
    /\ At(r, "click")
    /\ clicks' = [clicks EXCEPT ![req[r].code] = @ + 1]
    /\ Return(r)  \* 302 to the target
    /\ UNCHANGED <<clientVars, links, expired, promised, count>>

Expire ==
    /\ \E k \in Codes : /\ links[k] # None /\ k \notin expired
                        /\ expired' = expired \cup {k}
    /\ UNCHANGED <<clientVars, links, clicks, promised, req, count>>

\* A request arrives in a free slot.
Arrive(r) ==
    /\ Free(r)
    /\ \/ \E c \in ClientIds : \/ \E in \in Inputs : CreateClient(r, c, in)
                               \/ \E list \in URILists :
                                    \/ RegisterRedirectURIs(r, c, list)
                                    \/ RegisterPostLogoutRedirectURIs(r, c, list)
       \/ \E k \in Codes \cup {None}, t \in Targets : CreateLink(r, k, t)
       \/ \E k \in Codes : Redirect(r, k)

Next ==
    \/ \E r \in Slots :
        \/ Arrive(r)
        \/ FindByClientID(r) \/ InsertClient(r)
        \/ InsertIgnore(r) \/ Deadlock(r) \/ Commit(r)
        \/ InsertLink(r) \/ Resolve(r) \/ IncrementClick(r)
        \/ CallFails(r)
    \/ Expire

Spec == Init /\ [][Next]_vars

-----------------------------------------------------------------------------
(* Properties *)

TypeOK ==
    /\ \A r \in Slots : req[r].pc \in Steps /\ req[r].attempts < MaxAttempts
    /\ \A k \in Codes : links[k] \in Targets \cup {None} /\ clicks[k] \in 0..MaxRequests
    /\ expired \subseteq Codes /\ count \in 0..MaxRequests
    /\ \A t \in Tables, c \in ClientIds : registered[t][c] \in Nat /\ IsFiniteSet(uris[t][c])

\* What a creator is told stands.  A client answered as created keeps the
\* settings and URIs of that request: of two requests for one client_id that both
\* find it free (FindByClientID), at most one is answered so, and its rows are
\* not mixed with the other's.  A short link answered as created leads to that
\* target for good, in the table and in every redirect under way, although codes
\* are generated without a look at those in use.
PromisesKept ==
    /\ \A c \in ClientIds : created[c] # <<>> =>
        /\ clients[c] = created[c]
        /\ \A t \in Tables : created[c][t] \subseteq uris[t][c]
    /\ \A k \in Codes : promised[k] # None =>
        /\ links[k] = promised[k]
        /\ \A r \in Slots : At(r, "click") /\ req[r].code = k => req[r].target = promised[k]

\* The counts answered by RegisterRedirectURIs and RegisterPostLogoutRedirectURIs
\* add up to the rows there are: registrations that run at once and overlap
\* neither lose a URI nor count one twice, and one that is rolled back counts
\* nothing.  Rows created with the client are not counted, and a commit of
\* unknown outcome is left out.
CountsAddUp ==
    unsure \/ \A t \in Tables, c \in ClientIds : clients[c] # <<>> =>
        registered[t][c] = Cardinality(uris[t][c] \ clients[c][t])

=============================================================================
