------------------------------- MODULE Session -------------------------------
(***************************************************************************)
(* Login sessions: the MySQL row, the Redis copy (session hash, packed     *)
(* state, per-user index) and the four ways to end one (logout, logout of  *)
(* all sessions, forced logout by an administrator, TOTP enrolment), from  *)
(* application/session, authn.createSession, mfa.invalidateCurrentSession  *)
(* and the session repositories.                                           *)
(*                                                                         *)
(* A call takes one step per MySQL or Redis round trip, so calls of        *)
(* several requests interleave.  Sessions do not reach their expiry, which *)
(* the row and the Redis keys share.  Tokens are RefreshToken's subject.   *)
(***************************************************************************)
EXTENDS Naturals, FiniteSets

CONSTANTS
    Sessions,       \* session ids, each with the login that creates it
    Users,
    Owner,          \* the user of each session
    Calls,          \* requests that end sessions
    StaleReads,     \* whether a lagging read replica is configured
    StrongRead,     \* mysql.strong_read.session_by_id
    Nobody

ASSUME SessionAssumption ==
    /\ Owner \in [Sessions -> Users]
    /\ StaleReads \in BOOLEAN
    /\ StrongRead \in BOOLEAN
    /\ Nobody \notin Users

VARIABLES
    row,            \* login_sessions: absent, active or logged out
    hash, state,    \* session hash and packed state keys
    index,          \* the users' session sets
    login,          \* logins: next step
    pc, op, target, \* calls: next step, kind, session in hand
    user,           \* calls: user of a logout-all
    ids,            \* calls: sessions still to delete from the cache
    covers,         \* history: sessions a call is to end
    ended           \* history: sessions that a successful call has ended

db == <<row>>
cache == <<hash, state, index>>
callVars == <<pc, op, target, user, ids, covers>>
vars == <<db, cache, login, callVars, ended>>

-----------------------------------------------------------------------------

RowStates == {"none", "active", "out"}

CallSteps == {"new", "find", "list", "mark", "collect", "get", "del", "script",
              "index", "done", "failed"}

TypeOK ==
    /\ row \in [Sessions -> RowStates]
    /\ hash \subseteq Sessions /\ state \subseteq Sessions
    /\ index \in [Users -> SUBSET Sessions]
    /\ login \in [Sessions -> {"new", "save", "done", "failed"}]
    /\ pc \in [Calls -> CallSteps]
    /\ op \in [Calls -> {"logout", "all", "admin", "enrol"}]
    /\ target \in [Calls -> Sessions]
    /\ user \in [Calls -> Users \cup {Nobody}]
    /\ ids \in [Calls -> SUBSET Sessions]
    /\ covers \in [Calls -> SUBSET Sessions]
    /\ ended \subseteq Sessions
    /\ \A c \in Calls : pc[c] \in {"list", "collect"} => user[c] # Nobody

Init ==
    /\ row = [s \in Sessions |-> "none"]
    /\ hash = {} /\ state = {}
    /\ index = [u \in Users |-> {}]
    /\ login = [s \in Sessions |-> "new"]
    /\ pc = [c \in Calls |-> "new"]
    /\ op \in [Calls -> {"logout", "all", "admin", "enrol"}]
    /\ target \in [Calls -> Sessions]
    /\ user = [c \in Calls |-> Nobody]
    /\ ids = [c \in Calls |-> {}]
    /\ covers = [c \in Calls |-> {}]
    /\ ended = {}

\* What a read of the replica may return: the row now or as it was.
ReplicaRow(s) ==
    {row[s]} \cup (IF ~StaleReads THEN {}
                   ELSE CASE row[s] = "out"    -> {"none", "active"}
                          [] row[s] = "active" -> {"none"}
                          [] OTHER             -> {})

\* FindBySessionID.
FoundRow(s) == IF StrongRead THEN {row[s]} ELSE ReplicaRow(s)

\* IsSessionEntryActive on the cached entry, else the row: what authorize,
\* consent, device, passkey, TOTP setup and the admin pages accept.  An entry
\* whose state key is gone counts as active, by its status field.
MayAccept(s) == s \in hash \/ "active" \in FoundRow(s)

-----------------------------------------------------------------------------
(* Login: createSession. *)

CreateSession(s) ==
    /\ login[s] = "new"
    /\ row' = [row EXCEPT ![s] = "active"]
    /\ login' = [login EXCEPT ![s] = "save"]
    /\ UNCHANGED <<cache, callVars, ended>>

\* Mutant: the session is not added to its user's index.
SaveSessionNoIndex(s) ==
    /\ login[s] = "save"
    /\ hash' = hash \cup {s} /\ state' = state \cup {s}
    /\ login' = [login EXCEPT ![s] = "done"]
    /\ UNCHANGED <<db, index, callVars, ended>>

\* save_session.lua.
SaveSession(s) ==
    /\ login[s] = "save"
    /\ hash' = hash \cup {s} /\ state' = state \cup {s}
    /\ index' = [index EXCEPT ![Owner[s]] = @ \cup {s}]
    /\ login' = [login EXCEPT ![s] = "done"]
    /\ UNCHANGED <<db, callVars, ended>>

LoginFails(s) ==
    /\ login[s] = "save"
    /\ login' = [login EXCEPT ![s] = "failed"]
    /\ UNCHANGED <<db, cache, callVars, ended>>

-----------------------------------------------------------------------------
(* The calls that end sessions. *)

Goto(c, step) == pc' = [pc EXCEPT ![c] = step]

\* Session(s) that a call begun now has to end: the logins that have returned.
LoggedIn(S) == {s \in S : login[s] = "done"}

OwnedBy(u) == {s \in Sessions : Owner[s] = u}

\* A call returns without error; only then do the handlers drop the cookie.
Return(c) == Goto(c, "done") /\ ended' = ended \cup covers[c]

\* A call starts at a step, with the sessions it is to end.  Requests that do not
\* bind, whose CSRF token differs or whose redirect is refused are not calls.
Begin(c, kind, step, S) ==
    /\ pc[c] = "new" /\ op[c] = kind /\ Goto(c, step)
    /\ covers' = [covers EXCEPT ![c] = S]
    /\ UNCHANGED <<db, cache, login, op, target, ids, ended>>

\* The caller holds the cookie of a finished login.
HoldsCookie(c) == login[target[c]] = "done"

\* POST /logout, or POST /connect/logout.
Logout(c) == HoldsCookie(c) /\ Begin(c, "logout", "find", {target[c]}) /\ UNCHANGED user

LogoutAll(c) ==
    /\ HoldsCookie(c)
    /\ Begin(c, "all", "find", LoggedIn(OwnedBy(Owner[target[c]])))
    /\ UNCHANGED user

\* An administrator names the user.
AdminLogoutUser(c) ==
    /\ Begin(c, "admin", "list", LoggedIn(OwnedBy(Owner[target[c]])))
    /\ user' = [user EXCEPT ![c] = Owner[target[c]]]

\* The end of a TOTP enrolment that goes on with a login challenge.
InvalidateCurrentSession(c) ==
    /\ HoldsCookie(c) /\ MayAccept(target[c])
    /\ Begin(c, "enrol", "mark", {target[c]})
    /\ UNCHANGED user

\* FindBySessionID: no row means only the cache is cleaned; a logged-out row is
\* not marked again.
Find(c) ==
    /\ pc[c] = "find"
    /\ \E r \in FoundRow(target[c]) :
         \/ /\ r = "none" /\ Goto(c, "get")
            /\ ids' = [ids EXCEPT ![c] = {target[c]}] /\ UNCHANGED user
         \/ /\ r # "none" /\ op[c] = "all" /\ Goto(c, "list")
            /\ user' = [user EXCEPT ![c] = Owner[target[c]]] /\ UNCHANGED ids
         \/ /\ r = "active" /\ op[c] = "logout" /\ Goto(c, "mark")
            /\ UNCHANGED <<ids, user>>
         \/ /\ r = "out" /\ op[c] = "logout" /\ Goto(c, "get")
            /\ ids' = [ids EXCEPT ![c] = {target[c]}] /\ UNCHANGED user
    /\ UNCHANGED <<db, cache, login, op, target, covers, ended>>

\* ListActiveByUserID.
ListActive(c) ==
    /\ pc[c] = "list"
    /\ \E S \in SUBSET OwnedBy(user[c]) :
         /\ \A s \in OwnedBy(user[c]) :
              IF s \in S THEN "active" \in ReplicaRow(s)
                         ELSE \E r \in ReplicaRow(s) : r # "active"
         /\ ids' = [ids EXCEPT ![c] = S]
    /\ Goto(c, "mark")
    /\ UNCHANGED <<db, cache, login, op, target, user, covers, ended>>

\* LogoutBySessionID, or LogoutAllByUserID.
MarkLoggedOut(c) ==
    /\ pc[c] = "mark"
    /\ LET S == IF user[c] = Nobody THEN {target[c]} ELSE OwnedBy(user[c])
       IN  row' = [s \in Sessions |->
                     IF s \in S /\ row[s] = "active" THEN "out" ELSE row[s]]
    /\ IF user[c] = Nobody
         THEN Goto(c, "get") /\ ids' = [ids EXCEPT ![c] = {target[c]}]
         ELSE Goto(c, "collect") /\ UNCHANGED ids
    /\ UNCHANGED <<cache, login, op, target, user, covers, ended>>

\* Mutant: only the sessions listed from the database are deleted.
CollectListedOnly(c) ==
    /\ pc[c] = "collect"
    /\ \/ ids[c] = {} /\ Return(c)
       \/ ids[c] # {} /\ Goto(c, "get") /\ UNCHANGED ended
    /\ UNCHANGED <<db, cache, login, op, target, user, ids, covers>>

\* collectUserSessionIDs: the listed sessions and those of the Redis index.
Collect(c) ==
    /\ pc[c] = "collect"
    /\ LET all == ids[c] \cup index[user[c]]
       IN  /\ ids' = [ids EXCEPT ![c] = all]
           /\ \/ all = {} /\ Return(c)
              \/ all # {} /\ Goto(c, "get") /\ UNCHANGED ended
    /\ UNCHANGED <<db, cache, login, op, target, user, covers>>

\* The loop over the ids, in some order; Delete starts with a Get.
GetForDelete(c) ==
    /\ pc[c] = "get"
    /\ \E s \in ids[c] :
         /\ target' = [target EXCEPT ![c] = s]
         /\ Goto(c, IF s \in hash THEN "script" ELSE "del")
    /\ UNCHANGED <<db, cache, login, op, user, ids, covers, ended>>

\* What follows the deletion of one session.
AfterDelete(c) ==
    LET rest == ids[c] \ {target[c]}
    IN  /\ ids' = [ids EXCEPT ![c] = rest]
        /\ \/ rest # {} /\ Goto(c, "get") /\ UNCHANGED ended
           \/ rest = {} /\ op[c] = "enrol" /\ Goto(c, "index") /\ UNCHANGED ended
           \/ rest = {} /\ op[c] # "enrol" /\ Return(c)

\* Delete of a session whose hash was not there: DEL of the hash only.
DeleteKey(c) ==
    /\ pc[c] = "del"
    /\ hash' = hash \ {target[c]}
    /\ AfterDelete(c)
    /\ UNCHANGED <<db, state, index, login, op, target, user, covers>>

\* delete_session.lua.
DeleteScript(c) ==
    /\ pc[c] = "script"
    /\ hash' = hash \ {target[c]}
    /\ state' = state \ {target[c]}
    /\ index' = [index EXCEPT ![Owner[target[c]]] = @ \ {target[c]}]
    /\ AfterDelete(c)
    /\ UNCHANGED <<db, login, op, target, user, covers>>

\* RemoveUserSessionIndex, after TOTP enrolment.
RemoveIndex(c) ==
    /\ pc[c] = "index"
    /\ index' = [index EXCEPT ![Owner[target[c]]] = @ \ {target[c]}]
    /\ Return(c)
    /\ UNCHANGED <<db, hash, state, login, op, target, user, ids, covers>>

\* A round trip fails and the call returns its error.
CallFails(c) ==
    /\ pc[c] \notin {"new", "done", "failed"}
    /\ Goto(c, "failed")
    /\ UNCHANGED <<db, cache, login, op, target, user, ids, covers, ended>>

-----------------------------------------------------------------------------

CallStep(c) ==
    \/ Logout(c) \/ LogoutAll(c) \/ AdminLogoutUser(c) \/ InvalidateCurrentSession(c)
    \/ Find(c) \/ ListActive(c) \/ MarkLoggedOut(c) \/ Collect(c)
    \/ GetForDelete(c) \/ DeleteKey(c) \/ DeleteScript(c) \/ RemoveIndex(c)
    \/ CallFails(c)

Next ==
    \/ \E s \in Sessions : CreateSession(s) \/ SaveSession(s) \/ LoginFails(s)
    \/ \E c \in Calls : CallStep(c)

Spec == Init /\ [][Next]_vars

-----------------------------------------------------------------------------
(* Properties. *)

\* Every cached session is in its user's index.  LogoutAll finds what it has to
\* delete through the index, so an entry outside of it would outlive every
\* later logout of the user.
IndexCoversCache == \A s \in hash : s \in index[Owner[s]]

\* A session that was logged in when a logout, logout-all, forced logout or
\* enrolment began is accepted by no endpoint once that call has returned
\* without an error, whatever else runs meanwhile and whatever calls failed
\* half-way before.
EndedStaysEnded == \A s \in ended : ~MayAccept(s)

\* "The database is always the final source of truth": with every login and
\* every call finished without an error, no cached session has a logged-out
\* row.
CacheFollowsRows ==
    (/\ \A s \in Sessions : login[s] \in {"new", "done"}
     /\ \A c \in Calls : pc[c] \in {"new", "done"})
    => \A s \in hash : row[s] # "out"

\* Logout's branch for a session without a row is taken only when the database
\* has none.
NotFoundMeansNoRow ==
    [][\A c \in Calls :
          pc[c] = "find" /\ pc'[c] = "get" => row[target[c]] # "active"]_vars
=============================================================================
