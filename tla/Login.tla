-------------------------------- MODULE Login --------------------------------
(***************************************************************************)
(* Password login: the login page, authn.Authenticate, the failure         *)
(* counters and locks that Redis keeps, the account row and the            *)
(* administrator's unlock and password reset.                              *)
(*                                                                         *)
(* A name is looked up under the collation of the users table, which finds *)
(* the same row for several spellings, of which the row has one.  The      *)
(* counters are kept by the name as typed, the lock by the user.           *)
(*                                                                         *)
(* A login takes one step per store call.  A key that has a time to live   *)
(* may go at any moment.  The client may drop its connection, which        *)
(* cancels the context of the login: all its store calls fail from then    *)
(* on, in the caller or in the job that a worker still runs.  The workers  *)
(* themselves are WorkerPool's subject, and what follows a second-factor   *)
(* challenge MFAChallenge's.                                               *)
(***************************************************************************)
EXTENDS Naturals, FiniteSets, Sequences

CONSTANTS
    Logins,                     \* slots of concurrent login requests
    MaxTries,                   \* bound: requests in all
    Users, Nobody,              \* accounts, and none
    Spellings,                  \* names as typed (trimmed)
    Account,                    \* the account a spelling finds, or Nobody
    Username,                   \* the spelling in the row of an account
    IPs, Passwords,
    MaxFailuresPerUser, UserLockThreshold, PermanentUserLockThreshold,
    MaxFailuresPerIP,           \* ratePolicy
    CtxMayCancel,               \* whether clients may drop connections
    FailingStores,              \* those of "mysql" and "redis" whose calls may fail
    MaxAdminCalls               \* bound: administrator's calls

ASSUME LoginAssumption ==
    /\ {MaxFailuresPerUser, UserLockThreshold, PermanentUserLockThreshold,
        MaxFailuresPerIP, MaxTries, MaxAdminCalls} \subseteq Nat
    /\ CtxMayCancel \in BOOLEAN
    /\ FailingStores \subseteq {"mysql", "redis"}
    /\ IsFiniteSet(Logins) /\ Passwords # {} /\ Nobody \notin Users
    /\ Account \in [Spellings -> Users \cup {Nobody}]
    /\ Username \in [Users -> Spellings]
    /\ \A u \in Users : Account[Username[u]] = u

VARIABLES
    status, password,           \* users row: status and hash
    userFail, blacklist,        \* Redis: counters by name as typed
    userLock,                   \* Redis: lock by user
    ipFail, ipLock,             \* Redis: counter and lock by address
    req,                        \* the login in each slot
    admin, tries, adminCalls,   \* unlock in progress; bounded counters
    wrong,      \* history: failures told, by name as typed, since its counter or
                \* the lock of its user last went
    reported,   \* history: accounts a caller was told are locked for good
    unbacked    \* history: accounts whose lock key could not be cleared

account == <<status, password>>
userKeys == <<userFail, blacklist, userLock>>
ipKeys == <<ipFail, ipLock>>
bounds == <<admin, tries, adminCalls>>
history == <<wrong, reported, unbacked>>
vars == <<account, userKeys, ipKeys, req, bounds, history>>

-----------------------------------------------------------------------------

Steps == {"idle", "ip", "user", "lock", "hash", "failuser", "failip", "failblack", "lockrow",
          "clearlock", "resetuser", "resetblack", "resetip", "clearip", "factors", "challenge",
          "row", "cache"}

\* A free slot.
Idle == [pc      |-> "idle",        \* next step
         typed   |-> Nobody,        \* the name as typed
         name    |-> Nobody,        \* the account it finds
         ip      |-> Nobody,  guess |-> Nobody,
         status  |-> "none",        \* the account as read: its status,
         right   |-> FALSE,         \* and whether the password is its hash's
         session |-> FALSE,         \* the session row is there
         barred  |-> FALSE]         \* history: begun after a report

TypeOK ==
    /\ status \in [Users -> {"active", "locked", "disabled"}]
    /\ password \in [Users -> Passwords]
    /\ userFail \in [Spellings -> 0..MaxTries] /\ blacklist \in [Spellings -> 0..MaxTries]
    /\ userLock \in [Users -> {"none", "temporary", "permanent"}]
    /\ ipFail \in [IPs -> 0..MaxTries] /\ ipLock \subseteq IPs
    /\ req \in [Logins ->
        [pc : Steps, typed : Spellings \cup {Nobody},
         name : Users \cup {Nobody}, ip : IPs \cup {Nobody}, guess : Passwords \cup {Nobody},
         status : {"none", "active", "locked", "disabled"}, right : BOOLEAN,
         session : BOOLEAN, barred : BOOLEAN]]
    /\ tries \in 0..MaxTries /\ adminCalls \in 0..MaxAdminCalls

Init ==
    /\ status \in [Users -> {"active", "disabled"}]
    /\ password = [u \in Users |-> CHOOSE p \in Passwords : TRUE]
    /\ userFail = [n \in Spellings |-> 0] /\ blacklist = [n \in Spellings |-> 0]
    /\ userLock = [u \in Users |-> "none"]
    /\ ipFail = [i \in IPs |-> 0] /\ ipLock = {}
    /\ req = [a \in Logins |-> Idle]
    /\ admin = <<>> /\ tries = 0 /\ adminCalls = 0
    /\ wrong = [n \in Spellings |-> 0]
    /\ reported = {} /\ unbacked = {}

-----------------------------------------------------------------------------
(* Control of one login. *)

At(a, step) == req[a].pc = step

Goto(a, step) == req' = [req EXCEPT ![a].pc = step]

\* The login is answered and forgotten.  What the answer is stands beside each
\* use; handleAuthenticate turns it into a status and, for a session or a
\* challenge, a cookie.
Return(a) == req' = [req EXCEPT ![a] = Idle]

Store(step) ==
    IF step \in {"user", "hash", "lockrow", "factors", "row"} THEN "mysql" ELSE "redis"

Known(a) == req[a].name \in Users

\* A store call fails, and the login with it.  The hash needs no store, but
\* before it a name that was not found is looked up once more.
CallFails(a) ==
    /\ req[a].pc \notin {"idle", "lockrow", "clearlock"}
    /\ At(a, "hash") => ~Known(a)
    /\ CtxMayCancel \/ Store(req[a].pc) \in FailingStores
    /\ Return(a)  \* the error
    /\ UNCHANGED <<account, userKeys, ipKeys, bounds, history>>

\* LoginHandler.Handle up to the call of Authenticate: a form that does not
\* bind, whose return_to is not local or whose CSRF token differs is refused
\* before it and changes nothing.
Handle(a, n, i, g) ==
    /\ req[a].pc = "idle" /\ tries < MaxTries
    /\ tries' = tries + 1
    /\ req' = [req EXCEPT ![a] = [Idle EXCEPT !.pc = "ip", !.typed = n, !.name = Account[n],
                                              !.ip = i, !.guess = g,
                                              !.barred = Account[n] \in reported]]
    /\ UNCHANGED <<account, userKeys, ipKeys, admin, adminCalls, history>>

-----------------------------------------------------------------------------
(* The steps of Authenticate up to the hash. *)

IsIPLocked(a) ==
    /\ At(a, "ip")
    /\ IF req[a].ip \in ipLock
       THEN Return(a)  \* ErrRateLimited
       ELSE Goto(a, "user")
    /\ UNCHANGED <<account, userKeys, ipKeys, bounds, history>>

\* The hash is compared later; the comparison is made on the row as read here.
FindByUsername(a) ==
    LET u == req[a].name IN
    /\ At(a, "user")
    /\ IF Known(a)
       THEN req' = [req EXCEPT ![a].pc = "lock", ![a].guess = Nobody, ![a].status = status[u],
                               ![a].right = (password[u] = req[a].guess)]
       ELSE req' = [req EXCEPT ![a].pc = "hash", ![a].guess = Nobody]
    /\ UNCHANGED <<account, userKeys, ipKeys, bounds, history>>

IsUserLocked(a) ==
    /\ At(a, "lock")
    /\ IF userLock[req[a].name] # "none"
       THEN Return(a)  \* ErrUserLocked
       ELSE Goto(a, "hash")
    /\ UNCHANGED <<account, userKeys, ipKeys, bounds, history>>

\* password.Method.Authenticate on the account as read; a name without one is
\* looked up again, and accounts do not come into being here.  resolveExistingUser
\* then returns that account, without a store call, and Authenticate checks its
\* status again.
Authenticate(a) ==
    /\ At(a, "hash")
    /\ IF Known(a) /\ req[a].status # "active"
       THEN Return(a)  \* ErrUserLocked, ErrUserDisabled
       ELSE Goto(a, IF Known(a) /\ req[a].right THEN "resetuser" ELSE "failuser")
    /\ UNCHANGED <<account, userKeys, ipKeys, bounds, history>>

-----------------------------------------------------------------------------
(* registerPasswordFailure. *)

\* Mutant: the lock is set one failure late.
LocksAfter(count, threshold) == threshold > 0 /\ count > threshold

\* increment_with_ttl.lua: whether the lock key is set at this count.
Locks(count, threshold) == threshold > 0 /\ count >= threshold

\* The counters of these spellings, or the lock of their user, have gone: the
\* count of told failures restarts.
Restart(names) == wrong' = [n \in Spellings |-> IF n \in names THEN 0 ELSE wrong[n]]

SpellingsOf(u) == {n \in Spellings : Account[n] = u}

\* The counter of the name as typed, the lock key of the user.  A name without
\* account has a counter and no lock key.
IncrementLoginFailByUser(a) ==
    LET n == req[a].typed
        locks == Known(a) /\ Locks(userFail[n] + 1, UserLockThreshold)
    IN /\ At(a, "failuser")
       /\ IF MaxFailuresPerUser = 0
          THEN Goto(a, "failip") /\ UNCHANGED <<userFail, userLock>>
          ELSE /\ userFail' = [userFail EXCEPT ![n] = @ + 1]
               /\ userLock' = IF locks THEN [userLock EXCEPT ![req[a].name] = "temporary"]
                                       ELSE userLock
               /\ IF locks
                  THEN Return(a)  \* ErrUserLocked
                  ELSE Goto(a, "failip")
       /\ wrong' = IF Known(a) THEN [wrong EXCEPT ![n] = @ + 1] ELSE wrong
       /\ UNCHANGED <<account, blacklist, ipKeys, bounds, reported, unbacked>>

IncrementLoginFailByIP(a) ==
    LET i == req[a].ip
        locks == Locks(ipFail[i] + 1, MaxFailuresPerIP)
    IN /\ At(a, "failip")
       /\ IF MaxFailuresPerIP = 0
          THEN Goto(a, "failblack") /\ UNCHANGED ipKeys
          ELSE /\ ipFail' = [ipFail EXCEPT ![i] = @ + 1]
               /\ ipLock' = IF locks THEN ipLock \cup {i} ELSE ipLock
               /\ IF locks
                  THEN Return(a)  \* ErrRateLimited
                  ELSE Goto(a, "failblack")
       /\ UNCHANGED <<account, userKeys, bounds, history>>

\* Neither the blacklist counter nor its lock key has a time to live.
IncrementBlacklistByUser(a) ==
    LET n == req[a].typed
        locks == Locks(blacklist[n] + 1, PermanentUserLockThreshold)
    IN /\ At(a, "failblack")
       /\ IF ~Known(a) \/ PermanentUserLockThreshold = 0
          THEN Return(a) /\ UNCHANGED <<blacklist, userLock>>  \* ErrInvalidCredentials
          ELSE /\ blacklist' = [blacklist EXCEPT ![n] = @ + 1]
               /\ userLock' = IF locks THEN [userLock EXCEPT ![req[a].name] = "permanent"]
                                       ELSE userLock
               /\ IF locks
                  THEN Goto(a, "lockrow")
                  ELSE Return(a)  \* ErrInvalidCredentials
       /\ UNCHANGED <<account, userFail, ipKeys, bounds, history>>

\* Mutant: the caller is told of a lock although the row could not be locked.
LockAccountSaid(a) ==
    /\ At(a, "lockrow")
    /\ reported' = reported \cup {req[a].name}
    /\ \/ /\ status' = [status EXCEPT ![req[a].name] = IF @ = "active" THEN "locked" ELSE @]
          /\ Return(a)
       \/ /\ "mysql" \in FailingStores
          /\ Goto(a, "clearlock")
          /\ UNCHANGED status
    /\ UNCHANGED <<password, userKeys, ipKeys, bounds, wrong, unbacked>>

\* LockAccount, for an active account only, or its failure: with the context
\* over, the clearing of the lock key that follows fails too.
LockAccount(a) ==
    \/ /\ At(a, "lockrow")
       /\ status' = [status EXCEPT ![req[a].name] = IF @ = "active" THEN "locked" ELSE @]
       /\ reported' = reported \cup {req[a].name}
       /\ Return(a)  \* ErrUserLocked
       /\ UNCHANGED <<password, userKeys, ipKeys, bounds, wrong, unbacked>>
    \/ /\ At(a, "lockrow") /\ "mysql" \in FailingStores
       /\ Goto(a, "clearlock")
       /\ UNCHANGED <<account, userKeys, ipKeys, bounds, history>>
    \/ /\ At(a, "lockrow") /\ CtxMayCancel
       /\ unbacked' = unbacked \cup {req[a].name}
       /\ Return(a)  \* the context's error
       /\ UNCHANGED <<account, userKeys, ipKeys, bounds, wrong, reported>>

\* Mutant: the lock key stays when the row could not be locked.
KeepUserLock(a) ==
    /\ At(a, "clearlock")
    /\ Return(a)
    /\ UNCHANGED <<account, userKeys, ipKeys, bounds, history>>

\* The row could not be locked: the lock key is cleared, if Redis and the same
\* context allow it; the error of the clearing is dropped.
ClearUserLock(a) ==
    /\ \/ /\ At(a, "clearlock")
          /\ userLock' = [userLock EXCEPT ![req[a].name] = "none"]
          /\ Restart(SpellingsOf(req[a].name))
          /\ UNCHANGED unbacked
       \/ /\ At(a, "clearlock") /\ (CtxMayCancel \/ "redis" \in FailingStores)
          /\ unbacked' = unbacked \cup {req[a].name}
          /\ UNCHANGED <<userLock, wrong>>
    /\ Return(a)  \* the error of LockAccount
    /\ UNCHANGED <<account, userFail, blacklist, ipKeys, bounds, reported>>

-----------------------------------------------------------------------------
(* The steps of Authenticate after the right password. *)

\* resetPasswordRateLimit, one key per step, with the name as the row has it: the
\* counters of another spelling stay.
ResetPasswordRateLimit(a) ==
    /\ \/ /\ At(a, "resetuser") /\ Goto(a, "resetblack")
          /\ userFail' = [userFail EXCEPT ![Username[req[a].name]] = 0]
          /\ Restart({Username[req[a].name]})
          /\ UNCHANGED <<blacklist, ipKeys>>
       \/ /\ At(a, "resetblack") /\ Goto(a, "resetip")
          /\ blacklist' = [blacklist EXCEPT ![Username[req[a].name]] = 0]
          /\ UNCHANGED <<userFail, ipKeys, wrong>>
       \/ /\ At(a, "resetip") /\ Goto(a, "clearip")
          /\ ipFail' = [ipFail EXCEPT ![req[a].ip] = 0]
          /\ UNCHANGED <<userFail, blacklist, ipLock, wrong>>
       \/ /\ At(a, "clearip") /\ Goto(a, "factors")
          /\ ipLock' = ipLock \ {req[a].ip}
          /\ UNCHANGED <<userFail, blacklist, ipFail, wrong>>
    /\ UNCHANGED <<account, userLock, bounds, reported, unbacked>>

\* lookupTOTP and lookupPasskeyCredentialJSON.  Users enrol factors meanwhile
\* (Enrolment): the account may have one or none.
LookupFactors(a) ==
    /\ At(a, "factors")
    /\ Goto(a, "row") \/ Goto(a, "challenge")
    /\ UNCHANGED <<account, userKeys, ipKeys, bounds, history>>

\* createMFAChallenge and updateMFAChallengeMode: see MFAChallenge.
CreateMFAChallenge(a) ==
    /\ At(a, "challenge")
    /\ Return(a)  \* ErrMFARequired
    /\ UNCHANGED <<account, userKeys, ipKeys, bounds, history>>

\* createSession: the row; its amr, by the factors looked up again, is left out.
CreateSession(a) ==
    /\ At(a, "row")
    /\ req' = [req EXCEPT ![a].pc = "cache", ![a].session = TRUE]
    /\ UNCHANGED <<account, userKeys, ipKeys, bounds, history>>

\* createSession: the cached copy.
SaveSession(a) ==
    /\ At(a, "cache")
    /\ Return(a)  \* the session, or ErrMFAEnrollmentRequired with it
    /\ UNCHANGED <<account, userKeys, ipKeys, bounds, history>>

-----------------------------------------------------------------------------
(* The administrator and the clock. *)

AdminCalls == admin = <<>> /\ adminCalls < MaxAdminCalls /\ adminCalls' = adminCalls + 1

AdminResetPassword(u, p) ==
    /\ AdminCalls
    /\ password' = [password EXCEPT ![u] = p]
    /\ UNCHANGED <<status, userKeys, ipKeys, req, admin, tries, history>>

\* The statement of UnlockAccount changes the row of a locked account only.
Unlocked(s) == IF s = "locked" THEN "active" ELSE s

\* AdminUnlockUser: the row first.
AdminUnlockUser(u) ==
    /\ AdminCalls
    /\ status' = [status EXCEPT ![u] = Unlocked(@)]
    /\ admin' = <<u, "lock", "fail", "blacklist">>
    /\ reported' = reported \ {u}
    /\ req' = [a \in Logins |-> IF req[a].name = u THEN [req[a] EXCEPT !.barred = FALSE] ELSE req[a]]
    /\ UNCHANGED <<password, userKeys, ipKeys, tries, wrong, unbacked>>

\* AdminUnlockUser: then the user's lock and the counters of the name as the row
\* has it; a failed deletion is skipped.
ClearLimits ==
    LET u == admin[1]
        n == Username[u]
        key == admin[2]
    IN /\ admin # <<>>
       /\ admin' = IF Len(admin) = 2 THEN <<>> ELSE <<u>> \o SubSeq(admin, 3, Len(admin))
       /\ \/ /\ userLock' = IF key = "lock" THEN [userLock EXCEPT ![u] = "none"] ELSE userLock
             /\ userFail' = IF key = "fail" THEN [userFail EXCEPT ![n] = 0] ELSE userFail
             /\ blacklist' = IF key = "blacklist" THEN [blacklist EXCEPT ![n] = 0] ELSE blacklist
             /\ Restart(CASE key = "lock" -> SpellingsOf(u) [] key = "fail" -> {n}
                          [] OTHER -> {})
             /\ UNCHANGED unbacked
          \/ /\ "redis" \in FailingStores
             /\ unbacked' = unbacked \cup {u}
             /\ UNCHANGED <<userKeys, wrong>>
       /\ UNCHANGED <<account, ipKeys, req, tries, adminCalls, reported>>

\* The keys that have a time to live.
Expire ==
    /\ \/ \E n \in Spellings :
            /\ userFail[n] > 0
            /\ userFail' = [userFail EXCEPT ![n] = 0]
            /\ Restart({n})
            /\ UNCHANGED <<userLock, ipKeys>>
       \/ \E u \in Users :
            /\ userLock[u] = "temporary"
            /\ userLock' = [userLock EXCEPT ![u] = "none"]
            /\ Restart(SpellingsOf(u))
            /\ UNCHANGED <<userFail, ipKeys>>
       \/ \E i \in IPs :
            /\ ipFail[i] > 0
            /\ ipFail' = [ipFail EXCEPT ![i] = 0]
            /\ UNCHANGED <<userFail, userLock, ipLock, wrong>>
       \/ \E i \in ipLock :
            /\ ipLock' = ipLock \ {i}
            /\ UNCHANGED <<userFail, userLock, ipFail, wrong>>
    /\ UNCHANGED <<account, blacklist, req, bounds, reported, unbacked>>

-----------------------------------------------------------------------------

Step(a) ==
    \/ IsIPLocked(a) \/ FindByUsername(a) \/ IsUserLocked(a) \/ Authenticate(a)
    \/ IncrementLoginFailByUser(a) \/ IncrementLoginFailByIP(a) \/ IncrementBlacklistByUser(a)
    \/ LockAccount(a) \/ ClearUserLock(a)
    \/ ResetPasswordRateLimit(a)
    \/ LookupFactors(a) \/ CreateMFAChallenge(a) \/ CreateSession(a) \/ SaveSession(a)
    \/ CallFails(a)

Next ==
    \/ \E a \in Logins : Step(a)
    \/ \E a \in Logins, n \in Spellings, i \in IPs, g \in Passwords : Handle(a, n, i, g)
    \/ \E u \in Users, p \in Passwords : AdminResetPassword(u, p)
    \/ \E u \in Users : AdminUnlockUser(u)
    \/ ClearLimits
    \/ Expire

Spec == Init /\ [][Next]_vars

-----------------------------------------------------------------------------

\* While the counter of a name as typed and the lock of its account are in
\* place, the wrong passwords that callers are told of under that name are
\* bounded by the threshold and by the logins that were past the lock check when
\* the lock was set, however checks, counters and locks interleave and whichever
\* spelling set the lock (preparePasswordAuthentication and
\* registerPasswordFailure).  The account itself has this much for each of the
\* spellings that find it: the counters do not add up.
WrongPasswordsBounded ==
    MaxFailuresPerUser > 0 /\ UserLockThreshold > 0 =>
        \A n \in Spellings : wrong[n] <= UserLockThreshold - 1 + Cardinality(Logins)

\* A login begun after a caller was told that the account is locked for good
\* makes no session before an administrator unlocks it, although a late failure
\* may replace the permanent lock key by one that expires.
LockoutHolds ==
    \A a \in Logins : req[a].barred => ~req[a].session

\* An active account with a permanent lock key has a login that is about to
\* lock the row or an unlock in progress.
Backed(u) ==
    userLock[u] = "permanent" /\ status[u] = "active" =>
        \/ \E a \in Logins : req[a].name = u /\ req[a].pc \in {"lockrow", "clearlock"}
        \/ admin # <<>> /\ admin[1] = u

\* Every lock key is backed.  The code does not promise it: Login_merge.cfg.
LockAlwaysBacked == \A u \in Users : Backed(u)

\* The comment in registerPasswordFailure, that a lock key is cleared when the
\* row cannot be locked so that the two do not stay apart, holds except for
\* accounts where the clearing itself fails.
LockIsBacked == \A u \in Users : Backed(u) \/ u \in unbacked
=============================================================================
