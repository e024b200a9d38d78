---------------------------- MODULE LoginProofs ----------------------------
(***************************************************************************)
(* Proofs about Login, for any number of logins, users, addresses and any  *)
(* thresholds: wrong passwords are bounded, a reported lockout holds, and  *)
(* a permanent lock key is backed by the account row.  Then the worker     *)
(* pools the logins run in, for pools and queues of any size, and at the   *)
(* end Accounts, the instance A of MC_Login: a person who logs in through  *)
(* the upstream provider gets the account that is theirs, and the keys of  *)
(* the users table stay unique.                                            *)
(***************************************************************************)
EXTENDS MC_Login, WorkerPool, FiniteSetTheorems, TLAPS

-----------------------------------------------------------------------------
(* Types.  The counters are natural numbers: nothing here rests on MaxTries. *)

Names == Users \cup {Nobody}

Requests ==
    [pc : Steps, typed : Spellings \cup {Nobody}, name : Names, ip : IPs \cup {Nobody},
     guess : Passwords \cup {Nobody}, status : {"none", "active", "locked", "disabled"},
     right : BOOLEAN, session : BOOLEAN, barred : BOOLEAN]

LoginType ==
    /\ status \in [Users -> {"active", "locked", "disabled"}]
    /\ password \in [Users -> Passwords]
    /\ userFail \in [Spellings -> Nat] /\ wrong \in [Spellings -> Nat]
    /\ blacklist \in [Spellings -> Nat]
    /\ userLock \in [Users -> {"none", "temporary", "permanent"}]
    /\ req \in [Logins -> Requests]
    /\ reported \subseteq Users

\* A login is about the account that the name as typed finds; beyond the look-up
\* of the account and the hash there is one.
NameOK(q) ==
    /\ q.pc # "idle" => q.typed \in Spellings /\ q.name = Account[q.typed]
    /\ q.pc \in {"lock", "lockrow", "clearlock", "resetuser"} => q.name \in Users

NameInv == \A a \in Logins : NameOK(req[a])

\* The spellings that find an account.
Named == {n \in Spellings : Account[n] \in Users}

-----------------------------------------------------------------------------
(* The inductive invariants. *)

\* Logins under a name, past the lock check, whose failure is not counted yet.
InFlight(n) == {a \in Logins : req[a].typed = n /\ req[a].pc \in {"hash", "failuser"}}

\* The lock is set at the threshold; from then on, each login in flight may add
\* one failure, and no login joins them.
FailOK(n) ==
    /\ wrong[n] <= userFail[n]
    /\ userLock[Account[n]] = "none" => wrong[n] <= UserLockThreshold - 1
    /\ userLock[Account[n]] # "none" =>
        wrong[n] + Cardinality(InFlight(n)) <= UserLockThreshold - 1 + Cardinality(Logins)

FailInv ==
    /\ \A n \in Spellings \ Named : wrong[n] = 0
    /\ MaxFailuresPerUser > 0 /\ UserLockThreshold > 0 => \A n \in Named : FailOK(n)

\* An account reported as locked stays so, and a login that began later reads it
\* as locked, so it comes to its end at the hash.
BarredOK(q) ==
    q.barred =>
        /\ q.name \in reported /\ ~q.session
        /\ q.pc \in {"ip", "user", "lock", "hash"}
        /\ q.pc \in {"lock", "hash"} => q.status # "active"

LockoutInv ==
    /\ \A u \in reported : status[u] # "active"
    /\ \A a \in Logins : BarredOK(req[a])

\* The unlock still has the lock key to delete.
BackedBy(u) ==
    \/ \E a \in Logins : req[a].name = u /\ req[a].pc \in {"lockrow", "clearlock"}
    \/ admin # <<>> /\ admin[1] = u /\ admin[2] = "lock"

BackInv ==
    \A u \in Users :
        userLock[u] = "permanent" /\ status[u] = "active" => BackedBy(u) \/ u \in unbacked

LoginInv == LoginType /\ NameInv /\ FailInv /\ LockoutInv /\ BackInv

-----------------------------------------------------------------------------
(* What a step does to the requests. *)

Others(a) == \A b \in Logins : b # a => req'[b] = req[b]

\* An empty slot is a request.
LEMMA IdleType ==
    /\ Idle \in Requests /\ Idle.pc = "idle" /\ Idle.name = Nobody /\ ~Idle.barred
    /\ ~Idle.session
  BY Zenon DEF Idle, Requests, Steps, Names

\* Return empties one slot.
LEMMA ReturnEffect ==
    ASSUME LoginType, NEW a \in Logins, Return(a)
    PROVE  /\ req' \in [Logins -> Requests] /\ Others(a)
           /\ req'[a].pc = "idle" /\ ~req'[a].barred
  BY IdleType, Zenon DEF LoginType, Return, Others

\* Goto moves one request.
LEMMA GotoEffect ==
    ASSUME LoginType, NEW a \in Logins, NEW step \in Steps, Goto(a, step)
    PROVE  /\ req' \in [Logins -> Requests] /\ Others(a)
           /\ req'[a].pc = step /\ req'[a].typed = req[a].typed /\ req'[a].name = req[a].name
           /\ req'[a].status = req[a].status
           /\ req'[a].session = req[a].session /\ req'[a].barred = req[a].barred
<1>1. req[a] \in Requests
  BY Zenon DEF LoginType
<1>2. req' = [req EXCEPT ![a] = [req[a] EXCEPT !.pc = step]]
  BY Zenon DEF Goto
<1>3. [req[a] EXCEPT !.pc = step] \in Requests
  BY <1>1, Zenon DEF Requests
<1>4. req' \in [Logins -> Requests] /\ Others(a) /\ req'[a] = [req[a] EXCEPT !.pc = step]
  BY <1>2, <1>3, Zenon DEF LoginType, Others
<1> QED
  BY <1>1, <1>4, Zenon DEF Requests

-----------------------------------------------------------------------------
(* When a step keeps the invariants. *)

\* The count of failures under a name restarts, or stays with no new login in
\* flight while the user is locked.
Quiet(n) ==
    \/ wrong'[n] = 0
    \/ /\ wrong'[n] = wrong[n] /\ userFail'[n] = userFail[n]
       /\ userLock'[Account[n]] = "none" => userLock[Account[n]] = "none"
       /\ userLock'[Account[n]] = "none" \/ InFlight(n)' \subseteq InFlight(n)

\* The requests that may still count a failure are finitely many.
LEMMA InFlightFinite ==
    ASSUME NEW u
    PROVE  /\ IsFiniteSet(InFlight(u)) /\ Cardinality(InFlight(u)) \in Nat
           /\ Cardinality(InFlight(u)) <= Cardinality(Logins) /\ Cardinality(Logins) \in Nat
<1>1. InFlight(u) \subseteq Logins /\ IsFiniteSet(Logins)
  BY LoginAssumption, Zenon DEF InFlight
<1> QED
  BY <1>1, FS_Subset, FS_CardinalityType, Zenon

\* So they are after a step.
LEMMA InFlightFiniteNext ==
    ASSUME NEW u
    PROVE  /\ IsFiniteSet(InFlight(u)') /\ Cardinality(InFlight(u)') \in Nat
           /\ Cardinality(InFlight(u)') <= Cardinality(Logins)
<1>1. InFlight(u)' \subseteq Logins /\ IsFiniteSet(Logins)
  BY LoginAssumption, Zenon DEF InFlight
<1> QED
  BY <1>1, FS_Subset, FS_CardinalityType, Zenon

\* The bound of the failures, by a step that is quiet for every name.
LEMMA FailKept ==
    ASSUME LoginType, LoginType', FailInv, \A n \in Named : Quiet(n),
           \A n \in Spellings \ Named : wrong'[n] = 0
    PROVE  FailInv'
<1> SUFFICES ASSUME MaxFailuresPerUser > 0, UserLockThreshold > 0, NEW n \in Named
             PROVE  FailOK(n)'
  BY Zenon DEF FailInv
<1>1. /\ wrong[n] \in Nat /\ userFail[n] \in Nat /\ wrong'[n] \in Nat /\ userFail'[n] \in Nat
      /\ UserLockThreshold \in Nat
  BY LoginAssumption, Zenon DEF LoginType, Named
<1>2. FailOK(n) /\ Quiet(n)
  BY Zenon DEF FailInv
<1>3. /\ Cardinality(InFlight(n)') \in Nat /\ Cardinality(InFlight(n)') <= Cardinality(Logins)
      /\ Cardinality(InFlight(n)) \in Nat /\ Cardinality(Logins) \in Nat
  BY InFlightFinite, InFlightFiniteNext, Zenon
<1>4. InFlight(n)' \subseteq InFlight(n) => Cardinality(InFlight(n)') <= Cardinality(InFlight(n))
  BY InFlightFinite, FS_Subset, Zenon
<1>5. CASE wrong'[n] = 0
  BY <1>1, <1>3, <1>5 DEF FailOK
<1>6. CASE wrong'[n] # 0
  BY <1>1, <1>2, <1>3, <1>4, <1>6 DEF FailOK, Quiet
<1> QED
  BY <1>5, <1>6, Zenon

\* Reported lockouts, by a step that changes no account row.
LEMMA LockoutKept ==
    ASSUME LockoutInv, NEW a \in Logins, Others(a), UNCHANGED <<status, reported>>,
           BarredOK(req'[a])
    PROVE  LockoutInv'
  BY Zenon DEF LockoutInv, BarredOK, Others

\* The backing of lock keys, by a step that locks or unlocks nobody for good.
LEMMA BackKept ==
    ASSUME BackInv, NEW a \in Logins, Others(a), unbacked' = unbacked, UNCHANGED admin,
           req[a].pc \notin {"lockrow", "clearlock"},
           \A u \in Users : userLock'[u] = "permanent" /\ status'[u] = "active" =>
               userLock[u] = "permanent" /\ status[u] = "active"
    PROVE  BackInv'
  BY DEF BackInv, BackedBy, Others

\* A step of a login that changes nothing but the request and the address's keys.
LEMMA PlainKeeps ==
    ASSUME LoginInv, NEW a \in Logins, Others(a), req' \in [Logins -> Requests],
           UNCHANGED <<status, password, userKeys, admin, history>>,
           {req[a].pc, req'[a].pc} \cap {"lockrow", "clearlock"} = {},
           NameOK(req'[a]), BarredOK(req'[a]),
           \A n \in Named :
               a \in InFlight(n)' => a \in InFlight(n) \/ userLock[Account[n]] = "none"
    PROVE  LoginInv'
<1> USE DEF LoginInv, userKeys, history
<1>1. LoginType'
  BY Zenon DEF LoginType
<1>2. NameInv'
  BY Zenon DEF NameInv, Others
<1>3. \A n \in Named : Quiet(n)
  BY Zenon DEF Quiet, InFlight, Others
<1>4. FailInv'
  BY <1>1, <1>3, FailKept, Zenon DEF FailInv
<1>5. LockoutInv'
  BY LockoutKept, Zenon
<1>6. BackInv'
  BY BackKept, Zenon
<1> QED
  BY <1>1, <1>2, <1>4, <1>5, <1>6, Zenon

-----------------------------------------------------------------------------
(* Steps of a login that touch neither the account nor its keys. *)

\* The login is answered.
LEMMA AnsweredKeeps ==
    ASSUME LoginInv, NEW a \in Logins, Return(a), req[a].pc \notin {"lockrow", "clearlock"},
           UNCHANGED <<status, password, userKeys, admin, history>>
    PROVE  LoginInv'
<1>1. /\ req' \in [Logins -> Requests] /\ Others(a)
      /\ req'[a].pc = "idle" /\ ~req'[a].barred
  BY ReturnEffect, Zenon DEF LoginInv
<1> QED
  BY <1>1, PlainKeeps, Zenon DEF BarredOK, NameOK, InFlight

\* The login goes on, past what a barred one reaches.
LEMMA MovedKeeps ==
    ASSUME LoginInv, NEW a \in Logins, NEW step \in Steps, Goto(a, step), ~req[a].barred,
           req[a].pc # "idle",
           {req[a].pc, step} \cap {"lockrow", "clearlock"} = {}, step # "lock",
           step = "resetuser" => Known(a),
           step \in {"hash", "failuser"} => req[a].pc \in {"hash", "failuser"},
           UNCHANGED <<status, password, userKeys, admin, history>>
    PROVE  LoginInv'
<1>1. /\ req' \in [Logins -> Requests] /\ Others(a)
      /\ req'[a].pc = step /\ req'[a].name = req[a].name /\ req'[a].barred = req[a].barred
  BY GotoEffect, Zenon DEF LoginInv
<1>2. NameOK(req[a]) /\ req[a].pc # "idle" /\ req'[a].typed = req[a].typed
  BY GotoEffect, Zenon DEF LoginInv, NameInv
<1>3. NameOK(req'[a])
  BY <1>1, <1>2, Zenon DEF NameOK, Known
<1> QED
  BY <1>1, <1>2, <1>3, PlainKeeps, Zenon DEF BarredOK, InFlight

\* A request that began under a reported lockout gets no further than the password.
LEMMA BarredIsEarly ==
    ASSUME LoginInv, NEW a \in Logins, req[a].pc \notin {"ip", "user", "lock", "hash"}
    PROVE  ~req[a].barred
  BY Zenon DEF LoginInv, LockoutInv, BarredOK

\* A request that began under a reported lockout is about a user whose row is not active.
LEMMA BarredIsKnown ==
    ASSUME LoginInv, NEW a \in Logins, req[a].barred
    PROVE  Known(a) /\ status[req[a].name] # "active"
  BY Zenon DEF LoginInv, LockoutInv, BarredOK, LoginType, Known

\* The check of the address keeps the invariant.
LEMMA CheckIPKeeps ==
    ASSUME LoginInv, NEW a \in Logins, IsIPLocked(a)
    PROVE  LoginInv'
<1> USE DEF IsIPLocked, account, bounds, At
<1>1. CASE Return(a)
  BY <1>1, AnsweredKeeps, Zenon
<1>2. CASE Goto(a, "user")
  <2>1. /\ req' \in [Logins -> Requests] /\ Others(a) /\ req'[a].pc = "user"
        /\ req'[a].typed = req[a].typed /\ req'[a].name = req[a].name
        /\ req'[a].barred = req[a].barred /\ req'[a].session = req[a].session
    BY <1>2, GotoEffect, Zenon DEF LoginInv, Steps
  <2>2. BarredOK(req[a]) /\ NameOK(req[a])
    BY Zenon DEF LoginInv, LockoutInv, NameInv
  <2>3. BarredOK(req'[a]) /\ NameOK(req'[a])
    BY <2>1, <2>2, Zenon DEF BarredOK, NameOK
  <2> QED
    BY <2>1, <2>3, PlainKeeps, Zenon DEF InFlight
<1> QED
  BY <1>1, <1>2, Zenon

\* Finding the account keeps the invariant.
LEMMA FindKeeps ==
    ASSUME LoginInv, NEW a \in Logins, FindByUsername(a)
    PROVE  LoginInv'
<1> USE DEF FindByUsername, account, bounds, At
<1>1. /\ req[a] \in Requests /\ req \in [Logins -> Requests]
      /\ BarredOK(req[a]) /\ NameOK(req[a]) /\ req[a].pc = "user"
  BY Zenon DEF LoginInv, LoginType, LockoutInv, NameInv
<1>2. CASE Known(a)
  <2>1. PICK right \in BOOLEAN : right = (password[req[a].name] = req[a].guess)
    BY Zenon
  <2> DEFINE q == [req[a] EXCEPT !.pc = "lock", !.guess = Nobody, !.status = status[req[a].name],
                                 !.right = right]
  <2>2. req[a].name \in Users /\ status[req[a].name] \in {"active", "locked", "disabled"}
    BY <1>2, Zenon DEF LoginInv, LoginType, Known
  <2>3. /\ q \in Requests /\ q.pc = "lock" /\ q.status = status[req[a].name]
        /\ q.typed = req[a].typed /\ q.name = req[a].name
        /\ q.barred = req[a].barred /\ q.session = req[a].session
    BY <1>1, <2>2, Zenon DEF Requests, Steps
  <2>4. req' = [req EXCEPT ![a] = q]
    BY <1>2, <2>1, Zenon
  <2> HIDE DEF q
  <2>5. req' \in [Logins -> Requests] /\ Others(a) /\ req'[a] = q
    BY <1>1, <2>3, <2>4, Zenon DEF Others
  <2>6. req[a].barred => status[req[a].name] # "active"
    BY BarredIsKnown, Zenon
  <2>7. BarredOK(q) /\ NameOK(q)
    BY <1>1, <2>2, <2>3, <2>6, Zenon DEF BarredOK, NameOK
  <2> QED
    BY <1>1, <2>3, <2>5, <2>7, PlainKeeps, Zenon DEF InFlight
<1>3. CASE ~Known(a)
  <2> DEFINE q == [req[a] EXCEPT !.pc = "hash", !.guess = Nobody]
  <2>1. /\ q \in Requests /\ q.pc = "hash" /\ q.typed = req[a].typed /\ q.name = req[a].name
        /\ q.barred = req[a].barred
    BY <1>1, Zenon DEF Requests, Steps
  <2>2. req' = [req EXCEPT ![a] = q]
    BY <1>3, Zenon
  <2> HIDE DEF q
  <2>3. req' \in [Logins -> Requests] /\ Others(a) /\ req'[a] = q
    BY <1>1, <2>1, <2>2, Zenon DEF Others
  <2>4. ~req[a].barred
    BY <1>3, BarredIsKnown, Zenon
  <2>5. BarredOK(q) /\ NameOK(q) /\ q.typed \notin Named
    BY <1>1, <1>3, <2>1, <2>4, Zenon DEF BarredOK, NameOK, Known, Named
  <2> QED
    BY <1>1, <2>1, <2>3, <2>5, PlainKeeps, Zenon DEF InFlight
<1> QED
  BY <1>2, <1>3, Zenon

\* The check of the lock keys keeps the invariant.
LEMMA CheckLockKeeps ==
    ASSUME LoginInv, NEW a \in Logins, IsUserLocked(a)
    PROVE  LoginInv'
<1> USE DEF IsUserLocked, account, bounds, At
<1>1. CASE Return(a)
  BY <1>1, AnsweredKeeps, Zenon
<1>2. CASE Goto(a, "hash") /\ userLock[req[a].name] = "none"
  <2>1. /\ req' \in [Logins -> Requests] /\ Others(a) /\ req'[a].pc = "hash"
        /\ req'[a].typed = req[a].typed /\ req'[a].name = req[a].name
        /\ req'[a].barred = req[a].barred
        /\ req'[a].session = req[a].session /\ req'[a].status = req[a].status
    BY <1>2, GotoEffect, Zenon DEF LoginInv, Steps
  <2>2. BarredOK(req[a]) /\ NameOK(req[a])
    BY Zenon DEF LoginInv, LockoutInv, NameInv
  <2>3. BarredOK(req'[a]) /\ NameOK(req'[a])
    BY <2>1, <2>2, Zenon DEF BarredOK, NameOK
  <2>4. req'[a].typed = req[a].typed /\ req[a].name = Account[req[a].typed]
    BY <2>1, <2>2, Zenon DEF NameOK
  <2> QED
    BY <1>2, <2>1, <2>3, <2>4, PlainKeeps, Zenon DEF InFlight
<1> QED
  BY <1>1, <1>2, Zenon

\* Authenticate keeps the invariant.
LEMMA AuthenticateKeeps ==
    ASSUME LoginInv, NEW a \in Logins, Authenticate(a)
    PROVE  LoginInv'
<1> USE DEF Authenticate, account, bounds, At
<1>1. CASE Known(a) /\ req[a].status # "active"
  BY <1>1, AnsweredKeeps, Zenon
<1>2. CASE ~(Known(a) /\ req[a].status # "active")
  <2>1. ~req[a].barred
    BY <1>2, BarredIsKnown, Zenon DEF LoginInv, LockoutInv, BarredOK
  <2>2. CASE Goto(a, "resetuser") /\ Known(a)
    BY <2>1, <2>2, MovedKeeps, Zenon DEF Steps
  <2>3. CASE Goto(a, "failuser")
    BY <2>1, <2>3, MovedKeeps, Zenon DEF Steps
  <2> QED
    BY <1>2, <2>2, <2>3, Zenon
<1> QED
  BY <1>1, <1>2, Zenon

\* The rest of the steps that leave the account and its keys alone.
LEMMA OtherStepsKeep ==
    ASSUME LoginInv, NEW a \in Logins,
           \/ IncrementLoginFailByIP(a) \/ LookupFactors(a) \/ CreateMFAChallenge(a)
           \/ CreateSession(a) \/ SaveSession(a) \/ CallFails(a)
    PROVE  LoginInv'
<1> USE DEF account, bounds, At
<1>1. CASE IncrementLoginFailByIP(a)
  <2>1. ~req[a].barred
    BY <1>1, BarredIsEarly, Zenon DEF IncrementLoginFailByIP
  <2>2. CASE Return(a)
    BY <1>1, <2>2, AnsweredKeeps, Zenon DEF IncrementLoginFailByIP
  <2>3. CASE Goto(a, "failblack")
    BY <1>1, <2>1, <2>3, MovedKeeps, Zenon DEF IncrementLoginFailByIP, Steps
  <2> QED
    BY <1>1, <2>2, <2>3, Zenon DEF IncrementLoginFailByIP
<1>2. CASE LookupFactors(a)
  <2>1. ~req[a].barred
    BY <1>2, BarredIsEarly, Zenon DEF LookupFactors
  <2> QED
    BY <1>2, <2>1, MovedKeeps, Zenon DEF LookupFactors, Steps
<1>3. CASE CreateMFAChallenge(a) \/ SaveSession(a) \/ CallFails(a)
  BY <1>3, AnsweredKeeps, Zenon DEF CreateMFAChallenge, SaveSession, CallFails
<1>4. CASE CreateSession(a)
  <2> DEFINE q == [req[a] EXCEPT !.pc = "cache", !.session = TRUE]
  <2>1. req' = [req EXCEPT ![a] = q]
    BY <1>4, Zenon DEF CreateSession
  <2>2. req[a] \in Requests /\ req \in [Logins -> Requests] /\ NameOK(req[a]) /\ req[a].pc = "row"
    BY <1>4, Zenon DEF LoginInv, LoginType, NameInv, CreateSession
  <2>3. /\ q \in Requests /\ q.pc = "cache" /\ q.barred = req[a].barred
        /\ q.typed = req[a].typed /\ q.name = req[a].name
    BY <2>2, Zenon DEF Requests, Steps
  <2>4. ~req[a].barred
    BY <1>4, BarredIsEarly, Zenon DEF CreateSession
  <2> HIDE DEF q
  <2>5. req' \in [Logins -> Requests] /\ Others(a) /\ req'[a] = q
    BY <2>1, <2>2, <2>3, Zenon DEF Others
  <2>6. NameOK(q) /\ BarredOK(q)
    BY <2>2, <2>3, <2>4, Zenon DEF NameOK, BarredOK
  <2> QED
    BY <1>4, <2>2, <2>3, <2>5, <2>6, PlainKeeps, Zenon DEF CreateSession, InFlight
<1> QED
  BY <1>1, <1>2, <1>3, <1>4, Zenon

\* Handle: a login request arrives.
LEMMA HandleKeeps ==
    ASSUME LoginInv, NEW a \in Logins, NEW n \in Spellings, NEW i \in IPs, NEW g \in Passwords,
           Handle(a, n, i, g)
    PROVE  LoginInv'
<1>1. PICK u \in Names : u = Account[n]
  BY LoginAssumption, Zenon DEF Names
<1>2. PICK b \in BOOLEAN : b = (u \in reported)
  <2>1. (u \in reported) \in BOOLEAN
    OBVIOUS
  <2> QED
    BY <2>1, Zenon
<1> DEFINE q == [Idle EXCEPT !.pc = "ip", !.typed = n, !.name = u, !.ip = i, !.guess = g,
                             !.barred = b]
<1>3. /\ q \in Requests /\ q.pc = "ip" /\ q.typed = n /\ q.name = u /\ ~q.session
      /\ q.barred = b
  BY Zenon DEF Idle, Requests, Steps, Names
<1>4. /\ req' = [req EXCEPT ![a] = q] /\ req[a].pc = "idle"
      /\ UNCHANGED <<status, password, userKeys, admin, history>>
  BY <1>1, <1>2, Zenon DEF Handle, account
<1> HIDE DEF q
<1>5. req' \in [Logins -> Requests] /\ Others(a) /\ req'[a] = q
  BY <1>3, <1>4, Zenon DEF LoginInv, LoginType, Others
<1>6. NameOK(q) /\ BarredOK(q)
  BY <1>1, <1>2, <1>3, Zenon DEF NameOK, BarredOK
<1> QED
  BY <1>3, <1>4, <1>5, <1>6, PlainKeeps, Zenon DEF InFlight

-----------------------------------------------------------------------------
(* Steps that change the keys of a user. *)

\* registerPasswordFailure counts the failure, and locks at the threshold.
LEMMA CountKeeps ==
    ASSUME LoginInv, NEW a \in Logins, IncrementLoginFailByUser(a)
    PROVE  LoginInv'
<1> USE DEF IncrementLoginFailByUser, At, LoginInv
<1> DEFINE n == req[a].typed
           u == req[a].name
<1>1. /\ At(a, "failuser") /\ ~req[a].barred
      /\ UNCHANGED <<status, password, blacklist, admin, reported, unbacked>>
  BY BarredIsEarly, Zenon DEF account, bounds
<1>2. /\ req' \in [Logins -> Requests] /\ Others(a) /\ ~req'[a].barred
      /\ \/ req'[a].pc = "idle"
         \/ req'[a].pc = "failip" /\ req'[a].typed = n /\ req'[a].name = u
  BY <1>1, GotoEffect, ReturnEffect, Zenon DEF Steps
<1>3. /\ n \in Spellings /\ u = Account[n] /\ userFail \in [Spellings -> Nat]
      /\ wrong \in [Spellings -> Nat]
      /\ userLock \in [Users -> {"none", "temporary", "permanent"}]
  BY <1>1, Zenon DEF LoginType, NameInv, NameOK
<1>4. /\ wrong' \in [Spellings -> Nat] /\ \A m \in Spellings : m # n => wrong'[m] = wrong[m]
      /\ u \in Users => wrong'[n] = wrong[n] + 1
      /\ u \notin Users => wrong' = wrong
  BY <1>3 DEF Known
<1>5. /\ userFail' \in [Spellings -> Nat]
      /\ \A m \in Spellings : m # n => userFail'[m] = userFail[m]
  BY <1>3
<1>6. /\ userLock' \in [Users -> {"none", "temporary", "permanent"}]
      /\ \A v \in Users : userLock'[v] = userLock[v] \/ userLock'[v] = "temporary"
  <2>1. userLock' = userLock \/ userLock' = [userLock EXCEPT ![u] = "temporary"]
    BY Zenon
  <2> HIDE DEF u
  <2> QED
    BY <1>3, <2>1, Zenon
<1>7. LoginType'
  BY <1>1, <1>2, <1>4, <1>5, <1>6, Zenon DEF LoginType
<1>8. NameInv'
  BY <1>2, <1>3, Zenon DEF NameInv, NameOK, Others
<1>9. FailInv'
  <2>1. ASSUME NEW m \in Spellings \ Named PROVE wrong'[m] = 0
    BY <1>3, <1>4, Zenon DEF FailInv, Named
  <2> SUFFICES ASSUME MaxFailuresPerUser > 0, UserLockThreshold > 0, NEW m \in Named
               PROVE  FailOK(m)'
    BY <2>1, Zenon DEF FailInv
  <2>2. /\ FailOK(m) /\ UserLockThreshold \in Nat /\ MaxFailuresPerUser # 0
        /\ m \in Spellings /\ Account[m] \in Users
    BY LoginAssumption DEF FailInv, Named
  <2>3. /\ Cardinality(InFlight(m)) \in Nat /\ Cardinality(Logins) \in Nat
        /\ IsFiniteSet(InFlight(m)) /\ Cardinality(InFlight(m)) <= Cardinality(Logins)
    BY InFlightFinite, Zenon
  <2>4. CASE m # n
    <3>1. InFlight(m)' = InFlight(m)
      BY <1>2, <2>4, Zenon DEF InFlight, Others
    <3>2. /\ wrong'[m] = wrong[m] /\ userFail'[m] = userFail[m] /\ wrong[m] \in Nat
          /\ userLock'[Account[m]] = userLock[Account[m]] \/ userLock'[Account[m]] = "temporary"
      BY <1>3, <1>4, <1>5, <1>6, <2>2, <2>4, Zenon
    <3> HIDE DEF IncrementLoginFailByUser
    <3> QED
      BY <2>2, <2>3, <3>1, <3>2 DEF FailOK
  <2>5. CASE m = n
    <3>1. a \in InFlight(m) /\ InFlight(m)' = InFlight(m) \ {a}
      BY <1>1, <1>2, <2>5, Zenon DEF InFlight, Others
    <3>2. Cardinality(InFlight(m)') = Cardinality(InFlight(m)) - 1
      BY <2>3, <3>1, FS_RemoveElement, Zenon
    <3>3. /\ wrong[m] \in Nat /\ userFail[m] \in Nat /\ Known(a) /\ Account[m] = u
          /\ wrong'[m] = wrong[m] + 1 /\ userFail'[m] = userFail[m] + 1
      BY <1>3, <1>4, <2>2, <2>5, Zenon DEF Known
    <3>4. CASE userFail[m] + 1 >= UserLockThreshold
      <4>1. userLock'[Account[m]] = "temporary"
        BY <1>3, <2>2, <2>5, <3>3, <3>4, Zenon DEF Locks
      <4> HIDE DEF IncrementLoginFailByUser
      <4> QED
        BY <2>2, <2>3, <3>2, <3>3, <4>1 DEF FailOK
    <3>5. CASE ~(userFail[m] + 1 >= UserLockThreshold)
      <4>1. userLock' = userLock
        BY <2>2, <2>5, <3>5, Zenon DEF Locks
      <4> HIDE DEF IncrementLoginFailByUser
      <4> QED
        BY <2>2, <2>3, <3>2, <3>3, <3>5, <4>1 DEF FailOK
    <3> QED
      BY <3>4, <3>5, Zenon
  <2> QED
    BY <2>4, <2>5, Zenon
<1>10. LockoutInv'
  BY <1>1, <1>2, LockoutKept, Zenon DEF BarredOK
<1>11. BackInv'
  BY <1>1, <1>2, <1>6, BackKept, Zenon
<1> QED
  BY <1>7, <1>8, <1>9, <1>10, <1>11, Zenon

\* IncrementBlacklistByUser keeps the invariant.
LEMMA BlacklistKeeps ==
    ASSUME LoginInv, NEW a \in Logins, IncrementBlacklistByUser(a)
    PROVE  LoginInv'
<1> USE DEF IncrementBlacklistByUser, At, LoginInv
<1> DEFINE n == req[a].typed
           u == req[a].name
<1>1. /\ At(a, "failblack") /\ ~req[a].barred
      /\ UNCHANGED <<status, password, userFail, admin, wrong, reported, unbacked>>
  BY BarredIsEarly, Zenon DEF account, bounds, history
<1>2. /\ req' \in [Logins -> Requests] /\ Others(a) /\ ~req'[a].barred
      /\ \/ req'[a].pc = "idle"
         \/ /\ req'[a].pc = "lockrow" /\ req'[a].typed = n /\ req'[a].name = u
            /\ n \in Spellings /\ u = Account[n] /\ u \in Users
  BY <1>1, GotoEffect, ReturnEffect, Zenon DEF Steps, Known, NameInv, NameOK
<1>3. /\ blacklist' \in [Spellings -> Nat]
      /\ userLock' \in [Users -> {"none", "temporary", "permanent"}]
      /\ \A v \in Users :
            \/ userLock'[v] = userLock[v]
            \/ userLock'[v] = "permanent" /\ v = u /\ req'[a].pc = "lockrow"
  <2>1. CASE ~Known(a) \/ PermanentUserLockThreshold = 0
    <3>1. UNCHANGED <<blacklist, userLock>>
      BY <2>1, Zenon
    <3> QED
      BY <3>1, Zenon DEF LoginType
  <2>2. CASE ~(~Known(a) \/ PermanentUserLockThreshold = 0)
    <3>1. /\ n \in Spellings /\ u \in Users
          /\ blacklist' = [blacklist EXCEPT ![n] = @ + 1]
      BY <1>1, <2>2, Zenon DEF Known, NameInv, NameOK
    <3>2. CASE Locks(blacklist[n] + 1, PermanentUserLockThreshold)
      <4>1. userLock' = [userLock EXCEPT ![u] = "permanent"] /\ Goto(a, "lockrow")
        BY <2>2, <3>2, Zenon
      <4>2. req'[a].pc = "lockrow"
        BY <4>1, GotoEffect, Zenon DEF Steps
      <4> HIDE DEF IncrementBlacklistByUser
      <4> QED
        BY <3>1, <4>1, <4>2 DEF LoginType
    <3>3. CASE ~Locks(blacklist[n] + 1, PermanentUserLockThreshold)
      <4>1. UNCHANGED userLock
        BY <2>2, <3>3, Zenon
      <4> HIDE DEF IncrementBlacklistByUser
      <4> QED
        BY <3>1, <4>1 DEF LoginType
    <3> QED
      BY <3>2, <3>3, Zenon
  <2> QED
    BY <2>1, <2>2, Zenon
<1>4. LoginType'
  BY <1>1, <1>2, <1>3, Zenon DEF LoginType
<1>5. NameInv'
  BY <1>2, Zenon DEF NameInv, NameOK, Others
<1>6. ASSUME NEW m \in Named PROVE Quiet(m)
  <2>1. Account[m] \in Users /\ InFlight(m)' \subseteq InFlight(m)
    BY <1>2, Zenon DEF Named, InFlight, Others
  <2> QED
    BY <1>1, <1>3, <2>1, Zenon DEF Quiet
<1>7. FailInv'
  BY <1>1, <1>4, <1>6, FailKept, Zenon DEF FailInv
<1>8. LockoutInv'
  BY <1>1, <1>2, LockoutKept, Zenon DEF BarredOK
<1>9. BackInv'
  BY <1>1, <1>2, <1>3 DEF BackInv, BackedBy, Others
<1> QED
  BY <1>4, <1>5, <1>7, <1>8, <1>9, Zenon

\* LockAccount, when the row is locked, when it is not, and when the context is
\* over.
LEMMA LockRowKeeps ==
    ASSUME LoginInv, NEW a \in Logins, LockAccount(a)
    PROVE  LoginInv'
<1> USE DEF At, LoginInv
<1> DEFINE n == req[a].name
<1>1. /\ req[a].pc = "lockrow" /\ n \in Users /\ ~req[a].barred /\ NameOK(req[a])
      /\ UNCHANGED <<password, userFail, blacklist, userLock, admin, wrong>>
  BY BarredIsEarly, Zenon DEF LockAccount, NameInv, NameOK, account, userKeys, bounds, history
<1>2. /\ req' \in [Logins -> Requests] /\ Others(a) /\ ~req'[a].barred
      /\ \/ req'[a].pc = "idle"
         \/ req'[a].pc = "clearlock" /\ req'[a].name = n /\ req'[a].typed = req[a].typed
  BY <1>1, GotoEffect, ReturnEffect, Zenon DEF LockAccount, Steps
<1>3. \/ /\ status' = [status EXCEPT ![n] = IF @ = "active" THEN "locked" ELSE @]
         /\ reported' = reported \cup {n} /\ UNCHANGED unbacked
      \/ req'[a].pc = "clearlock" /\ UNCHANGED <<status, reported, unbacked>>
      \/ unbacked' = unbacked \cup {n} /\ UNCHANGED <<status, reported>>
  BY GotoEffect, Zenon DEF LockAccount, Steps, account, history
<1>4. /\ status' \in [Users -> {"active", "locked", "disabled"}]
      /\ \A u \in Users : status'[u] = status[u] \/ (u = n /\ status'[u] = "locked")
      /\ \A u \in reported' : u \in reported \/ (u = n /\ status'[n] # "active")
      /\ reported \subseteq reported'
  BY <1>1, <1>3, Zenon DEF LoginType
<1>5. LoginType'
  BY <1>1, <1>2, <1>3, <1>4, Zenon DEF LoginType
<1>6. NameInv'
  BY <1>1, <1>2, Zenon DEF NameInv, NameOK, Others
<1>7. \A m \in Named : Quiet(m)
  BY <1>1, <1>2, Zenon DEF Quiet, InFlight, Others
<1>8. FailInv'
  BY <1>1, <1>5, <1>7, FailKept, Zenon DEF FailInv
<1>9. LockoutInv'
  BY <1>2, <1>4 DEF LockoutInv, BarredOK, Others, LoginType
<1>10. BackInv'
  <2>1. CASE /\ status' = [status EXCEPT ![n] = IF @ = "active" THEN "locked" ELSE @]
             /\ UNCHANGED unbacked
    <3>1. status'[n] # "active"
      BY <1>1, <2>1, Zenon DEF LoginType
    <3> QED
      BY <1>1, <1>2, <1>4, <2>1, <3>1 DEF BackInv, BackedBy, Others
  <2>2. CASE req'[a].pc = "clearlock" /\ UNCHANGED <<status, unbacked>>
    BY <1>1, <1>2, <2>2 DEF BackInv, BackedBy, Others
  <2>3. CASE unbacked' = unbacked \cup {n} /\ UNCHANGED status
    BY <1>1, <1>2, <2>3 DEF BackInv, BackedBy, Others
  <2> QED
    BY <1>3, <2>1, <2>2, <2>3, Zenon
<1> QED
  BY <1>5, <1>6, <1>8, <1>9, <1>10, Zenon

\* ClearUserLock keeps the invariant.
LEMMA ClearLockKeeps ==
    ASSUME LoginInv, NEW a \in Logins, ClearUserLock(a)
    PROVE  LoginInv'
<1> USE DEF At, LoginInv
<1> DEFINE n == req[a].name
<1>1. /\ req[a].pc = "clearlock" /\ n \in Users
      /\ UNCHANGED <<status, password, userFail, blacklist, admin, reported>>
  BY Zenon DEF ClearUserLock, NameInv, NameOK, account, bounds
<1>2. req' \in [Logins -> Requests] /\ Others(a) /\ ~req'[a].barred /\ req'[a].pc = "idle"
  BY ReturnEffect, Zenon DEF ClearUserLock
<1>3. \/ /\ userLock' = [userLock EXCEPT ![n] = "none"] /\ Restart(SpellingsOf(n))
         /\ UNCHANGED unbacked
      \/ unbacked' = unbacked \cup {n} /\ UNCHANGED <<userLock, wrong>>
  BY Zenon DEF ClearUserLock
<1>4. /\ userLock' \in [Users -> {"none", "temporary", "permanent"}]
      /\ wrong' \in [Spellings -> Nat]
      /\ \A m \in Spellings :
            wrong'[m] = 0 \/ (wrong'[m] = wrong[m] /\ (Account[m] # n \/ userLock' = userLock))
      /\ userLock'[n] = "none" \/ n \in unbacked'
      /\ unbacked \subseteq unbacked'
      /\ \A u \in Users : u # n => userLock'[u] = userLock[u]
  BY <1>1, <1>3 DEF LoginType, Restart, SpellingsOf
<1>5. LoginType'
  BY <1>1, <1>2, <1>4, Zenon DEF LoginType
<1>6. NameInv'
  BY <1>2, Zenon DEF NameInv, NameOK, Others
<1>7. ASSUME NEW m \in Named PROVE Quiet(m)
  <2>1. m \in Spellings /\ Account[m] \in Users /\ InFlight(m)' \subseteq InFlight(m)
    BY <1>2, Zenon DEF Named, InFlight, Others
  <2> QED
    BY <1>1, <1>4, <2>1, Zenon DEF Quiet
<1>8. FailInv'
  BY <1>4, <1>5, <1>7, FailKept, Zenon DEF FailInv
<1>9. LockoutInv'
  BY <1>1, <1>2, LockoutKept, Zenon DEF BarredOK
<1>10. BackInv'
  BY <1>1, <1>2, <1>4 DEF BackInv, BackedBy, Others
<1> QED
  BY <1>5, <1>6, <1>8, <1>9, <1>10, Zenon

\* ResetPasswordRateLimit keeps the invariant.
LEMMA ResetKeeps ==
    ASSUME LoginInv, NEW a \in Logins, ResetPasswordRateLimit(a)
    PROVE  LoginInv'
<1> USE DEF At, LoginInv
<1>1. /\ req[a].pc \in {"resetuser", "resetblack", "resetip", "clearip"} /\ ~req[a].barred
      /\ UNCHANGED <<status, password, userLock, admin, reported, unbacked>>
  BY BarredIsEarly, Zenon DEF ResetPasswordRateLimit, account, bounds
<1>2. /\ req' \in [Logins -> Requests] /\ Others(a) /\ ~req'[a].barred
      /\ req'[a].pc \in {"resetblack", "resetip", "clearip", "factors"}
      /\ req'[a].typed = req[a].typed /\ req'[a].name = req[a].name
  BY <1>1, GotoEffect, Zenon DEF ResetPasswordRateLimit, Steps
<1>3. /\ blacklist' \in [Spellings -> Nat] /\ userFail' \in [Spellings -> Nat]
      /\ wrong' \in [Spellings -> Nat]
      /\ \A m \in Spellings :
            wrong'[m] = 0 \/ (wrong'[m] = wrong[m] /\ userFail'[m] = userFail[m])
  BY DEF ResetPasswordRateLimit, LoginType, Restart
<1>4. LoginType'
  BY <1>1, <1>2, <1>3, Zenon DEF LoginType
<1>5. NameInv'
  BY <1>1, <1>2, Zenon DEF NameInv, NameOK, Others
<1>6. ASSUME NEW m \in Named PROVE Quiet(m)
  <2>1. m \in Spellings /\ InFlight(m)' \subseteq InFlight(m)
    BY <1>2, Zenon DEF Named, InFlight, Others
  <2> QED
    BY <1>1, <1>3, <2>1, Zenon DEF Quiet
<1>7. FailInv'
  BY <1>3, <1>4, <1>6, FailKept, Zenon DEF FailInv
<1>8. LockoutInv'
  BY <1>1, <1>2, LockoutKept, Zenon DEF BarredOK
<1>9. BackInv'
  BY <1>1, <1>2, BackKept, Zenon
<1> QED
  BY <1>4, <1>5, <1>7, <1>8, <1>9, Zenon

-----------------------------------------------------------------------------
(* The administrator and the clock: no login takes a step. *)

\* A deletion or an expiry of a user's keys.
LEMMA KeysKeep ==
    ASSUME LoginInv, UNCHANGED <<status, password, req, reported>>,
           userFail' \in [Spellings -> Nat], wrong' \in [Spellings -> Nat],
           blacklist' \in [Spellings -> Nat],
           userLock' \in [Users -> {"none", "temporary", "permanent"}],
           \A n \in Spellings :
               \/ wrong'[n] = 0
               \/ /\ wrong'[n] = wrong[n] /\ userFail'[n] = userFail[n]
                  /\ Account[n] \in Users => userLock'[Account[n]] = userLock[Account[n]],
           BackInv'
    PROVE  LoginInv'
<1> USE DEF LoginInv
<1>1. LoginType' /\ NameInv' /\ LockoutInv'
  BY Zenon DEF LoginType, NameInv, LockoutInv, BarredOK
<1>2. \A n \in Named : Quiet(n)
  BY Zenon DEF Quiet, InFlight, Named
<1>3. FailInv'
  BY <1>1, <1>2, FailKept, Zenon DEF FailInv
<1> QED
  BY <1>1, <1>3, Zenon

\* The end of a key's time keeps the invariant.
LEMMA ExpireKeeps ==
    ASSUME LoginInv, Expire
    PROVE  LoginInv'
<1>1. UNCHANGED <<status, password, blacklist, req, admin, reported, unbacked>>
  BY Zenon DEF Expire, account, bounds
<1>2. /\ userFail' \in [Spellings -> Nat] /\ wrong' \in [Spellings -> Nat]
      /\ userLock' \in [Users -> {"none", "temporary", "permanent"}]
      /\ \A n \in Spellings :
             \/ wrong'[n] = 0
             \/ /\ wrong'[n] = wrong[n] /\ userFail'[n] = userFail[n]
                /\ Account[n] \in Users => userLock'[Account[n]] = userLock[Account[n]]
      /\ \A u \in Users : userLock'[u] = "permanent" => userLock[u] = "permanent"
  BY DEF Expire, LoginInv, LoginType, Restart, SpellingsOf, ipKeys
<1>3. BackInv'
  BY <1>1, <1>2 DEF LoginInv, BackInv, BackedBy
<1> QED
  BY <1>1, <1>2, <1>3, KeysKeep, Zenon DEF LoginInv, LoginType

\* The administrator clears limits: the invariant stays.
LEMMA ClearLimitsKeeps ==
    ASSUME LoginInv, ClearLimits
    PROVE  LoginInv'
<1> DEFINE v == admin[1]
           key == admin[2]
<1>1. admin # <<>> /\ UNCHANGED <<status, password, req, reported>>
  BY Zenon DEF ClearLimits, account
<1>2. /\ userFail' \in [Spellings -> Nat] /\ wrong' \in [Spellings -> Nat]
      /\ blacklist' \in [Spellings -> Nat]
      /\ userLock' \in [Users -> {"none", "temporary", "permanent"}]
      /\ \A n \in Spellings :
             \/ wrong'[n] = 0
             \/ /\ wrong'[n] = wrong[n] /\ userFail'[n] = userFail[n]
                /\ Account[n] \in Users => userLock'[Account[n]] = userLock[Account[n]]
      /\ \A u \in Users : userLock'[u] = "permanent" => userLock[u] = "permanent"
      /\ unbacked \subseteq unbacked'
      /\ v \in Users /\ key = "lock" => userLock'[v] = "none" \/ v \in unbacked'
  <2>1. CASE UNCHANGED <<userKeys, wrong>> /\ unbacked' = unbacked \cup {v}
    BY <2>1, Zenon DEF LoginInv, LoginType, userKeys
  <2>2. CASE /\ userLock' = IF key = "lock" THEN [userLock EXCEPT ![v] = "none"] ELSE userLock
             /\ userFail' = IF key = "fail" THEN [userFail EXCEPT ![Username[v]] = 0] ELSE userFail
             /\ blacklist' = IF key = "blacklist" THEN [blacklist EXCEPT ![Username[v]] = 0]
                                                  ELSE blacklist
             /\ Restart(CASE key = "lock" -> SpellingsOf(v) [] key = "fail" -> {Username[v]}
                          [] OTHER -> {})
             /\ UNCHANGED unbacked
    <3>1. /\ userFail' \in [Spellings -> Nat] /\ blacklist' \in [Spellings -> Nat]
          /\ userLock' \in [Users -> {"none", "temporary", "permanent"}]
      BY <2>2, Zenon DEF LoginInv, LoginType
    <3>2. PICK gone : /\ Restart(gone)
                      /\ key = "lock" => gone = SpellingsOf(v)
                      /\ key = "fail" => gone = {Username[v]}
      BY <2>2
    <3>3. /\ wrong' \in [Spellings -> Nat]
          /\ \A n \in Spellings : wrong'[n] = IF n \in gone THEN 0 ELSE wrong[n]
      BY <3>2 DEF LoginInv, LoginType, Restart
    <3>4. ASSUME NEW n \in Spellings, wrong'[n] # 0
          PROVE  /\ wrong'[n] = wrong[n] /\ userFail'[n] = userFail[n]
                 /\ Account[n] \in Users => userLock'[Account[n]] = userLock[Account[n]]
      BY <2>2, <3>2, <3>3, <3>4, Zenon DEF LoginInv, LoginType, SpellingsOf
    <3>5. /\ \A u \in Users : userLock'[u] = userLock[u] \/ userLock'[u] = "none"
          /\ v \in Users /\ key = "lock" => userLock'[v] = "none"
      BY <2>2, Zenon DEF LoginInv, LoginType
    <3> QED
      BY <2>2, <3>1, <3>3, <3>4, <3>5, Zenon
  <2> QED
    BY <2>1, <2>2, Zenon DEF ClearLimits
<1>3. BackInv'
  BY <1>1, <1>2 DEF LoginInv, BackInv, BackedBy
<1> QED
  BY <1>1, <1>2, <1>3, KeysKeep, Zenon

\* The administrator unlocks an account: the invariant stays.
LEMMA UnlockKeeps ==
    ASSUME LoginInv, NEW u \in Users, AdminUnlockUser(u)
    PROVE  LoginInv'
<1> USE DEF LoginInv
<1>1. /\ UNCHANGED <<password, userFail, blacklist, userLock, wrong, unbacked>>
      /\ status' = [status EXCEPT ![u] = Unlocked(@)] /\ reported' = reported \ {u}
      /\ admin = <<>> /\ admin' = <<u, "lock", "fail", "blacklist">>
  BY Zenon DEF AdminUnlockUser, AdminCalls, userKeys
<1>2. /\ status' \in [Users -> {"active", "locked", "disabled"}]
      /\ \A v \in Users : v # u => status'[v] = status[v]
  BY <1>1, Zenon DEF LoginType, Unlocked
<1>3. ASSUME NEW a \in Logins
      PROVE  /\ req'[a] \in Requests /\ req'[a].pc = req[a].pc
             /\ req'[a].typed = req[a].typed /\ req'[a].name = req[a].name
             /\ req'[a].status = req[a].status /\ req'[a].session = req[a].session
             /\ req'[a].barred => req[a].barred /\ req[a].name # u
  <2>1. req[a] \in Requests
    BY Zenon DEF LoginType
  <2>2. CASE req[a].name = u
    <3>1. req'[a] = [req[a] EXCEPT !.barred = FALSE]
      BY <2>2, Zenon DEF AdminUnlockUser
    <3> QED
      BY <2>1, <3>1, Zenon DEF Requests
  <2>3. CASE req[a].name # u
    <3>1. req'[a] = req[a]
      BY <2>3, Zenon DEF AdminUnlockUser
    <3> QED
      BY <2>1, <2>3, <3>1, Zenon
  <2> QED
    BY <2>2, <2>3, Zenon
<1>4. LoginType'
  <2>1. req' \in [Logins -> Requests]
    BY <1>3, Zenon DEF AdminUnlockUser
  <2> QED
    BY <1>1, <1>2, <2>1, Zenon DEF LoginType
<1>5. NameInv'
  BY <1>3, Zenon DEF NameInv, NameOK
<1>6. \A n \in Named : Quiet(n)
  BY <1>1, <1>3, Zenon DEF Quiet, InFlight
<1>7. FailInv'
  BY <1>1, <1>4, <1>6, FailKept, Zenon DEF FailInv
<1>8. LockoutInv'
  <2>1. \A v \in reported' : status'[v] # "active"
    BY <1>1, <1>2, Zenon DEF LockoutInv, LoginType
  <2>2. ASSUME NEW a \in Logins PROVE BarredOK(req[a])'
    <3>1. BarredOK(req[a])
      BY Zenon DEF LockoutInv
    <3> QED
      BY <1>1, <1>3, <3>1, Zenon DEF BarredOK
  <2> QED
    BY <2>1, <2>2, Zenon DEF LockoutInv
<1>9. BackInv'
  <2>1. admin' # <<>> /\ admin'[1] = u /\ admin'[2] = "lock"
    BY <1>1, Zenon
  <2> QED
    BY <1>1, <1>2, <1>3, <2>1 DEF BackInv, BackedBy
<1> QED
  BY <1>4, <1>5, <1>7, <1>8, <1>9, Zenon

-----------------------------------------------------------------------------
(* The theorems. *)

\* The invariant holds at the start.
LEMMA LoginInit ==
    ASSUME Init
    PROVE  LoginInv
<1>1. (CHOOSE p \in Passwords : TRUE) \in Passwords
  BY LoginAssumption, Zenon
<1>2. LoginType
  BY <1>1, IdleType, Zenon DEF Init, LoginType
<1>3. NameInv /\ LockoutInv /\ BackInv
  BY IdleType, Zenon DEF Init, NameInv, NameOK, LockoutInv, BarredOK, BackInv
<1>4. FailInv
  BY LoginAssumption DEF Init, FailInv, FailOK, Named
<1> QED
  BY <1>2, <1>3, <1>4, Zenon DEF LoginInv

\* Every step keeps the invariant.
LEMMA LoginNext ==
    ASSUME LoginInv, [Next]_vars
    PROVE  LoginInv'
<1>1. ASSUME NEW a \in Logins, Step(a)
      PROVE  LoginInv'
  BY <1>1, CheckIPKeeps, FindKeeps, CheckLockKeeps, AuthenticateKeeps, CountKeeps, BlacklistKeeps,
     LockRowKeeps, ClearLockKeeps, ResetKeeps, OtherStepsKeep, Zenon DEF Step
<1>2. ASSUME NEW a \in Logins, NEW n \in Spellings, NEW i \in IPs, NEW g \in Passwords,
             Handle(a, n, i, g)
      PROVE  LoginInv'
  BY <1>2, HandleKeeps, Zenon
<1>3. ASSUME UNCHANGED <<status, userFail, blacklist, userLock, req, admin, history>>,
             password' \in [Users -> Passwords]
      PROVE  LoginInv'
  BY <1>3, Zenon DEF LoginInv, LoginType, NameInv, NameOK, FailInv, FailOK, InFlight, LockoutInv,
                     BarredOK, BackInv, BackedBy, history
<1>4. ASSUME NEW u \in Users, NEW p \in Passwords, AdminResetPassword(u, p)
      PROVE  LoginInv'
  BY <1>3, <1>4, Zenon DEF AdminResetPassword, LoginInv, LoginType, userKeys
<1>5. CASE UNCHANGED vars
  BY <1>3, <1>5, Zenon DEF vars, account, userKeys, bounds, LoginInv, LoginType
<1> QED
  BY <1>1, <1>2, <1>4, <1>5, UnlockKeeps, ClearLimitsKeeps, ExpireKeeps, Zenon DEF Next

\* The invariant holds throughout.
LEMMA LoginAlways == Spec => []LoginInv
<1>1. Init => LoginInv
  BY LoginInit, Zenon
<1>2. LoginInv /\ [Next]_vars => LoginInv'
  BY LoginNext, Zenon
<1> QED
  BY <1>1, <1>2, PTL DEF Spec

\* However lock checks, counters and locks of concurrent logins interleave
\* (preparePasswordAuthentication, registerPasswordFailure), the failures told
\* under one spelling of a username are fewer than the threshold and the logins
\* together.
THEOREM FailuresAreBounded == Spec => []WrongPasswordsBounded
<1>1. LoginInv => WrongPasswordsBounded
  <2> SUFFICES ASSUME LoginInv, MaxFailuresPerUser > 0, UserLockThreshold > 0, NEW n \in Spellings
               PROVE  wrong[n] <= UserLockThreshold - 1 + Cardinality(Logins)
    BY Zenon DEF WrongPasswordsBounded
  <2>1. wrong[n] \in Nat /\ UserLockThreshold \in Nat
    BY LoginAssumption, Zenon DEF LoginInv, LoginType
  <2>2. Cardinality(InFlight(n)) \in Nat /\ Cardinality(Logins) \in Nat
    BY InFlightFinite, Zenon
  <2>3. wrong[n] = 0 \/ FailOK(n)
    BY Zenon DEF LoginInv, FailInv
  <2> QED
    BY <2>1, <2>2, <2>3 DEF FailOK
<1> QED
  BY <1>1, LoginAlways, PTL

\* A login begun after the account was reported as locked for good makes no
\* session before an administrator unlocks it (LockAccount, Authenticate).
THEOREM ReportedLockoutHolds == Spec => []LockoutHolds
<1>1. LoginInv => LockoutHolds
  BY Zenon DEF LoginInv, LockoutInv, BarredOK, LockoutHolds
<1> QED
  BY <1>1, LoginAlways, PTL

\* An active account keeps a permanent lock key only while a login is about to
\* lock the row or an unlock is under way, unless clearing its key has failed
\* (registerPasswordFailure, AdminUnlockUser).
THEOREM LockKeyIsBacked == Spec => []LockIsBacked
<1>1. LoginInv => LockIsBacked
  BY Zenon DEF LoginInv, BackInv, BackedBy, LockIsBacked, Backed
<1> QED
  BY <1>1, LoginAlways, PTL

-----------------------------------------------------------------------------
(* The worker pools. *)

JobsAt(place) == {c \in Callers : job[c] = place}

\* A queue holds the members of a set, each once.
Holds(q, S) ==
    /\ q \in Seq(Callers)
    /\ S = {q[i] : i \in 1..Len(q)}
    /\ \A i, j \in 1..Len(q) : q[i] = q[j] => i = j

\* The inductive invariant: each queue holds the jobs that are said to be in it.
PoolInv ==
    /\ job \in [Callers -> Places]
    /\ detached \in [Callers -> BOOLEAN]
    /\ Holds(ioQueue, JobsAt("queue")) /\ Holds(cpuQueue, JobsAt("cpuqueue"))
    /\ Len(ioQueue) <= IOQueueSize /\ Cardinality(IOBusy) <= IOWorkers
    /\ Len(cpuQueue) <= CPUQueueSize /\ Cardinality(CPUBusy) <= CPUWorkers

\* A job that comes in stands at the end.
LEMMA HoldsAppend ==
    ASSUME NEW q, NEW S, Holds(q, S), NEW c \in Callers, c \notin S
    PROVE  Holds(Append(q, c), S \cup {c}) /\ Len(Append(q, c)) = Len(q) + 1
<1> DEFINE r == Append(q, c)
<1>1. q \in Seq(Callers) /\ Len(q) \in Nat
    BY DEF Holds
<1>2. /\ r \in Seq(Callers) /\ Len(r) = Len(q) + 1 /\ r[Len(q) + 1] = c
      /\ \A i \in 1..Len(q) : r[i] = q[i]
    BY <1>1
<1> HIDE DEF r
<1>3. 1..Len(r) = (1..Len(q)) \cup {Len(q) + 1}
    BY <1>1, <1>2
<1>4. \A i \in 1..Len(q) : q[i] \in S
    BY Zenon DEF Holds
<1>5. \A i, j \in 1..Len(r) : r[i] = r[j] => i = j
    BY <1>2, <1>3, <1>4, Zenon DEF Holds
<1>6. S \cup {c} = {r[i] : i \in 1..Len(r)}
  <2>1. S = {q[i] : i \in 1..Len(q)}
    BY Zenon DEF Holds
  <2> QED
    BY <1>2, <1>3, <2>1
<1>7. Holds(r, S \cup {c})
    BY <1>2, <1>5, <1>6, Zenon DEF Holds
<1> QED
    BY <1>2, <1>7, Zenon DEF r

\* A worker takes the first job.
LEMMA HoldsTail ==
    ASSUME NEW q, NEW S, Holds(q, S), q # <<>>
    PROVE  /\ Head(q) \in S /\ Holds(Tail(q), S \ {Head(q)})
           /\ Len(Tail(q)) = Len(q) - 1 /\ Len(q) \in Nat
<1> DEFINE r == Tail(q)
<1>1. q \in Seq(Callers) /\ Len(q) \in Nat /\ Len(q) > 0
    BY DEF Holds
<1>2. /\ r \in Seq(Callers) /\ Len(r) = Len(q) - 1
      /\ \A i \in 1..Len(r) : r[i] = q[i + 1]
    BY <1>1
<1>3. Head(q) = q[1] /\ 1 \in 1..Len(q)
    BY <1>1
<1> HIDE DEF r
<1>4. \A i \in 1..Len(r) : i + 1 \in 1..Len(q) /\ i + 1 # 1
    BY <1>1, <1>2
<1>5. \A i, j \in 1..Len(r) : r[i] = r[j] => i = j
  <2> SUFFICES ASSUME NEW i \in 1..Len(r), NEW j \in 1..Len(r), r[i] = r[j]
               PROVE  i = j
    BY Zenon
  <2>1. i + 1 = j + 1
    BY <1>2, <1>4, Zenon DEF Holds
  <2> QED
    BY <2>1
<1>6. S \ {q[1]} = {r[i] : i \in 1..Len(r)}
  <2>1. ASSUME NEW x \in S \ {q[1]}
        PROVE  \E i \in 1..Len(r) : x = r[i]
    <3>1. PICK k \in 1..Len(q) : x = q[k]
      BY Zenon DEF Holds
    <3>2. k - 1 \in 1..Len(r) /\ (k - 1) + 1 = k
      BY <1>1, <1>2, <2>1, <3>1
    <3> QED
      BY <1>2, <3>1, <3>2, Zenon
  <2>2. ASSUME NEW i \in 1..Len(r)
        PROVE  r[i] \in S \ {q[1]}
    BY <1>2, <1>3, <1>4, Zenon DEF Holds
  <2> QED
    BY <2>1, <2>2
<1>7. Head(q) \in S
    BY <1>3, Zenon DEF Holds
<1>8. Holds(r, S \ {Head(q)})
    BY <1>2, <1>3, <1>5, <1>6, Zenon DEF Holds
<1> QED
    BY <1>1, <1>2, <1>7, <1>8, Zenon DEF r

\* What JobsInOnePlace counts.
LEMMA HoldsCount ==
    ASSUME NEW q, NEW S, Holds(q, S), NEW c
    PROVE  Cardinality({i \in DOMAIN q : q[i] = c}) = IF c \in S THEN 1 ELSE 0
<1> DEFINE T == {i \in DOMAIN q : q[i] = c}
<1>1. DOMAIN q = 1..Len(q)
    BY DEF Holds
<1>2. CASE c \in S
  <2>1. PICK k \in 1..Len(q) : q[k] = c
    BY <1>2, Zenon DEF Holds
  <2>2. T = {k}
    BY <1>1, <2>1, Zenon DEF Holds
  <2> QED
    BY <1>2, <2>2, FS_Singleton, Zenon
<1>3. CASE c \notin S
  <2>1. T = {}
    BY <1>1, <1>3, Zenon DEF Holds
  <2> QED
    BY <1>3, <2>1, FS_EmptySet, Zenon
<1> QED
    BY <1>2, <1>3, Zenon

\* Put moves one job.
LEMMA PutEffect ==
    ASSUME job \in [Callers -> Places], NEW c \in Callers, NEW place \in Places, Put(c, place)
    PROVE  /\ job' \in [Callers -> Places] /\ job'[c] = place
           /\ \A d \in Callers : d # c => job'[d] = job[d]
           /\ \A p \in Places : JobsAt(p)' = IF p = place THEN JobsAt(p) \cup {c} ELSE JobsAt(p) \ {c}
<1>1. /\ job' \in [Callers -> Places] /\ job'[c] = place
      /\ \A d \in Callers : d # c => job'[d] = job[d]
    BY Zenon DEF Put
<1> QED
    BY <1>1, Zenon DEF JobsAt

\* Fewer busy workers are still within the bound.
LEMMA BusyShrinks ==
    ASSUME NEW S, NEW T, S \subseteq T, T \subseteq Callers, NEW n \in Nat, Cardinality(T) <= n
    PROVE  Cardinality(S) <= n
<1>1. IsFiniteSet(T)
    BY PoolAssumption, FS_Subset, Zenon
<1>2. /\ Cardinality(T) \in Nat /\ IsFiniteSet(S) /\ Cardinality(S) <= Cardinality(T)
    BY <1>1, FS_Subset, FS_CardinalityType, Zenon
<1>3. Cardinality(S) \in Nat
    BY <1>2, FS_CardinalityType, Zenon
<1> QED
    BY <1>2, <1>3

\* A worker that was free is busy.
LEMMA BusyGrows ==
    ASSUME NEW S, NEW T, NEW c, S \subseteq T \cup {c}, T \subseteq Callers, c \in Callers,
           NEW n \in Nat, Cardinality(T) < n
    PROVE  Cardinality(S) <= n
<1>1. IsFiniteSet(T) /\ Cardinality(T) \in Nat
    BY PoolAssumption, FS_Subset, FS_CardinalityType, Zenon
<1>2. Cardinality(T \cup {c}) \in {Cardinality(T), Cardinality(T) + 1}
    BY <1>1, FS_AddElement, Zenon
<1>3. Cardinality(T \cup {c}) <= n /\ T \cup {c} \subseteq Callers
    BY <1>1, <1>2
<1> QED
    BY <1>3, BusyShrinks, Zenon

\* Steps that leave the queues alone, move jobs between other places and make no
\* worker busy keep PoolInv.
LEMMA QuietKeeps ==
    ASSUME PoolInv, NEW c \in Callers, UNCHANGED <<ioQueue, cpuQueue>>,
           job' \in [Callers -> Places], detached' \in [Callers -> BOOLEAN],
           \A d \in Callers : d # c => job'[d] = job[d],
           job'[c] = job[c] \/ {job[c], job'[c]} \cap {"queue", "cpuqueue"} = {},
           IOBusy' \subseteq IOBusy, CPUBusy' \subseteq CPUBusy
    PROVE  PoolInv'
<1>1. JobsAt("queue")' = JobsAt("queue") /\ JobsAt("cpuqueue")' = JobsAt("cpuqueue")
    BY Zenon DEF JobsAt
<1>2. IOBusy \subseteq Callers /\ CPUBusy \subseteq Callers
    BY Zenon DEF IOBusy, CPUBusy
<1>3. Cardinality(IOBusy') <= IOWorkers /\ Cardinality(CPUBusy') <= CPUWorkers
    BY <1>2, BusyShrinks, PoolAssumption, Zenon DEF PoolInv
<1> QED
    BY <1>1, <1>3, Zenon DEF PoolInv

\* The calls, their cancellation, and jobs that end without a CPU part.
LEMMA CallKeeps ==
    ASSUME PoolInv, NEW c \in Callers,
           (\E cpu \in BOOLEAN : Call(c, cpu)) \/ Cancel(c) \/ GiveUp(c) \/ FinishJob(c) \/ Deliver(c)
    PROVE  PoolInv'
<1>1. UNCHANGED <<ioQueue, cpuQueue, detached>> /\ job[c] \in Places
    BY Zenon DEF Call, Cancel, GiveUp, FinishJob, Deliver, PoolInv
<1>2. /\ job' \in [Callers -> Places] /\ \A d \in Callers : d # c => job'[d] = job[d]
      /\ \/ job'[c] = job[c]
         \/ job[c] \in {"none", "submit"} /\ job'[c] \in {"none", "submit"}
         \/ job[c] = "io" /\ job'[c] = "iodone"
         \/ job[c] = "iodone" /\ job'[c] = "none"
  <2>1. CASE Cancel(c)
    BY <2>1, Zenon DEF Cancel, PoolInv
  <2>2. CASE \E cpu \in BOOLEAN : Call(c, cpu)
    BY <2>2, PutEffect, Zenon DEF Call, PoolInv, Places
  <2>3. CASE GiveUp(c)
    <3>1. (IF job[c] = "submit" THEN "none" ELSE job[c]) \in Places
      BY <1>1, Zenon DEF Places
    <3> QED
      BY <2>3, <3>1, PutEffect, Zenon DEF GiveUp, PoolInv
  <2>4. CASE FinishJob(c)
    BY <2>4, PutEffect, Zenon DEF FinishJob, PoolInv, Places
  <2>5. CASE Deliver(c)
    BY <2>5, PutEffect, Zenon DEF Deliver, PoolInv, Places
  <2> QED
    BY <2>1, <2>2, <2>3, <2>4, <2>5, Zenon
<1>3. IOBusy' \subseteq IOBusy /\ CPUBusy' \subseteq CPUBusy
    BY <1>1, <1>2, Zenon DEF IOBusy, CPUBusy
<1>4. job'[c] = job[c] \/ {job[c], job'[c]} \cap {"queue", "cpuqueue"} = {}
    BY <1>2, Zenon
<1>5. detached' \in [Callers -> BOOLEAN]
    BY <1>1, Zenon DEF PoolInv
<1> QED
    BY <1>1, <1>2, <1>3, <1>4, <1>5, QuietKeeps, Zenon

\* Jobs that come into a queue.
LEMMA SubmitKeeps ==
    ASSUME PoolInv, NEW c \in Callers, Submit(c) \/ SubmitCPU(c)
    PROVE  PoolInv'
<1>1. CASE Submit(c)
  <2>1. /\ job[c] = "submit" /\ Len(ioQueue) < IOQueueSize /\ ioQueue' = Append(ioQueue, c)
        /\ cpuQueue' = cpuQueue /\ detached' = detached
    BY <1>1, Zenon DEF Submit
  <2>2. /\ job' \in [Callers -> Places] /\ job'[c] = "queue"
        /\ \A d \in Callers : d # c => job'[d] = job[d]
        /\ JobsAt("queue")' = JobsAt("queue") \cup {c}
        /\ JobsAt("cpuqueue")' = JobsAt("cpuqueue") \ {c}
    BY <1>1, PutEffect, Zenon DEF Submit, PoolInv, Places
  <2>3. c \notin JobsAt("queue") /\ JobsAt("cpuqueue") \ {c} = JobsAt("cpuqueue")
    BY <2>1, Zenon DEF JobsAt
  <2>4. Holds(ioQueue', JobsAt("queue")') /\ Len(ioQueue') = Len(ioQueue) + 1
    BY <2>1, <2>2, <2>3, HoldsAppend DEF PoolInv
  <2>5. Len(ioQueue') <= IOQueueSize
    BY <2>1, <2>4, PoolAssumption DEF PoolInv, Holds
  <2>6. IOBusy' = IOBusy /\ CPUBusy' = CPUBusy
    BY <2>1, <2>2, Zenon DEF IOBusy, CPUBusy
  <2> QED
    BY <2>1, <2>2, <2>3, <2>4, <2>5, <2>6, Zenon DEF PoolInv
<1>2. CASE SubmitCPU(c)
  <2>1. /\ job[c] = "io" /\ Len(cpuQueue) < CPUQueueSize /\ cpuQueue' = Append(cpuQueue, c)
        /\ ioQueue' = ioQueue /\ detached' = detached
    BY <1>2, Zenon DEF SubmitCPU
  <2>2. /\ job' \in [Callers -> Places] /\ job'[c] = "cpuqueue"
        /\ \A d \in Callers : d # c => job'[d] = job[d]
        /\ JobsAt("cpuqueue")' = JobsAt("cpuqueue") \cup {c}
        /\ JobsAt("queue")' = JobsAt("queue") \ {c}
    BY <1>2, PutEffect, Zenon DEF SubmitCPU, PoolInv, Places
  <2>3. c \notin JobsAt("cpuqueue") /\ JobsAt("queue") \ {c} = JobsAt("queue")
    BY <2>1, Zenon DEF JobsAt
  <2>4. Holds(cpuQueue', JobsAt("cpuqueue")') /\ Len(cpuQueue') = Len(cpuQueue) + 1
    BY <2>1, <2>2, <2>3, HoldsAppend DEF PoolInv
  <2>5. Len(cpuQueue') <= CPUQueueSize
    BY <2>1, <2>4, PoolAssumption DEF PoolInv, Holds
  <2>6. IOBusy' = IOBusy /\ CPUBusy' = CPUBusy
    BY <2>1, <2>2, Zenon DEF IOBusy, CPUBusy
  <2> QED
    BY <2>1, <2>2, <2>3, <2>4, <2>5, <2>6, Zenon DEF PoolInv
<1> QED
    BY <1>1, <1>2, Zenon

\* An IO worker takes a job.
LEMMA RunKeeps ==
    ASSUME PoolInv, NEW c \in Callers, RunWorker(c)
    PROVE  PoolInv'
<1>1. /\ ioQueue # <<>> /\ Head(ioQueue) = c /\ ioQueue' = Tail(ioQueue)
      /\ cpuQueue' = cpuQueue /\ detached' = detached /\ Cardinality(IOBusy) < IOWorkers
    BY Zenon DEF RunWorker
<1>2. /\ c \in JobsAt("queue") /\ Holds(ioQueue', JobsAt("queue") \ {c})
      /\ Len(ioQueue') = Len(ioQueue) - 1 /\ Len(ioQueue) \in Nat
    BY <1>1, HoldsTail, Zenon DEF PoolInv
<1>3. PICK place \in {"io", "iodone"} : Put(c, place)
    BY Zenon DEF RunWorker
<1>4. /\ job' \in [Callers -> Places] /\ job'[c] = place
      /\ \A d \in Callers : d # c => job'[d] = job[d]
      /\ JobsAt("queue")' = JobsAt("queue") \ {c}
      /\ JobsAt("cpuqueue")' = JobsAt("cpuqueue") \ {c}
    BY <1>3, PutEffect, Zenon DEF PoolInv, Places
<1>5. JobsAt("cpuqueue") \ {c} = JobsAt("cpuqueue")
    BY <1>2, Zenon DEF JobsAt
<1>6. /\ IOBusy' \subseteq IOBusy \cup {c} /\ CPUBusy' \subseteq CPUBusy
      /\ IOBusy \subseteq Callers /\ CPUBusy \subseteq Callers
    BY <1>1, <1>4, Zenon DEF IOBusy, CPUBusy
<1>7. Cardinality(IOBusy') <= IOWorkers
    BY <1>1, <1>6, BusyGrows, PoolAssumption, Zenon
<1>8. Cardinality(CPUBusy') <= CPUWorkers
    BY <1>6, BusyShrinks, PoolAssumption, Zenon DEF PoolInv
<1>9. Len(ioQueue') <= IOQueueSize
    BY <1>2, PoolAssumption DEF PoolInv
<1> QED
    BY <1>1, <1>2, <1>4, <1>5, <1>7, <1>8, <1>9, Zenon DEF PoolInv

\* A CPU job that is answered goes back to its IO worker, or nowhere if that has
\* left: the IO pool is no busier.
LEMMA AfterCPUEffect ==
    ASSUME PoolInv, NEW c \in Callers, AfterCPU(c), job[c] \in {"cpuqueue", "cpu"}
    PROVE  /\ job' \in [Callers -> Places] /\ job'[c] \in {"none", "iodone"}
           /\ \A d \in Callers : d # c => job'[d] = job[d]
           /\ JobsAt("queue")' = JobsAt("queue")
           /\ JobsAt("cpuqueue")' = JobsAt("cpuqueue") \ {c}
           /\ detached' \in [Callers -> BOOLEAN]
           /\ IOBusy' \subseteq IOBusy /\ CPUBusy' \subseteq CPUBusy
<1> DEFINE place == IF detached[c] THEN "none" ELSE "iodone"
<1>1. place \in Places /\ Put(c, place)
    BY Zenon DEF AfterCPU, Places
<1>2. /\ job' \in [Callers -> Places] /\ job'[c] = place
      /\ \A d \in Callers : d # c => job'[d] = job[d]
      /\ JobsAt("queue")' = JobsAt("queue") \ {c}
      /\ JobsAt("cpuqueue")' = JobsAt("cpuqueue") \ {c}
    BY <1>1, PutEffect, Zenon DEF PoolInv, Places
<1>3. JobsAt("queue") \ {c} = JobsAt("queue")
    BY Zenon DEF JobsAt
<1>4. detached' = [detached EXCEPT ![c] = FALSE]
    BY Zenon DEF AfterCPU
<1>5. detached' \in [Callers -> BOOLEAN] /\ \A d \in Callers : d # c => detached'[d] = detached[d]
    BY <1>4, Zenon DEF PoolInv
<1>6. c \in IOBusy' => c \in IOBusy
    BY <1>2, Zenon DEF IOBusy
<1>7. IOBusy' \subseteq IOBusy /\ CPUBusy' \subseteq CPUBusy
    BY <1>2, <1>5, <1>6, Zenon DEF IOBusy, CPUBusy
<1> QED
    BY <1>2, <1>3, <1>5, <1>7, Zenon

\* A CPU worker takes a job, or answers one whose context is over.
LEMMA RunCPUKeeps ==
    ASSUME PoolInv, NEW c \in Callers, RunCPUWorker(c)
    PROVE  PoolInv'
<1>1. /\ cpuQueue # <<>> /\ Head(cpuQueue) = c /\ cpuQueue' = Tail(cpuQueue)
      /\ ioQueue' = ioQueue /\ Cardinality(CPUBusy) < CPUWorkers
    BY Zenon DEF RunCPUWorker, RunCPUWorkerIf
<1>2. /\ c \in JobsAt("cpuqueue") /\ Holds(cpuQueue', JobsAt("cpuqueue") \ {c})
      /\ Len(cpuQueue') = Len(cpuQueue) - 1 /\ Len(cpuQueue) \in Nat
    BY <1>1, HoldsTail, Zenon DEF PoolInv
<1>3. job[c] = "cpuqueue"
    BY <1>2, Zenon DEF JobsAt
<1>4. Len(cpuQueue') <= CPUQueueSize
    BY <1>2, PoolAssumption DEF PoolInv
<1>5. IOBusy \subseteq Callers /\ CPUBusy \subseteq Callers
    BY Zenon DEF IOBusy, CPUBusy
<1>6. CASE AfterCPU(c)
  <2>1. /\ job' \in [Callers -> Places] /\ detached' \in [Callers -> BOOLEAN]
        /\ JobsAt("queue")' = JobsAt("queue") /\ JobsAt("cpuqueue")' = JobsAt("cpuqueue") \ {c}
        /\ IOBusy' \subseteq IOBusy /\ CPUBusy' \subseteq CPUBusy
    BY <1>3, <1>6, AfterCPUEffect, Zenon
  <2>2. Cardinality(IOBusy') <= IOWorkers /\ Cardinality(CPUBusy') <= CPUWorkers
    BY <1>5, <2>1, BusyShrinks, PoolAssumption, Zenon DEF PoolInv
  <2> QED
    BY <1>1, <1>2, <1>4, <2>1, <2>2, Zenon DEF PoolInv
<1>7. CASE Put(c, "cpu") /\ detached' = detached
  <2>1. /\ job' \in [Callers -> Places] /\ job'[c] = "cpu"
        /\ \A d \in Callers : d # c => job'[d] = job[d]
        /\ JobsAt("queue")' = JobsAt("queue") \ {c}
        /\ JobsAt("cpuqueue")' = JobsAt("cpuqueue") \ {c}
    BY <1>7, PutEffect, Zenon DEF PoolInv, Places
  <2>2. JobsAt("queue") \ {c} = JobsAt("queue")
    BY <1>3, Zenon DEF JobsAt
  <2>3. IOBusy' \subseteq IOBusy /\ CPUBusy' \subseteq CPUBusy \cup {c}
    BY <1>3, <1>7, <2>1, Zenon DEF IOBusy, CPUBusy
  <2>4. Cardinality(IOBusy') <= IOWorkers
    BY <1>5, <2>3, BusyShrinks, PoolAssumption, Zenon DEF PoolInv
  <2>5. Cardinality(CPUBusy') <= CPUWorkers
    BY <1>1, <1>5, <2>3, BusyGrows, PoolAssumption, Zenon
  <2> QED
    BY <1>1, <1>2, <1>4, <1>7, <2>1, <2>2, <2>4, <2>5, Zenon DEF PoolInv
<1> QED
    BY <1>6, <1>7, Zenon DEF RunCPUWorker, RunCPUWorkerIf

\* A CPU job ends, or its IO worker leaves it.
LEMMA CPUKeeps ==
    ASSUME PoolInv, NEW c \in Callers, FinishCPUJob(c) \/ GiveUpCPU(c)
    PROVE  PoolInv'
<1>1. CASE FinishCPUJob(c)
  <2>1. job[c] = "cpu" /\ AfterCPU(c) /\ UNCHANGED <<ioQueue, cpuQueue>>
    BY <1>1, Zenon DEF FinishCPUJob
  <2>2. /\ job' \in [Callers -> Places] /\ job'[c] \in {"none", "iodone"}
        /\ \A d \in Callers : d # c => job'[d] = job[d]
        /\ detached' \in [Callers -> BOOLEAN]
        /\ IOBusy' \subseteq IOBusy /\ CPUBusy' \subseteq CPUBusy
    BY <2>1, AfterCPUEffect, Zenon
  <2>3. {job[c], job'[c]} \cap {"queue", "cpuqueue"} = {}
    BY <2>1, <2>2, Zenon
  <2> QED
    BY <2>1, <2>2, <2>3, QuietKeeps, Zenon
<1>2. CASE GiveUpCPU(c)
  <2>1. UNCHANGED <<ioQueue, cpuQueue>>
    BY <1>2, Zenon DEF GiveUpCPU
  <2>2. CASE job[c] = "io" /\ Put(c, "iodone") /\ UNCHANGED detached
    <3>1. /\ job' \in [Callers -> Places] /\ job'[c] = "iodone"
          /\ \A d \in Callers : d # c => job'[d] = job[d]
      BY <2>2, PutEffect, Zenon DEF PoolInv, Places
    <3>2. IOBusy' \subseteq IOBusy /\ CPUBusy' \subseteq CPUBusy
      BY <2>2, <3>1, Zenon DEF IOBusy, CPUBusy
    <3>3. {job[c], job'[c]} \cap {"queue", "cpuqueue"} = {} /\ detached' \in [Callers -> BOOLEAN]
      BY <2>2, <3>1, Zenon DEF PoolInv
    <3> QED
      BY <2>1, <3>1, <3>2, <3>3, QuietKeeps, Zenon
  <2>3. CASE detached' = [detached EXCEPT ![c] = TRUE] /\ UNCHANGED job
    <3>1. /\ detached' \in [Callers -> BOOLEAN] /\ detached'[c]
          /\ \A d \in Callers : d # c => detached'[d] = detached[d]
      BY <2>3, Zenon DEF PoolInv
    <3>2. IOBusy' \subseteq IOBusy /\ CPUBusy' \subseteq CPUBusy
      BY <2>3, <3>1, Zenon DEF IOBusy, CPUBusy
    <3> QED
      BY <2>1, <2>3, <3>1, <3>2, QuietKeeps, Zenon DEF PoolInv
  <2> QED
    BY <1>2, <2>2, <2>3, Zenon DEF GiveUpCPU
<1> QED
    BY <1>1, <1>2, Zenon

\* Empty queues and idle workers at the start.
LEMMA PoolInvInit ==
    ASSUME PoolInit
    PROVE  PoolInv
<1>1. /\ job \in [Callers -> Places] /\ detached \in [Callers -> BOOLEAN]
      /\ JobsAt("queue") = {} /\ JobsAt("cpuqueue") = {} /\ IOBusy = {} /\ CPUBusy = {}
    BY Zenon DEF PoolInit, Places, JobsAt, IOBusy, CPUBusy
<1>2. Holds(<<>>, {}) /\ Len(<<>>) = 0
    BY DEF Holds
<1>3. ioQueue = <<>> /\ cpuQueue = <<>>
    BY Zenon DEF PoolInit
<1>4. /\ Len(ioQueue) <= IOQueueSize /\ Len(cpuQueue) <= CPUQueueSize
      /\ Cardinality(IOBusy) <= IOWorkers /\ Cardinality(CPUBusy) <= CPUWorkers
    BY <1>1, <1>2, <1>3, FS_EmptySet, PoolAssumption
<1> QED
    BY <1>1, <1>2, <1>3, <1>4, Zenon DEF PoolInv

\* Each job is in one place, the queues and the pools stay within their sizes,
\* and each queue holds exactly the jobs handed in and not taken, for pools and
\* queues of any size (runWithPool, runWorker).  PoolSpec adds fairness, which
\* the theorem does not need.
THEOREM EachJobInOnePlace == PoolInit /\ [][PoolNext]_poolVars => []JobsInOnePlace
<1>1. PoolInit => PoolInv
    BY PoolInvInit, Zenon
<1>2. PoolInv /\ [PoolNext]_poolVars => PoolInv'
  <2> SUFFICES ASSUME PoolInv, [PoolNext]_poolVars
               PROVE  PoolInv'
    BY Zenon
  <2>1. CASE UNCHANGED poolVars
    BY <2>1, Zenon DEF PoolInv, poolVars, JobsAt, IOBusy, CPUBusy
  <2>2. CASE PoolNext
    BY <2>2, CallKeeps, SubmitKeeps, RunKeeps, RunCPUKeeps, CPUKeeps, Zenon DEF PoolNext, PoolStep
  <2> QED
    BY <2>1, <2>2, Zenon
<1>3. PoolInv => JobsInOnePlace
  <2> SUFFICES ASSUME PoolInv
               PROVE  JobsInOnePlace
    BY Zenon
  <2>1. ASSUME NEW c \in Callers
        PROVE  /\ Cardinality({i \in DOMAIN ioQueue : ioQueue[i] = c})
                    = (IF job[c] = "queue" THEN 1 ELSE 0)
               /\ Cardinality({i \in DOMAIN cpuQueue : cpuQueue[i] = c})
                    = (IF job[c] = "cpuqueue" THEN 1 ELSE 0)
    <3>1. /\ c \in JobsAt("queue") <=> job[c] = "queue"
          /\ c \in JobsAt("cpuqueue") <=> job[c] = "cpuqueue"
      BY Zenon DEF JobsAt
    <3> QED
      BY <3>1, HoldsCount DEF PoolInv
  <2> QED
    BY <2>1, Zenon DEF PoolInv, JobsInOnePlace
<1> QED
    BY <1>1, <1>2, <1>3, PTL

-----------------------------------------------------------------------------
(* Accounts. *)

\* The names and emails requests deal with.
AccNames == {f.username : f \in Forms} \cup {A!Candidate(Claims[i]) : i \in Identities} \cup {""}
AccEmails == {f.email : f \in Forms} \cup {Claims[i].email : i \in Identities} \cup {A!NoEmail}
             \cup Identities \X {"federated.local"}

\* Rows: those there are at the start, and those Create inserts.
AccRows ==
    (UNION {{e[u] : u \in DOMAIN e} : e \in Earlier})
    \cup [owner : Identities \cup {A!Local}, username : AccNames \X Nat, email : AccEmails]

AccRequests ==
    [pc : A!Steps, op : {"none", "register", "begin", "callback"}, identity : Identities \cup {A!Local},
     state : States \cup {A!Local}, username : AccNames \X Nat, email : AccEmails,
     again : BOOLEAN, own : Nat, user : Nat]

\* The unique key of user_uuid.
OwnersDiffer(rows) ==
    \A u, v \in DOMAIN rows : rows[u].owner = rows[v].owner /\ rows[u].owner # A!Local => u = v

\* Lookups see the latest rows, no identity has the name of a random uuid, and
\* the table is well formed at the start.
AccountsData ==
    /\ ~StaleReads /\ A!Local \notin Identities
    /\ \A e \in Earlier : e \in Seq(AccRows) /\ OwnersDiffer(e)

Federated == {"getstate", "delstate", "exchange", "uuid", "name", "mail", "allocate", "create", "session"}

\* A callback whose identity has a row goes straight to it, and so does the second
\* look; that row is not lost on the way.
AccRequestOK(q) ==
    /\ q.op = "callback" => q.identity \in Identities
    /\ q.pc \in Federated => q.op = "callback"
    /\ q.pc = "discovery" => q.op \in {"begin", "callback"}
    /\ q.again => q.pc \in {"uuid", "name", "mail", "session"}
    /\ q.own # 0 => /\ q.op = "callback"
                    /\ q.own \in 1..Len(users) /\ users[q.own].owner = q.identity
                    /\ q.pc \in {"discovery", "getstate", "delstate", "exchange", "uuid", "session"}
                    /\ q.pc = "session" => q.user = q.own

AccInv ==
    /\ users \in Seq(AccRows) /\ OwnersDiffer(users)
    /\ accReq \in [Slots -> AccRequests]
    /\ \A r \in Slots : AccRequestOK(accReq[r])


\* A lookup by user_uuid finds the row if there is one.
LEMMA FindsOwner ==
    ASSUME AccountsData, AccInv, NEW i, NEW u \in A!Finds(LAMBDA row : row.owner = i)
    PROVE  /\ u \in Nat
           /\ u # 0 => u \in 1..Len(users) /\ users[u].owner = i
           /\ u = 0 => \A v \in 1..Len(users) : users[v].owner # i
<1> DEFINE H == {w \in 1..Len(users) : users[w].owner = i}
<1>1. u = IF H = {} THEN 0 ELSE CHOOSE w \in H : TRUE
    BY Zenon DEF AccountsData, A!Finds
<1>2. H # {} => u \in H
    BY <1>1, Zenon
<1>3. Len(users) \in Nat
    BY DEF AccInv
<1> QED
    BY <1>1, <1>2, <1>3

\* The other lookups answer an id or 0.
LEMMA FindsName ==
    ASSUME AccountsData, AccInv, NEW n, NEW u \in A!Finds(LAMBDA row : row.username = n)
    PROVE  u \in Nat /\ (u # 0 => users[u].username = n)
<1> DEFINE H == {w \in 1..Len(users) : users[w].username = n}
<1>1. u = IF H = {} THEN 0 ELSE CHOOSE w \in H : TRUE
    BY Zenon DEF AccountsData, A!Finds
<1>2. H # {} => u \in H
    BY <1>1, Zenon
<1> QED
    BY <1>1, <1>2 DEF AccInv

\* A lookup by email that finds a row finds one with that email.
LEMMA FindsEmail ==
    ASSUME AccountsData, AccInv, NEW m, NEW u \in A!Finds(LAMBDA row : row.email = m)
    PROVE  u \in Nat /\ (u # 0 => users[u].email = m)
<1> DEFINE H == {w \in 1..Len(users) : users[w].email = m}
<1>1. u = IF H = {} THEN 0 ELSE CHOOSE w \in H : TRUE
    BY Zenon DEF AccountsData, A!Finds
<1>2. H # {} => u \in H
    BY <1>1, Zenon
<1> QED
    BY <1>1, <1>2 DEF AccInv

\* The row of an identity, when there is one.
LEMMA OwnRowFacts ==
    ASSUME users \in Seq(AccRows), NEW i
    PROVE  /\ A!OwnRow(i) \in Nat
           /\ A!OwnRow(i) # 0 => A!OwnRow(i) \in 1..Len(users) /\ users[A!OwnRow(i)].owner = i
<1>1. CASE \E u \in 1..Len(users) : users[u].owner = i
  <2>1. A!OwnRow(i) = CHOOSE u \in 1..Len(users) : users[u].owner = i
    BY <1>1, Zenon DEF A!OwnRow, A!Ids
  <2>2. A!OwnRow(i) \in 1..Len(users) /\ users[A!OwnRow(i)].owner = i
    BY <1>1, <2>1, Zenon
  <2> QED
    BY <2>2
<1>2. CASE ~\E u \in 1..Len(users) : users[u].owner = i
    BY <1>2, Zenon DEF A!OwnRow, A!Ids
<1> QED
    BY <1>1, <1>2, Zenon

\* A step changes one request.
AccOthers(r, q) ==
    /\ accReq' \in [Slots -> AccRequests] /\ accReq'[r] = q
    /\ \A s \in Slots : s # r => accReq'[s] = accReq[s]

\* A step that rewrites its own request leaves those of the others.
LEMMA AccEffect ==
    ASSUME AccInv, NEW r \in Slots, NEW q \in AccRequests, accReq' = [accReq EXCEPT ![r] = q]
    PROVE  AccOthers(r, q)
BY Zenon DEF AccInv, AccOthers

\* The free slot.
LEMMA AccIdle ==
    /\ A!Idle \in AccRequests /\ AccRequestOK(A!Idle)
    /\ A!Idle.op = "none" /\ A!Idle.identity = A!Local /\ A!Idle.again = FALSE /\ A!Idle.own = 0
<1>1. <<"", 0>> \in AccNames \X Nat /\ A!NoEmail \in AccEmails
    BY Zenon DEF AccNames, AccEmails
<1>2. /\ A!Idle \in AccRequests /\ A!Idle.pc = "idle" /\ A!Idle.op = "none"
      /\ A!Idle.identity = A!Local /\ A!Idle.again = FALSE /\ A!Idle.own = 0
    BY <1>1, Zenon DEF A!Idle, AccRequests, A!Steps
<1> QED
    BY <1>2, Zenon DEF AccRequestOK, Federated

\* Rows are only added: what a request knows of its row stays true.
LEMMA AccStep ==
    ASSUME AccInv, NEW r \in Slots, NEW q \in AccRequests, AccOthers(r, q),
           users' \in Seq(AccRows), OwnersDiffer(users'), Len(users) <= Len(users'),
           \A u \in 1..Len(users) : users'[u] = users[u],
           AccRequestOK(q)'
    PROVE  AccInv'
<1>1. ASSUME NEW s \in Slots
      PROVE  AccRequestOK(accReq[s])'
  <2>1. CASE s = r
    BY <2>1, Zenon DEF AccOthers
  <2>2. CASE s # r
    <3>1. PICK p : p = accReq[s] /\ AccRequestOK(p) /\ accReq'[s] = p
      BY <2>2, Zenon DEF AccInv, AccOthers
    <3>2. Len(users) \in Nat /\ Len(users') \in Nat
      BY DEF AccInv
    <3>3. AccRequestOK(p)'
      BY <3>1, <3>2 DEF AccRequestOK
    <3> QED
      BY <3>1, <3>3, Zenon
  <2> QED
    BY <2>1, <2>2, Zenon
<1> QED
    BY <1>1, Zenon DEF AccInv, AccOthers

\* Steps that insert no row.
LEMMA AccQuiet ==
    ASSUME AccInv, NEW r \in Slots, NEW q \in AccRequests, accReq' = [accReq EXCEPT ![r] = q],
           users' = users, AccRequestOK(q)
    PROVE  AccInv'
<1>1. AccOthers(r, q)
    BY AccEffect, Zenon
<1>2. Len(users) \in Nat /\ users' \in Seq(AccRows) /\ OwnersDiffer(users')
    BY DEF AccInv
<1>3. AccRequestOK(q)'
    BY Zenon DEF AccRequestOK
<1> QED
    BY <1>1, <1>2, <1>3, AccStep

\* A request is answered and its slot is free again.
LEMMA AccReturn ==
    ASSUME AccInv, NEW r \in Slots, A!Return(r), users' = users
    PROVE  AccInv'
BY AccIdle, AccQuiet, Zenon DEF A!Return

\* A request goes on to another step.
LEMMA AccGoto ==
    ASSUME AccInv, NEW r \in Slots, NEW step \in A!Steps, A!Goto(r, step), users' = users,
           step \in Federated => accReq[r].op = "callback",
           step # "discovery", accReq[r].again => step \in {"uuid", "name", "mail"},
           accReq[r].own # 0 => step \in {"getstate", "delstate", "exchange", "uuid"}
    PROVE  AccInv'
<1>1. PICK p : p = accReq[r]
    BY Zenon
<1>2. p \in AccRequests /\ AccRequestOK(p) /\ accReq \in [Slots -> AccRequests]
    BY <1>1, Zenon DEF AccInv
<1>3. PICK q : q = [p EXCEPT !.pc = step]
    BY Zenon
<1>4. /\ q \in AccRequests /\ q.pc = step /\ q.op = p.op /\ q.identity = p.identity
      /\ q.again = p.again /\ q.own = p.own
    BY <1>2, <1>3, Zenon DEF AccRequests
<1>5. accReq' = [accReq EXCEPT ![r] = q]
    BY <1>1, <1>2, <1>3, Zenon DEF A!Goto
<1>6. AccRequestOK(q)
    BY <1>1, <1>2, <1>4, Zenon DEF AccRequestOK
<1> QED
    BY <1>4, <1>5, <1>6, AccQuiet, Zenon

\* INSERT INTO users keeps the key of user_uuid unique.
LEMMA AccInsert ==
    ASSUME AccInv, NEW row \in AccRows, A!Insert(row)
    PROVE  /\ users' \in Seq(AccRows) /\ OwnersDiffer(users') /\ Len(users) <= Len(users')
           /\ \A u \in 1..Len(users) : users'[u] = users[u]
<1>1. users \in Seq(AccRows) /\ Len(users) \in Nat
    BY DEF AccInv
<1>2. users' = Append(users, row)
    BY Zenon DEF A!Insert
<1>3. /\ users' \in Seq(AccRows) /\ Len(users') = Len(users) + 1 /\ users'[Len(users) + 1] = row
      /\ \A u \in 1..Len(users) : users'[u] = users[u]
    BY <1>1, <1>2
<1>4. \A u \in 1..Len(users) : users[u].owner = row.owner => row.owner = A!Local
    BY Zenon DEF A!Insert, A!Conflicts, A!Ids
<1>5. ASSUME NEW u \in DOMAIN users', NEW v \in DOMAIN users',
             users'[u].owner = users'[v].owner, users'[u].owner # A!Local
      PROVE  u = v
  <2>1. u \in 1..(Len(users) + 1) /\ v \in 1..(Len(users) + 1)
    BY <1>3
  <2>2. CASE u \in 1..Len(users) /\ v \in 1..Len(users)
    BY <1>1, <1>3, <1>5, <2>2 DEF AccInv, OwnersDiffer
  <2>3. CASE u \in 1..Len(users) /\ v = Len(users) + 1
    BY <1>3, <1>4, <1>5, <2>3, Zenon
  <2>4. CASE v \in 1..Len(users) /\ u = Len(users) + 1
    BY <1>3, <1>4, <1>5, <2>4, Zenon
  <2> QED
    BY <1>1, <2>1, <2>2, <2>3, <2>4
<1> QED
    BY <1>1, <1>3, <1>5 DEF OwnersDiffer

\* What can arrive: a registration, a first visit, or a callback, which notes
\* the row its identity has.
LEMMA AccArrive ==
    ASSUME AccInv, NEW r \in Slots, (\E f \in Forms : A!Register(r, f)) \/ A!Authenticate(r)
    PROVE  AccInv'
<1>1. ASSUME NEW q \in AccRequests, AccRequestOK(q), A!Begin(r, q)
      PROVE  AccInv'
    BY <1>1, AccQuiet, Zenon DEF A!Begin
<1>2. ASSUME NEW f \in Forms, A!Register(r, f)
      PROVE  AccInv'
  <2>1. PICK n \in AccNames \X Nat, m \in AccEmails : n = <<f.username, 0>> /\ m = f.email
    BY Zenon DEF AccNames, AccEmails
  <2>2. PICK q : q = [A!Idle EXCEPT !.pc = "username", !.op = "register", !.username = n, !.email = m]
    BY Zenon
  <2>3. /\ q \in AccRequests /\ q.pc = "username" /\ q.op = "register" /\ q.again = FALSE /\ q.own = 0
    BY <2>2, AccIdle, Zenon DEF AccRequests, A!Steps
  <2>4. A!Begin(r, q)
    BY <1>2, <2>1, <2>2, Zenon DEF A!Register
  <2> QED
    BY <1>1, <2>3, <2>4, Zenon DEF AccRequestOK, Federated
<1>3. ASSUME NEW step \in {"begin", "discovery"}, A!Begin(r, [A!Idle EXCEPT !.pc = step, !.op = "begin"])
      PROVE  AccInv'
  <2>1. PICK q : q = [A!Idle EXCEPT !.pc = step, !.op = "begin"]
    BY Zenon
  <2>2. /\ q \in AccRequests /\ q.pc = step /\ q.op = "begin" /\ q.again = FALSE /\ q.own = 0
    BY <2>1, AccIdle, Zenon DEF AccRequests, A!Steps
  <2> QED
    BY <1>1, <1>3, <2>1, <2>2, Zenon DEF AccRequestOK, Federated
<1>4. ASSUME NEW step \in {"getstate", "discovery"}, NEW s \in States, NEW i \in Identities,
             A!Begin(r, [A!Idle EXCEPT !.pc = step, !.op = "callback", !.state = s,
                                       !.identity = i, !.own = A!OwnRow(i)])
      PROVE  AccInv'
  <2>1. PICK k \in Nat : k = A!OwnRow(i) /\ (k # 0 => k \in 1..Len(users) /\ users[k].owner = i)
    BY OwnRowFacts, Zenon DEF AccInv
  <2>2. PICK q : q = [A!Idle EXCEPT !.pc = step, !.op = "callback", !.state = s,
                                    !.identity = i, !.own = k]
    BY Zenon
  <2>3. /\ q \in AccRequests /\ q.pc = step /\ q.op = "callback" /\ q.identity = i
        /\ q.again = FALSE /\ q.own = k
    BY <2>2, AccIdle, Zenon DEF AccRequests, A!Steps
  <2>4. A!Begin(r, q)
    BY <1>4, <2>1, <2>2, Zenon
  <2>5. AccRequestOK(q)
    BY <2>1, <2>3, Zenon DEF AccRequestOK
  <2> QED
    BY <1>1, <2>3, <2>4, <2>5, Zenon
<1> QED
    BY <1>2, <1>3, <1>4, Zenon DEF A!Authenticate

\* Registration.
LEMMA AccRegistration ==
    ASSUME AccountsData, AccInv, NEW r \in Slots,
           A!ExistingByUsername(r) \/ A!ExistingByEmail(r) \/ A!CreateRegistered(r)
    PROVE  AccInv'
<1>1. accReq[r] \in AccRequests /\ AccRequestOK(accReq[r])
    BY Zenon DEF AccInv
<1>2. CASE A!ExistingByUsername(r) \/ A!ExistingByEmail(r)
  <2>1. accReq[r].pc \in {"username", "email"} /\ users' = users
    BY <1>2, Zenon DEF A!ExistingByUsername, A!ExistingByEmail, A!At, A!stores
  <2>2. A!Return(r) \/ A!Goto(r, "email") \/ A!Goto(r, "insert")
    BY <1>2, Zenon DEF A!ExistingByUsername, A!ExistingByEmail
  <2>3. ~accReq[r].again /\ accReq[r].own = 0
    BY <1>1, <2>1, Zenon DEF AccRequestOK
  <2>4. "email" \in A!Steps \ Federated /\ "insert" \in A!Steps \ Federated
    BY Zenon DEF A!Steps, Federated
  <2> QED
    BY <2>1, <2>2, <2>3, <2>4, AccReturn, AccGoto, Zenon
<1>3. CASE A!CreateRegistered(r)
  <2>1. PICK row : row = [owner |-> A!Local, username |-> accReq[r].username, email |-> accReq[r].email]
    BY Zenon
  <2>2. row \in AccRows
    <3>1. accReq[r].username \in AccNames \X Nat /\ accReq[r].email \in AccEmails
      BY <1>1, Zenon DEF AccRequests
    <3>2. row \in [owner : Identities \cup {A!Local}, username : AccNames \X Nat, email : AccEmails]
      BY <2>1, <3>1, Zenon
    <3> QED
      BY <3>2, Zenon DEF AccRows
  <2>3. A!Return(r) /\ (A!Insert(row) \/ users' = users)
    BY <1>3, <2>1, Zenon DEF A!CreateRegistered
  <2>4. CASE A!Insert(row)
    <3>1. AccOthers(r, A!Idle)
      BY <2>3, AccIdle, AccEffect, Zenon DEF A!Return
    <3>2. AccRequestOK(A!Idle)'
      BY AccIdle, Zenon DEF AccRequestOK
    <3> QED
      BY <2>2, <2>4, <3>1, <3>2, AccIdle, AccInsert, AccStep, Zenon
  <2> QED
    BY <2>3, <2>4, AccReturn, Zenon
<1> QED
    BY <1>2, <1>3, Zenon

\* The way to the provider and back.
LEMMA AccUpstream ==
    ASSUME AccInv, NEW r \in Slots,
           \/ A!LoadDiscovery(r) \/ A!BeginAuthentication(r) \/ A!GetState(r)
           \/ A!DeleteState(r) \/ A!ExchangeCode(r) \/ A!CreateSession(r) \/ A!CallFails(r)
    PROVE  AccInv'
<1>1. accReq[r] \in AccRequests /\ AccRequestOK(accReq[r])
    BY Zenon DEF AccInv
<1>2. users' = users
    BY Zenon DEF A!LoadDiscovery, A!BeginAuthentication, A!GetState, A!DeleteState, A!ExchangeCode,
           A!CreateSession, A!CallFails, A!stores
<1>3. CASE A!Return(r)
    BY <1>2, <1>3, AccReturn, Zenon
<1>4. {"begin", "getstate", "delstate", "exchange", "uuid"} \subseteq A!Steps /\ "begin" \notin Federated
    BY Zenon DEF A!Steps, Federated
<1>5. CASE A!LoadDiscovery(r)
  <2>1. /\ accReq[r].pc = "discovery"
        /\ \/ accReq[r].op = "begin" /\ A!Goto(r, "begin")
           \/ accReq[r].op # "begin" /\ A!Goto(r, "getstate")
    BY <1>5, Zenon DEF A!LoadDiscovery, A!At
  <2>2. ~accReq[r].again /\ accReq[r].op \in {"begin", "callback"} /\ (accReq[r].own # 0 => accReq[r].op = "callback")
    BY <1>1, <2>1, Zenon DEF AccRequestOK
  <2> QED
    BY <1>2, <1>4, <2>1, <2>2, AccGoto, Zenon
<1>6. ASSUME NEW step \in {"delstate", "exchange", "uuid"}, A!Goto(r, step),
             accReq[r].pc \in {"getstate", "delstate", "exchange"}
      PROVE  AccInv'
  <2>1. ~accReq[r].again /\ accReq[r].op = "callback"
    BY <1>1, <1>6, Zenon DEF AccRequestOK, Federated
  <2>2. step \in A!Steps
    BY <1>4, Zenon
  <2> QED
    BY <1>2, <1>6, <2>1, <2>2, AccGoto, Zenon
<1> QED
    BY <1>3, <1>5, <1>6, Zenon DEF A!BeginAuthentication, A!GetState, A!DeleteState, A!ExchangeCode,
                            A!CreateSession, A!CallFails, A!At

\* The account is resolved.
LEMMA AccResolved ==
    ASSUME AccInv, NEW r \in Slots, NEW u \in Nat, NEW q \in AccRequests,
           q = [accReq[r] EXCEPT !.pc = "session", !.user = u],
           accReq[r].op = "callback", accReq[r].own # 0 => u = accReq[r].own
    PROVE  AccRequestOK(q)
<1>1. accReq[r] \in AccRequests /\ AccRequestOK(accReq[r])
    BY Zenon DEF AccInv
<1>2. /\ q.pc = "session" /\ q.user = u /\ q.op = accReq[r].op /\ q.identity = accReq[r].identity
      /\ q.own = accReq[r].own
    BY <1>1, Zenon DEF AccRequests
<1> QED
    BY <1>1, <1>2, Zenon DEF AccRequestOK

\* Resolved: the request goes on to its session with the account found.
LEMMA ResolvedEffect ==
    ASSUME AccInv, NEW r \in Slots, NEW u \in Nat, A!Resolved(r, u)
    PROVE  \E q \in AccRequests : /\ q = [accReq[r] EXCEPT !.pc = "session", !.user = u]
                                  /\ accReq' = [accReq EXCEPT ![r] = q]
<1>1. accReq[r] \in AccRequests /\ accReq \in [Slots -> AccRequests] /\ "session" \in A!Steps
    BY Zenon DEF AccInv, A!Steps
<1>2. PICK q : q = [accReq[r] EXCEPT !.pc = "session", !.user = u]
    BY Zenon
<1>3. q \in AccRequests
    BY <1>1, <1>2, Zenon DEF AccRequests
<1>4. accReq' = [accReq EXCEPT ![r] = q]
    BY <1>1, <1>2, Zenon DEF A!Resolved, AccRequests
<1> QED
    BY <1>2, <1>3, <1>4, Zenon

\* resolveExistingUser: the uuid first, and it is enough.
LEMMA AccFinds ==
    ASSUME AccountsData, AccInv, NEW r \in Slots,
           A!FindByUserUUID(r) \/ A!FindByUsername(r) \/ A!FindByEmail(r)
    PROVE  AccInv'
<1>1. accReq[r] \in AccRequests /\ AccRequestOK(accReq[r]) /\ users' = users
    BY Zenon DEF AccInv, A!FindByUserUUID, A!FindByUsername, A!FindByEmail, A!stores
<1>2. accReq[r].pc \in {"uuid", "name", "mail"}
    BY Zenon DEF A!FindByUserUUID, A!FindByUsername, A!FindByEmail, A!At
<1>3. accReq[r].op = "callback" /\ accReq[r].identity \in Identities
    BY <1>1, <1>2, Zenon DEF AccRequestOK, Federated
<1>4. {"name", "mail", "allocate"} \subseteq A!Steps
    BY Zenon DEF A!Steps
<1>5. ASSUME NEW u \in Nat, A!Resolved(r, u), accReq[r].own # 0 => u = accReq[r].own
      PROVE  AccInv'
  <2>1. \E q \in AccRequests : /\ q = [accReq[r] EXCEPT !.pc = "session", !.user = u]
                               /\ accReq' = [accReq EXCEPT ![r] = q]
    <3>1. A!Resolved(r, u)
      BY <1>5, Zenon
    <3> QED
      BY <3>1, ResolvedEffect, Zenon
  <2>2. PICK q \in AccRequests : /\ q = [accReq[r] EXCEPT !.pc = "session", !.user = u]
                                 /\ accReq' = [accReq EXCEPT ![r] = q]
    BY <2>1, Zenon
  <2>3. AccRequestOK(q)
    BY <1>3, <1>5, <2>2, AccResolved, Zenon
  <2> QED
    BY <1>1, <2>2, <2>3, AccQuiet, Zenon
<1>6. CASE A!FindByUserUUID(r)
  <2>1. PICK u \in A!Finds(LAMBDA row : row.owner = accReq[r].identity) :
            IF u # 0 THEN A!Resolved(r, u) ELSE A!Goto(r, "name")
    BY <1>6, Zenon DEF A!FindByUserUUID
  <2>2. /\ u \in Nat
        /\ u # 0 => u \in 1..Len(users) /\ users[u].owner = accReq[r].identity
        /\ u = 0 => \A v \in 1..Len(users) : users[v].owner # accReq[r].identity
    BY FindsOwner, Zenon
  <2>3. accReq[r].own # 0 => accReq[r].own \in 1..Len(users) /\ users[accReq[r].own].owner = accReq[r].identity
    BY <1>1, Zenon DEF AccRequestOK
  <2>4. accReq[r].own # 0 => u = accReq[r].own
    BY <1>3, <2>2, <2>3 DEF AccInv, OwnersDiffer, AccountsData
  <2>5. CASE u # 0
    BY <1>5, <2>1, <2>2, <2>4, <2>5, Zenon
  <2>6. CASE u = 0
    BY <1>1, <1>3, <1>4, <2>1, <2>4, <2>6, AccGoto, Zenon
  <2> QED
    BY <2>5, <2>6, Zenon
<1>7. CASE A!FindByUsername(r)
  <2>1. accReq[r].own = 0
    BY <1>1, <1>7, Zenon DEF AccRequestOK, A!FindByUsername, A!At
  <2>2. PICK u \in A!Finds(LAMBDA row : row.username = <<A!Given(r).username, 0>>) :
            A!Resolved(r, u) \/ A!Goto(r, "mail")
    BY <1>7, Zenon DEF A!FindByUsername
  <2>3. u \in Nat /\ (u # 0 => users[u].username = <<A!Given(r).username, 0>>)
    BY FindsName, Zenon
  <2> QED
    BY <1>1, <1>3, <1>4, <1>5, <2>1, <2>2, <2>3, AccGoto, Zenon
<1>8. CASE A!FindByEmail(r)
  <2>1. accReq[r].own = 0
    BY <1>1, <1>8, Zenon DEF AccRequestOK, A!FindByEmail, A!At
  <2>2. PICK u \in A!Finds(LAMBDA row : row.email = A!Given(r).email) :
            A!Resolved(r, u) \/ A!Return(r) \/ (~accReq[r].again /\ A!Goto(r, "allocate"))
    BY <1>8, Zenon DEF A!FindByEmail
  <2>3. u \in Nat /\ (u # 0 => users[u].email = A!Given(r).email)
    BY FindsEmail, Zenon
  <2> QED
    BY <1>1, <1>3, <1>4, <1>5, <2>1, <2>2, <2>3, AccGoto, AccReturn, Zenon
<1> QED
    BY <1>6, <1>7, <1>8, Zenon

\* allocateFederatedUsername tries the next candidate.
LEMMA AccAllocate ==
    ASSUME AccountsData, AccInv, NEW r \in Slots, A!AllocateFederatedUsername(r)
    PROVE  AccInv'
<1>1. PICK p : p = accReq[r]
    BY Zenon
<1>2. /\ p \in AccRequests /\ AccRequestOK(p) /\ p.pc = "allocate" /\ users' = users
      /\ accReq \in [Slots -> AccRequests]
    BY <1>1, Zenon DEF AccInv, A!AllocateFederatedUsername, A!At, A!stores
<1>3. /\ p.op = "callback" /\ p.identity \in Identities /\ ~p.again /\ p.own = 0
    BY <1>2, Zenon DEF AccRequestOK, Federated
<1>4. PICK n : n = A!Candidate(Claims[p.identity])
    BY Zenon
<1>5. PICK i : i = IF p.username[1] = "" THEN 0 ELSE p.username[2]
    BY Zenon
<1>6. n \in AccNames /\ i \in Nat
  <2>1. p.username \in AccNames \X Nat
    BY <1>2, Zenon DEF AccRequests
  <2> QED
    BY <1>3, <1>4, <1>5, <2>1, Zenon DEF AccNames
<1>7. \/ accReq' = [accReq EXCEPT ![r].pc = "create", ![r].username = <<n, i>>]
      \/ accReq' = [accReq EXCEPT ![r].username = <<n, i + 1>>]
      \/ A!Return(r)
    BY <1>1, <1>4, <1>5, Zenon DEF A!AllocateFederatedUsername, A!Given
<1>8. CASE accReq' = [accReq EXCEPT ![r].pc = "create", ![r].username = <<n, i>>]
  <2>1. PICK m \in AccNames \X Nat : m = <<n, i>>
    BY <1>6, Zenon
  <2>2. PICK q : q = [p EXCEPT !.pc = "create", !.username = m]
    BY Zenon
  <2>3. /\ q \in AccRequests /\ q.pc = "create" /\ q.op = p.op /\ q.identity = p.identity
        /\ q.again = p.again /\ q.own = p.own
    BY <1>2, <2>2, Zenon DEF AccRequests, A!Steps
  <2>4. accReq' = [accReq EXCEPT ![r] = q]
    BY <1>1, <1>2, <1>8, <2>1, <2>2, Zenon DEF AccRequests
  <2> QED
    BY <1>2, <1>3, <2>3, <2>4, AccQuiet, Zenon DEF AccRequestOK
<1>9. CASE accReq' = [accReq EXCEPT ![r].username = <<n, i + 1>>]
  <2> PICK k \in Nat : k = i + 1
    BY <1>6
  <2>1. PICK m \in AccNames \X Nat : m = <<n, k>>
    BY <1>6, Zenon
  <2>2. PICK q : q = [p EXCEPT !.username = m]
    BY Zenon
  <2>3. /\ q \in AccRequests /\ q.pc = p.pc /\ q.op = p.op /\ q.identity = p.identity
        /\ q.again = p.again /\ q.own = p.own
    BY <1>2, <2>2, Zenon DEF AccRequests
  <2>4. accReq' = [accReq EXCEPT ![r] = q]
    BY <1>1, <1>2, <1>9, <2>1, <2>2, Zenon DEF AccRequests
  <2> QED
    BY <1>2, <1>3, <2>3, <2>4, AccQuiet, Zenon DEF AccRequestOK
<1> QED
    BY <1>2, <1>7, <1>8, <1>9, AccReturn, Zenon

\* provisionFederatedUser: the row is inserted, or the account is looked up again.
LEMMA AccCreate ==
    ASSUME AccountsData, AccInv, NEW r \in Slots, A!CreateFederated(r)
    PROVE  AccInv'
<1>1. PICK p : p = accReq[r]
    BY Zenon
<1>2. /\ p \in AccRequests /\ AccRequestOK(p) /\ p.pc = "create" /\ accReq \in [Slots -> AccRequests]
    BY <1>1, Zenon DEF AccInv, A!CreateFederated, A!At
<1>3. /\ p.op = "callback" /\ p.identity \in Identities /\ ~p.again /\ p.own = 0
    BY <1>2, Zenon DEF AccRequestOK, Federated
<1>4. CASE A!Insert(A!NewRow(r)) /\ A!Resolved(r, Len(users) + 1)
  <2>1. PICK row : row = A!NewRow(r)
    BY Zenon
  <2>2. row \in AccRows
    <3>1. PICK m : m = IF A!Given(r).email # A!NoEmail THEN A!Given(r).email
                       ELSE <<accReq[r].identity, "federated.local">>
      BY Zenon
    <3>2. m \in AccEmails
      BY <1>1, <1>3, <3>1, Zenon DEF AccEmails, A!Given
    <3>3. row = [owner |-> p.identity, username |-> p.username, email |-> m]
      BY <1>1, <2>1, <3>1, Zenon DEF A!NewRow
    <3>4. p.identity \in Identities \cup {A!Local} /\ p.username \in AccNames \X Nat
      BY <1>2, Zenon DEF AccRequests
    <3>5. row \in [owner : Identities \cup {A!Local}, username : AccNames \X Nat, email : AccEmails]
      BY <3>2, <3>3, <3>4, Zenon
    <3> QED
      BY <3>5, Zenon DEF AccRows
  <2>3. /\ users' \in Seq(AccRows) /\ OwnersDiffer(users') /\ Len(users) <= Len(users')
        /\ \A u \in 1..Len(users) : users'[u] = users[u]
    BY <1>4, <2>1, <2>2, AccInsert, Zenon
  <2>4. PICK u \in Nat : u = Len(users) + 1
    <3>1. users \in Seq(AccRows)
      BY Zenon DEF AccInv
    <3> QED
      BY <3>1
  <2>5. PICK q \in AccRequests : /\ q = [accReq[r] EXCEPT !.pc = "session", !.user = u]
                                 /\ accReq' = [accReq EXCEPT ![r] = q]
    <3>1. A!Resolved(r, u)
      BY <1>4, <2>4, Zenon
    <3>2. \E q \in AccRequests : /\ q = [accReq[r] EXCEPT !.pc = "session", !.user = u]
                                 /\ accReq' = [accReq EXCEPT ![r] = q]
      BY <3>1, ResolvedEffect, Zenon
    <3> QED
      BY <3>2, Zenon
  <2>6. AccOthers(r, q)
    BY <2>5, AccEffect, Zenon
  <2>7. AccRequestOK(q)'
    <3>1. /\ q.pc = "session" /\ q.op = p.op /\ q.identity = p.identity
          /\ q.again = p.again /\ q.own = p.own
      BY <1>1, <1>2, <2>5, Zenon DEF AccRequests
    <3> QED
      BY <1>3, <3>1, Zenon DEF AccRequestOK
  <2> QED
    BY <2>3, <2>6, <2>7, AccStep, Zenon
<1>5. CASE A!LookupAgain(r) /\ users' = users
  <2>1. PICK k \in Nat : /\ k = A!OwnRow(p.identity)
                         /\ k # 0 => k \in 1..Len(users) /\ users[k].owner = p.identity
    BY OwnRowFacts, Zenon DEF AccInv
  <2>2. PICK q : q = [p EXCEPT !.pc = "uuid", !.again = TRUE, !.own = k]
    BY Zenon
  <2>3. /\ q \in AccRequests /\ q.pc = "uuid" /\ q.op = p.op /\ q.identity = p.identity
        /\ q.again = TRUE /\ q.own = k
    BY <1>2, <2>2, Zenon DEF AccRequests, A!Steps
  <2>4. accReq' = [accReq EXCEPT ![r] = q]
    BY <1>1, <1>2, <1>5, <2>1, <2>2, Zenon DEF A!LookupAgain, AccRequests
  <2>5. AccRequestOK(q)
    BY <1>3, <2>1, <2>3, Zenon DEF AccRequestOK
  <2> QED
    BY <1>5, <2>3, <2>4, <2>5, AccQuiet, Zenon
<1> QED
    BY <1>4, <1>5, Zenon DEF A!CreateFederated

\* The invariant holds throughout.
LEMMA AccInvariant ==
    ASSUME AccountsData
    PROVE  A!Spec => []AccInv
<1>1. ASSUME A!Init
      PROVE  AccInv
  <2>1. users \in Seq(AccRows) /\ OwnersDiffer(users)
    BY <1>1, Zenon DEF A!Init, AccountsData
  <2>2. accReq \in [Slots -> AccRequests] /\ \A r \in Slots : accReq[r] = A!Idle
    BY <1>1, AccIdle, Zenon DEF A!Init
  <2> QED
    BY <2>1, <2>2, AccIdle, Zenon DEF AccInv
<1>2. ASSUME AccInv, [A!Next]_(A!vars)
      PROVE  AccInv'
  <2>1. CASE UNCHANGED A!vars \/ A!Expire
    <3>1. users' = users /\ accReq' = accReq
      BY <2>1, Zenon DEF A!vars, A!Expire
    <3> QED
      BY <1>2, <3>1, Zenon DEF AccInv, AccRequestOK, OwnersDiffer
  <2>2. ASSUME NEW r \in Slots,
               \/ \E f \in Forms : A!Register(r, f)
               \/ A!ExistingByUsername(r) \/ A!ExistingByEmail(r) \/ A!CreateRegistered(r)
               \/ A!Authenticate(r) \/ A!LoadDiscovery(r) \/ A!BeginAuthentication(r)
               \/ A!GetState(r) \/ A!DeleteState(r) \/ A!ExchangeCode(r)
               \/ A!FindByUserUUID(r) \/ A!FindByUsername(r) \/ A!FindByEmail(r)
               \/ A!AllocateFederatedUsername(r) \/ A!CreateFederated(r) \/ A!CreateSession(r)
               \/ A!CallFails(r)
        PROVE  AccInv'
    BY <1>2, <2>2, AccArrive, AccRegistration, AccUpstream, AccFinds, AccAllocate, AccCreate, Zenon
  <2> QED
    BY <1>2, <2>1, <2>2, Zenon DEF A!Next
<1> QED
    BY <1>1, <1>2, PTL DEF A!Spec

\* Whatever other rows carry its name or its email, and however many logins of
\* one identity race for its row, a login whose identity has a row is signed in
\* to that row (resolveExistingUser, provisionFederatedUser).
THEOREM OwnRowIsFound ==
    ASSUME AccountsData
    PROVE  A!Spec => []IdentityFindsItsRow
<1>1. AccInv => IdentityFindsItsRow
    BY Zenon DEF AccInv, AccRequestOK, IdentityFindsItsRow, A!IdentityFindsItsRow, A!At
<1> QED
    BY <1>1, AccInvariant, PTL

-----------------------------------------------------------------------------
(* Keys and bounds of Accounts, with lagging lookups or without. *)

\* The unique keys of the users table, and what its columns hold.
WellKeyed(rows) ==
    /\ \A u \in DOMAIN rows : /\ rows[u].owner \in Identities \cup {A!Local}
                              /\ rows[u].username[2] < MaxCandidates
    /\ \A u, v \in DOMAIN rows : u # v =>
         /\ rows[u].username # rows[v].username
         /\ rows[u].email # rows[v].email
         /\ rows[u].owner # A!Local => rows[u].owner # rows[v].owner

\* The table is well formed at the start.
AccountsBounds ==
    /\ IsFiniteSet(Slots) /\ MaxRequests \in Nat /\ MaxCandidates \in Nat \ {0}
    /\ \A e \in Earlier : e \in Seq(AccRows) /\ WellKeyed(e)

\* A request tries a suffix in range, and has found or created a row.
AccBounded(q) ==
    /\ q.username[2] < MaxCandidates /\ q.user <= Len(users)
    /\ q.op = "callback" => q.identity \in Identities
    /\ q.pc \in Federated => q.op = "callback"
    /\ q.pc = "discovery" => q.op \in {"begin", "callback"}
    /\ q.pc = "session" => q.user # 0

\* A callback that may still consume state s.
Comes(q, s) ==
    q.op = "callback" /\ q.state = s /\ q.pc \in {"discovery", "getstate", "delstate"}

Coming(s) == {r \in Slots : Comes(accReq[r], s)}

\* Each callback consumes its state once at most: those that have and those that
\* still may are as many as have arrived.
Counted == \A s \in States : consumed[s] + Cardinality(Coming(s)) <= accCount

AccTyped ==
    /\ users \in Seq(AccRows) /\ WellKeyed(users)
    /\ accReq \in [Slots -> AccRequests] /\ \A r \in Slots : AccBounded(accReq[r])
    /\ state \in [States -> {"fresh", "saved", "gone"}] /\ metadata \in BOOLEAN
    /\ sessions \subseteq Identities \X (1..Len(users))
    /\ accCount \in 0..MaxRequests /\ consumed \in [States -> Nat] /\ Counted

\* What a lookup of a user answers.
Answers == 0..Len(users)

\* A lookup by user_uuid, also one that lags, answers 0 or a row that matches.
LEMMA OwnerIsId ==
    ASSUME users \in Seq(AccRows), NEW i, NEW u \in A!Finds(LAMBDA row : row.owner = i)
    PROVE  u \in Answers /\ (u # 0 => users[u].owner = i)
<1>1. PICK n \in 0..Len(users) :
        u = IF {w \in 1..n : users[w].owner = i} = {} THEN 0
            ELSE CHOOSE w \in {w \in 1..n : users[w].owner = i} : TRUE
  <2>1. Len(users) \in 0..Len(users)
    OBVIOUS
  <2>2. CASE StaleReads
    <3>1. u \in {IF {w \in 1..n : users[w].owner = i} = {} THEN 0
                 ELSE CHOOSE w \in {w \in 1..n : users[w].owner = i} : TRUE : n \in 0..Len(users)}
      BY <2>2, Zenon DEF A!Finds
    <3> QED
      BY <3>1, Zenon
  <2>3. CASE ~StaleReads
    <3>1. u = IF {w \in 1..Len(users) : users[w].owner = i} = {} THEN 0
              ELSE CHOOSE w \in {w \in 1..Len(users) : users[w].owner = i} : TRUE
      BY <2>3, Zenon DEF A!Finds
    <3> QED
      BY <2>1, <3>1, Zenon
  <2> QED
    BY <2>2, <2>3, Zenon
<1>2. u = 0 \/ (u \in 1..n /\ users[u].owner = i)
    BY <1>1, Zenon
<1> QED
    BY <1>2 DEF Answers

\* So does one by username.
LEMMA NameIsId ==
    ASSUME users \in Seq(AccRows), NEW i, NEW u \in A!Finds(LAMBDA row : row.username = i)
    PROVE  u \in Answers /\ (u # 0 => users[u].username = i)
<1>1. PICK n \in 0..Len(users) :
        u = IF {w \in 1..n : users[w].username = i} = {} THEN 0
            ELSE CHOOSE w \in {w \in 1..n : users[w].username = i} : TRUE
  <2>1. Len(users) \in 0..Len(users)
    OBVIOUS
  <2>2. CASE StaleReads
    <3>1. u \in {IF {w \in 1..n : users[w].username = i} = {} THEN 0
                 ELSE CHOOSE w \in {w \in 1..n : users[w].username = i} : TRUE : n \in 0..Len(users)}
      BY <2>2, Zenon DEF A!Finds
    <3> QED
      BY <3>1, Zenon
  <2>3. CASE ~StaleReads
    <3>1. u = IF {w \in 1..Len(users) : users[w].username = i} = {} THEN 0
              ELSE CHOOSE w \in {w \in 1..Len(users) : users[w].username = i} : TRUE
      BY <2>3, Zenon DEF A!Finds
    <3> QED
      BY <2>1, <3>1, Zenon
  <2> QED
    BY <2>2, <2>3, Zenon
<1>2. u = 0 \/ (u \in 1..n /\ users[u].username = i)
    BY <1>1, Zenon
<1> QED
    BY <1>2 DEF Answers

\* And one by email.
LEMMA EmailIsId ==
    ASSUME users \in Seq(AccRows), NEW i, NEW u \in A!Finds(LAMBDA row : row.email = i)
    PROVE  u \in Answers /\ (u # 0 => users[u].email = i)
<1>1. PICK n \in 0..Len(users) :
        u = IF {w \in 1..n : users[w].email = i} = {} THEN 0
            ELSE CHOOSE w \in {w \in 1..n : users[w].email = i} : TRUE
  <2>1. Len(users) \in 0..Len(users)
    OBVIOUS
  <2>2. CASE StaleReads
    <3>1. u \in {IF {w \in 1..n : users[w].email = i} = {} THEN 0
                 ELSE CHOOSE w \in {w \in 1..n : users[w].email = i} : TRUE : n \in 0..Len(users)}
      BY <2>2, Zenon DEF A!Finds
    <3> QED
      BY <3>1, Zenon
  <2>3. CASE ~StaleReads
    <3>1. u = IF {w \in 1..Len(users) : users[w].email = i} = {} THEN 0
              ELSE CHOOSE w \in {w \in 1..Len(users) : users[w].email = i} : TRUE
      BY <2>3, Zenon DEF A!Finds
    <3> QED
      BY <2>1, <3>1, Zenon
  <2> QED
    BY <2>2, <2>3, Zenon
<1>2. u = 0 \/ (u \in 1..n /\ users[u].email = i)
    BY <1>1, Zenon
<1> QED
    BY <1>2 DEF Answers

\* The callbacks that may still consume a state: one step adds or removes one.
LEMMA ComingStep ==
    ASSUME IsFiniteSet(Slots), NEW r \in Slots, NEW q, NEW s,
           accReq \in [Slots -> AccRequests], accReq' = [accReq EXCEPT ![r] = q]
    PROVE  /\ Cardinality(Coming(s)) \in Nat /\ Cardinality(Coming(s)') \in Nat
           /\ Cardinality(Coming(s)') <= Cardinality(Coming(s)) + 1
           /\ (Comes(q, s) => Comes(accReq[r], s)) => Cardinality(Coming(s)') <= Cardinality(Coming(s))
           /\ ~Comes(q, s) /\ Comes(accReq[r], s)
              => Cardinality(Coming(s)') = Cardinality(Coming(s)) - 1
<1>1. accReq'[r] = q /\ \A t \in Slots : t # r => accReq'[t] = accReq[t]
    BY Zenon
<1>2. /\ Coming(s)' \subseteq Coming(s) \cup {r}
      /\ (Comes(q, s) => Comes(accReq[r], s)) => Coming(s)' \subseteq Coming(s)
      /\ ~Comes(q, s) /\ Comes(accReq[r], s) => Coming(s)' = Coming(s) \ {r} /\ r \in Coming(s)
    BY <1>1, Zenon DEF Coming, Comes
<1> PICK C, D : C = Coming(s) /\ D = Coming(s)'
    BY Zenon
<1>3. IsFiniteSet(C) /\ IsFiniteSet(D) /\ IsFiniteSet(C \cup {r})
  <2>1. C \subseteq Slots /\ D \subseteq Slots
    BY Zenon DEF Coming
  <2> QED
    BY <2>1, FS_Subset, FS_AddElement, Zenon
<1>4. Cardinality(C) \in Nat /\ Cardinality(D) \in Nat
    BY <1>3, FS_CardinalityType, Zenon
<1>5. Cardinality(C \cup {r}) \in {Cardinality(C), Cardinality(C) + 1}
    BY <1>3, FS_AddElement, Zenon
<1>6. Cardinality(D) <= Cardinality(C \cup {r})
    BY <1>2, <1>3, FS_Subset, Zenon
<1>7. D \subseteq C => Cardinality(D) <= Cardinality(C)
    BY <1>3, FS_Subset, Zenon
<1>8. r \in C /\ D = C \ {r} => Cardinality(D) = Cardinality(C) - 1
    BY <1>3, FS_RemoveElement, Zenon
<1>9. Cardinality(D) <= Cardinality(C) + 1
    BY <1>4, <1>5, <1>6
<1> QED
    BY <1>2, <1>4, <1>7, <1>8, <1>9, Zenon

\* Rows are only added: what the other requests hold stays in range.
LEMMA TypedStep ==
    ASSUME AccTyped, NEW r \in Slots, NEW q \in AccRequests, accReq' = [accReq EXCEPT ![r] = q],
           users' \in Seq(AccRows), WellKeyed(users'), Len(users) <= Len(users'), AccBounded(q)',
           state' \in [States -> {"fresh", "saved", "gone"}], metadata' \in BOOLEAN,
           sessions' \subseteq Identities \X (1..Len(users')),
           accCount' \in 0..MaxRequests, consumed' \in [States -> Nat], Counted'
    PROVE  AccTyped'
<1>1. accReq' \in [Slots -> AccRequests] /\ accReq'[r] = q /\ \A s \in Slots : s # r => accReq'[s] = accReq[s]
    BY Zenon DEF AccTyped
<1>2. ASSUME NEW s \in Slots, s # r
      PROVE  AccBounded(accReq[s])'
  <2>1. PICK p \in AccRequests : p = accReq[s] /\ AccBounded(p) /\ accReq'[s] = p
    BY <1>1, <1>2, Zenon DEF AccTyped
  <2>2. p.user \in Nat /\ p.user <= Len(users) /\ users \in Seq(AccRows)
    BY <2>1, Zenon DEF AccTyped, AccRequests, AccBounded
  <2>3. p.user <= Len(users')
    BY <2>2
  <2>4. AccBounded(p)'
    BY <2>1, <2>3, Zenon DEF AccBounded
  <2> QED
    BY <2>1, <2>4, Zenon
<1>3. \A s \in Slots : AccBounded(accReq[s])'
    BY <1>1, <1>2, Zenon
<1> QED
    BY <1>1, <1>3, Zenon DEF AccTyped

\* A step that neither lets a callback in nor consumes a state.
LEMMA TypedMove ==
    ASSUME AccountsBounds, AccTyped, NEW r \in Slots, NEW q \in AccRequests,
           accReq' = [accReq EXCEPT ![r] = q],
           users' \in Seq(AccRows), WellKeyed(users'), Len(users) <= Len(users'), AccBounded(q)',
           state' \in [States -> {"fresh", "saved", "gone"}], metadata' \in BOOLEAN,
           sessions' \subseteq Identities \X (1..Len(users')),
           UNCHANGED <<accCount, consumed>>,
           \A s \in States : Comes(q, s) => Comes(accReq[r], s)
    PROVE  AccTyped'
<1>1. ASSUME NEW s \in States
      PROVE  consumed'[s] + Cardinality(Coming(s)') <= accCount'
  <2>1. /\ Cardinality(Coming(s)) \in Nat /\ Cardinality(Coming(s)') \in Nat
        /\ Cardinality(Coming(s)') <= Cardinality(Coming(s))
    BY ComingStep, Zenon DEF AccTyped, AccountsBounds
  <2>2. consumed[s] + Cardinality(Coming(s)) <= accCount /\ consumed'[s] = consumed[s] /\ consumed[s] \in Nat
        /\ accCount' = accCount
    BY Zenon DEF AccTyped, Counted
  <2>3. accCount \in Nat
    BY DEF AccTyped, AccountsBounds
  <2> QED
    BY <2>1, <2>2, <2>3
<1>2. Counted'
    BY <1>1, Zenon DEF Counted
<1>3. accCount' \in 0..MaxRequests /\ consumed' \in [States -> Nat]
    BY Zenon DEF AccTyped
<1> QED
    BY <1>2, <1>3, TypedStep, Zenon

\* One that adds no row and no session either.
LEMMA TypedQuiet ==
    ASSUME AccountsBounds, AccTyped, NEW r \in Slots, NEW q \in AccRequests,
           accReq' = [accReq EXCEPT ![r] = q], AccBounded(q),
           state' \in [States -> {"fresh", "saved", "gone"}], metadata' \in BOOLEAN,
           UNCHANGED <<users, sessions, accCount, consumed>>,
           \A s \in States : Comes(q, s) => Comes(accReq[r], s)
    PROVE  AccTyped'
<1>1. /\ users' \in Seq(AccRows) /\ WellKeyed(users')
      /\ sessions' \subseteq Identities \X (1..Len(users')) /\ AccBounded(q)'
    BY Zenon DEF AccTyped, AccBounded
<1>2. Len(users) <= Len(users')
    BY DEF AccTyped
<1> QED
    BY <1>1, <1>2, TypedMove, Zenon

\* The free slot holds nothing.
LEMMA TypedIdle ==
    ASSUME AccountsBounds, users \in Seq(AccRows)
    PROVE  /\ A!Idle \in AccRequests /\ AccBounded(A!Idle) /\ \A s : ~Comes(A!Idle, s)
           /\ A!Idle.username = <<"", 0>> /\ A!Idle.user = 0 /\ A!Idle.op = "none"
<1>1. /\ A!Idle \in AccRequests /\ A!Idle.pc = "idle" /\ A!Idle.op = "none"
      /\ A!Idle.username = <<"", 0>> /\ A!Idle.user = 0
    BY AccIdle, Zenon DEF A!Idle
<1>2. A!Idle.username[2] < MaxCandidates /\ A!Idle.user <= Len(users)
  <2>1. 0 < MaxCandidates /\ 0 <= Len(users)
    BY DEF AccountsBounds
  <2>2. <<"", 0>>[2] = 0
    OBVIOUS
  <2> QED
    BY <1>1, <2>1, <2>2, Zenon
<1>3. AccBounded(A!Idle)
    BY <1>1, <1>2, Zenon DEF AccBounded, Federated
<1> QED
    BY <1>1, <1>3, Zenon DEF Comes

\* A request is answered and its slot is free again.
LEMMA TypedReturn ==
    ASSUME AccountsBounds, AccTyped, NEW r \in Slots, A!Return(r),
           state' \in [States -> {"fresh", "saved", "gone"}], metadata' \in BOOLEAN,
           UNCHANGED <<users, sessions, accCount, consumed>>
    PROVE  AccTyped'
<1>1. A!Idle \in AccRequests /\ AccBounded(A!Idle) /\ \A s : ~Comes(A!Idle, s)
    BY TypedIdle, Zenon DEF AccTyped
<1> QED
    BY <1>1, TypedQuiet, Zenon DEF A!Return

\* A request goes on to another step.
LEMMA TypedGoto ==
    ASSUME AccountsBounds, AccTyped, NEW r \in Slots, NEW step \in A!Steps, A!Goto(r, step),
           state' = state, metadata' \in BOOLEAN, UNCHANGED <<users, sessions, accCount, consumed>>,
           step \in Federated => accReq[r].op = "callback", step \notin {"discovery", "session"},
           step \in {"getstate", "delstate"} => accReq[r].pc \in {"discovery", "getstate", "delstate"}
    PROVE  AccTyped'
<1>1. PICK p : p = accReq[r]
    BY Zenon
<1>2. p \in AccRequests /\ AccBounded(p) /\ accReq \in [Slots -> AccRequests]
    BY <1>1, Zenon DEF AccTyped
<1>3. PICK q : q = [p EXCEPT !.pc = step]
    BY Zenon
<1>4. /\ q \in AccRequests /\ q.pc = step /\ q.op = p.op /\ q.identity = p.identity /\ q.state = p.state
      /\ q.username = p.username /\ q.user = p.user
    BY <1>2, <1>3, Zenon DEF AccRequests
<1>5. accReq' = [accReq EXCEPT ![r] = q]
    BY <1>1, <1>2, <1>3, Zenon DEF A!Goto
<1>6. AccBounded(q)
    BY <1>1, <1>2, <1>4, Zenon DEF AccBounded
<1>7. \A s \in States : Comes(q, s) => Comes(accReq[r], s)
    BY <1>1, <1>4, Zenon DEF Comes
<1>8. state' \in [States -> {"fresh", "saved", "gone"}]
    BY Zenon DEF AccTyped
<1> QED
    BY <1>4, <1>5, <1>6, <1>7, <1>8, TypedQuiet, Zenon

\* INSERT INTO users keeps the unique keys.
LEMMA TypedInsert ==
    ASSUME AccTyped, NEW row \in AccRows, A!Insert(row),
           row.owner \in Identities \cup {A!Local}, row.username[2] < MaxCandidates
    PROVE  /\ users' \in Seq(AccRows) /\ WellKeyed(users') /\ Len(users) <= Len(users')
           /\ Len(users') = Len(users) + 1
<1>1. users \in Seq(AccRows) /\ Len(users) \in Nat /\ DOMAIN users = 1..Len(users)
    BY DEF AccTyped
<1>2. users' = Append(users, row)
    BY Zenon DEF A!Insert
<1>3. /\ users' \in Seq(AccRows) /\ Len(users') = Len(users) + 1 /\ users'[Len(users) + 1] = row
      /\ \A u \in 1..Len(users) : users'[u] = users[u]
      /\ DOMAIN users' = 1..(Len(users) + 1)
    BY <1>1, <1>2
<1>4. \A u \in 1..Len(users) : /\ users[u].username # row.username /\ users[u].email # row.email
                               /\ users[u].owner = row.owner => row.owner = A!Local
    BY Zenon DEF A!Insert, A!Conflicts, A!Ids
<1>5. \A u \in DOMAIN users' : u \in 1..Len(users) \/ u = Len(users) + 1
    BY <1>1, <1>3
<1>6. \A u \in 1..Len(users) : users[u].owner \in Identities \cup {A!Local} /\ users[u].username[2] < MaxCandidates
    BY <1>1, Zenon DEF AccTyped, WellKeyed
<1>7. \A u, v \in 1..Len(users) : u # v =>
         /\ users[u].username # users[v].username /\ users[u].email # users[v].email
         /\ users[u].owner # A!Local => users[u].owner # users[v].owner
    BY <1>1, Zenon DEF AccTyped, WellKeyed
<1>8. \A u \in DOMAIN users' : users'[u].owner \in Identities \cup {A!Local} /\ users'[u].username[2] < MaxCandidates
    BY <1>3, <1>5, <1>6, Zenon
<1>9. ASSUME NEW u \in DOMAIN users', NEW v \in DOMAIN users', u # v
      PROVE  /\ users'[u].username # users'[v].username /\ users'[u].email # users'[v].email
             /\ users'[u].owner # A!Local => users'[u].owner # users'[v].owner
  <2>1. CASE u \in 1..Len(users) /\ v \in 1..Len(users)
    BY <1>3, <1>7, <1>9, <2>1, Zenon
  <2>2. CASE u \in 1..Len(users) /\ v = Len(users) + 1
    BY <1>3, <1>4, <2>2, Zenon
  <2>3. CASE v \in 1..Len(users) /\ u = Len(users) + 1
    BY <1>3, <1>4, <2>3, Zenon
  <2> QED
    BY <1>5, <1>9, <2>1, <2>2, <2>3, Zenon
<1>10. WellKeyed(users')
    BY <1>8, <1>9, Zenon DEF WellKeyed
<1>11. Len(users) <= Len(users')
    BY <1>1, <1>3
<1> QED
    BY <1>3, <1>10, <1>11, Zenon

\* A request arrives and is counted.
LEMMA TypedBegin ==
    ASSUME AccountsBounds, AccTyped, NEW r \in Slots, NEW q \in AccRequests, AccBounded(q), A!Begin(r, q)
    PROVE  AccTyped'
<1>1. /\ accReq' = [accReq EXCEPT ![r] = q] /\ UNCHANGED <<users, state, metadata, sessions, consumed>>
      /\ accCount < MaxRequests /\ accCount' = accCount + 1
    BY Zenon DEF A!Begin
<1>2. ASSUME NEW s \in States
      PROVE  consumed'[s] + Cardinality(Coming(s)') <= accCount'
  <2>1. /\ Cardinality(Coming(s)) \in Nat /\ Cardinality(Coming(s)') \in Nat
        /\ Cardinality(Coming(s)') <= Cardinality(Coming(s)) + 1
    BY <1>1, ComingStep, Zenon DEF AccTyped, AccountsBounds
  <2>2. consumed[s] + Cardinality(Coming(s)) <= accCount /\ consumed'[s] = consumed[s] /\ consumed[s] \in Nat
    BY <1>1, Zenon DEF AccTyped, Counted
  <2>3. accCount \in Nat
    BY DEF AccTyped, AccountsBounds
  <2> QED
    BY <1>1, <2>1, <2>2, <2>3
<1>3. accCount' \in 0..MaxRequests /\ Len(users) <= Len(users')
    BY <1>1 DEF AccTyped, AccountsBounds
<1>4. Counted' /\ AccBounded(q)'
    BY <1>1, <1>2, Zenon DEF Counted, AccBounded
<1>5. /\ users' \in Seq(AccRows) /\ WellKeyed(users')
      /\ state' \in [States -> {"fresh", "saved", "gone"}] /\ metadata' \in BOOLEAN
      /\ sessions' \subseteq Identities \X (1..Len(users')) /\ consumed' \in [States -> Nat]
    BY <1>1, Zenon DEF AccTyped
<1> QED
    BY <1>1, <1>3, <1>4, <1>5, TypedStep, Zenon

\* A registration, a first visit, or a callback of a person the provider knows.
LEMMA TypedArrive ==
    ASSUME AccountsBounds, AccTyped, NEW r \in Slots,
           (\E f \in Forms : A!Register(r, f)) \/ A!Authenticate(r)
    PROVE  AccTyped'
<1>0. /\ A!Idle \in AccRequests /\ AccBounded(A!Idle)
      /\ A!Idle.username = <<"", 0>> /\ A!Idle.user = 0 /\ A!Idle.op = "none"
    BY TypedIdle, Zenon DEF AccTyped
<1>1. \A n : <<n, 0>>[2] < MaxCandidates
    BY DEF AccountsBounds
<1>2. ASSUME NEW f \in Forms, A!Register(r, f)
      PROVE  AccTyped'
  <2>1. PICK n \in AccNames \X Nat, m \in AccEmails : n = <<f.username, 0>> /\ m = f.email
    BY Zenon DEF AccNames, AccEmails
  <2>2. PICK q : q = [A!Idle EXCEPT !.pc = "username", !.op = "register", !.username = n, !.email = m]
    BY Zenon
  <2>3. /\ q \in AccRequests /\ q.pc = "username" /\ q.op = "register"
        /\ q.username = n /\ q.user = A!Idle.user
    BY <1>0, <2>2, Zenon DEF AccRequests, A!Steps
  <2>4. A!Begin(r, q)
    BY <1>2, <2>1, <2>2, Zenon DEF A!Register
  <2>5. AccBounded(q)
    BY <1>0, <1>1, <2>1, <2>3, Zenon DEF AccBounded, Federated
  <2> QED
    BY <2>3, <2>4, <2>5, TypedBegin, Zenon
<1>3. ASSUME NEW step \in {"begin", "discovery"}, A!Begin(r, [A!Idle EXCEPT !.pc = step, !.op = "begin"])
      PROVE  AccTyped'
  <2>1. PICK q : q = [A!Idle EXCEPT !.pc = step, !.op = "begin"]
    BY Zenon
  <2>2. /\ q \in AccRequests /\ q.pc = step /\ q.op = "begin"
        /\ q.username = A!Idle.username /\ q.user = A!Idle.user
    BY <1>0, <2>1, Zenon DEF AccRequests, A!Steps
  <2>3. AccBounded(q)
    BY <1>0, <2>2, Zenon DEF AccBounded, Federated
  <2> QED
    BY <1>3, <2>1, <2>2, <2>3, TypedBegin, Zenon
<1>4. ASSUME NEW step \in {"getstate", "discovery"}, NEW s \in States, NEW i \in Identities,
             A!Begin(r, [A!Idle EXCEPT !.pc = step, !.op = "callback", !.state = s,
                                       !.identity = i, !.own = A!OwnRow(i)])
      PROVE  AccTyped'
  <2>1. PICK k \in Nat : k = A!OwnRow(i)
    BY OwnRowFacts, Zenon DEF AccTyped
  <2>2. PICK q : q = [A!Idle EXCEPT !.pc = step, !.op = "callback", !.state = s,
                                    !.identity = i, !.own = k]
    BY Zenon
  <2>3. /\ q \in AccRequests /\ q.pc = step /\ q.op = "callback" /\ q.identity = i
        /\ q.username = A!Idle.username /\ q.user = A!Idle.user
    BY <1>0, <2>2, Zenon DEF AccRequests, A!Steps
  <2>4. A!Begin(r, q)
    BY <1>4, <2>1, <2>2, Zenon
  <2>5. AccBounded(q)
    BY <1>0, <2>3, Zenon DEF AccBounded
  <2> QED
    BY <2>3, <2>4, <2>5, TypedBegin, Zenon
<1> QED
    BY <1>2, <1>3, <1>4, Zenon DEF A!Authenticate

\* Registration: the two lookups, and the INSERT under the unique keys.
LEMMA TypedRegistration ==
    ASSUME AccountsBounds, AccTyped, NEW r \in Slots,
           A!ExistingByUsername(r) \/ A!ExistingByEmail(r) \/ A!CreateRegistered(r)
    PROVE  AccTyped'
<1>0. /\ state \in [States -> {"fresh", "saved", "gone"}] /\ metadata \in BOOLEAN
      /\ accReq[r] \in AccRequests /\ AccBounded(accReq[r]) /\ users \in Seq(AccRows)
    BY Zenon DEF AccTyped
<1>1. CASE A!ExistingByUsername(r) \/ A!ExistingByEmail(r)
  <2>1. UNCHANGED <<users, state, metadata, accCount, sessions, consumed>>
    BY <1>1, Zenon DEF A!ExistingByUsername, A!ExistingByEmail, A!stores
  <2>2. A!Return(r) \/ A!Goto(r, "email") \/ A!Goto(r, "insert")
    BY <1>1, Zenon DEF A!ExistingByUsername, A!ExistingByEmail
  <2>3. "email" \in A!Steps \ Federated /\ "insert" \in A!Steps \ Federated
    BY Zenon DEF A!Steps, Federated
  <2> QED
    BY <1>0, <2>1, <2>2, <2>3, TypedReturn, TypedGoto, Zenon
<1>2. CASE A!CreateRegistered(r)
  <2>1. PICK row : row = [owner |-> A!Local, username |-> accReq[r].username, email |-> accReq[r].email]
    BY Zenon
  <2>2. row \in AccRows /\ row.owner = A!Local /\ row.username = accReq[r].username
    <3>1. accReq[r].username \in AccNames \X Nat /\ accReq[r].email \in AccEmails
      BY <1>0, Zenon DEF AccRequests
    <3>2. row \in [owner : Identities \cup {A!Local}, username : AccNames \X Nat, email : AccEmails]
      BY <2>1, <3>1, Zenon
    <3> QED
      BY <2>1, <3>2, Zenon DEF AccRows
  <2>3. /\ A!Return(r) /\ (A!Insert(row) \/ users' = users)
        /\ UNCHANGED <<state, metadata, accCount, sessions, consumed>>
    BY <1>2, <2>1, Zenon DEF A!CreateRegistered
  <2>4. CASE A!Insert(row)
    <3>1. row.owner \in Identities \cup {A!Local} /\ row.username[2] < MaxCandidates
      BY <1>0, <2>2, Zenon DEF AccBounded
    <3>2. /\ users' \in Seq(AccRows) /\ WellKeyed(users') /\ Len(users) <= Len(users')
          /\ Len(users') = Len(users) + 1
      BY <2>2, <2>4, <3>1, TypedInsert, Zenon
    <3>3. A!Idle \in AccRequests /\ AccBounded(A!Idle) /\ \A s : ~Comes(A!Idle, s)
      BY <1>0, TypedIdle, Zenon
    <3>4. AccBounded(A!Idle)'
      <4>1. A!Idle.user <= Len(users')
        <5>1. 0 <= Len(users')
          BY <3>2
        <5> QED
          BY <1>0, <5>1, TypedIdle, Zenon
      <4> QED
        BY <3>3, <4>1, Zenon DEF AccBounded
    <3>5. sessions' \subseteq Identities \X (1..Len(users'))
      <4>1. 1..Len(users) \subseteq 1..Len(users')
        BY <1>0, <3>2
      <4> QED
        BY <2>3, <4>1, Zenon DEF AccTyped
    <3> QED
      BY <1>0, <2>3, <3>2, <3>3, <3>4, <3>5, TypedMove, Zenon DEF A!Return
  <2> QED
    BY <1>0, <2>3, <2>4, TypedReturn, Zenon
<1> QED
    BY <1>1, <1>2, Zenon

\* DeleteState: the callback that was about to consume its state has done so.
LEMMA TypedDelete ==
    ASSUME AccountsBounds, AccTyped, NEW r \in Slots, A!DeleteState(r)
    PROVE  AccTyped'
<1>1. PICK p : p = accReq[r]
    BY Zenon
<1>2. /\ p \in AccRequests /\ AccBounded(p) /\ accReq \in [Slots -> AccRequests] /\ p.pc = "delstate"
      /\ state' = [state EXCEPT ![p.state] = "gone"]
      /\ consumed' = [consumed EXCEPT ![p.state] = @ + 1]
      /\ UNCHANGED <<users, metadata, accCount, sessions>>
    BY <1>1, Zenon DEF AccTyped, A!DeleteState, A!At
<1>3. PICK q : q = [p EXCEPT !.pc = "exchange"]
    BY Zenon
<1>4. /\ q \in AccRequests /\ q.pc = "exchange" /\ q.op = p.op /\ q.identity = p.identity /\ q.state = p.state
      /\ q.username = p.username /\ q.user = p.user
    BY <1>2, <1>3, Zenon DEF AccRequests, A!Steps
<1>5. accReq' = [accReq EXCEPT ![r] = q]
    BY <1>1, <1>2, <1>3, Zenon DEF A!DeleteState, A!Goto
<1>6. p.op = "callback" /\ AccBounded(q) /\ (\A s : ~Comes(q, s)) /\ Comes(accReq[r], p.state)
    BY <1>1, <1>2, <1>4, Zenon DEF AccBounded, Federated, Comes
<1>7. accCount \in Nat /\ consumed \in [States -> Nat]
    BY DEF AccTyped, AccountsBounds
<1>8. \A s \in States : /\ consumed[s] \in Nat /\ (s = p.state => consumed'[s] = consumed[s] + 1)
                        /\ s # p.state => consumed'[s] = consumed[s]
    BY <1>2, <1>7, Zenon
<1>9. consumed' \in [States -> Nat]
  <2>1. \A s \in States : consumed[s] + 1 \in Nat
    BY <1>7
  <2> QED
    BY <1>2, <1>7, <2>1, Zenon
<1>10. ASSUME NEW s \in States
       PROVE  consumed'[s] + Cardinality(Coming(s)') <= accCount'
  <2>1. /\ Cardinality(Coming(s)) \in Nat /\ Cardinality(Coming(s)') \in Nat
        /\ Cardinality(Coming(s)') <= Cardinality(Coming(s))
        /\ s = p.state => Cardinality(Coming(s)') = Cardinality(Coming(s)) - 1
    BY <1>2, <1>5, <1>6, ComingStep, Zenon DEF AccountsBounds
  <2>2. consumed[s] + Cardinality(Coming(s)) <= accCount /\ accCount' = accCount
    BY <1>2, Zenon DEF AccTyped, Counted
  <2> QED
    BY <1>7, <1>8, <2>1, <2>2
<1>11. state' \in [States -> {"fresh", "saved", "gone"}]
    BY <1>2, Zenon DEF AccTyped
<1>12. /\ users' \in Seq(AccRows) /\ WellKeyed(users') /\ metadata' \in BOOLEAN
       /\ sessions' \subseteq Identities \X (1..Len(users')) /\ accCount' \in 0..MaxRequests
       /\ AccBounded(q)' /\ Counted'
    BY <1>2, <1>6, <1>10, Zenon DEF AccTyped, AccBounded, Counted
<1>13. Len(users) <= Len(users')
    BY <1>2 DEF AccTyped
<1> QED
    BY <1>4, <1>5, <1>9, <1>11, <1>12, <1>13, TypedStep, Zenon

\* The rest of the way to the provider and back, and the session.
LEMMA TypedUpstream ==
    ASSUME AccountsBounds, AccTyped, NEW r \in Slots,
           \/ A!LoadDiscovery(r) \/ A!BeginAuthentication(r) \/ A!GetState(r)
           \/ A!ExchangeCode(r) \/ A!CreateSession(r) \/ A!CallFails(r)
    PROVE  AccTyped'
<1>1. /\ accReq[r] \in AccRequests /\ AccBounded(accReq[r]) /\ users \in Seq(AccRows)
      /\ state \in [States -> {"fresh", "saved", "gone"}] /\ metadata \in BOOLEAN
    BY Zenon DEF AccTyped
<1>2. {"begin", "getstate", "delstate", "exchange", "uuid"} \subseteq A!Steps /\ "begin" \notin Federated
    BY Zenon DEF A!Steps, Federated
<1>3. CASE A!LoadDiscovery(r)
  <2>1. /\ accReq[r].pc = "discovery" /\ metadata' = TRUE
        /\ UNCHANGED <<users, state, accCount, sessions, consumed>>
        /\ \/ accReq[r].op = "begin" /\ A!Goto(r, "begin")
           \/ accReq[r].op # "begin" /\ A!Goto(r, "getstate")
    BY <1>3, Zenon DEF A!LoadDiscovery, A!At
  <2>2. accReq[r].op \in {"begin", "callback"}
    BY <1>1, <2>1, Zenon DEF AccBounded
  <2> QED
    BY <1>1, <1>2, <2>1, <2>2, TypedGoto, Zenon
<1>4. CASE A!BeginAuthentication(r)
  <2>1. /\ A!Return(r) /\ UNCHANGED <<users, metadata, accCount, sessions, consumed>>
        /\ \E s \in States : state' = [state EXCEPT ![s] = "saved"]
    BY <1>4, Zenon DEF A!BeginAuthentication
  <2>2. state' \in [States -> {"fresh", "saved", "gone"}]
    BY <1>1, <2>1
  <2> QED
    BY <1>1, <2>1, <2>2, TypedReturn, Zenon
<1>5. CASE A!GetState(r) \/ A!ExchangeCode(r)
  <2>1. /\ UNCHANGED <<users, state, metadata, accCount, sessions, consumed>>
        /\ accReq[r].pc \in {"getstate", "exchange"}
        /\ \/ A!Return(r)
           \/ A!Goto(r, "delstate") /\ accReq[r].pc = "getstate"
           \/ A!Goto(r, "uuid")
    BY <1>5, Zenon DEF A!GetState, A!ExchangeCode, A!At, A!stores
  <2>2. accReq[r].op = "callback"
    BY <1>1, <2>1, Zenon DEF AccBounded, Federated
  <2> QED
    BY <1>1, <1>2, <2>1, <2>2, TypedReturn, TypedGoto, Zenon
<1>6. CASE A!CallFails(r)
    BY <1>1, <1>6, TypedReturn, Zenon DEF A!CallFails, A!stores
<1>7. CASE A!CreateSession(r)
  <2>1. /\ accReq[r].pc = "session" /\ A!Return(r)
        /\ sessions' = sessions \cup {<<accReq[r].identity, accReq[r].user>>}
        /\ UNCHANGED <<users, state, metadata, accCount, consumed>>
    BY <1>7, Zenon DEF A!CreateSession, A!At
  <2>2. accReq[r].identity \in Identities /\ accReq[r].user # 0 /\ accReq[r].user <= Len(users)
        /\ accReq[r].user \in Nat
    BY <1>1, <2>1, Zenon DEF AccBounded, Federated, AccRequests
  <2>3. accReq[r].user \in 1..Len(users) /\ Len(users) <= Len(users')
    BY <1>1, <2>1, <2>2
  <2>4. sessions' \subseteq Identities \X (1..Len(users'))
    <3>1. PICK i \in Identities, u \in 1..Len(users) : i = accReq[r].identity /\ u = accReq[r].user
      BY <2>2, <2>3, Zenon
    <3>2. sessions' = sessions \cup {<<i, u>>} /\ sessions \subseteq Identities \X (1..Len(users))
      BY <2>1, <3>1, Zenon DEF AccTyped
    <3>3. sessions' \subseteq Identities \X (1..Len(users))
      BY <3>2
    <3> QED
      BY <2>1, <3>3, Zenon
  <2>5. A!Idle \in AccRequests /\ AccBounded(A!Idle) /\ \A s : ~Comes(A!Idle, s)
    BY <1>1, TypedIdle, Zenon
  <2>6. users' \in Seq(AccRows) /\ WellKeyed(users') /\ AccBounded(A!Idle)'
    BY <2>1, <2>5, Zenon DEF AccTyped, AccBounded
  <2> QED
    BY <1>1, <2>1, <2>3, <2>4, <2>5, <2>6, TypedMove, Zenon DEF A!Return
<1> QED
    BY <1>3, <1>4, <1>5, <1>6, <1>7, Zenon

\* The account found is a row.
LEMMA TypedResolved ==
    ASSUME AccountsBounds, AccTyped, NEW r \in Slots, NEW u \in Nat, u # 0, A!Resolved(r, u),
           u <= Len(users'), accReq[r].op = "callback",
           users' \in Seq(AccRows), WellKeyed(users'), Len(users) <= Len(users'),
           UNCHANGED <<state, metadata, accCount, sessions, consumed>>
    PROVE  AccTyped'
<1>1. PICK p : p = accReq[r]
    BY Zenon
<1>2. p \in AccRequests /\ AccBounded(p) /\ accReq \in [Slots -> AccRequests] /\ users \in Seq(AccRows)
    BY <1>1, Zenon DEF AccTyped
<1>3. PICK q : q = [p EXCEPT !.pc = "session", !.user = u]
    BY Zenon
<1>4. /\ q \in AccRequests /\ q.pc = "session" /\ q.op = p.op /\ q.identity = p.identity
      /\ q.username = p.username /\ q.user = u
    BY <1>2, <1>3, Zenon DEF AccRequests, A!Steps
<1>5. accReq' = [accReq EXCEPT ![r] = q]
    BY <1>1, <1>2, <1>3, Zenon DEF A!Resolved, AccRequests
<1>6. AccBounded(q)' /\ \A s : ~Comes(q, s)
    BY <1>1, <1>2, <1>4, Zenon DEF AccBounded, Comes
<1>7. 1..Len(users) \subseteq 1..Len(users')
    BY <1>2
<1>8. /\ sessions' \subseteq Identities \X (1..Len(users'))
      /\ state' \in [States -> {"fresh", "saved", "gone"}] /\ metadata' \in BOOLEAN
    BY <1>7, Zenon DEF AccTyped
<1> QED
    BY <1>4, <1>5, <1>6, <1>8, TypedMove, Zenon

\* resolveExistingUser answers a row or goes on.
LEMMA TypedFinds ==
    ASSUME AccountsBounds, AccTyped, NEW r \in Slots,
           A!FindByUserUUID(r) \/ A!FindByUsername(r) \/ A!FindByEmail(r)
    PROVE  AccTyped'
<1>0. users \in Seq(AccRows)
    BY Zenon DEF AccTyped
<1>1. /\ accReq[r] \in AccRequests /\ AccBounded(accReq[r]) /\ users \in Seq(AccRows) /\ WellKeyed(users)
      /\ state \in [States -> {"fresh", "saved", "gone"}] /\ metadata \in BOOLEAN
      /\ UNCHANGED <<users, state, metadata, accCount, sessions, consumed>>
    BY Zenon DEF AccTyped, A!FindByUserUUID, A!FindByUsername, A!FindByEmail, A!stores
<1>2. accReq[r].pc \in {"uuid", "name", "mail"}
    BY Zenon DEF A!FindByUserUUID, A!FindByUsername, A!FindByEmail, A!At
<1>3. accReq[r].op = "callback"
    BY <1>1, <1>2, Zenon DEF AccBounded, Federated
<1>4. ASSUME NEW u \in Answers, u # 0, A!Resolved(r, u)
      PROVE  AccTyped'
  <2>1. u \in Nat /\ u <= Len(users') /\ Len(users) <= Len(users')
    BY <1>1 DEF Answers
  <2> QED
    BY <1>1, <1>3, <1>4, <2>1, TypedResolved, Zenon
<1>5. ASSUME NEW step \in {"name", "mail", "allocate"}, A!Goto(r, step)
      PROVE  AccTyped'
  <2>1. step \in A!Steps
    BY Zenon DEF A!Steps
  <2> QED
    BY <1>1, <1>3, <1>5, <2>1, TypedGoto, Zenon
<1>6. ASSUME A!Return(r)
      PROVE  AccTyped'
    BY <1>1, <1>6, TypedReturn, Zenon
<1>7. CASE A!FindByUserUUID(r)
  <2>1. PICK u \in A!Finds(LAMBDA row : row.owner = accReq[r].identity) :
            (u # 0 /\ A!Resolved(r, u)) \/ A!Goto(r, "name")
    BY <1>7, Zenon DEF A!FindByUserUUID
  <2>2. u \in Answers /\ (u # 0 => users[u].owner = accReq[r].identity)
    BY <1>0, OwnerIsId, Zenon
  <2> QED
    BY <1>4, <1>5, <2>1, <2>2, Zenon
<1>8. CASE A!FindByUsername(r)
  <2>1. PICK u \in A!Finds(LAMBDA row : row.username = <<A!Given(r).username, 0>>) :
            (u # 0 /\ A!Resolved(r, u)) \/ A!Goto(r, "mail")
    BY <1>8, Zenon DEF A!FindByUsername
  <2>2. u \in Answers /\ (u # 0 => users[u].username = <<A!Given(r).username, 0>>)
    BY <1>0, NameIsId, Zenon
  <2> QED
    BY <1>4, <1>5, <2>1, <2>2, Zenon
<1>9. CASE A!FindByEmail(r)
  <2>1. PICK u \in A!Finds(LAMBDA row : row.email = A!Given(r).email) :
            (u # 0 /\ A!Resolved(r, u)) \/ A!Return(r) \/ A!Goto(r, "allocate")
    BY <1>9, Zenon DEF A!FindByEmail
  <2>2. u \in Answers /\ (u # 0 => users[u].email = A!Given(r).email)
    BY <1>0, EmailIsId, Zenon
  <2> QED
    BY <1>4, <1>5, <1>6, <2>1, <2>2, Zenon
<1> QED
    BY <1>7, <1>8, <1>9, Zenon

\* allocateFederatedUsername stops before its last suffix.
LEMMA TypedAllocate ==
    ASSUME AccountsBounds, AccTyped, NEW r \in Slots, A!AllocateFederatedUsername(r)
    PROVE  AccTyped'
<1>1. PICK p : p = accReq[r]
    BY Zenon
<1>2. /\ p \in AccRequests /\ AccBounded(p) /\ p.pc = "allocate" /\ accReq \in [Slots -> AccRequests]
      /\ state \in [States -> {"fresh", "saved", "gone"}] /\ metadata \in BOOLEAN
      /\ UNCHANGED <<users, state, metadata, accCount, sessions, consumed>>
    BY <1>1, Zenon DEF AccTyped, A!AllocateFederatedUsername, A!At, A!stores
<1>3. p.op = "callback" /\ p.identity \in Identities
    BY <1>2, Zenon DEF AccBounded, Federated
<1>4. PICK n : n = A!Candidate(Claims[p.identity])
    BY Zenon
<1>5. PICK i : i = IF p.username[1] = "" THEN 0 ELSE p.username[2]
    BY Zenon
<1>6. n \in AccNames /\ i \in Nat /\ i < MaxCandidates
  <2>1. p.username \in AccNames \X Nat /\ p.username[2] < MaxCandidates
    BY <1>2, Zenon DEF AccRequests, AccBounded
  <2>2. n \in AccNames
    BY <1>3, <1>4, Zenon DEF AccNames
  <2>3. 0 < MaxCandidates /\ 0 \in Nat
    BY DEF AccountsBounds
  <2> QED
    BY <1>5, <2>1, <2>2, <2>3, Zenon
<1>7. \/ accReq' = [accReq EXCEPT ![r].pc = "create", ![r].username = <<n, i>>]
      \/ accReq' = [accReq EXCEPT ![r].username = <<n, i + 1>>] /\ i + 1 < MaxCandidates
      \/ A!Return(r)
    BY <1>1, <1>4, <1>5, Zenon DEF A!AllocateFederatedUsername, A!Given
<1>8. ASSUME NEW step \in {"create", "allocate"}, NEW m \in AccNames \X Nat, m[2] < MaxCandidates,
             NEW q, q = [p EXCEPT !.pc = step, !.username = m], accReq' = [accReq EXCEPT ![r] = q]
      PROVE  AccTyped'
  <2>1. /\ q \in AccRequests /\ q.pc = step /\ q.op = p.op /\ q.identity = p.identity
        /\ q.username = m /\ q.user = p.user
    BY <1>2, <1>8, Zenon DEF AccRequests, A!Steps
  <2>2. AccBounded(q) /\ \A s : ~Comes(q, s)
    BY <1>2, <1>3, <1>8, <2>1, Zenon DEF AccBounded, Comes
  <2> QED
    BY <1>2, <1>8, <2>1, <2>2, TypedQuiet, Zenon
<1>9. CASE accReq' = [accReq EXCEPT ![r].pc = "create", ![r].username = <<n, i>>]
  <2>1. PICK m \in AccNames \X Nat : m = <<n, i>> /\ m[2] < MaxCandidates
    <3>1. <<n, i>>[2] = i
      OBVIOUS
    <3>2. <<n, i>> \in AccNames \X Nat
      BY <1>6, Zenon
    <3> QED
      BY <1>6, <3>1, <3>2, Zenon
  <2>2. PICK q : q = [p EXCEPT !.pc = "create", !.username = m]
    BY Zenon
  <2>3. accReq' = [accReq EXCEPT ![r] = q]
    BY <1>1, <1>2, <1>9, <2>1, <2>2, Zenon DEF AccRequests
  <2> QED
    BY <1>8, <2>1, <2>2, <2>3, Zenon
<1>10. CASE accReq' = [accReq EXCEPT ![r].username = <<n, i + 1>>] /\ i + 1 < MaxCandidates
  <2>1. PICK k \in Nat : k = i + 1
    BY <1>6
  <2>2. PICK m \in AccNames \X Nat : m = <<n, k>> /\ m[2] < MaxCandidates
    <3>1. n \in AccNames /\ k < MaxCandidates
      BY <1>6, <1>10, <2>1, Zenon
    <3>2. <<n, k>>[2] = k
      OBVIOUS
    <3>3. <<n, k>> \in AccNames \X Nat
      BY <2>1, <3>1, Zenon
    <3> QED
      BY <3>1, <3>2, <3>3, Zenon
  <2>3. PICK q : q = [p EXCEPT !.pc = "allocate", !.username = m]
    BY Zenon
  <2>4. q = [p EXCEPT !.username = m]
    BY <1>2, <2>3, Zenon DEF AccRequests
  <2>5. accReq' = [accReq EXCEPT ![r] = q]
    BY <1>1, <1>2, <1>10, <2>1, <2>2, <2>4, Zenon DEF AccRequests
  <2> QED
    BY <1>8, <2>2, <2>3, <2>5, Zenon
<1> QED
    BY <1>2, <1>7, <1>9, <1>10, TypedReturn, Zenon

\* provisionFederatedUser: a new row under the unique keys, or another look.
LEMMA TypedCreate ==
    ASSUME AccountsBounds, AccTyped, NEW r \in Slots, A!CreateFederated(r)
    PROVE  AccTyped'
<1>1. PICK p : p = accReq[r]
    BY Zenon
<1>2. /\ p \in AccRequests /\ AccBounded(p) /\ p.pc = "create" /\ accReq \in [Slots -> AccRequests]
      /\ state \in [States -> {"fresh", "saved", "gone"}] /\ metadata \in BOOLEAN
      /\ users \in Seq(AccRows) /\ UNCHANGED <<state, metadata, accCount, sessions, consumed>>
    BY <1>1, Zenon DEF AccTyped, A!CreateFederated, A!At
<1>3. p.op = "callback" /\ p.identity \in Identities
    BY <1>2, Zenon DEF AccBounded, Federated
<1>4. CASE A!Insert(A!NewRow(r)) /\ A!Resolved(r, Len(users) + 1)
  <2>1. PICK row : row = A!NewRow(r)
    BY Zenon
  <2>2. row \in AccRows /\ row.owner = p.identity /\ row.username = p.username
    <3>1. PICK m : m = IF A!Given(r).email # A!NoEmail THEN A!Given(r).email
                       ELSE <<accReq[r].identity, "federated.local">>
      BY Zenon
    <3>2. m \in AccEmails
      BY <1>1, <1>3, <3>1, Zenon DEF AccEmails, A!Given
    <3>3. row = [owner |-> p.identity, username |-> p.username, email |-> m]
      BY <1>1, <2>1, <3>1, Zenon DEF A!NewRow
    <3>4. p.identity \in Identities \cup {A!Local} /\ p.username \in AccNames \X Nat
      BY <1>2, Zenon DEF AccRequests
    <3>5. row \in [owner : Identities \cup {A!Local}, username : AccNames \X Nat, email : AccEmails]
      BY <3>2, <3>3, <3>4, Zenon
    <3> QED
      BY <3>3, <3>5, Zenon DEF AccRows
  <2>3. row.owner \in Identities \cup {A!Local} /\ row.username[2] < MaxCandidates
    BY <1>2, <1>3, <2>2, Zenon DEF AccBounded
  <2>4. /\ users' \in Seq(AccRows) /\ WellKeyed(users') /\ Len(users) <= Len(users')
        /\ Len(users') = Len(users) + 1
    BY <1>4, <2>1, <2>2, <2>3, TypedInsert, Zenon
  <2>5. PICK u \in Nat : u = Len(users) + 1 /\ u # 0 /\ u <= Len(users')
    BY <1>2, <2>4
  <2> QED
    BY <1>1, <1>2, <1>3, <1>4, <2>4, <2>5, TypedResolved, Zenon
<1>5. CASE A!LookupAgain(r) /\ users' = users
  <2>1. PICK k \in Nat : k = A!OwnRow(p.identity)
    BY <1>2, OwnRowFacts, Zenon
  <2>2. PICK q : q = [p EXCEPT !.pc = "uuid", !.again = TRUE, !.own = k]
    BY Zenon
  <2>3. /\ q \in AccRequests /\ q.pc = "uuid" /\ q.op = p.op /\ q.identity = p.identity
        /\ q.username = p.username /\ q.user = p.user
    BY <1>2, <2>2, Zenon DEF AccRequests, A!Steps
  <2>4. accReq' = [accReq EXCEPT ![r] = q]
    BY <1>1, <1>2, <1>5, <2>1, <2>2, Zenon DEF A!LookupAgain, AccRequests
  <2>5. AccBounded(q) /\ \A s : ~Comes(q, s)
    BY <1>2, <1>3, <2>3, Zenon DEF AccBounded, Comes
  <2> QED
    BY <1>2, <1>5, <2>3, <2>4, <2>5, TypedQuiet, Zenon
<1> QED
    BY <1>4, <1>5, Zenon DEF A!CreateFederated

\* Keys and bounds hold throughout.
LEMMA AccTypedInvariant ==
    ASSUME AccountsBounds
    PROVE  A!Spec => []AccTyped
<1>1. ASSUME A!Init
      PROVE  AccTyped
  <2>1. /\ users \in Seq(AccRows) /\ WellKeyed(users) /\ metadata \in BOOLEAN
        /\ sessions \subseteq Identities \X (1..Len(users))
    BY <1>1, Zenon DEF A!Init, AccountsBounds
  <2>2. state \in [States -> {"fresh", "saved", "gone"}] /\ accCount \in 0..MaxRequests
    BY <1>1 DEF A!Init, AccountsBounds
  <2>3. /\ A!Idle \in AccRequests /\ AccBounded(A!Idle) /\ \A s : ~Comes(A!Idle, s)
    BY <2>1, TypedIdle, Zenon
  <2>4. accReq \in [Slots -> AccRequests] /\ \A r \in Slots : accReq[r] = A!Idle
    BY <1>1, <2>3, Zenon DEF A!Init
  <2>5. \A s : Coming(s) = {}
    BY <2>3, <2>4, Zenon DEF Coming
  <2>6. \A s : Cardinality(Coming(s)) = 0
    BY <2>5, FS_EmptySet, Zenon
  <2>7. accCount = 0 /\ consumed \in [States -> Nat] /\ \A s \in States : consumed[s] = 0
    BY <1>1 DEF A!Init
  <2>8. Counted
    BY <2>6, <2>7 DEF Counted
  <2> QED
    BY <2>1, <2>2, <2>3, <2>4, <2>7, <2>8, Zenon DEF AccTyped
<1>2. ASSUME AccTyped, [A!Next]_(A!vars)
      PROVE  AccTyped'
  <2>1. CASE UNCHANGED A!vars \/ A!Expire
    <3>1. UNCHANGED <<users, metadata, accReq, accCount, sessions, consumed>>
      BY <2>1, Zenon DEF A!vars, A!Expire
    <3>2. state' = state \/ \E s \in States : state' = [state EXCEPT ![s] = "gone"]
      BY <2>1, Zenon DEF A!vars, A!Expire
    <3>3. state' \in [States -> {"fresh", "saved", "gone"}]
      BY <1>2, <3>2 DEF AccTyped
    <3>4. Counted' /\ \A r \in Slots : AccBounded(accReq[r])'
      BY <1>2, <3>1, Zenon DEF AccTyped, Counted, Coming, AccBounded
    <3> QED
      BY <1>2, <3>1, <3>3, <3>4, Zenon DEF AccTyped
  <2>2. ASSUME NEW r \in Slots,
               \/ \E f \in Forms : A!Register(r, f)
               \/ A!ExistingByUsername(r) \/ A!ExistingByEmail(r) \/ A!CreateRegistered(r)
               \/ A!Authenticate(r) \/ A!LoadDiscovery(r) \/ A!BeginAuthentication(r)
               \/ A!GetState(r) \/ A!DeleteState(r) \/ A!ExchangeCode(r)
               \/ A!FindByUserUUID(r) \/ A!FindByUsername(r) \/ A!FindByEmail(r)
               \/ A!AllocateFederatedUsername(r) \/ A!CreateFederated(r) \/ A!CreateSession(r)
               \/ A!CallFails(r)
        PROVE  AccTyped'
    BY <1>2, <2>2, TypedArrive, TypedRegistration, TypedUpstream, TypedDelete, TypedFinds,
       TypedAllocate, TypedCreate, Zenon
  <2> QED
    BY <1>2, <2>1, <2>2, Zenon DEF A!Next
<1> QED
    BY <1>1, <1>2, PTL DEF A!Spec

\* However many registrations and first logins race past their lookups, and
\* however far the lookups lag: usernames, emails and derived uuids stay unique,
\* no suffix reaches the limit of allocateFederatedUsername, every session is of
\* an identity and a row that is there, and no state is consumed more often than
\* callbacks arrive.
THEOREM AccountsTypeCorrect ==
    ASSUME AccountsBounds
    PROVE  A!Spec => []AccountsTypeOK
<1>1. AccTyped => AccountsTypeOK
  <2> SUFFICES ASSUME AccTyped PROVE A!TypeOK
    BY Zenon DEF AccountsTypeOK
  <2>1. users \in Seq(AccRows) /\ DOMAIN users = 1..Len(users) /\ Len(users) \in Nat
    BY DEF AccTyped
  <2>2. /\ \A u \in A!Ids : /\ users[u].owner \in Identities \cup {A!Local}
                            /\ users[u].username[2] < MaxCandidates
        /\ \A u, v \in A!Ids : u # v => /\ users[u].username # users[v].username
                                        /\ users[u].email # users[v].email
                                        /\ users[u].owner # A!Local => users[u].owner # users[v].owner
    BY <2>1, Zenon DEF AccTyped, WellKeyed, A!Ids
  <2>3. ASSUME NEW r \in Slots
        PROVE  accReq[r].pc \in A!Steps /\ accReq[r].user \in 0..Len(users)
    <3>1. accReq[r].pc \in A!Steps /\ accReq[r].user \in Nat /\ accReq[r].user <= Len(users)
      BY Zenon DEF AccTyped, AccRequests, AccBounded
    <3> QED
      BY <2>1, <3>1
  <2>4. ASSUME NEW s \in States
        PROVE  consumed[s] \in 0..MaxRequests
    <3>1. Cardinality(Coming(s)) \in Nat
      <4>1. Coming(s) \subseteq Slots
        BY Zenon DEF Coming
      <4> QED
        BY <4>1, FS_Subset, FS_CardinalityType, Zenon DEF AccountsBounds
    <3>2. consumed[s] \in Nat /\ consumed[s] + Cardinality(Coming(s)) <= accCount
      BY Zenon DEF AccTyped, Counted
    <3>3. accCount \in 0..MaxRequests /\ MaxRequests \in Nat
      BY Zenon DEF AccTyped, AccountsBounds
    <3> QED
      BY <3>1, <3>2, <3>3
  <2>5. consumed \in [States -> 0..MaxRequests]
    <3>1. consumed \in [States -> Nat]
      BY Zenon DEF AccTyped
    <3> QED
      BY <2>4, <3>1
  <2> QED
    BY <2>2, <2>3, <2>5, Zenon DEF AccTyped, A!TypeOK, A!Ids
<1> QED
    BY <1>1, AccTypedInvariant, PTL
=============================================================================
