--------------------------- MODULE SessionProofs ---------------------------
(***************************************************************************)
(* Proofs about Session, for any number of sessions, users and calls: the  *)
(* users' session sets cover the cache, and a session that a call reported *)
(* as ended is accepted nowhere.                                           *)
(*                                                                         *)
(* The second needs reads that are up to date where MayAccept and the      *)
(* logout decide on a row, which is the theorem's hypothesis: no lagging   *)
(* replica, or mysql.strong_read.session_by_id.  The list of a user's      *)
(* active sessions may still come from a replica that lags.                *)
(*                                                                         *)
(* At the end Enrolment, the instance of MC_Session: factors are those     *)
(* their user has proved, and the login challenge replaces the session it  *)
(* came from.                                                              *)
(***************************************************************************)
EXTENDS MC_Session, TLAPS

-----------------------------------------------------------------------------
(* The inductive invariants. *)

\* Rows and logins go together.
RowOfLogin == \A s \in Sessions : row[s] = "none" <=> login[s] = "new"

\* An enrolment ends the one session it began with, which has left the cache
\* for good when its index entry is removed.
EnrolInHand ==
    \A c \in Calls :
        /\ op[c] = "enrol" =>
            /\ user[c] = Nobody
            /\ ids[c] \subseteq {target[c]}
            /\ pc[c] # "new" => login[target[c]] = "done"
        /\ pc[c] = "index" => op[c] = "enrol" /\ target[c] \notin hash

IndexInv == TypeOK /\ EnrolInHand /\ IndexCoversCache

\* Steps of a call at which it has marked its rows.
Marked == {"collect", "get", "del", "script", "index", "done"}

\* The sessions a call reaches through the user or the session it names.
Reach(c) ==
    IF user[c] # Nobody THEN OwnedBy(user[c])
    ELSE IF op[c] = "all" THEN OwnedBy(Owner[target[c]]) ELSE {target[c]}

\* What a call has still to do for the sessions it is to end.
CoversInHand ==
    \A c \in Calls :
        /\ pc[c] \in {"new", "find"} => user[c] = Nobody
        /\ pc[c] = "find" => login[target[c]] = "done"
        /\ pc[c] = "mark" /\ op[c] = "all" => user[c] # Nobody
        /\ pc[c] \in {"find", "list", "mark", "collect"} => covers[c] \subseteq Reach(c)
        /\ pc[c] \in {"del", "script"} => target[c] \in ids[c]
        /\ \A s \in covers[c] :
            /\ login[s] = "done"
            /\ pc[c] \in Marked => row[s] = "out"
            /\ pc[c] \in {"get", "del", "script"} => s \in ids[c] \/ s \notin hash
            /\ pc[c] \in {"index", "done"} => s \notin hash

\* An ended session has a logged-out row and no entry, and cannot be saved again.
EndedForGood == \A s \in ended : login[s] = "done" /\ row[s] = "out" /\ s \notin hash

SessionInv == IndexInv /\ RowOfLogin /\ CoversInHand /\ EndedForGood

-----------------------------------------------------------------------------
(* The type invariant. *)

\* The types at the start.
LEMMA TypeInit == Init => TypeOK
  BY DEF Init, TypeOK, RowStates, CallSteps

\* No step of a login or a call leaves the types, and a call that lists or
\* collects has the user whose sessions it wants.
LEMMA TypeNext == TypeOK /\ [Next]_vars => TypeOK'
<1> SUFFICES ASSUME TypeOK, [Next]_vars PROVE TypeOK'
  BY Zenon
<1> USE SessionAssumption DEF TypeOK, RowStates, CallSteps, db, cache, callVars, Goto
<1>1. ASSUME NEW s \in Sessions, CreateSession(s) PROVE TypeOK'
  BY <1>1, Zenon DEF CreateSession
<1>2. ASSUME NEW s \in Sessions, SaveSession(s) PROVE TypeOK'
  BY <1>2, Zenon DEF SaveSession
<1>3. ASSUME NEW s \in Sessions, LoginFails(s) PROVE TypeOK'
  BY <1>3, Zenon DEF LoginFails
<1>4. ASSUME NEW c \in Calls, Logout(c) PROVE TypeOK'
  BY <1>4, Zenon DEF Logout, Begin
<1>5. ASSUME NEW c \in Calls, LogoutAll(c) PROVE TypeOK'
  BY <1>5, Zenon DEF LogoutAll, Begin, LoggedIn, OwnedBy
<1>6. ASSUME NEW c \in Calls, AdminLogoutUser(c) PROVE TypeOK'
  BY <1>6 DEF AdminLogoutUser, Begin, LoggedIn, OwnedBy
<1>7. ASSUME NEW c \in Calls, InvalidateCurrentSession(c) PROVE TypeOK'
  BY <1>7, Zenon DEF InvalidateCurrentSession, Begin
<1>8. ASSUME NEW c \in Calls, Find(c) PROVE TypeOK'
  BY <1>8 DEF Find
<1>9. ASSUME NEW c \in Calls, ListActive(c) PROVE TypeOK'
  BY <1>9 DEF ListActive, OwnedBy
<1>10. ASSUME NEW c \in Calls, MarkLoggedOut(c) PROVE TypeOK'
  BY <1>10 DEF MarkLoggedOut
<1>11. ASSUME NEW c \in Calls, Collect(c) PROVE TypeOK'
  BY <1>11, Zenon DEF Collect, Return
<1>12. ASSUME NEW c \in Calls, GetForDelete(c) PROVE TypeOK'
  BY <1>12 DEF GetForDelete
<1>13. ASSUME NEW c \in Calls, DeleteKey(c) PROVE TypeOK'
  BY <1>13, Zenon DEF DeleteKey, AfterDelete, Return
<1>14. ASSUME NEW c \in Calls, DeleteScript(c) PROVE TypeOK'
  BY <1>14, Zenon DEF DeleteScript, AfterDelete, Return
<1>15. ASSUME NEW c \in Calls, RemoveIndex(c) PROVE TypeOK'
  BY <1>15, Zenon DEF RemoveIndex, Return
<1>16. ASSUME NEW c \in Calls, CallFails(c) PROVE TypeOK'
  BY <1>16, Zenon DEF CallFails
<1>17. CASE UNCHANGED vars
  BY <1>17, Zenon DEF vars
<1> QED
  BY <1>1, <1>2, <1>3, <1>4, <1>5, <1>6, <1>7, <1>8, <1>9, <1>10, <1>11, <1>12, <1>13,
     <1>14, <1>15, <1>16, <1>17, Zenon DEF Next, CallStep

-----------------------------------------------------------------------------
(* The index covers the cache. *)

\* Every step keeps what an enrolment has in hand.
LEMMA InHandNext == IndexInv /\ [Next]_vars => EnrolInHand'
<1> SUFFICES ASSUME IndexInv, [Next]_vars PROVE EnrolInHand'
  BY Zenon
<1> USE SessionAssumption DEF IndexInv, TypeOK, EnrolInHand, db, cache, callVars, Goto
<1>1. ASSUME NEW s \in Sessions, CreateSession(s) PROVE EnrolInHand'
  BY <1>1, Zenon DEF CreateSession
<1>2. ASSUME NEW s \in Sessions, SaveSession(s) PROVE EnrolInHand'
  BY <1>2, Zenon DEF SaveSession
<1>3. ASSUME NEW s \in Sessions, LoginFails(s) PROVE EnrolInHand'
  BY <1>3, Zenon DEF LoginFails
<1>4. ASSUME NEW c \in Calls, Logout(c) PROVE EnrolInHand'
  BY <1>4, Zenon DEF Logout, Begin, HoldsCookie
<1>5. ASSUME NEW c \in Calls, LogoutAll(c) PROVE EnrolInHand'
  BY <1>5, Zenon DEF LogoutAll, Begin, HoldsCookie
<1>6. ASSUME NEW c \in Calls, AdminLogoutUser(c) PROVE EnrolInHand'
  BY <1>6, Zenon DEF AdminLogoutUser, Begin
<1>7. ASSUME NEW c \in Calls, InvalidateCurrentSession(c) PROVE EnrolInHand'
  BY <1>7, Zenon DEF InvalidateCurrentSession, Begin, HoldsCookie
<1>8. ASSUME NEW c \in Calls, Find(c) PROVE EnrolInHand'
  BY <1>8 DEF Find
<1>9. ASSUME NEW c \in Calls, ListActive(c) PROVE EnrolInHand'
  BY <1>9, Zenon DEF ListActive
<1>10. ASSUME NEW c \in Calls, MarkLoggedOut(c) PROVE EnrolInHand'
  BY <1>10 DEF MarkLoggedOut
<1>11. ASSUME NEW c \in Calls, Collect(c) PROVE EnrolInHand'
  BY <1>11 DEF Collect, Return
<1>12. ASSUME NEW c \in Calls, GetForDelete(c) PROVE EnrolInHand'
  BY <1>12 DEF GetForDelete
<1>13. ASSUME NEW c \in Calls, DeleteKey(c) PROVE EnrolInHand'
  BY <1>13 DEF DeleteKey, AfterDelete, Return
<1>14. ASSUME NEW c \in Calls, DeleteScript(c) PROVE EnrolInHand'
  BY <1>14 DEF DeleteScript, AfterDelete, Return
<1>15. ASSUME NEW c \in Calls, RemoveIndex(c) PROVE EnrolInHand'
  BY <1>15, Zenon DEF RemoveIndex, Return
<1>16. ASSUME NEW c \in Calls, CallFails(c) PROVE EnrolInHand'
  BY <1>16, Zenon DEF CallFails
<1>17. CASE UNCHANGED vars
  BY <1>17, Zenon DEF vars
<1> QED
  BY <1>1, <1>2, <1>3, <1>4, <1>5, <1>6, <1>7, <1>8, <1>9, <1>10, <1>11, <1>12, <1>13, <1>14, <1>15, <1>16, <1>17, Zenon
  DEF Next, CallStep

\* Every step keeps the users' sets over the cache.
LEMMA IndexNext == IndexInv /\ [Next]_vars => IndexCoversCache'
<1> SUFFICES ASSUME IndexInv, [Next]_vars PROVE IndexCoversCache'
  BY Zenon
<1> USE SessionAssumption DEF IndexInv, TypeOK, EnrolInHand, IndexCoversCache, db, cache, callVars, Goto
<1>1. ASSUME NEW s \in Sessions, CreateSession(s) PROVE IndexCoversCache'
  BY <1>1, Zenon DEF CreateSession
<1>2. ASSUME NEW s \in Sessions, SaveSession(s) PROVE IndexCoversCache'
  BY <1>2 DEF SaveSession
<1>3. ASSUME NEW s \in Sessions, LoginFails(s) PROVE IndexCoversCache'
  BY <1>3, Zenon DEF LoginFails
<1>4. ASSUME NEW c \in Calls, Logout(c) PROVE IndexCoversCache'
  BY <1>4, Zenon DEF Logout, Begin, HoldsCookie
<1>5. ASSUME NEW c \in Calls, LogoutAll(c) PROVE IndexCoversCache'
  BY <1>5, Zenon DEF LogoutAll, Begin, HoldsCookie
<1>6. ASSUME NEW c \in Calls, AdminLogoutUser(c) PROVE IndexCoversCache'
  BY <1>6, Zenon DEF AdminLogoutUser, Begin
<1>7. ASSUME NEW c \in Calls, InvalidateCurrentSession(c) PROVE IndexCoversCache'
  BY <1>7, Zenon DEF InvalidateCurrentSession, Begin, HoldsCookie
<1>8. ASSUME NEW c \in Calls, Find(c) PROVE IndexCoversCache'
  BY <1>8, Zenon DEF Find
<1>9. ASSUME NEW c \in Calls, ListActive(c) PROVE IndexCoversCache'
  BY <1>9, Zenon DEF ListActive
<1>10. ASSUME NEW c \in Calls, MarkLoggedOut(c) PROVE IndexCoversCache'
  BY <1>10, Zenon DEF MarkLoggedOut
<1>11. ASSUME NEW c \in Calls, Collect(c) PROVE IndexCoversCache'
  BY <1>11, Zenon DEF Collect, Return
<1>12. ASSUME NEW c \in Calls, GetForDelete(c) PROVE IndexCoversCache'
  BY <1>12, Zenon DEF GetForDelete
<1>13. ASSUME NEW c \in Calls, DeleteKey(c) PROVE IndexCoversCache'
  BY <1>13, Zenon DEF DeleteKey, AfterDelete, Return
<1>14. ASSUME NEW c \in Calls, DeleteScript(c) PROVE IndexCoversCache'
  BY <1>14, Zenon DEF DeleteScript, AfterDelete, Return
<1>15. ASSUME NEW c \in Calls, RemoveIndex(c) PROVE IndexCoversCache'
  BY <1>15, Zenon DEF RemoveIndex, Return
<1>16. ASSUME NEW c \in Calls, CallFails(c) PROVE IndexCoversCache'
  BY <1>16, Zenon DEF CallFails
<1>17. CASE UNCHANGED vars
  BY <1>17, Zenon DEF vars
<1> QED
  BY <1>1, <1>2, <1>3, <1>4, <1>5, <1>6, <1>7, <1>8, <1>9, <1>10, <1>11, <1>12, <1>13, <1>14, <1>15, <1>16, <1>17, Zenon
  DEF Next, CallStep
-----------------------------------------------------------------------------
(* Ended sessions stay ended. *)

\* Every step keeps rows and logins together.
LEMMA RowNext == TypeOK /\ RowOfLogin /\ [Next]_vars => RowOfLogin'
<1> SUFFICES ASSUME TypeOK, RowOfLogin, [Next]_vars PROVE RowOfLogin'
  BY Zenon
<1> USE DEF TypeOK, RowStates, RowOfLogin, db, cache, callVars
<1>1. ASSUME NEW s \in Sessions, CreateSession(s) PROVE RowOfLogin'
  BY <1>1, Zenon DEF CreateSession
<1>2. ASSUME NEW s \in Sessions, SaveSession(s) PROVE RowOfLogin'
  BY <1>2, Zenon DEF SaveSession
<1>3. ASSUME NEW s \in Sessions, LoginFails(s) PROVE RowOfLogin'
  BY <1>3, Zenon DEF LoginFails
<1>4. ASSUME NEW c \in Calls, Logout(c) PROVE RowOfLogin'
  BY <1>4, Zenon DEF Logout, Begin, HoldsCookie
<1>5. ASSUME NEW c \in Calls, LogoutAll(c) PROVE RowOfLogin'
  BY <1>5, Zenon DEF LogoutAll, Begin, HoldsCookie, LoggedIn
<1>6. ASSUME NEW c \in Calls, AdminLogoutUser(c) PROVE RowOfLogin'
  BY <1>6, Zenon DEF AdminLogoutUser, Begin, LoggedIn
<1>7. ASSUME NEW c \in Calls, InvalidateCurrentSession(c) PROVE RowOfLogin'
  BY <1>7, Zenon DEF InvalidateCurrentSession, Begin, HoldsCookie
<1>8. ASSUME NEW c \in Calls, Find(c) PROVE RowOfLogin'
  BY <1>8, Zenon DEF Find
<1>9. ASSUME NEW c \in Calls, ListActive(c) PROVE RowOfLogin'
  BY <1>9, Zenon DEF ListActive
<1>10. ASSUME NEW c \in Calls, MarkLoggedOut(c) PROVE RowOfLogin'
  BY <1>10, Zenon DEF MarkLoggedOut
<1>11. ASSUME NEW c \in Calls, Collect(c) PROVE RowOfLogin'
  BY <1>11, Zenon DEF Collect, Return
<1>12. ASSUME NEW c \in Calls, GetForDelete(c) PROVE RowOfLogin'
  BY <1>12, Zenon DEF GetForDelete
<1>13. ASSUME NEW c \in Calls, DeleteKey(c) PROVE RowOfLogin'
  BY <1>13, Zenon DEF DeleteKey, AfterDelete, Return
<1>14. ASSUME NEW c \in Calls, DeleteScript(c) PROVE RowOfLogin'
  BY <1>14, Zenon DEF DeleteScript, AfterDelete, Return
<1>15. ASSUME NEW c \in Calls, RemoveIndex(c) PROVE RowOfLogin'
  BY <1>15, Zenon DEF RemoveIndex, Return
<1>16. ASSUME NEW c \in Calls, CallFails(c) PROVE RowOfLogin'
  BY <1>16, Zenon DEF CallFails
<1>17. CASE UNCHANGED vars
  BY <1>17, Zenon DEF vars
<1> QED
  BY <1>1, <1>2, <1>3, <1>4, <1>5, <1>6, <1>7, <1>8, <1>9, <1>10, <1>11, <1>12, <1>13, <1>14, <1>15, <1>16, <1>17, Zenon
  DEF Next, CallStep

\* Where reads are up to date a lookup returns the row.
LEMMA FoundRowIsRow ==
    ASSUME StaleReads => StrongRead, NEW s \in Sessions
    PROVE  FoundRow(s) = {row[s]}
  BY Zenon DEF FoundRow, ReplicaRow

\* Every step keeps what the calls cover.
LEMMA CoversNext ==
    ASSUME StaleReads => StrongRead, SessionInv, [Next]_vars
    PROVE  CoversInHand'
<1> USE SessionAssumption DEF SessionInv, IndexInv, TypeOK, RowStates, RowOfLogin, CoversInHand, Reach,
        Marked, OwnedBy, db, cache, callVars, Goto
<1>1. ASSUME NEW s \in Sessions, CreateSession(s) PROVE CoversInHand'
  BY <1>1 DEF CreateSession
<1>2. ASSUME NEW s \in Sessions, SaveSession(s) PROVE CoversInHand'
  BY <1>2 DEF SaveSession
<1>3. ASSUME NEW s \in Sessions, LoginFails(s) PROVE CoversInHand'
  BY <1>3 DEF LoginFails
<1>4. ASSUME NEW c \in Calls, Logout(c) PROVE CoversInHand'
  BY <1>4 DEF Logout, Begin, HoldsCookie
<1>5. ASSUME NEW c \in Calls, LogoutAll(c) PROVE CoversInHand'
  BY <1>5 DEF LogoutAll, Begin, HoldsCookie, LoggedIn
<1>6. ASSUME NEW c \in Calls, AdminLogoutUser(c) PROVE CoversInHand'
  BY <1>6 DEF AdminLogoutUser, Begin, LoggedIn
<1>7. ASSUME NEW c \in Calls, InvalidateCurrentSession(c) PROVE CoversInHand'
  BY <1>7 DEF InvalidateCurrentSession, Begin, HoldsCookie
<1>8. ASSUME NEW c \in Calls, Find(c) PROVE CoversInHand'
  BY <1>8, FoundRowIsRow DEF Find
<1>9. ASSUME NEW c \in Calls, ListActive(c) PROVE CoversInHand'
  BY <1>9 DEF ListActive
<1>10. ASSUME NEW c \in Calls, MarkLoggedOut(c) PROVE CoversInHand'
  BY <1>10 DEF MarkLoggedOut
<1>11. ASSUME NEW c \in Calls, Collect(c) PROVE CoversInHand'
  BY <1>11 DEF Collect, Return, IndexCoversCache
<1>12. ASSUME NEW c \in Calls, GetForDelete(c) PROVE CoversInHand'
  BY <1>12 DEF GetForDelete
<1>13. ASSUME NEW c \in Calls, DeleteKey(c) PROVE CoversInHand'
  BY <1>13 DEF DeleteKey, AfterDelete, Return
<1>14. ASSUME NEW c \in Calls, DeleteScript(c) PROVE CoversInHand'
  BY <1>14 DEF DeleteScript, AfterDelete, Return
<1>15. ASSUME NEW c \in Calls, RemoveIndex(c) PROVE CoversInHand'
  BY <1>15 DEF RemoveIndex, Return
<1>16. ASSUME NEW c \in Calls, CallFails(c) PROVE CoversInHand'
  BY <1>16 DEF CallFails
<1>17. CASE UNCHANGED vars
  BY <1>17 DEF vars
<1> QED
  BY <1>1, <1>2, <1>3, <1>4, <1>5, <1>6, <1>7, <1>8, <1>9, <1>10, <1>11, <1>12, <1>13, <1>14, <1>15, <1>16, <1>17, Zenon
  DEF Next, CallStep

\* Every step keeps ended sessions ended.
LEMMA EndedNext == SessionInv /\ [Next]_vars => EndedForGood'
<1> SUFFICES ASSUME SessionInv, [Next]_vars PROVE EndedForGood'
  BY Zenon
<1> USE DEF SessionInv, IndexInv, TypeOK, CoversInHand, EndedForGood, Marked, db, cache, callVars
<1>1. ASSUME NEW s \in Sessions, CreateSession(s) PROVE EndedForGood'
  BY <1>1, Zenon DEF CreateSession
<1>2. ASSUME NEW s \in Sessions, SaveSession(s) PROVE EndedForGood'
  BY <1>2, Zenon DEF SaveSession
<1>3. ASSUME NEW s \in Sessions, LoginFails(s) PROVE EndedForGood'
  BY <1>3, Zenon DEF LoginFails
<1>4. ASSUME NEW c \in Calls, Logout(c) PROVE EndedForGood'
  BY <1>4, Zenon DEF Logout, Begin
<1>5. ASSUME NEW c \in Calls, LogoutAll(c) PROVE EndedForGood'
  BY <1>5, Zenon DEF LogoutAll, Begin
<1>6. ASSUME NEW c \in Calls, AdminLogoutUser(c) PROVE EndedForGood'
  BY <1>6, Zenon DEF AdminLogoutUser, Begin
<1>7. ASSUME NEW c \in Calls, InvalidateCurrentSession(c) PROVE EndedForGood'
  BY <1>7, Zenon DEF InvalidateCurrentSession, Begin
<1>8. ASSUME NEW c \in Calls, Find(c) PROVE EndedForGood'
  BY <1>8, Zenon DEF Find
<1>9. ASSUME NEW c \in Calls, ListActive(c) PROVE EndedForGood'
  BY <1>9, Zenon DEF ListActive
<1>10. ASSUME NEW c \in Calls, MarkLoggedOut(c) PROVE EndedForGood'
  BY <1>10, Zenon DEF MarkLoggedOut
<1>11. ASSUME NEW c \in Calls, Collect(c) PROVE EndedForGood'
  BY <1>11 DEF Collect, Return, Reach, OwnedBy, IndexCoversCache
<1>12. ASSUME NEW c \in Calls, GetForDelete(c) PROVE EndedForGood'
  BY <1>12, Zenon DEF GetForDelete
<1>13. ASSUME NEW c \in Calls, DeleteKey(c) PROVE EndedForGood'
  BY <1>13, Zenon DEF DeleteKey, AfterDelete, Return
<1>14. ASSUME NEW c \in Calls, DeleteScript(c) PROVE EndedForGood'
  BY <1>14, Zenon DEF DeleteScript, AfterDelete, Return
<1>15. ASSUME NEW c \in Calls, RemoveIndex(c) PROVE EndedForGood'
  BY <1>15, Zenon DEF RemoveIndex, Return
<1>16. ASSUME NEW c \in Calls, CallFails(c) PROVE EndedForGood'
  BY <1>16, Zenon DEF CallFails
<1>17. CASE UNCHANGED vars
  BY <1>17, Zenon DEF vars
<1> QED
  BY <1>1, <1>2, <1>3, <1>4, <1>5, <1>6, <1>7, <1>8, <1>9, <1>10, <1>11, <1>12, <1>13, <1>14, <1>15, <1>16, <1>17, Zenon
  DEF Next, CallStep

-----------------------------------------------------------------------------
(* The theorems. *)

\* TypeOK holds in every state, with lagging reads or without.
THEOREM TypeCorrect == Spec => []TypeOK
<1>1. TypeOK /\ [Next]_vars => TypeOK'
  BY TypeNext, Zenon
<1> QED
  BY TypeInit, <1>1, PTL DEF Spec

\* The index of a user covers every cached session of theirs, so that
\* collectUserSessionIDs of a logout-all or a forced logout misses none,
\* whatever save_session.lua, delete_session.lua and RemoveUserSessionIndex of
\* several requests do at once and whatever the replica returns.
THEOREM IndexIsComplete == Spec => []IndexCoversCache
<1>1. Init => IndexInv
  BY TypeInit, Zenon DEF Init, IndexInv, EnrolInHand, IndexCoversCache
<1>2. IndexInv /\ [Next]_vars => IndexInv'
  BY TypeNext, InHandNext, IndexNext, Zenon DEF IndexInv
<1>3. IndexInv => IndexCoversCache
  BY Zenon DEF IndexInv
<1> QED
  BY <1>1, <1>2, <1>3, PTL DEF Spec

\* Once Logout, LogoutAll, AdminLogoutUser or the end of a TOTP enrolment has
\* returned without an error, no endpoint accepts a session that was logged in
\* when the call began: neither by its entry nor by its row.
THEOREM EndedIsFinal ==
    ASSUME StaleReads => StrongRead
    PROVE  Spec => []EndedStaysEnded
<1>1. Init => SessionInv
  BY TypeInit, Zenon DEF Init, SessionInv, IndexInv, EnrolInHand, IndexCoversCache, RowOfLogin,
                  CoversInHand, EndedForGood, Marked
<1>2. SessionInv /\ [Next]_vars => SessionInv'
  BY TypeNext, InHandNext, IndexNext, RowNext, CoversNext, EndedNext, Zenon DEF SessionInv, IndexInv
<1>3. SessionInv => EndedStaysEnded
  BY FoundRowIsRow DEF SessionInv, IndexInv, TypeOK, EndedForGood, EndedStaysEnded, MayAccept
<1> QED
  BY <1>1, <1>2, <1>3, PTL DEF Spec

-----------------------------------------------------------------------------
(* Enrolment. *)

\* No user is the missing one.
EnrolData == E!None \notin Users /\ MaxSecrets \in Nat /\ MaxCeremonies \in Nat

EnrolRequests ==
    [pc : E!Steps, op : {"none", "setup", "retry", "confirm", "begin", "finish"},
     session : Enrolling \cup {E!None}, secret : Nat, step : TimeSteps \cup {0}, login : BOOLEAN,
     entry : Nat, credential : Credentials \cup {E!None}]

\* The stores and what the histories say of them.  A row that was written used
\* up its time step, and a ceremony is still the one its user began.
EnrolStores ==
    /\ owner \in [Enrolling -> Users]
    /\ totp \in [Users -> Nat] /\ enrolment \in [Enrolling -> Nat]
    /\ ceremony \in [1..MaxCeremonies -> Users \cup {E!None}]
    /\ begun \in [1..MaxCeremonies -> Users \cup {E!None}]
    /\ credential \in [Credentials -> Users \cup {E!None}]
    /\ answers \in [Credentials -> Users \cup {E!None}]
    /\ secrets \in Nat /\ ceremonies \in 0..MaxCeremonies
    /\ confirmed \in [Users \X TimeSteps -> Nat]
    /\ \A p \in Users \X TimeSteps : confirmed[p] # 0 => p \in usedSteps
    /\ \A k \in 1..MaxCeremonies : ceremony[k] # E!None => begun[k] = ceremony[k]
    /\ E!FactorsWereProved /\ E!ChallengeReplacesSession

\* What a request has made sure of by the step it is at.
EnrolRequestOK(q) ==
    /\ q.pc # "idle" => q.session \in Enrolling
    /\ q.op = "confirm" => q.step \in TimeSteps
    /\ q.op = "finish" => q.credential \in Credentials /\ q.entry \in 1..ceremonies
    /\ q.pc \in {"get", "reserve", "upsert"} => q.op = "confirm"
    /\ q.pc \in {"getsetup", "store", "consume"} => q.op = "finish"
    /\ q.pc \in {"reserve", "upsert"} => <<owner[q.session], q.entry>> \in proved
    /\ q.pc = "upsert" => /\ <<owner[q.session], q.step>> \in usedSteps
                          /\ confirmed[<<owner[q.session], q.step>>] = 0
    /\ q.pc = "store" => begun[q.entry] = owner[q.session]
    /\ q.pc = "uncache" => q.session \notin sessionRow

\* Of the submissions with one time step, one comes to write the row.
OneUpsert ==
    \A r, s \in Slots :
        /\ enrolReq[r].pc = "upsert" /\ enrolReq[s].pc = "upsert"
        /\ owner[enrolReq[r].session] = owner[enrolReq[s].session]
        /\ enrolReq[r].step = enrolReq[s].step
        => r = s

EnrolInv ==
    /\ EnrolStores /\ enrolReq \in [Slots -> EnrolRequests]
    /\ \A r \in Slots : EnrolRequestOK(enrolReq[r])
    /\ OneUpsert

\* A step changes one request.
EnrolOthers(r, q) ==
    /\ enrolReq' \in [Slots -> EnrolRequests] /\ enrolReq'[r] = q
    /\ \A s \in Slots : s # r => enrolReq'[s] = enrolReq[s]

\* What a request knows is not lost by the steps of others.
EnrolGrows ==
    /\ owner' = owner /\ proved \subseteq proved' /\ usedSteps \subseteq usedSteps'
    /\ ceremonies' \in Nat /\ ceremonies <= ceremonies'
    /\ \A k \in 1..ceremonies : begun'[k] = begun[k]
    /\ sessionRow' \subseteq sessionRow

\* Anyone else's step leaves EnrolRequestOK as it was.
LEMMA EnrolStable ==
    ASSUME EnrolData, EnrolInv, EnrolGrows, NEW q \in EnrolRequests, EnrolRequestOK(q),
           q.pc = "upsert" => confirmed'[<<owner[q.session], q.step>>] = 0
    PROVE  EnrolRequestOK(q)'
<1>1. ceremonies \in Nat /\ ceremonies' \in Nat /\ ceremonies <= ceremonies' /\ owner' = owner
    BY DEF EnrolInv, EnrolStores, EnrolGrows, EnrolData
<1>2. q.op = "finish" => q.credential \in Credentials /\ q.entry \in 1..ceremonies'
    BY <1>1 DEF EnrolRequestOK, EnrolRequests
<1>3. q.pc = "store" => begun'[q.entry] = owner'[q.session]
    BY <1>1, Zenon DEF EnrolRequestOK, EnrolGrows
<1>4. q.pc = "upsert" => /\ <<owner'[q.session], q.step>> \in usedSteps'
                         /\ confirmed'[<<owner'[q.session], q.step>>] = 0
    BY <1>1, Zenon DEF EnrolRequestOK, EnrolGrows
<1>5. q.pc \in {"reserve", "upsert"} => <<owner'[q.session], q.entry>> \in proved'
    BY <1>1, Zenon DEF EnrolRequestOK, EnrolGrows
<1>6. q.pc = "uncache" => q.session \notin sessionRow'
    BY Zenon DEF EnrolRequestOK, EnrolGrows
<1> QED
    BY <1>2, <1>3, <1>4, <1>5, <1>6, Zenon DEF EnrolRequestOK

\* The parts of a step: the stores, and the request that takes it.
LEMMA EnrolStep ==
    ASSUME EnrolData, EnrolInv, EnrolGrows, NEW r \in Slots, NEW q \in EnrolRequests,
           EnrolOthers(r, q), EnrolRequestOK(q)', EnrolStores',
           \A s \in Slots : s # r /\ enrolReq[s].pc = "upsert" =>
                confirmed'[<<owner[enrolReq[s].session], enrolReq[s].step>>] = 0,
           q.pc = "upsert" => <<owner[q.session], q.step>> \notin usedSteps
    PROVE  EnrolInv'
<1>1. \A s \in Slots : enrolReq[s] \in EnrolRequests /\ EnrolRequestOK(enrolReq[s])
    BY Zenon DEF EnrolInv
<1>2. ASSUME NEW s \in Slots
      PROVE  EnrolRequestOK(enrolReq[s])'
  <2>1. PICK p \in EnrolRequests : p = enrolReq[s] /\ EnrolRequestOK(p)
    BY <1>1, Zenon
  <2>2. CASE s # r
    <3>1. enrolReq'[s] = p
      BY <2>1, <2>2, Zenon DEF EnrolOthers
    <3>2. EnrolRequestOK(p)'
      BY <2>1, <2>2, EnrolStable, Zenon
    <3> QED
      BY <3>1, <3>2, Zenon
  <2>3. CASE s = r
    BY <2>3, Zenon DEF EnrolOthers
  <2> QED
    BY <2>2, <2>3, Zenon
<1>3. OneUpsert'
  <2> SUFFICES ASSUME NEW s \in Slots, NEW t \in Slots, s # t,
                      enrolReq'[s].pc = "upsert", enrolReq'[t].pc = "upsert",
                      owner[enrolReq'[s].session] = owner[enrolReq'[t].session],
                      enrolReq'[s].step = enrolReq'[t].step
               PROVE  FALSE
    BY Zenon DEF OneUpsert, EnrolGrows
  <2>1. \A v \in Slots : v # r /\ enrolReq'[v].pc = "upsert" =>
            <<owner[enrolReq'[v].session], enrolReq'[v].step>> \in usedSteps
    BY <1>1, Zenon DEF EnrolRequestOK, EnrolOthers
  <2>2. enrolReq'[r].pc = "upsert" =>
            <<owner[enrolReq'[r].session], enrolReq'[r].step>> \notin usedSteps
    BY Zenon DEF EnrolOthers
  <2>3. CASE s # r /\ t # r
    BY <2>3, Zenon DEF EnrolInv, OneUpsert, EnrolOthers
  <2> QED
    BY <2>1, <2>2, <2>3, Zenon
<1> QED
    BY <1>2, <1>3, Zenon DEF EnrolInv, EnrolOthers

\* A step that rewrites its own request leaves those of the others.
LEMMA EnrolEffect ==
    ASSUME enrolReq \in [Slots -> EnrolRequests], NEW r \in Slots, NEW q \in EnrolRequests,
           enrolReq' = [enrolReq EXCEPT ![r] = q]
    PROVE  EnrolOthers(r, q)
BY Zenon DEF EnrolOthers

\* The free slot.
LEMMA EnrolIdle ==
    E!Idle \in EnrolRequests /\ E!Idle.pc = "idle" /\ EnrolRequestOK(E!Idle)
<1>1. /\ E!Idle \in EnrolRequests /\ E!Idle.pc = "idle" /\ E!Idle.op = "none"
    BY Zenon DEF E!Idle, EnrolRequests, E!Steps
<1> QED
    BY <1>1, Zenon DEF EnrolRequestOK

\* A request that goes on to its next store call.
LEMMA EnrolGoto ==
    ASSUME enrolReq \in [Slots -> EnrolRequests], NEW r \in Slots, NEW step \in E!Steps,
           E!Goto(r, step)
    PROVE  \E q \in EnrolRequests :
            /\ EnrolOthers(r, q) /\ q.pc = step /\ q.op = enrolReq[r].op
            /\ q.session = enrolReq[r].session /\ q.step = enrolReq[r].step
            /\ q.entry = enrolReq[r].entry /\ q.credential = enrolReq[r].credential
<1> DEFINE q == [enrolReq[r] EXCEPT !.pc = step]
<1>1. /\ q \in EnrolRequests /\ q.pc = step /\ q.op = enrolReq[r].op
      /\ q.session = enrolReq[r].session /\ q.step = enrolReq[r].step
      /\ q.entry = enrolReq[r].entry /\ q.credential = enrolReq[r].credential
    BY Zenon DEF EnrolRequests
<1>2. enrolReq' = [enrolReq EXCEPT ![r] = q]
    BY Zenon DEF E!Goto
<1> HIDE DEF q
<1> QED
    BY <1>1, <1>2, EnrolEffect, Zenon

\* A request that is answered.
LEMMA EnrolReturn ==
    ASSUME EnrolInv, NEW r \in Slots, E!Return(r)
    PROVE  EnrolOthers(r, E!Idle)
BY EnrolIdle, EnrolEffect, Zenon DEF EnrolInv, E!Return

\* Steps that leave the stores as they are.
LEMMA EnrolQuiet ==
    ASSUME EnrolData, EnrolInv, NEW r \in Slots, NEW q \in EnrolRequests, EnrolOthers(r, q),
           EnrolRequestOK(q), q.pc # "upsert",
           UNCHANGED <<E!sessions, E!totpVars, E!passkeyVars, secrets, ceremonies, E!history>>
    PROVE  EnrolInv'
<1>1. /\ UNCHANGED <<owner, sessionRow, sessionCache, totp, enrolment, usedSteps>>
      /\ UNCHANGED <<ceremony, credential, secrets, ceremonies>>
      /\ UNCHANGED <<proved, confirmed, replaced, begun, answers>>
    BY Zenon DEF E!sessions, E!totpVars, E!passkeyVars, E!history
<1>2. EnrolStores'
    BY <1>1, Zenon DEF EnrolInv, EnrolStores, E!FactorsWereProved, E!ChallengeReplacesSession
<1>3. EnrolGrows
    BY <1>1 DEF EnrolInv, EnrolStores, EnrolGrows, EnrolData
<1>4. EnrolRequestOK(q)'
    BY <1>1, Zenon DEF EnrolRequestOK
<1>5. \A s \in Slots : enrolReq[s].pc = "upsert" =>
        confirmed'[<<owner[enrolReq[s].session], enrolReq[s].step>>] = 0
    BY <1>1, Zenon DEF EnrolInv, EnrolRequestOK
<1> QED
    BY <1>2, <1>3, <1>4, <1>5, EnrolStep, Zenon

\* A request that goes on, to a step that asks for no more than it knows.
LEMMA EnrolGoesOn ==
    ASSUME EnrolData, EnrolInv, NEW r \in Slots, NEW step \in E!Steps, E!Goto(r, step),
           enrolReq[r].pc # "idle",
           step \in {"find", "get", "save", "begin", "getsetup", "challenge", "logout", "store"},
           step = "get" => enrolReq[r].op = "confirm",
           step \in {"getsetup", "store"} => enrolReq[r].op = "finish",
           step = "store" => begun[enrolReq[r].entry] = owner[enrolReq[r].session],
           UNCHANGED <<E!sessions, E!totpVars, E!passkeyVars, secrets, ceremonies, E!history>>
    PROVE  EnrolInv'
<1>1. enrolReq \in [Slots -> EnrolRequests] /\ EnrolRequestOK(enrolReq[r])
    BY Zenon DEF EnrolInv
<1>2. PICK q \in EnrolRequests :
            /\ EnrolOthers(r, q) /\ q.pc = step /\ q.op = enrolReq[r].op
            /\ q.session = enrolReq[r].session /\ q.step = enrolReq[r].step
            /\ q.entry = enrolReq[r].entry /\ q.credential = enrolReq[r].credential
    BY <1>1, EnrolGoto, Zenon
<1>3. EnrolRequestOK(q) /\ q.pc # "upsert"
    BY <1>1, <1>2, Zenon DEF EnrolRequestOK
<1> QED
    BY <1>2, <1>3, EnrolQuiet, Zenon

\* A request that is answered without touching a store.
LEMMA EnrolAnswered ==
    ASSUME EnrolData, EnrolInv, NEW r \in Slots, E!Return(r),
           UNCHANGED <<E!sessions, E!totpVars, E!passkeyVars, secrets, ceremonies, E!history>>
    PROVE  EnrolInv'
BY EnrolReturn, EnrolIdle, EnrolQuiet, Zenon

\* What can arrive.
LEMMA EnrolArrive ==
    ASSUME EnrolData, EnrolInv, NEW r \in Slots, E!Arrive(r)
    PROVE  EnrolInv'
<1>1. enrolReq \in [Slots -> EnrolRequests] /\ ceremonies \in 0..MaxCeremonies /\ secrets \in Nat
    BY Zenon DEF EnrolInv, EnrolStores
<1>2. ASSUME NEW q \in EnrolRequests, E!Begin(r, q), EnrolRequestOK(q), q.pc # "upsert"
      PROVE  EnrolInv'
  <2>1. EnrolOthers(r, q)
    BY <1>1, <1>2, EnrolEffect, Zenon DEF E!Begin
  <2> QED
    BY <1>2, <2>1, EnrolQuiet, Zenon DEF E!Begin
<1>3. ASSUME NEW s \in Enrolling, NEW pending \in BOOLEAN, E!Setup(r, s, pending)
      PROVE  EnrolInv'
  <2> DEFINE q == [E!Idle EXCEPT !.pc = "load", !.op = "setup", !.session = s, !.login = pending]
  <2>1. /\ q \in EnrolRequests /\ q.pc = "load" /\ q.op = "setup" /\ q.session = s
    BY Zenon DEF E!Idle, EnrolRequests, E!Steps
  <2>2. E!Begin(r, q)
    BY <1>3, Zenon DEF E!Setup
  <2> HIDE DEF q
  <2>3. EnrolRequestOK(q)
    BY <2>1, Zenon DEF EnrolRequestOK
  <2> QED
    BY <1>2, <2>1, <2>2, <2>3, Zenon
<1>4. ASSUME NEW s \in Enrolling, NEW pending \in BOOLEAN, NEW k \in 0..MaxSecrets, NEW t \in TimeSteps,
             E!Confirm(r, s, k, t, pending)
      PROVE  EnrolInv'
  <2> DEFINE q == [E!Idle EXCEPT !.pc = "load", !.op = "confirm", !.session = s, !.login = pending,
                                 !.secret = k, !.step = t]
  <2>0. k \in Nat
    BY DEF EnrolData
  <2>1. /\ q \in EnrolRequests /\ q.pc = "load" /\ q.op = "confirm" /\ q.session = s /\ q.step = t
    BY <2>0, Zenon DEF E!Idle, EnrolRequests, E!Steps
  <2>2. E!Begin(r, q)
    BY <1>4, Zenon DEF E!Confirm
  <2> HIDE DEF q
  <2>3. EnrolRequestOK(q)
    BY <2>1, Zenon DEF EnrolRequestOK
  <2> QED
    BY <1>2, <2>1, <2>2, <2>3, Zenon
<1>5. ASSUME NEW s \in Enrolling, E!BeginPasskey(r, s)
      PROVE  EnrolInv'
  <2> DEFINE q == [E!Idle EXCEPT !.pc = "load", !.op = "begin", !.session = s]
  <2>1. /\ q \in EnrolRequests /\ q.pc = "load" /\ q.op = "begin" /\ q.session = s
    BY Zenon DEF E!Idle, EnrolRequests, E!Steps
  <2>2. E!Begin(r, q)
    BY <1>5, Zenon DEF E!BeginPasskey
  <2> HIDE DEF q
  <2>3. EnrolRequestOK(q)
    BY <2>1, Zenon DEF EnrolRequestOK
  <2> QED
    BY <1>2, <2>1, <2>2, <2>3, Zenon
<1>6. ASSUME NEW s \in Enrolling, NEW k \in 1..MaxCeremonies, NEW c \in Credentials,
             E!FinishPasskey(r, s, k, c)
      PROVE  EnrolInv'
  <2> DEFINE q == [E!Idle EXCEPT !.pc = "load", !.op = "finish", !.session = s, !.entry = k,
                                 !.credential = c]
  <2>0. k \in Nat
    BY DEF EnrolData
  <2>1. /\ q \in EnrolRequests /\ q.pc = "load" /\ q.op = "finish" /\ q.session = s
        /\ q.entry = k /\ q.credential = c
    BY <2>0, Zenon DEF E!Idle, EnrolRequests, E!Steps
  <2>2. E!Begin(r, q) /\ k \in 1..ceremonies
    BY <1>6, Zenon DEF E!FinishPasskey
  <2> HIDE DEF q
  <2>3. EnrolRequestOK(q)
    BY <2>1, <2>2, Zenon DEF EnrolRequestOK
  <2> QED
    BY <1>2, <2>1, <2>2, <2>3, Zenon
<1> QED
    BY <1>3, <1>4, <1>5, <1>6, Zenon DEF E!Arrive

\* WriteError: the error page is another setup request.
LEMMA EnrolWriteError ==
    ASSUME EnrolInv, NEW r \in Slots, E!WriteError(r), enrolReq[r].pc # "idle"
    PROVE  \E q \in EnrolRequests : EnrolOthers(r, q) /\ q.pc = "load" /\ EnrolRequestOK(q)
<1> DEFINE q == [E!Idle EXCEPT !.pc = "load", !.op = "retry", !.session = enrolReq[r].session]
<1>1. /\ enrolReq \in [Slots -> EnrolRequests] /\ enrolReq[r].session \in Enrolling
    BY Zenon DEF EnrolInv, EnrolRequestOK
<1>2. /\ q \in EnrolRequests /\ q.pc = "load" /\ q.op = "retry" /\ q.session \in Enrolling
    BY <1>1, Zenon DEF E!Idle, EnrolRequests, E!Steps
<1>3. enrolReq' = [enrolReq EXCEPT ![r] = q]
    BY Zenon DEF E!WriteError
<1> HIDE DEF q
<1>4. EnrolRequestOK(q)
    BY <1>2, Zenon DEF EnrolRequestOK
<1> QED
    BY <1>1, <1>2, <1>3, <1>4, EnrolEffect, Zenon

\* LoadUser of both services, FindByUserID, CreateLoginChallenge, GetCeremony and
\* a failing call change no store.
LEMMA EnrolReads ==
    ASSUME EnrolData, EnrolInv, NEW r \in Slots,
           \/ E!LoadUser(r) \/ E!LoadPasskeyUser(r) \/ E!FindByUserID(r)
           \/ E!CreateLoginChallenge(r) \/ E!GetCeremony(r) \/ E!CallFails(r)
    PROVE  EnrolInv'
<1> DEFINE Same == UNCHANGED <<E!sessions, E!totpVars, E!passkeyVars, secrets, ceremonies, E!history>>
<1>1. ASSUME NEW step \in {"find", "get", "begin", "getsetup"}, E!LoadedOrRefused(r, step),
             step = "get" => enrolReq[r].op = "confirm",
             step = "getsetup" => enrolReq[r].op = "finish"
      PROVE  EnrolInv'
  <2>1. Same /\ enrolReq[r].pc # "idle" /\ (E!Goto(r, step) \/ E!Return(r)) /\ step \in E!Steps
    BY <1>1, Zenon DEF E!LoadedOrRefused, E!At, E!bounds, E!Steps
  <2> QED
    BY <1>1, <2>1, EnrolGoesOn, EnrolAnswered, Zenon
<1>2. CASE E!LoadUser(r)
    BY <1>1, <1>2, Zenon DEF E!LoadUser
<1>3. CASE E!LoadPasskeyUser(r)
    BY <1>1, <1>3, Zenon DEF E!LoadPasskeyUser
<1>4. CASE E!FindByUserID(r)
  <2>1. /\ Same /\ enrolReq[r].pc # "idle"
        /\ E!Goto(r, "save") \/ E!Goto(r, "challenge") \/ E!Return(r)
    BY <1>4, Zenon DEF E!FindByUserID, E!At, E!bounds, EnrolInv, EnrolRequests
  <2>2. "save" \in E!Steps /\ "challenge" \in E!Steps
    BY Zenon DEF E!Steps
  <2> QED
    BY <2>1, <2>2, EnrolGoesOn, EnrolAnswered, Zenon
<1>5. CASE E!CreateLoginChallenge(r)
  <2>1. Same /\ enrolReq[r].pc # "idle" /\ E!Goto(r, "logout") /\ "logout" \in E!Steps
    BY <1>5, Zenon DEF E!CreateLoginChallenge, E!At, E!bounds, E!Steps
  <2> QED
    BY <2>1, EnrolGoesOn, Zenon
<1>6. CASE E!GetCeremony(r)
  <2>1. /\ Same /\ enrolReq[r].pc = "getsetup" /\ "store" \in E!Steps
        /\ (E!OwnCeremony(r) /\ E!Goto(r, "store")) \/ E!Return(r)
    BY <1>6, Zenon DEF E!GetCeremony, E!At, E!bounds, E!Steps
  <2>2. /\ enrolReq[r].op = "finish" /\ enrolReq[r].session \in Enrolling
        /\ enrolReq[r].entry \in 1..ceremonies
    BY <2>1, Zenon DEF EnrolInv, EnrolRequestOK
  <2>3. /\ enrolReq[r].entry \in 1..MaxCeremonies /\ owner[enrolReq[r].session] \in Users
    BY <2>2 DEF EnrolInv, EnrolStores, EnrolData
  <2>4. E!OwnCeremony(r) => begun[enrolReq[r].entry] = owner[enrolReq[r].session]
    BY <2>3, Zenon DEF E!OwnCeremony, E!User, EnrolInv, EnrolStores, EnrolData
  <2> QED
    BY <2>1, <2>2, <2>4, EnrolGoesOn, EnrolAnswered, Zenon
<1>7. CASE E!CallFails(r)
    BY <1>7, EnrolAnswered, Zenon DEF E!CallFails, E!bounds
<1> QED
    BY <1>2, <1>3, <1>4, <1>5, <1>6, <1>7, Zenon

\* The keys with a time to live: a new secret, one that is deleted or expires, a
\* ceremony that goes.  No property depends on them.
LEMMA EnrolKeys ==
    ASSUME EnrolInv, UNCHANGED <<owner, totp, begun, credential, answers, ceremonies, confirmed>>,
           UNCHANGED <<usedSteps, proved, replaced, sessionRow, sessionCache>>,
           enrolment' \in [Enrolling -> Nat], secrets' \in Nat,
           ceremony' \in [1..MaxCeremonies -> Users \cup {E!None}],
           \A k \in 1..MaxCeremonies : ceremony'[k] \in {ceremony[k], E!None}
    PROVE  EnrolStores'
<1>1. \A k \in 1..MaxCeremonies : ceremony'[k] # E!None => begun'[k] = ceremony'[k]
    BY Zenon DEF EnrolInv, EnrolStores
<1> QED
    BY <1>1, Zenon DEF EnrolInv, EnrolStores, E!FactorsWereProved, E!ChallengeReplacesSession

\* What such a step leaves alone.
LEMMA EnrolSame ==
    ASSUME EnrolData, EnrolInv, UNCHANGED <<owner, proved, usedSteps, begun, ceremonies, confirmed, sessionRow>>
    PROVE  /\ EnrolGrows
           /\ \A q : EnrolRequestOK(q) => EnrolRequestOK(q)'
           /\ \A s \in Slots : enrolReq[s].pc = "upsert" =>
                confirmed'[<<owner[enrolReq[s].session], enrolReq[s].step>>] = 0
<1>1. EnrolGrows
    BY DEF EnrolInv, EnrolStores, EnrolGrows, EnrolData
<1>2. \A q : EnrolRequestOK(q) => EnrolRequestOK(q)'
    BY Zenon DEF EnrolRequestOK
<1>3. \A s \in Slots : enrolReq[s].pc = "upsert" =>
        confirmed'[<<owner[enrolReq[s].session], enrolReq[s].step>>] = 0
    BY Zenon DEF EnrolInv, EnrolRequestOK
<1> QED
    BY <1>1, <1>2, <1>3, Zenon

\* SaveTOTPEnrollment.
LEMMA EnrolSave ==
    ASSUME EnrolData, EnrolInv, NEW r \in Slots, E!SaveTOTPEnrollment(r)
    PROVE  EnrolInv'
<1>1. /\ UNCHANGED <<owner, totp, begun, credential, answers, ceremonies, confirmed>>
      /\ UNCHANGED <<usedSteps, proved, replaced, sessionRow, sessionCache, ceremony>>
      /\ secrets' = secrets + 1 /\ E!Return(r)
      /\ enrolment' = [enrolment EXCEPT ![enrolReq[r].session] = secrets + 1]
    BY Zenon DEF E!SaveTOTPEnrollment, E!sessions, E!passkeyVars, E!history
<1>2. secrets \in Nat /\ enrolment \in [Enrolling -> Nat] /\ enrolReq[r].session \in Enrolling
    BY Zenon DEF EnrolInv, EnrolStores, EnrolRequestOK, E!SaveTOTPEnrollment, E!At
<1>3. secrets' \in Nat /\ enrolment' \in [Enrolling -> Nat]
    BY <1>1, <1>2
<1>4. EnrolStores'
    BY <1>1, <1>3, EnrolKeys, Zenon DEF EnrolInv, EnrolStores
<1> QED
    BY <1>1, <1>4, EnrolSame, EnrolReturn, EnrolIdle, EnrolStep, Zenon

\* DeleteTOTPEnrollment.
LEMMA EnrolDelete ==
    ASSUME EnrolData, EnrolInv, NEW r \in Slots, E!DeleteTOTPEnrollment(r)
    PROVE  EnrolInv'
<1>1. /\ UNCHANGED <<owner, totp, begun, credential, answers, ceremonies, confirmed>>
      /\ UNCHANGED <<usedSteps, proved, replaced, sessionRow, sessionCache, ceremony, secrets>>
      /\ enrolReq[r].pc = "delete" /\ (E!Goto(r, "challenge") \/ E!Return(r))
      /\ enrolment' = [enrolment EXCEPT ![enrolReq[r].session] = 0]
    BY Zenon DEF E!DeleteTOTPEnrollment, E!sessions, E!passkeyVars, E!history, E!bounds, E!At
<1>2. /\ enrolReq \in [Slots -> EnrolRequests] /\ EnrolRequestOK(enrolReq[r])
      /\ enrolment \in [Enrolling -> Nat] /\ enrolReq[r].session \in Enrolling
    BY <1>1, Zenon DEF EnrolInv, EnrolStores, EnrolRequestOK
<1>3. enrolment' \in [Enrolling -> Nat]
    BY <1>1, <1>2, Zenon
<1>4. EnrolStores'
    BY <1>1, <1>3, EnrolKeys, Zenon DEF EnrolInv, EnrolStores
<1>5. CASE E!Return(r)
    BY <1>1, <1>4, <1>5, EnrolSame, EnrolReturn, EnrolIdle, EnrolStep, Zenon
<1>6. CASE E!Goto(r, "challenge")
  <2>1. "challenge" \in E!Steps
    BY Zenon DEF E!Steps
  <2>2. PICK q \in EnrolRequests :
            /\ EnrolOthers(r, q) /\ q.pc = "challenge" /\ q.op = enrolReq[r].op
            /\ q.session = enrolReq[r].session /\ q.step = enrolReq[r].step
            /\ q.entry = enrolReq[r].entry /\ q.credential = enrolReq[r].credential
    BY <1>2, <1>6, <2>1, EnrolGoto, Zenon
  <2>3. EnrolRequestOK(q) /\ q.pc # "upsert"
    BY <1>1, <1>2, <2>2, Zenon DEF EnrolRequestOK
  <2> QED
    BY <1>1, <1>4, <2>2, <2>3, EnrolSame, EnrolStep, Zenon
<1> QED
    BY <1>1, <1>5, <1>6, Zenon

\* A key that expires.
LEMMA EnrolExpire ==
    ASSUME EnrolData, EnrolInv, E!Expire
    PROVE  EnrolInv'
<1>1. /\ UNCHANGED <<owner, totp, begun, credential, answers, ceremonies, confirmed>>
      /\ UNCHANGED <<usedSteps, proved, replaced, sessionRow, sessionCache, secrets, enrolReq>>
    BY Zenon DEF E!Expire, E!sessions, E!bounds, E!history
<1>2. enrolment \in [Enrolling -> Nat] /\ ceremony \in [1..MaxCeremonies -> Users \cup {E!None}]
    BY Zenon DEF EnrolInv, EnrolStores
<1>3. \/ UNCHANGED ceremony /\ \E s \in Enrolling : enrolment' = [enrolment EXCEPT ![s] = 0]
      \/ UNCHANGED enrolment /\ \E k \in 1..ceremonies : ceremony' = [ceremony EXCEPT ![k] = E!None]
    BY Zenon DEF E!Expire
<1>4. ceremonies \in 0..MaxCeremonies
    BY Zenon DEF EnrolInv, EnrolStores
<1>5. /\ enrolment' \in [Enrolling -> Nat] /\ ceremony' \in [1..MaxCeremonies -> Users \cup {E!None}]
      /\ \A k \in 1..MaxCeremonies : ceremony'[k] \in {ceremony[k], E!None}
    BY <1>2, <1>3, <1>4 DEF EnrolData
<1>6. EnrolStores'
    BY <1>1, <1>5, EnrolKeys, Zenon DEF EnrolInv, EnrolStores
<1>7. \A r \in Slots : EnrolRequestOK(enrolReq[r])'
  <2> SUFFICES ASSUME NEW r \in Slots
               PROVE  EnrolRequestOK(enrolReq[r])'
    BY Zenon
  <2>1. PICK q : q = enrolReq[r] /\ EnrolRequestOK(q)
    BY Zenon DEF EnrolInv
  <2>2. EnrolRequestOK(q)' /\ enrolReq'[r] = q
    BY <1>1, <2>1, EnrolSame, Zenon
  <2> QED
    BY <2>2, Zenon
<1> QED
    BY <1>1, <1>6, <1>7, Zenon DEF EnrolInv, OneUpsert

\* VerifyCode: the code proves the pending secret.
LEMMA EnrolVerify ==
    ASSUME EnrolData, EnrolInv, NEW r \in Slots, E!VerifyCode(r)
    PROVE  EnrolInv'
<1>1. PICK k : k = enrolment[enrolReq[r].session]
    BY Zenon
<1>2. /\ enrolReq[r].pc = "get"
      /\ IF E!Matches(r, k) THEN enrolReq' = [enrolReq EXCEPT ![r].pc = "reserve", ![r].entry = k]
                            ELSE E!WriteError(r)
      /\ proved' = IF E!Matches(r, k) THEN proved \cup {<<E!User(r), k>>} ELSE proved
      /\ UNCHANGED <<E!sessions, E!totpVars, E!passkeyVars, secrets, ceremonies>>
      /\ UNCHANGED <<confirmed, replaced, begun, answers>>
    BY <1>1, Zenon DEF E!VerifyCode, E!At, E!bounds
<1>3. CASE ~E!Matches(r, k)
  <2>1. PICK q \in EnrolRequests : EnrolOthers(r, q) /\ q.pc = "load" /\ EnrolRequestOK(q)
    BY <1>2, <1>3, EnrolWriteError, Zenon
  <2> QED
    BY <1>2, <1>3, <2>1, EnrolQuiet, Zenon DEF E!history
<1>4. CASE E!Matches(r, k)
  <2>1. /\ enrolReq \in [Slots -> EnrolRequests] /\ enrolReq[r].session \in Enrolling
        /\ enrolReq[r].op = "confirm" /\ enrolReq[r].step \in TimeSteps /\ k \in Nat
    BY <1>1, <1>2, Zenon DEF EnrolInv, EnrolStores, EnrolRequestOK
  <2>2. PICK q : q = [enrolReq[r] EXCEPT !.pc = "reserve", !.entry = k]
    BY Zenon
  <2>3. /\ q \in EnrolRequests /\ q.pc = "reserve" /\ q.op = "confirm" /\ q.step \in TimeSteps
        /\ q.entry = k /\ q.session = enrolReq[r].session
        /\ enrolReq' = [enrolReq EXCEPT ![r] = q]
    <3>1. enrolReq[r] \in EnrolRequests /\ "reserve" \in E!Steps
      BY <2>1, Zenon DEF E!Steps
    <3>2. q \in EnrolRequests /\ enrolReq' = [enrolReq EXCEPT ![r] = q]
      BY <1>2, <1>4, <2>1, <2>2, <3>1, Zenon DEF EnrolRequests
    <3> QED
      BY <2>1, <2>2, <3>1, <3>2, Zenon DEF EnrolRequests
  <2>4. EnrolOthers(r, q)
    BY <2>1, <2>3, EnrolEffect, Zenon
  <2>5. /\ UNCHANGED <<owner, sessionRow, sessionCache, totp, enrolment, usedSteps>>
        /\ UNCHANGED <<ceremony, credential, secrets, ceremonies, confirmed, replaced, begun, answers>>
        /\ proved' = proved \cup {<<owner[q.session], k>>}
    BY <1>2, <1>4, <2>3, Zenon DEF E!sessions, E!totpVars, E!passkeyVars, E!User
  <2>6. EnrolStores'
    BY <2>5, Zenon DEF EnrolInv, EnrolStores, E!FactorsWereProved, E!ChallengeReplacesSession
  <2>7. EnrolGrows
    BY <2>5 DEF EnrolInv, EnrolStores, EnrolGrows, EnrolData
  <2>8. EnrolRequestOK(q)'
    BY <2>1, <2>3, <2>5, Zenon DEF EnrolRequestOK
  <2>9. \A s \in Slots : enrolReq[s].pc = "upsert" =>
            confirmed'[<<owner[enrolReq[s].session], enrolReq[s].step>>] = 0
    BY <2>5, Zenon DEF EnrolInv, EnrolRequestOK
  <2> QED
    BY <2>3, <2>4, <2>6, <2>7, <2>8, <2>9, EnrolStep, Zenon
<1> QED
    BY <1>3, <1>4, Zenon

\* ReserveTOTPStepUse: the first submission with a time step goes on alone.
LEMMA EnrolReserve ==
    ASSUME EnrolData, EnrolInv, NEW r \in Slots, E!ReserveTOTPStepUse(r)
    PROVE  EnrolInv'
<1>1. PICK p \in EnrolRequests : p = enrolReq[r] /\ EnrolRequestOK(p)
    BY Zenon DEF EnrolInv
<1>2. /\ p.pc = "reserve" /\ enrolReq \in [Slots -> EnrolRequests]
      /\ UNCHANGED <<owner, sessionRow, sessionCache, totp, enrolment, ceremony, credential>>
      /\ UNCHANGED <<secrets, ceremonies, proved, confirmed, replaced, begun, answers>>
    BY <1>1, Zenon
    DEF EnrolInv, E!ReserveTOTPStepUse, E!At, E!sessions, E!passkeyVars, E!bounds, E!history
<1>3. CASE <<owner[p.session], p.step>> \in usedSteps
  <2>1. E!WriteError(r) /\ UNCHANGED usedSteps
    BY <1>1, <1>3, Zenon DEF E!ReserveTOTPStepUse, E!User
  <2>2. PICK q \in EnrolRequests : EnrolOthers(r, q) /\ q.pc = "load" /\ EnrolRequestOK(q)
    BY <1>1, <1>2, <2>1, EnrolWriteError, Zenon
  <2> QED
    BY <1>2, <2>1, <2>2, EnrolQuiet, Zenon DEF E!sessions, E!totpVars, E!passkeyVars, E!history
<1>4. CASE <<owner[p.session], p.step>> \notin usedSteps
  <2>1. E!Goto(r, "upsert") /\ usedSteps' = usedSteps \cup {<<owner[p.session], p.step>>}
    BY <1>1, <1>4, Zenon DEF E!ReserveTOTPStepUse, E!User
  <2>2. PICK q \in EnrolRequests :
            /\ EnrolOthers(r, q) /\ q.pc = "upsert" /\ q.op = p.op
            /\ q.session = p.session /\ q.step = p.step
            /\ q.entry = p.entry /\ q.credential = p.credential
    BY <1>1, <1>2, <2>1, EnrolGoto DEF E!Steps
  <2>3. /\ p.session \in Enrolling /\ p.op = "confirm" /\ p.step \in TimeSteps
        /\ <<owner[p.session], p.entry>> \in proved /\ owner[p.session] \in Users
    BY <1>1, <1>2, Zenon DEF EnrolRequestOK, EnrolInv, EnrolStores
  <2>4. confirmed[<<owner[p.session], p.step>>] = 0
    BY <1>4, <2>3, Zenon DEF EnrolInv, EnrolStores
  <2>5. EnrolStores'
    BY <1>2, <2>1, Zenon DEF EnrolInv, EnrolStores, E!FactorsWereProved, E!ChallengeReplacesSession
  <2>6. EnrolGrows
    BY <1>2, <2>1 DEF EnrolInv, EnrolStores, EnrolGrows, EnrolData
  <2>7. EnrolRequestOK(q)'
    BY <1>2, <2>1, <2>2, <2>3, <2>4, Zenon DEF EnrolRequestOK
  <2>8. \A s \in Slots : enrolReq[s].pc = "upsert" =>
            confirmed'[<<owner[enrolReq[s].session], enrolReq[s].step>>] = 0
    BY <1>2, Zenon DEF EnrolInv, EnrolRequestOK
  <2> QED
    BY <1>4, <2>2, <2>5, <2>6, <2>7, <2>8, EnrolStep, Zenon
<1> QED
    BY <1>3, <1>4, Zenon

\* Upsert: the row gets the secret that was proved, whatever is pending by now.
LEMMA EnrolUpsert ==
    ASSUME EnrolData, EnrolInv, NEW r \in Slots, E!Upsert(r)
    PROVE  EnrolInv'
<1>1. PICK p \in EnrolRequests : p = enrolReq[r] /\ EnrolRequestOK(p)
    BY Zenon DEF EnrolInv
<1>2. PICK u, x : u = owner[p.session] /\ x = <<u, p.step>>
    BY Zenon
<1>3. /\ p.pc = "upsert" /\ enrolReq \in [Slots -> EnrolRequests] /\ E!Goto(r, "delete")
      /\ totp' = [totp EXCEPT ![u] = p.entry]
      /\ confirmed' = [confirmed EXCEPT ![x] = confirmed[x] + 1]
      /\ UNCHANGED <<owner, sessionRow, sessionCache, enrolment, usedSteps, ceremony, credential>>
      /\ UNCHANGED <<secrets, ceremonies, proved, replaced, begun, answers>>
    BY <1>1, <1>2, Zenon
    DEF EnrolInv, E!Upsert, E!UpsertSecret, E!User, E!At, E!sessions, E!passkeyVars,
                      E!bounds
<1>4. /\ p.session \in Enrolling /\ p.step \in TimeSteps /\ u \in Users /\ x \in Users \X TimeSteps
      /\ <<u, p.entry>> \in proved /\ x \in usedSteps /\ confirmed[x] = 0 /\ p.entry \in Nat
    BY <1>1, <1>2, <1>3, Zenon DEF EnrolRequestOK, EnrolInv, EnrolStores, EnrolRequests
<1>5. PICK q \in EnrolRequests :
            /\ EnrolOthers(r, q) /\ q.pc = "delete" /\ q.op = p.op
            /\ q.session = p.session /\ q.step = p.step
            /\ q.entry = p.entry /\ q.credential = p.credential
  <2>1. "delete" \in E!Steps
    BY Zenon DEF E!Steps
  <2> QED
    BY <1>1, <1>3, <2>1, EnrolGoto, Zenon
<1>6. totp \in [Users -> Nat] /\ confirmed \in [Users \X TimeSteps -> Nat]
    BY Zenon DEF EnrolInv, EnrolStores
<1>7. /\ totp' \in [Users -> Nat] /\ totp'[u] = p.entry
      /\ \A v \in Users : v # u => totp'[v] = totp[v]
    BY <1>3, <1>4, <1>6, Zenon
<1>8. /\ confirmed' \in [Users \X TimeSteps -> Nat] /\ confirmed'[x] = 1
      /\ \A y \in Users \X TimeSteps : y # x => confirmed'[y] = confirmed[y]
  <2>1. confirmed[x] + 1 = 1 /\ 1 \in Nat
    BY <1>4
  <2>2. confirmed' = [confirmed EXCEPT ![x] = 1]
    BY <1>3, <2>1, Zenon
  <2> QED
    BY <1>4, <1>6, <2>1, <2>2, Zenon
<1>9. E!FactorsWereProved'
  <2>1. ASSUME NEW v \in Users, totp'[v] # 0
        PROVE  <<v, totp'[v]>> \in proved'
    <3>1. v # u => totp'[v] = totp[v] /\ <<v, totp[v]>> \in proved
      BY <1>7, <2>1, Zenon DEF EnrolInv, EnrolStores, E!FactorsWereProved
    <3> QED
      BY <1>3, <1>4, <1>7, <3>1, Zenon
  <2>2. ASSUME NEW y \in Users \X TimeSteps
        PROVE  confirmed'[y] <= 1
    <3>1. y # x => confirmed'[y] = confirmed[y] /\ confirmed[y] <= 1
      BY <1>8, Zenon DEF EnrolInv, EnrolStores, E!FactorsWereProved
    <3> QED
      BY <1>8, <3>1
  <2>3. \A c \in Credentials : credential'[c] = answers'[c]
    BY <1>3, Zenon DEF EnrolInv, EnrolStores, E!FactorsWereProved
  <2> QED
    BY <2>1, <2>2, <2>3, Zenon DEF E!FactorsWereProved
<1>10. \A y \in Users \X TimeSteps : confirmed'[y] # 0 => y \in usedSteps'
    BY <1>3, <1>4, <1>8, Zenon DEF EnrolInv, EnrolStores
<1>11. EnrolStores'
    BY <1>3, <1>7, <1>8, <1>9, <1>10, Zenon DEF EnrolInv, EnrolStores, E!ChallengeReplacesSession
<1>12. EnrolGrows
    BY <1>3 DEF EnrolInv, EnrolStores, EnrolGrows, EnrolData
<1>13. EnrolRequestOK(q)'
    BY <1>1, <1>3, <1>4, <1>5, Zenon DEF EnrolRequestOK
<1>14. ASSUME NEW s \in Slots, s # r, enrolReq[s].pc = "upsert"
       PROVE  confirmed'[<<owner[enrolReq[s].session], enrolReq[s].step>>] = 0
  <2>1. PICK y : y = <<owner[enrolReq[s].session], enrolReq[s].step>>
    BY Zenon
  <2>2. y \in Users \X TimeSteps /\ confirmed[y] = 0
    BY <1>14, <2>1, Zenon DEF EnrolInv, EnrolStores, EnrolRequestOK
  <2>3. y # x
    BY <1>1, <1>2, <1>3, <1>14, <2>1, Zenon DEF EnrolInv, OneUpsert
  <2> QED
    BY <1>8, <2>1, <2>2, <2>3, Zenon
<1> QED
    BY <1>5, <1>11, <1>12, <1>13, <1>14, EnrolStep, Zenon

\* LogoutBySessionID and DeleteSession: the row, then the cached copy.
LEMMA EnrolLogout ==
    ASSUME EnrolData, EnrolInv, NEW r \in Slots, E!LogoutBySessionID(r) \/ E!DeleteSession(r)
    PROVE  EnrolInv'
<1>1. PICK p \in EnrolRequests : p = enrolReq[r] /\ EnrolRequestOK(p)
    BY Zenon DEF EnrolInv
<1>2. /\ p.pc \in {"logout", "uncache"} /\ enrolReq \in [Slots -> EnrolRequests]
      /\ UNCHANGED <<owner, totp, enrolment, usedSteps, ceremony, credential>>
      /\ UNCHANGED <<secrets, ceremonies, proved, confirmed, begun, answers>>
    BY <1>1, Zenon
    DEF EnrolInv, E!LogoutBySessionID, E!DeleteSession, E!At, E!totpVars, E!passkeyVars,
                E!bounds, E!history
<1>3. \A s \in Slots : enrolReq[s].pc = "upsert" =>
        confirmed'[<<owner[enrolReq[s].session], enrolReq[s].step>>] = 0
    BY <1>2, Zenon DEF EnrolInv, EnrolRequestOK
<1>4. ASSUME sessionRow' \subseteq sessionRow, E!ChallengeReplacesSession'
      PROVE  EnrolStores' /\ EnrolGrows
  <2>1. EnrolStores'
    BY <1>2, <1>4, Zenon DEF EnrolInv, EnrolStores, E!FactorsWereProved
  <2>2. EnrolGrows
    BY <1>2, <1>4 DEF EnrolInv, EnrolStores, EnrolGrows, EnrolData
  <2> QED
    BY <2>1, <2>2, Zenon
<1>5. CASE E!LogoutBySessionID(r)
  <2>1. /\ E!Goto(r, "uncache") /\ sessionRow' = sessionRow \ {p.session} /\ p.pc = "logout"
        /\ UNCHANGED <<sessionCache, replaced>>
    BY <1>1, <1>5, Zenon DEF E!LogoutBySessionID, E!history, E!At
  <2>2. PICK q \in EnrolRequests :
            /\ EnrolOthers(r, q) /\ q.pc = "uncache" /\ q.op = p.op
            /\ q.session = p.session /\ q.step = p.step
            /\ q.entry = p.entry /\ q.credential = p.credential
    BY <1>1, <1>2, <2>1, EnrolGoto DEF E!Steps
  <2>3. E!ChallengeReplacesSession' /\ sessionRow' \subseteq sessionRow
    BY <2>1, Zenon DEF EnrolInv, EnrolStores, E!ChallengeReplacesSession
  <2>4. EnrolRequestOK(q)'
    BY <1>1, <1>2, <2>1, <2>2, Zenon DEF EnrolRequestOK
  <2> QED
    BY <1>3, <1>4, <2>2, <2>3, <2>4, EnrolStep, Zenon
<1>6. CASE E!DeleteSession(r)
  <2>1. /\ E!Return(r) /\ sessionCache' = sessionCache \ {p.session} /\ p.pc = "uncache"
        /\ replaced' = replaced \cup {p.session} /\ UNCHANGED sessionRow
    BY <1>1, <1>6, Zenon DEF E!DeleteSession, E!CacheWithout, E!At
  <2>2. p.session \notin sessionRow
    BY <1>1, <2>1, Zenon DEF EnrolRequestOK
  <2>3. E!ChallengeReplacesSession' /\ sessionRow' \subseteq sessionRow
    BY <2>1, <2>2, Zenon DEF EnrolInv, EnrolStores, E!ChallengeReplacesSession
  <2>4. PICK q \in EnrolRequests : q = E!Idle /\ EnrolOthers(r, q) /\ q.pc = "idle" /\ q.op = "none"
    BY <2>1, EnrolReturn, EnrolIdle, Zenon DEF E!Idle
  <2>5. EnrolRequestOK(q)'
    BY <2>4, Zenon DEF EnrolRequestOK
  <2> QED
    BY <1>3, <1>4, <2>3, <2>4, <2>5, EnrolStep, Zenon
<1> QED
    BY <1>5, <1>6, Zenon

\* SaveCeremony: a new ceremony leaves the earlier ones alone.
LEMMA EnrolBegin ==
    ASSUME EnrolData, EnrolInv, NEW r \in Slots, E!SaveCeremony(r)
    PROVE  EnrolInv'
<1>0. PICK p \in EnrolRequests : p = enrolReq[r] /\ EnrolRequestOK(p)
    BY Zenon DEF EnrolInv
<1>1. PICK u, k : u = owner[p.session] /\ k = ceremonies + 1
    BY Zenon
<1>2. /\ p.pc = "begin" /\ ceremonies < MaxCeremonies /\ ceremonies' = k /\ E!Return(r)
      /\ ceremony' = [ceremony EXCEPT ![k] = u] /\ begun' = [begun EXCEPT ![k] = u]
      /\ UNCHANGED <<owner, sessionRow, sessionCache, totp, enrolment, usedSteps, credential>>
      /\ UNCHANGED <<secrets, proved, confirmed, replaced, answers>>
    BY <1>0, <1>1, Zenon DEF E!SaveCeremony, E!User, E!At, E!sessions, E!totpVars
<1>3. /\ ceremony \in [1..MaxCeremonies -> Users \cup {E!None}]
      /\ begun \in [1..MaxCeremonies -> Users \cup {E!None}] /\ ceremonies \in 0..MaxCeremonies
      /\ u \in Users
    BY <1>0, <1>1, <1>2, Zenon DEF EnrolInv, EnrolStores, EnrolRequestOK
<1>4. k \in 1..MaxCeremonies /\ ceremonies' \in 0..MaxCeremonies /\ ceremonies' \in Nat
      /\ ceremonies <= ceremonies' /\ k \notin 1..ceremonies
    BY <1>1, <1>2, <1>3 DEF EnrolData
<1>5. /\ ceremony' \in [1..MaxCeremonies -> Users \cup {E!None}] /\ ceremony'[k] = u
      /\ begun' \in [1..MaxCeremonies -> Users \cup {E!None}] /\ begun'[k] = u
      /\ \A j \in 1..MaxCeremonies : j # k => ceremony'[j] = ceremony[j] /\ begun'[j] = begun[j]
    BY <1>2, <1>3, <1>4, Zenon
<1>6. \A j \in 1..MaxCeremonies : ceremony'[j] # E!None => begun'[j] = ceremony'[j]
    BY <1>5, Zenon DEF EnrolInv, EnrolStores
<1>7. EnrolStores'
    BY <1>2, <1>4, <1>5, <1>6, Zenon
    DEF EnrolInv, EnrolStores, E!FactorsWereProved, E!ChallengeReplacesSession
<1>8. \A j \in 1..ceremonies : j \in 1..MaxCeremonies /\ j # k
    BY <1>3, <1>4 DEF EnrolData
<1>9. EnrolGrows
    BY <1>2, <1>4, <1>5, <1>8, Zenon DEF EnrolGrows
<1>10. PICK q \in EnrolRequests : q = E!Idle /\ EnrolOthers(r, q) /\ q.pc = "idle" /\ q.op = "none"
    BY <1>2, EnrolReturn, EnrolIdle, Zenon DEF E!Idle
<1>11. EnrolRequestOK(q)'
    BY <1>10, Zenon DEF EnrolRequestOK
<1>12. \A s \in Slots : enrolReq[s].pc = "upsert" =>
        confirmed'[<<owner[enrolReq[s].session], enrolReq[s].step>>] = 0
    BY <1>2, Zenon DEF EnrolInv, EnrolRequestOK
<1> QED
    BY <1>7, <1>9, <1>10, <1>11, <1>12, EnrolStep, Zenon

\* UpsertCredential: the credential goes to the user who began the ceremony.
LEMMA EnrolStore ==
    ASSUME EnrolData, EnrolInv, NEW r \in Slots, E!UpsertCredential(r)
    PROVE  EnrolInv'
<1>1. PICK p \in EnrolRequests : p = enrolReq[r] /\ EnrolRequestOK(p)
    BY Zenon DEF EnrolInv
<1>2. PICK u, c : u = owner[p.session] /\ c = p.credential
    BY Zenon
<1>3. /\ p.pc = "store" /\ enrolReq \in [Slots -> EnrolRequests] /\ E!Goto(r, "consume")
      /\ credential' = [credential EXCEPT ![c] = u]
      /\ answers' = [answers EXCEPT ![c] = begun[p.entry]]
      /\ UNCHANGED <<owner, sessionRow, sessionCache, totp, enrolment, usedSteps, ceremony>>
      /\ UNCHANGED <<secrets, ceremonies, proved, confirmed, replaced, begun>>
    BY <1>1, <1>2, Zenon
    DEF EnrolInv, E!UpsertCredential, E!User, E!At, E!sessions, E!totpVars, E!bounds
<1>4. /\ p.op = "finish" /\ c \in Credentials /\ u \in Users /\ begun[p.entry] = u
    BY <1>1, <1>2, <1>3, Zenon DEF EnrolRequestOK, EnrolInv, EnrolStores
<1>5. /\ credential \in [Credentials -> Users \cup {E!None}]
      /\ answers \in [Credentials -> Users \cup {E!None}]
      /\ \A d \in Credentials : credential[d] = answers[d]
    BY Zenon DEF EnrolInv, EnrolStores, E!FactorsWereProved
<1>6. /\ credential' \in [Credentials -> Users \cup {E!None}]
      /\ answers' \in [Credentials -> Users \cup {E!None}]
      /\ \A d \in Credentials : credential'[d] = answers'[d]
    BY <1>3, <1>4, <1>5, Zenon
<1>7. EnrolStores'
    BY <1>3, <1>6, Zenon DEF EnrolInv, EnrolStores, E!FactorsWereProved, E!ChallengeReplacesSession
<1>8. PICK q \in EnrolRequests :
            /\ EnrolOthers(r, q) /\ q.pc = "consume" /\ q.op = p.op
            /\ q.session = p.session /\ q.step = p.step
            /\ q.entry = p.entry /\ q.credential = p.credential
    BY <1>1, <1>3, EnrolGoto DEF E!Steps
<1>9. EnrolRequestOK(q)
    BY <1>1, <1>3, <1>8, Zenon DEF EnrolRequestOK
<1> QED
    BY <1>3, <1>7, <1>8, <1>9, EnrolSame, EnrolStep, Zenon

\* DeleteCeremony.
LEMMA EnrolConsume ==
    ASSUME EnrolData, EnrolInv, NEW r \in Slots, E!DeleteCeremony(r)
    PROVE  EnrolInv'
<1>1. PICK p \in EnrolRequests : p = enrolReq[r] /\ EnrolRequestOK(p)
    BY Zenon DEF EnrolInv
<1>2. /\ p.pc = "consume" /\ E!Return(r) /\ ceremony' = [ceremony EXCEPT ![p.entry] = E!None]
      /\ UNCHANGED <<owner, totp, begun, credential, answers, ceremonies, confirmed>>
      /\ UNCHANGED <<usedSteps, proved, replaced, sessionRow, sessionCache, enrolment, secrets>>
    BY <1>1, Zenon DEF E!DeleteCeremony, E!At, E!sessions, E!totpVars, E!bounds, E!history
<1>3. /\ ceremony \in [1..MaxCeremonies -> Users \cup {E!None}] /\ ceremonies \in 0..MaxCeremonies
      /\ p.entry \in 1..ceremonies
    BY <1>1, <1>2, Zenon DEF EnrolInv, EnrolStores, EnrolRequestOK
<1>4. /\ ceremony' \in [1..MaxCeremonies -> Users \cup {E!None}]
      /\ \A k \in 1..MaxCeremonies : ceremony'[k] \in {ceremony[k], E!None}
    BY <1>2, <1>3, Zenon DEF EnrolData
<1>5. EnrolStores'
    BY <1>2, <1>4, EnrolKeys, Zenon DEF EnrolInv, EnrolStores
<1> QED
    BY <1>2, <1>5, EnrolSame, EnrolReturn, EnrolIdle, EnrolStep, Zenon

\* Nothing enrolled, no request.
LEMMA EnrolInit ==
    ASSUME EnrolData, E!Init
    PROVE  EnrolInv
<1>1. \A r \in Slots : enrolReq[r] = E!Idle
    BY Zenon DEF E!Init
<1>2. EnrolStores
  <2>1. ceremonies \in 0..MaxCeremonies /\ secrets \in Nat
    BY DEF E!Init, EnrolData
  <2>2. \A p \in Users \X TimeSteps : confirmed[p] = 0
    BY Zenon DEF E!Init
  <2>3. E!FactorsWereProved
    BY <2>2 DEF E!Init, E!FactorsWereProved
  <2> QED
    BY <2>1, <2>2, <2>3, Zenon DEF E!Init, EnrolStores, E!ChallengeReplacesSession
<1>3. enrolReq \in [Slots -> EnrolRequests]
    BY EnrolIdle, Zenon DEF E!Init
<1>4. \A r \in Slots : EnrolRequestOK(enrolReq[r]) /\ enrolReq[r].pc # "upsert"
    BY <1>1, EnrolIdle, Zenon
<1> QED
    BY <1>2, <1>3, <1>4, Zenon DEF EnrolInv, OneUpsert

\* Every step keeps the invariant.
LEMMA EnrolNext ==
    ASSUME EnrolData, EnrolInv, [E!Next]_(E!vars)
    PROVE  EnrolInv'
<1>1. CASE UNCHANGED E!vars
  <2>1. /\ UNCHANGED <<owner, sessionRow, sessionCache, totp, enrolment, usedSteps, enrolReq>>
        /\ UNCHANGED <<ceremony, credential, secrets, ceremonies>>
        /\ UNCHANGED <<proved, confirmed, replaced, begun, answers>>
    BY <1>1, Zenon DEF E!vars, E!sessions, E!totpVars, E!passkeyVars, E!bounds, E!history
  <2>2. EnrolStores'
    BY <2>1, Zenon DEF EnrolInv, EnrolStores, E!FactorsWereProved, E!ChallengeReplacesSession
  <2> QED
    BY <2>1, <2>2, Zenon DEF EnrolInv, OneUpsert, EnrolRequestOK
<1>2. ASSUME NEW r \in Slots, E!TOTPStep(r)
      PROVE  EnrolInv'
    BY <1>2, EnrolReads, EnrolSave, EnrolVerify, EnrolReserve, EnrolUpsert, EnrolDelete, EnrolLogout, Zenon
    DEF E!TOTPStep
<1>3. ASSUME NEW r \in Slots, E!PasskeyStep(r)
      PROVE  EnrolInv'
    BY <1>3, EnrolReads, EnrolBegin, EnrolStore, EnrolConsume, Zenon DEF E!PasskeyStep
<1>4. CASE E!Next
    BY <1>2, <1>3, <1>4, EnrolArrive, EnrolReads, EnrolExpire, Zenon DEF E!Next
<1> QED
    BY <1>1, <1>4, Zenon

\* The invariant of enrolment holds throughout.
LEMMA EnrolInvariant ==
    ASSUME EnrolData
    PROVE  E!Spec => []EnrolInv
<1>1. E!Init => EnrolInv
    BY EnrolInit, Zenon
<1>2. EnrolInv /\ [E!Next]_(E!vars) => EnrolInv'
    BY EnrolNext, Zenon
<1> QED
    BY <1>1, <1>2, PTL DEF E!Spec

\* However setups, submissions and ceremonies of any number of sessions
\* interleave: a secret in use was proved by its user, one time step enables TOTP
\* at most once, and a passkey belongs to the user who began its ceremony
\* (ConfirmSetup, FinishSetup).
THEOREM FactorsAreProved ==
    ASSUME EnrolData
    PROVE  E!Spec => []FactorsWereProved
<1>1. EnrolInv => FactorsWereProved
    BY Zenon DEF EnrolInv, EnrolStores, FactorsWereProved
<1> QED
    BY <1>1, EnrolInvariant, PTL

\* A session that was answered with a login challenge is gone from the rows and
\* from the cache for good (invalidateCurrentSession).
THEOREM SessionIsReplaced ==
    ASSUME EnrolData
    PROVE  E!Spec => []ChallengeReplacesSession
<1>1. EnrolInv => ChallengeReplacesSession
    BY Zenon DEF EnrolInv, EnrolStores, ChallengeReplacesSession
<1> QED
    BY <1>1, EnrolInvariant, PTL

=============================================================================
