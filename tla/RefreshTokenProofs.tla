------------------------- MODULE RefreshTokenProofs -------------------------
(***************************************************************************)
(* Proofs about RefreshToken, for any number of calls, logouts,            *)
(* fingerprints and any lifetimes: the rows of the database, their         *)
(* refinement of TokenFamily, and at the end reuse detection in Redis.     *)
(***************************************************************************)
EXTENDS RefreshToken, TLAPS

\* The empty keys are keys.
LEMMA EmptyKeys == NoHash \in HashType /\ NoGrace \in GraceType
  BY DEF NoHash, NoGrace, HashType, GraceType, HashStatus

\* A hash key keeps its type under the field writes of the scripts.
LEMMA HashWrites ==
    ASSUME NEW h \in HashType, NEW s \in HashStatus
    PROVE  [h EXCEPT !.status = s] \in HashType
  BY Zenon DEF HashType

\* The empty database and cache have the right types.
LEMMA TypeInit == Init => TypeOK
  BY BoundsAssumption, EmptyKeys DEF Init, TypeOK, Steps, LogoutSteps

\* The writes of check_refresh_replay keep the types of the keys they touch.
LEMMA ReplayEffectType ==
    ASSUME TypeOK, NEW t \in Calls, NEW f \in Fingerprints \cup {None}, ReplayEffect(t, f)
    PROVE  /\ familyRevoked' \in [Calls -> Int]
           /\ hash' \in [Calls -> HashType]
  <1>1. CASE ReplayCode(t, f) = -2
    <2>0. hash \in [Calls -> HashType] /\ familyRevoked \in [Calls -> Int] /\ now \in Int
      BY BoundsAssumption DEF TypeOK
    <2>1. hash[t] \in HashType /\ hash[t].exp \in Int
      BY <2>0, Zenon DEF HashType
    <2>2. familyRevoked' \in [Calls -> Int]
      BY <1>1, <2>0, <2>1 DEF ReplayEffect
    <2>3. "compromised" \in HashStatus
      BY Zenon DEF HashStatus
    <2>4. [hash[t] EXCEPT !.status = "compromised"] \in HashType
      BY <2>1, <2>3, HashWrites, Zenon
    <2>5. hash' = [hash EXCEPT ![t] = [hash[t] EXCEPT !.status = "compromised"]]
      BY <1>1, <2>0, Zenon DEF ReplayEffect
    <2> QED  BY <2>0, <2>2, <2>4, <2>5, Zenon
  <1>2. CASE ReplayCode(t, f) # -2
    BY <1>2, Zenon DEF TypeOK, ReplayEffect
  <1> QED  BY <1>1, <1>2, Zenon

\* So do the writes of rotate_token.
LEMMA RotateTokenType ==
    ASSUME TypeOK, NEW t \in Calls, NEW new \in Calls, NEW f \in Fingerprints \cup {None},
           RotateTokenScript(t, new, f)
    PROVE  /\ hash' \in [Calls -> HashType]
           /\ grace' \in [Calls -> GraceType]
  <1>0. /\ hash \in [Calls -> HashType] /\ grace \in [Calls -> GraceType]
        /\ now \in Int /\ GracePeriod \in Int /\ expires[new] \in Int /\ Forever \in Int
    BY BoundsAssumption DEF TypeOK, Forever
  <1>1. hash[t] \in HashType /\ hash[t].family \in Calls \cup {None}
    BY <1>0, Zenon DEF HashType
  <1> DEFINE g == now + GracePeriod
             e == IF expires[new] > now THEN expires[new] ELSE Forever
             o == [hash[t] EXCEPT !.status = "rotated", !.graceUntil = g, !.bindFp = f]
             n == [NoHash EXCEPT !.status = "active", !.family = hash[t].family, !.exp = e]
             h1 == [hash EXCEPT ![t] = o]
  <1>2. g \in Int /\ e \in Int
    BY <1>0
  <1>3. o \in HashType
    BY <1>1, <1>2, Zenon DEF HashType, HashStatus
  <1>4. n \in HashType
    <2> HIDE DEF e
    <2> QED  BY <1>1, <1>2, EmptyKeys, Zenon DEF HashType, HashStatus
  <1>5. hash' = [h1 EXCEPT ![new] = n]
    BY <1>0, Zenon DEF RotateTokenScript, RotateTokenInto
  <1>6. grace' \in [Calls -> GraceType]
    BY <1>0, <1>2, Zenon DEF RotateTokenScript, RotateTokenInto, GraceType
  <1>7. hash' \in [Calls -> HashType]
    <2> HIDE DEF o, n
    <2> QED  BY <1>0, <1>3, <1>4, <1>5, Zenon
  <1> QED  BY <1>6, <1>7, Zenon

\* Types are preserved, given that a call in the exchange has a token in hand
\* and every row a family.
LEMMA TypeNext == TypeOK /\ CallInv /\ RowInv /\ [Next]_vars => TypeOK'
  <1> SUFFICES ASSUME TypeOK, CallInv, RowInv, [Next]_vars PROVE TypeOK'
    BY Zenon
  <1> USE DEF db, redis, call, logout, Goto
  <1>1. CASE Tick
    BY <1>1, BoundsAssumption DEF TypeOK, Tick
  <1>2. ASSUME NEW c \in Calls, ExchangeStep(c) PROVE TypeOK'
    <2>1. ASSUME NEW t \in Calls, NEW f \in Fingerprints, NEW m \in Modes,
                 CheckRefreshTokenReplay(c, t, f, m)
          PROVE  TypeOK'
      <3>1. familyRevoked' \in [Calls -> Int] /\ hash' \in [Calls -> HashType]
        BY <2>1, ReplayEffectType, Zenon DEF CheckRefreshTokenReplay
      <3>2. grace[t].token \in Calls \cup {None}
        BY Zenon DEF TypeOK, GraceType
      <3>3. /\ response' \in [Calls -> Calls \cup {None}]
            /\ pc' \in [Calls -> Steps]
        BY <2>1, <3>2, Zenon DEF TypeOK, CheckRefreshTokenReplay, Steps, Outcomes
      <3>4. m \in BOOLEAN
        BY BoundsAssumption, Zenon
      <3> QED  BY <2>1, <3>1, <3>3, <3>4, Zenon DEF TypeOK, CheckRefreshTokenReplay
    <2>2. CASE FindActiveRefreshToken(c)
      BY <2>2, Zenon DEF TypeOK, FindActiveRefreshToken, Steps, Outcomes
    <2>3. CASE CreateAccessToken(c)
      BY <2>3, Zenon DEF TypeOK, CreateAccessToken, Steps
    <2>4. CASE SaveAccessToken(c)
      BY <2>4, Zenon DEF TypeOK, SaveAccessToken, Steps, Outcomes
    <2>5. CASE RotateRefreshToken(c)
      <3>1. CASE Unrevoked(old[c]) /\ expires[old[c]] > at[c]
        <4>1. old[c] \in Calls
          BY <3>1, Zenon DEF TypeOK, Unrevoked
        <4> QED  BY <2>5, <3>1, <4>1, BoundsAssumption
                 DEF TypeOK, RotateRefreshToken, RotateTransaction, SwapRow, Steps
      <3>2. CASE ~(Unrevoked(old[c]) /\ expires[old[c]] > at[c])
        BY <2>5, <3>2, Zenon DEF TypeOK, RotateRefreshToken, RotateTransaction, Steps
      <3> QED  BY <3>1, <3>2, Zenon
    <2>6. CASE RotateRefreshTokenCache(c)
      <3>1. hash' \in [Calls -> HashType] /\ grace' \in [Calls -> GraceType]
        <4>1. CASE RotateTokenApplies(old[c]) /\ RotateTokenScript(old[c], c, fp[c])
          <5>1. old[c] \in Calls
            BY <2>6, Zenon DEF CallInv, RotateRefreshTokenCache, Exchanging
          <5> QED  BY <4>1, <5>1, RotateTokenType, Zenon DEF TypeOK
        <4>2. CASE UNCHANGED <<hash, grace>>
          BY <4>2, Zenon DEF TypeOK
        <4> QED  BY <2>6, <4>1, <4>2, Zenon DEF RotateRefreshTokenCache
      <3> QED  BY <2>6, <3>1, Zenon DEF TypeOK, RotateRefreshTokenCache, Steps, Outcomes
    <2>7. CASE TryRefreshTokenGraceReplay(c)
      <3>0. old[c] \in Calls
        BY <2>7, Zenon DEF CallInv, TryRefreshTokenGraceReplay, Exchanging
      <3>1. familyRevoked' \in [Calls -> Int] /\ hash' \in [Calls -> HashType]
        BY <2>7, <3>0, ReplayEffectType, Zenon DEF TypeOK, TryRefreshTokenGraceReplay
      <3>2. grace[old[c]].token \in Calls \cup {None}
        BY <3>0, Zenon DEF TypeOK, GraceType
      <3> QED  BY <2>7, <3>1, <3>2, Zenon DEF TypeOK, TryRefreshTokenGraceReplay, Steps, Outcomes
    <2> QED  BY <1>2, <2>1, <2>2, <2>3, <2>4, <2>5, <2>6, <2>7, Zenon DEF ExchangeStep
  <1>3. ASSUME NEW c \in Calls, GrantStep(c) PROVE TypeOK'
    <2>1. ASSUME NEW m \in Modes, GrantAccessToken(c, m) PROVE TypeOK'
      BY <2>1, BoundsAssumption, Zenon DEF TypeOK, GrantAccessToken, Steps
    <2>2. CASE GrantSaveAccessToken(c)
      BY <2>2, Zenon DEF TypeOK, GrantSaveAccessToken, Steps, Outcomes
    <2>3. CASE CreateRefreshToken(c)
      BY <2>3, BoundsAssumption DEF TypeOK, CreateRefreshToken, Steps
    <2>4. CASE SaveRefreshToken(c)
      <3>1. [NoHash EXCEPT !.status = "active", !.family = c, !.exp = expires[c]] \in HashType
        BY EmptyKeys, Zenon DEF TypeOK, HashType, HashStatus
      <3> QED  BY <2>4, <3>1 DEF TypeOK, SaveRefreshToken, Steps, Outcomes
    <2> QED  BY <1>3, <2>1, <2>2, <2>3, <2>4, Zenon DEF GrantStep
  <1>4. ASSUME NEW c \in Calls, CallFails(c) PROVE TypeOK'
    BY <1>4 DEF TypeOK, CallFails, Steps, Outcomes
  <1>5. ASSUME NEW l \in Logouts, LogoutStep(l) PROVE TypeOK'
    <2> USE DEF LogoutGoto, LogoutSteps
    <2>1. CASE ListActiveAccessTokens(l)
      BY <2>1, Zenon DEF TypeOK, ListActiveAccessTokens
    <2>2. CASE ListActiveRefreshTokens(l)
      BY <2>2, Zenon DEF TypeOK, ListActiveRefreshTokens
    <2>3. CASE RevokeAccessTokensByUserID(l)
      BY <2>3, Zenon DEF TypeOK, RevokeAccessTokensByUserID
    <2>4. CASE RevokeRefreshTokensByUserID(l)
      <3>1. {root[t] : t \in {u \in Calls : ActiveRow(u)}} \subseteq Calls
        BY DEF TypeOK, RowInv, ActiveRow, Unrevoked
      <3> QED  BY <2>4, <3>1, Zenon DEF TypeOK, RevokeRefreshTokensByUserID
    <2>5. ASSUME NEW t \in Calls, RevokeAccessToken(l, t) \/ RevokeRefreshToken(l, t)
          PROVE  TypeOK'
      BY <2>5 DEF TypeOK, RevokeAccessToken, RevokeRefreshToken
    <2>6. CASE LogoutReturns(l) \/ LogoutFails(l)
      BY <2>6, Zenon DEF TypeOK, LogoutReturns, LogoutFails
    <2> QED  BY <1>5, <2>1, <2>2, <2>3, <2>4, <2>5, <2>6, Zenon DEF LogoutStep
  <1>6. CASE UNCHANGED vars
    BY <1>6, Zenon DEF TypeOK, vars
  <1> QED  BY <1>1, <1>2, <1>3, <1>4, <1>5, <1>6, Zenon DEF Next

-----------------------------------------------------------------------------
(* The rows. *)

\* A step that leaves the rows alone keeps what is said of them.
LEMMA RowStutter ==
    ASSUME RowInv, UNCHANGED <<rows, revoked, replacedBy, root, loggedOut>>
    PROVE  RowInv'
  BY Zenon DEF RowInv, OneLiveTokenPerFamily, LogoutEndsFamilies, Unrevoked

\* The rotation transaction: the new row takes over from the only live one of
\* its family, and from none that a logout ended.
LEMMA RowSwap ==
    ASSUME TypeOK, CallInv, RowInv, NEW c \in Calls, pc[c] = "rotate",
           Unrevoked(old[c]), SwapRow(c), UNCHANGED loggedOut
    PROVE  RowInv'
  <1> DEFINE o == old[c]
  <1>0. /\ o \in rows /\ o \notin revoked /\ replacedBy[o] = None
        /\ o \in Calls /\ c \notin rows /\ o # c
    BY Zenon DEF Unrevoked, CallInv, TypeOK
  <1>1. /\ rows' = rows \cup {c} /\ revoked' = revoked \cup {o}
        /\ replacedBy' = [replacedBy EXCEPT ![o] = c]
        /\ root' = [root EXCEPT ![c] = root[o]]
        /\ loggedOut' = loggedOut
    BY Zenon DEF SwapRow
  <1> HIDE DEF o
  <1>2. /\ root'[c] = root[o]
        /\ \A t \in rows : root'[t] = root[t] /\ t \in Calls
        /\ \A t \in Calls \ {o} : replacedBy'[t] = replacedBy[t]
    BY <1>0, <1>1, Zenon DEF TypeOK
  <1>3. (\A t \in rows : root[t] \in rows)'
    BY <1>0, <1>1, <1>2 DEF RowInv
  <1>4. (revoked \subseteq rows /\ loggedOut \subseteq rows)'
    BY <1>0, <1>1, Zenon DEF RowInv
  <1>5. (\A t \in Calls : replacedBy[t] # None => t \in revoked)'
    BY <1>0, <1>1, <1>2, Zenon DEF RowInv
  <1>6. \A t \in rows' : Unrevoked(t)' => t = c \/ (t \in rows /\ t # o /\ Unrevoked(t))
    BY <1>0, <1>1, <1>2, Zenon DEF Unrevoked, TypeOK
  <1>7. OneLiveTokenPerFamily'
    <2> SUFFICES ASSUME NEW t \in rows', NEW u \in rows',
                        Unrevoked(t)', Unrevoked(u)', root'[t] = root'[u]
                 PROVE  t = u
      BY Zenon DEF OneLiveTokenPerFamily
    <2>1. Unrevoked(o)
      BY <1>0, Zenon DEF Unrevoked
    <2> QED  BY <1>0, <1>2, <1>6, <2>1 DEF RowInv, OneLiveTokenPerFamily
  <1>8. LogoutEndsFamilies'
    <2> SUFFICES ASSUME NEW t \in rows', root'[t] \in loggedOut', Unrevoked(t)' PROVE FALSE
      BY Zenon DEF LogoutEndsFamilies
    <2>1. Unrevoked(o)
      BY <1>0, Zenon DEF Unrevoked
    <2> QED  BY <1>0, <1>1, <1>2, <1>6, <2>1, Zenon DEF RowInv, LogoutEndsFamilies
  <1> QED  BY <1>3, <1>4, <1>5, <1>7, <1>8, Zenon DEF RowInv

\* A grant opens a family of its own.
LEMMA RowGrant ==
    ASSUME TypeOK, CallInv, RowInv, NEW c \in Calls, CreateRefreshToken(c)
    PROVE  RowInv'
  <1>0. c \notin rows
    BY Zenon DEF CallInv, CreateRefreshToken
  <1>1. /\ rows' = rows \cup {c} /\ root' = [root EXCEPT ![c] = c]
        /\ UNCHANGED <<revoked, replacedBy, loggedOut>>
    BY Zenon DEF CreateRefreshToken, logout
  <1>2. root'[c] = c /\ \A t \in rows : root'[t] = root[t] /\ root[t] # c
    BY <1>0, <1>1, Zenon DEF TypeOK, RowInv
  <1>3. \A t \in rows : Unrevoked(t)' => Unrevoked(t)
    BY <1>1, Zenon DEF Unrevoked
  <1> QED  BY <1>0, <1>1, <1>2, <1>3 DEF RowInv, OneLiveTokenPerFamily, LogoutEndsFamilies

\* The UPDATE of a logout revokes the live row of every family it records.
LEMMA RowLogout ==
    ASSUME TypeOK, RowInv, NEW l \in Logouts, RevokeRefreshTokensByUserID(l)
    PROVE  RowInv'
  <1> DEFINE hit == {t \in Calls : ActiveRow(t)}
  <1>1. /\ revoked' = revoked \cup hit
        /\ loggedOut' = loggedOut \cup {root[t] : t \in hit}
        /\ UNCHANGED <<rows, replacedBy, root>>
    BY Zenon DEF RevokeRefreshTokensByUserID
  <1>2. \A t \in hit : t \in rows /\ Unrevoked(t)
    BY Zenon DEF ActiveRow, Unrevoked
  <1> HIDE DEF hit
  <1>3. \A t \in rows : Unrevoked(t)' => Unrevoked(t) /\ t \notin hit
    BY <1>1, Zenon DEF Unrevoked
  <1>4. LogoutEndsFamilies'
    <2> SUFFICES ASSUME NEW t \in rows, root[t] \in loggedOut', Unrevoked(t)' PROVE FALSE
      BY <1>1, Zenon DEF LogoutEndsFamilies
    <2>1. root[t] \notin loggedOut
      BY <1>3, Zenon DEF RowInv, LogoutEndsFamilies
    <2>2. PICK u \in hit : root[u] = root[t]
      BY <1>1, <2>1, Zenon
    <2> QED  BY <1>2, <1>3, <2>2, Zenon DEF RowInv, OneLiveTokenPerFamily
  <1>5. OneLiveTokenPerFamily'
    BY <1>1, <1>3, Zenon DEF RowInv, OneLiveTokenPerFamily
  <1>6. (/\ \A t \in rows : root[t] \in rows
         /\ revoked \subseteq rows
         /\ \A t \in Calls : replacedBy[t] # None => t \in revoked
         /\ loggedOut \subseteq rows)'
    BY <1>1, <1>2, Zenon DEF RowInv
  <1> QED  BY <1>4, <1>5, <1>6, Zenon DEF RowInv

\* Every step keeps what the invariant says of the rows of oauth_refresh_tokens.
LEMMA RowNext == TypeOK /\ CallInv /\ RowInv /\ [Next]_vars => RowInv'
  <1> SUFFICES ASSUME TypeOK, CallInv, RowInv, [Next]_vars PROVE RowInv'
    BY Zenon
  <1> USE DEF db, redis, call, logout
  <1>1. CASE Tick \/ UNCHANGED vars
    BY <1>1, RowStutter, Zenon DEF Tick, vars
  <1>2. ASSUME NEW c \in Calls, ExchangeStep(c) PROVE RowInv'
    <2>1. CASE RotateRefreshToken(c)
      BY <2>1, RowStutter, RowSwap, Zenon DEF RotateRefreshToken, RotateTransaction
    <2>2. CASE ~RotateRefreshToken(c)
      BY <1>2, <2>2, RowStutter, Zenon
      DEF ExchangeStep, CheckRefreshTokenReplay, FindActiveRefreshToken, CreateAccessToken,
          SaveAccessToken, RotateRefreshTokenCache, TryRefreshTokenGraceReplay
    <2> QED  BY <2>1, <2>2, Zenon
  <1>3. ASSUME NEW c \in Calls, GrantStep(c) \/ CallFails(c) PROVE RowInv'
    BY <1>3, RowStutter, RowGrant, Zenon
    DEF GrantStep, CallFails, GrantAccessToken, GrantSaveAccessToken, SaveRefreshToken
  <1>4. ASSUME NEW l \in Logouts, LogoutStep(l) PROVE RowInv'
    BY <1>4, RowStutter, RowLogout, Zenon
    DEF LogoutStep, ListActiveAccessTokens, ListActiveRefreshTokens, RevokeAccessTokensByUserID,
        RevokeAccessToken, RevokeRefreshToken, LogoutReturns, LogoutFails
  <1> QED  BY <1>1, <1>2, <1>3, <1>4, Zenon DEF Next

-----------------------------------------------------------------------------
(* The calls. *)

\* Every step keeps what the invariant says of the calls in flight: a call past
\* the lookup holds a token, and its row was seen.
LEMMA CallNext == TypeOK /\ CallInv /\ [Next]_vars => CallInv'
  <1> SUFFICES ASSUME TypeOK, CallInv, [Next]_vars PROVE CallInv'
    BY Zenon
  <1> USE DEF db, redis, call, logout, Goto
  <1>0. ASSUME UNCHANGED <<rows, pc, old>> PROVE CallInv'
    BY <1>0, Zenon DEF CallInv
  <1>1. CASE Tick \/ UNCHANGED vars
    BY <1>0, <1>1, Zenon DEF Tick, vars
  <1>2. ASSUME NEW c \in Calls, ExchangeStep(c) PROVE CallInv'
    <2>1. ASSUME NEW t \in Calls, NEW f \in Fingerprints, NEW m \in Modes,
                 CheckRefreshTokenReplay(c, t, f, m)
          PROVE  CallInv'
      BY <2>1, Zenon DEF CheckRefreshTokenReplay, CallInv, TypeOK, Exchanging, Granting
    <2>2. CASE FindActiveRefreshToken(c)
      BY <2>2, Zenon DEF FindActiveRefreshToken, CallInv, TypeOK, Exchanging, Granting
    <2>3. CASE CreateAccessToken(c) \/ SaveAccessToken(c)
      BY <2>3, Zenon DEF CreateAccessToken, SaveAccessToken, CallInv, TypeOK, Exchanging, Granting
    <2>4. CASE RotateRefreshToken(c)
      BY <2>4 DEF RotateRefreshToken, RotateTransaction, SwapRow,
                  CallInv, TypeOK, Exchanging, Granting
    <2>5. CASE RotateRefreshTokenCache(c)
      BY <2>5, Zenon DEF RotateRefreshTokenCache, CallInv, TypeOK, Exchanging, Granting
    <2>6. CASE TryRefreshTokenGraceReplay(c)
      BY <2>6, Zenon DEF TryRefreshTokenGraceReplay, CallInv, TypeOK, Exchanging, Granting
    <2> QED  BY <1>2, <2>1, <2>2, <2>3, <2>4, <2>5, <2>6, Zenon DEF ExchangeStep
  <1>3. ASSUME NEW c \in Calls, GrantStep(c) \/ CallFails(c) PROVE CallInv'
    BY <1>3 DEF GrantStep, GrantAccessToken, GrantSaveAccessToken, CreateRefreshToken,
                SaveRefreshToken, CallFails, CallInv, TypeOK, Exchanging, Granting
  <1>4. ASSUME NEW l \in Logouts, LogoutStep(l) PROVE CallInv'
    BY <1>0, <1>4, Zenon
    DEF LogoutStep, ListActiveAccessTokens, ListActiveRefreshTokens, RevokeAccessTokensByUserID,
        RevokeRefreshTokensByUserID, RevokeAccessToken, RevokeRefreshToken, LogoutReturns,
        LogoutFails
  <1> QED  BY <1>1, <1>2, <1>3, <1>4, Zenon DEF Next

\* A grace replay answers with the recorded successor.
LEMMA GraceAnswer ==
    ASSUME TypeOK, ReplyInv, NEW t \in Calls, NEW f, ReplayCode(t, f) = 1
    PROVE  grace[t].token # None /\ grace[t].token = replacedBy[t]
  <1>1. grace[t].exp > now /\ now >= 0 /\ now \in Int /\ grace[t].exp \in Int
    BY DEF ReplayCode, TypeOK, GraceType
  <1> QED  BY <1>1 DEF ReplyInv

\* Every step keeps the agreement of replies, grace keys and rows.
LEMMA ReplyNext == TypeOK /\ CallInv /\ RowInv /\ ReplyInv /\ [Next]_vars => ReplyInv'
  <1> SUFFICES ASSUME TypeOK, CallInv, RowInv, ReplyInv, [Next]_vars PROVE ReplyInv'
    BY Zenon
  <1> USE DEF db, redis, call, logout, Goto
  <1>0. ASSUME UNCHANGED <<pc, old, rotates, response, replacedBy, grace>> PROVE ReplyInv'
    BY <1>0, Zenon DEF ReplyInv, RefreshesAgree
  <1>1. CASE Tick \/ UNCHANGED vars
    BY <1>0, <1>1, Zenon DEF Tick, vars
  <1>2. ASSUME NEW c \in Calls, ExchangeStep(c) PROVE ReplyInv'
    <2>1. ASSUME NEW t \in Calls, NEW f \in Fingerprints, NEW m \in Modes,
                 CheckRefreshTokenReplay(c, t, f, m)
          PROVE  ReplyInv'
      <3>1. /\ pc'[c] \in {"find", "ok", "invalid"}
            /\ pc'[c] = "ok" => ReplayCode(t, f) = 1 /\ response'[c] = grace[t].token
            /\ old'[c] = t
            /\ UNCHANGED <<replacedBy, grace>>
            /\ \A d \in Calls \ {c} : /\ pc'[d] = pc[d] /\ old'[d] = old[d]
                                      /\ rotates'[d] = rotates[d] /\ response'[d] = response[d]
        BY <2>1, Zenon DEF CheckRefreshTokenReplay, TypeOK
      <3>2. pc'[c] = "ok" => response'[c] # None /\ response'[c] = replacedBy[t]
        BY <3>1, GraceAnswer, Zenon
      <3> QED  BY <3>1, <3>2 DEF ReplyInv, RefreshesAgree
    <2>2. CASE FindActiveRefreshToken(c)
      BY <2>2 DEF FindActiveRefreshToken, ReplyInv, RefreshesAgree, TypeOK
    <2>3. CASE CreateAccessToken(c)
      BY <2>3, Zenon DEF CreateAccessToken, ReplyInv, RefreshesAgree, TypeOK
    <2>4. CASE SaveAccessToken(c)
      BY <2>4, Zenon DEF SaveAccessToken, ReplyInv, RefreshesAgree, TypeOK
    <2>5. CASE RotateRefreshToken(c)
      <3>1. CASE Unrevoked(old[c]) /\ expires[old[c]] > at[c]
        <4>1. /\ replacedBy[old[c]] = None /\ old[c] \in Calls
              /\ replacedBy' = [replacedBy EXCEPT ![old[c]] = c]
              /\ pc' = [pc EXCEPT ![c] = "rotateCache"]
              /\ UNCHANGED <<old, rotates, response, grace>>
          BY <2>5, <3>1, Zenon DEF RotateRefreshToken, RotateTransaction, SwapRow, Unrevoked, TypeOK
        <4>2. \A t \in Calls : replacedBy[t] # None => replacedBy'[t] = replacedBy[t]
          BY <4>1, Zenon DEF TypeOK
        <4>3. replacedBy'[old[c]] = c
          BY <4>1, Zenon DEF TypeOK
        <4>4. \A d \in Calls : pc'[d] = "rotateCache" => replacedBy'[old'[d]] = d
          BY <4>1, <4>2, <4>3, IdentityAssumption DEF ReplyInv, TypeOK, CallInv, Exchanging
        <4>5. \A t \in Calls : IF grace'[t].token = None THEN grace'[t].exp <= 0
                                                        ELSE grace'[t].token = replacedBy'[t]
          BY <4>1, <4>2, Zenon DEF ReplyInv
        <4>6. \A d \in Calls : pc'[d] = "ok" /\ old'[d] # None /\ rotates'[d]
                               => response'[d] # None /\ response'[d] = replacedBy'[old'[d]]
          BY <4>1, <4>2 DEF ReplyInv, RefreshesAgree, TypeOK
        <4> QED  BY <4>4, <4>5, <4>6, Zenon DEF ReplyInv, RefreshesAgree
      <3>2. CASE ~(Unrevoked(old[c]) /\ expires[old[c]] > at[c])
        BY <2>5, <3>2 DEF RotateRefreshToken, RotateTransaction, ReplyInv, RefreshesAgree, TypeOK
      <3> QED  BY <3>1, <3>2, Zenon
    <2>6. CASE RotateRefreshTokenCache(c)
      <3>1. /\ replacedBy[old[c]] = c /\ old[c] \in Calls
            /\ pc' = [pc EXCEPT ![c] = "ok"] /\ response' = [response EXCEPT ![c] = c]
            /\ UNCHANGED <<old, rotates, replacedBy>>
        BY <2>6, Zenon DEF RotateRefreshTokenCache, ReplyInv, CallInv, Exchanging
      <3>2. \A t \in Calls : IF grace'[t].token = None THEN grace'[t].exp <= 0
                                                      ELSE grace'[t].token = replacedBy[t]
        <4>1. CASE RotateTokenScript(old[c], c, fp[c])
          <5>1. grace' = [grace EXCEPT ![old[c]] = [token |-> c, exp |-> now + GracePeriod]]
            BY <4>1, Zenon DEF RotateTokenScript, RotateTokenInto
          <5> QED  BY <3>1, <5>1, IdentityAssumption, Zenon DEF ReplyInv, TypeOK
        <4>2. CASE UNCHANGED <<hash, grace>>
          BY <4>2, Zenon DEF ReplyInv
        <4> QED  BY <2>6, <4>1, <4>2, Zenon DEF RotateRefreshTokenCache
      <3> QED  BY <3>1, <3>2, IdentityAssumption DEF ReplyInv, RefreshesAgree, TypeOK
    <2>7. CASE TryRefreshTokenGraceReplay(c)
      <3>1. /\ pc'[c] \in {"ok", "invalid"} /\ old[c] \in Calls
            /\ pc'[c] = "ok" => ReplayCode(old[c], fp[c]) = 1 /\ response'[c] = grace[old[c]].token
            /\ UNCHANGED <<old, rotates, replacedBy, grace>>
            /\ \A d \in Calls \ {c} : pc'[d] = pc[d] /\ response'[d] = response[d]
        BY <2>7, Zenon DEF TryRefreshTokenGraceReplay, TypeOK, CallInv, Exchanging
      <3>2. pc'[c] = "ok" => response'[c] # None /\ response'[c] = replacedBy[old[c]]
        BY <3>1, GraceAnswer, Zenon
      <3> QED  BY <3>1, <3>2 DEF ReplyInv, RefreshesAgree
    <2> QED  BY <1>2, <2>1, <2>2, <2>3, <2>4, <2>5, <2>6, <2>7, Zenon DEF ExchangeStep
  <1>3. ASSUME NEW c \in Calls, GrantStep(c) PROVE ReplyInv'
    <2>1. old[c] = None
      BY <1>3, Zenon DEF GrantStep, GrantAccessToken, GrantSaveAccessToken, CreateRefreshToken,
                  SaveRefreshToken, CallInv, Granting
    <2>2. /\ UNCHANGED <<old, replacedBy, grace>> /\ pc'[c] # "rotateCache"
          /\ \A d \in Calls \ {c} : /\ pc'[d] = pc[d] /\ rotates'[d] = rotates[d]
                                    /\ response'[d] = response[d]
      BY <1>3 DEF GrantStep, GrantAccessToken, GrantSaveAccessToken, CreateRefreshToken,
                  SaveRefreshToken, TypeOK
    <2> QED  BY <2>1, <2>2 DEF ReplyInv, RefreshesAgree
  <1>4. ASSUME NEW c \in Calls, CallFails(c) PROVE ReplyInv'
    BY <1>4 DEF CallFails, ReplyInv, RefreshesAgree, TypeOK
  <1>5. ASSUME NEW l \in Logouts, LogoutStep(l) PROVE ReplyInv'
    BY <1>0, <1>5, Zenon
    DEF LogoutStep, ListActiveAccessTokens, ListActiveRefreshTokens, RevokeAccessTokensByUserID,
        RevokeRefreshTokensByUserID, RevokeAccessToken, RevokeRefreshToken, LogoutReturns,
        LogoutFails
  <1> QED  BY <1>1, <1>2, <1>3, <1>4, <1>5, Zenon DEF Next

-----------------------------------------------------------------------------
(* The theorems. *)

\* The empty database and cache satisfy the inductive invariant.
LEMMA RotationInit == Init => RotationInv
  <1> SUFFICES ASSUME Init PROVE RotationInv
    BY Zenon
  <1>1. TypeOK
    BY TypeInit, Zenon
  <1>2. CallInv /\ RowInv
    BY Zenon DEF Init, CallInv, RowInv, OneLiveTokenPerFamily, LogoutEndsFamilies, Exchanging, Granting
  <1>3. ReplyInv
    BY DEF Init, ReplyInv, RefreshesAgree, NoGrace
  <1> QED  BY <1>1, <1>2, <1>3, Zenon DEF RotationInv

\* RotationInv is an invariant: for any number of concurrent refreshes, grants
\* and logouts, any lifetimes, lost Redis writes and stale replica reads, the
\* rows, the grace keys and the calls in flight agree on who rotated what.
THEOREM RotationInvariant == Spec => []RotationInv
  <1>1. RotationInv /\ [Next]_vars => RotationInv'
    BY TypeNext, CallNext, RowNext, ReplyNext, Zenon DEF RotationInv
  <1> QED  BY <1>1, RotationInit, PTL DEF Spec

\* Every variable of the token service, MySQL and Redis keeps its type.
THEOREM TypeCorrect == Spec => []TypeOK
  <1>1. RotationInv => TypeOK
    BY Zenon DEF RotationInv
  <1> QED  BY <1>1, RotationInvariant, PTL

\* The rows that descend from one grant never hold two live ones.
THEOREM SingleHolder == Spec => []OneLiveTokenPerFamily
  <1>1. RotationInv => OneLiveTokenPerFamily
    BY Zenon DEF RotationInv, RowInv
  <1> QED  BY <1>1, RotationInvariant, PTL

\* All successful exchanges of one refresh token return its one successor.
THEOREM Agreement == Spec => []RefreshesAgree
  <1>1. RotationInv => RefreshesAgree
    BY Zenon DEF RotationInv, ReplyInv
  <1> QED  BY <1>1, RotationInvariant, PTL

\* A family hit by a whole-user logout has no live row again.
THEOREM LogoutIsFinal == Spec => []LogoutEndsFamilies
  <1>1. RotationInv => LogoutEndsFamilies
    BY Zenon DEF RotationInv, RowInv
  <1> QED  BY <1>1, RotationInvariant, PTL

\* Revocation and replacement of a row are for good.
THEOREM RotationFinality == Spec => RotationIsFinal
  <1>1. RotationInv /\ [Next]_vars
        => [/\ revoked \subseteq revoked'
            /\ \A t \in Calls : replacedBy[t] # None => replacedBy'[t] = replacedBy[t]]_vars
    <2> SUFFICES ASSUME RotationInv, Next
                 PROVE  /\ revoked \subseteq revoked'
                        /\ \A t \in Calls : replacedBy[t] # None => replacedBy'[t] = replacedBy[t]
      BY Zenon
    <2> USE DEF db, redis, call, logout
    <2>1. CASE Tick
      BY <2>1, Zenon DEF Tick
    <2>2. ASSUME NEW c \in Calls, ExchangeStep(c)
          PROVE  /\ revoked \subseteq revoked'
                 /\ \A t \in Calls : replacedBy[t] # None => replacedBy'[t] = replacedBy[t]
      <3>1. CASE RotateRefreshToken(c)
        BY <3>1, Zenon
        DEF RotateRefreshToken, RotateTransaction, SwapRow, Unrevoked, RotationInv, TypeOK
      <3>2. CASE ~RotateRefreshToken(c)
        BY <2>2, <3>2, Zenon
        DEF ExchangeStep, CheckRefreshTokenReplay, FindActiveRefreshToken, CreateAccessToken,
            SaveAccessToken, RotateRefreshTokenCache, TryRefreshTokenGraceReplay
      <3> QED  BY <3>1, <3>2, Zenon
    <2>3. ASSUME NEW c \in Calls, GrantStep(c) \/ CallFails(c)
          PROVE  UNCHANGED <<revoked, replacedBy>>
      BY <2>3, Zenon DEF GrantStep, CallFails, GrantAccessToken, GrantSaveAccessToken,
                  CreateRefreshToken, SaveRefreshToken
    <2>4. ASSUME NEW l \in Logouts, LogoutStep(l)
          PROVE  revoked \subseteq revoked' /\ UNCHANGED replacedBy
      BY <2>4, Zenon
      DEF LogoutStep, ListActiveAccessTokens, ListActiveRefreshTokens, RevokeAccessTokensByUserID,
          RevokeRefreshTokensByUserID, RevokeAccessToken, RevokeRefreshToken, LogoutReturns,
          LogoutFails
    <2> QED  BY <2>1, <2>2, <2>3, <2>4, Zenon DEF Next
  <1> QED  BY <1>1, RotationInvariant, PTL DEF Spec, RotationIsFinal

-----------------------------------------------------------------------------
(* The rows implement the abstract token family. *)

\* The holder of a family is its one live row, and nobody without one.
HolderIsLive ==
    \A f \in Calls :
        /\ \A t \in rows : Unrevoked(t) /\ root[t] = f => Holder[f] = t
        /\ (~\E t \in rows : Unrevoked(t) /\ root[t] = f) => Holder[f] = None

\* In a state whose rows agree, the abstract holder is the live row of the
\* family, and there is no holder when no row is live.
LEMMA HolderLive == RowInv => HolderIsLive
  <1> SUFFICES ASSUME RowInv, NEW f \in Calls
               PROVE  /\ \A t \in rows : Unrevoked(t) /\ root[t] = f => Holder[f] = t
                      /\ (~\E t \in rows : Unrevoked(t) /\ root[t] = f) => Holder[f] = None
    BY Zenon DEF HolderIsLive
  <1> DEFINE Live(t) == root[t] = f /\ Unrevoked(t)
  <1>1. Holder[f] = IF \E t \in rows : Live(t) THEN CHOOSE t \in rows : Live(t) ELSE None
    BY Zenon DEF Holder
  <1>2. ASSUME NEW t \in rows, Live(t) PROVE (CHOOSE u \in rows : Live(u)) = t
    <2>1. (CHOOSE u \in rows : Live(u)) \in rows /\ Live(CHOOSE u \in rows : Live(u))
      BY <1>2, Zenon
    <2> HIDE DEF Live
    <2>2. \A u \in rows : Live(u) => u = t
      BY <1>2, Zenon DEF RowInv, OneLiveTokenPerFamily, Live
    <2> QED  BY <2>1, <2>2, Zenon
  <1> QED  BY <1>1, <1>2, Zenon

\* The abstract holder moves only when the rows do.
LEMMA HolderStutter ==
    ASSUME UNCHANGED <<rows, revoked, replacedBy, root>>
    PROVE  Holder' = Holder
  BY Zenon DEF Holder, Unrevoked

\* Every step of the token service is a step of the abstract token family.
LEMMA FamilyStep ==
    ASSUME RotationInv, RotationInv', [Next]_vars
    PROVE  [Families!Next]_(Families!fvars)
  <1> USE DEF db, redis, call, logout
  <1>1. HolderIsLive /\ HolderIsLive'
    <2>1. HolderIsLive
      BY HolderLive, Zenon DEF RotationInv
    <2>2. RowInv' => HolderIsLive'
      BY HolderLive, PTL
    <2> QED  BY <2>1, <2>2, Zenon DEF RotationInv
  <1>0. ASSUME UNCHANGED <<rows, revoked, replacedBy, root>>
        PROVE  [Families!Next]_(Families!fvars)
    BY <1>0, HolderStutter, Zenon DEF Families!fvars
  <1>2. ASSUME NEW c \in Calls, RotateRefreshToken(c)
        PROVE  [Families!Next]_(Families!fvars)
    <2>1. CASE Unrevoked(old[c]) /\ expires[old[c]] > at[c]
      <3> DEFINE o == old[c]
      <3>1. SwapRow(c) /\ Unrevoked(o) /\ pc[c] = "rotate" /\ old' = old
        BY <1>2, <2>1, Zenon DEF RotateRefreshToken, RotateTransaction
      <3>2. /\ o \in rows /\ o \in Calls /\ c \notin rows /\ o # c
            /\ root[o] \in Calls
        BY <3>1, Zenon DEF Unrevoked, RotationInv, CallInv, RowInv, TypeOK
      <3>3. /\ rows' = rows \cup {c} /\ c \in rows'
            /\ root' = [root EXCEPT ![c] = root[o]]
            /\ revoked' = revoked \cup {o}
            /\ replacedBy' = [replacedBy EXCEPT ![o] = c]
        BY <3>1, Zenon DEF SwapRow
      <3>4. Unrevoked(c)' /\ root'[c] = root[o] /\ \A t \in rows : root'[t] = root[t]
        BY <3>2, <3>3, <2>1 DEF Unrevoked, RotationInv, RowInv, TypeOK
      <3>5. \A t \in rows \ {o} : Unrevoked(t)' <=> Unrevoked(t)
        BY <3>2, <3>3, Zenon DEF Unrevoked, RotationInv, TypeOK
      <3>6. ~Unrevoked(o)'
        BY <3>1, <3>3, Zenon DEF Unrevoked
      <3>7. Holder[root[o]] = o /\ Holder'[root[o]] = c
        BY <1>1, <3>1, <3>2, <3>3, <3>4, Zenon DEF HolderIsLive
      <3>8. \A f \in Calls \ {root[o]} : Holder'[f] = Holder[f]
        <4> SUFFICES ASSUME NEW f \in Calls, f # root[o] PROVE Holder'[f] = Holder[f]
          BY Zenon
        <4>1. CASE \E t \in rows : Unrevoked(t) /\ root[t] = f
          BY <1>1, <3>2, <3>3, <3>4, <3>5, <4>1 DEF HolderIsLive
        <4>2. CASE ~\E t \in rows : Unrevoked(t) /\ root[t] = f
          <5>1. ~\E t \in rows' : Unrevoked(t)' /\ root'[t] = f
            BY <3>3, <3>4, <3>5, <3>6, <4>2, Zenon
          <5> QED  BY <1>1, <4>2, <5>1, Zenon DEF HolderIsLive
        <4> QED  BY <4>1, <4>2, Zenon
      <3>9. Holder' = [Holder EXCEPT ![root[o]] = c]
        <4>1. Holder' = [f \in Calls |-> Holder'[f]] /\ Holder = [f \in Calls |-> Holder[f]]
          BY Zenon DEF Holder
        <4> HIDE DEF o
        <4> QED  BY <3>2, <3>7, <3>8, <4>1, Zenon
      <3>10. Families!Rotate(root[o], c)
        BY <3>2, <3>3, <3>7, <3>9, IdentityAssumption, Zenon DEF Families!Rotate
      <3> QED  BY <3>2, <3>10, Zenon DEF Families!Next
    <2>2. CASE ~(Unrevoked(old[c]) /\ expires[old[c]] > at[c])
      BY <1>0, <1>2, <2>2, Zenon DEF RotateRefreshToken, RotateTransaction
    <2> QED  BY <2>1, <2>2, Zenon
  <1>3. ASSUME NEW c \in Calls, CreateRefreshToken(c)
        PROVE  [Families!Next]_(Families!fvars)
    <2>1. c \notin rows
      BY <1>3, Zenon DEF RotationInv, CallInv, CreateRefreshToken
    <2>2. /\ rows' = rows \cup {c} /\ root' = [root EXCEPT ![c] = c]
          /\ UNCHANGED <<revoked, replacedBy>>
      BY <1>3, Zenon DEF CreateRefreshToken
    <2>3. /\ root'[c] = c /\ \A t \in rows : root'[t] = root[t] /\ root[t] # c
          /\ Unrevoked(c)' /\ \A t \in rows : Unrevoked(t)' <=> Unrevoked(t)
      BY <2>1, <2>2 DEF Unrevoked, RotationInv, RowInv, TypeOK
    <2>4. Holder'[c] = c
      BY <1>1, <2>2, <2>3, Zenon DEF HolderIsLive
    <2>5. \A f \in Calls \ {c} : Holder'[f] = Holder[f]
      <3> SUFFICES ASSUME NEW f \in Calls, f # c PROVE Holder'[f] = Holder[f]
        BY Zenon
      <3>1. CASE \E t \in rows : Unrevoked(t) /\ root[t] = f
        BY <1>1, <2>2, <2>3, <3>1 DEF HolderIsLive
      <3>2. CASE ~\E t \in rows : Unrevoked(t) /\ root[t] = f
        <4>1. ~\E t \in rows' : Unrevoked(t)' /\ root'[t] = f
          BY <2>2, <2>3, <3>2, Zenon
        <4> QED  BY <1>1, <3>2, <4>1, Zenon DEF HolderIsLive
      <3> QED  BY <3>1, <3>2, Zenon
    <2>6. Holder' = [Holder EXCEPT ![c] = c]
      <3>1. Holder' = [f \in Calls |-> Holder'[f]] /\ Holder = [f \in Calls |-> Holder[f]]
        BY Zenon DEF Holder
      <3> QED  BY <2>4, <2>5, <3>1, Zenon
    <2>7. Families!Grant(c)
      BY <2>1, <2>2, <2>6, Zenon DEF Families!Grant
    <2> QED  BY <2>7, Zenon DEF Families!Next
  <1>4. ASSUME NEW l \in Logouts, RevokeRefreshTokensByUserID(l)
        PROVE  [Families!Next]_(Families!fvars)
    <2> DEFINE hit == {t \in Calls : ActiveRow(t)}
               F == {root[t] : t \in hit}
    <2>1. revoked' = revoked \cup hit /\ UNCHANGED <<rows, replacedBy, root>>
      BY <1>4, Zenon DEF RevokeRefreshTokensByUserID
    <2>2. \A t \in hit : t \in rows /\ Unrevoked(t)
      BY Zenon DEF ActiveRow, Unrevoked
    <2>3. F \in SUBSET Calls
      BY <2>2 DEF RotationInv, RowInv, TypeOK
    <2> HIDE DEF hit
    <2>4. \A t \in rows : Unrevoked(t)' <=> Unrevoked(t) /\ t \notin hit
      BY <2>1, Zenon DEF Unrevoked
    <2>5. \A f \in Calls : Holder'[f] = IF f \in F THEN None ELSE Holder[f]
      <3> SUFFICES ASSUME NEW f \in Calls
                   PROVE  Holder'[f] = IF f \in F THEN None ELSE Holder[f]
        BY Zenon
      <3>1. CASE f \in F
        <4>1. ~\E t \in rows' : Unrevoked(t)' /\ root'[t] = f
          BY <2>1, <2>2, <2>4, <3>1, Zenon DEF RotationInv, RowInv, OneLiveTokenPerFamily
        <4> QED  BY <1>1, <3>1, <4>1, Zenon DEF HolderIsLive
      <3>2. CASE f \notin F /\ \E t \in rows : Unrevoked(t) /\ root[t] = f
        BY <1>1, <2>1, <2>4, <3>2, Zenon DEF HolderIsLive
      <3>3. CASE f \notin F /\ ~\E t \in rows : Unrevoked(t) /\ root[t] = f
        BY <1>1, <2>1, <2>4, <3>3, Zenon DEF HolderIsLive
      <3> QED  BY <3>1, <3>2, <3>3, Zenon
    <2> HIDE DEF F
    <2>6. Holder' = [f \in Calls |-> IF f \in F THEN None ELSE Holder[f]]
      <3>1. Holder' = [f \in Calls |-> Holder'[f]]
        BY Zenon DEF Holder
      <3> QED  BY <2>5, <3>1, Zenon
    <2>7. Families!End(F)
      BY <2>1, <2>6, Zenon DEF Families!End
    <2> QED  BY <2>3, <2>7, Zenon DEF Families!Next
  <1>5. ASSUME NEW c \in Calls, ExchangeStep(c) PROVE [Families!Next]_(Families!fvars)
    <2>1. CASE ~RotateRefreshToken(c)
      BY <1>0, <1>5, <2>1, Zenon
      DEF ExchangeStep, CheckRefreshTokenReplay, FindActiveRefreshToken, CreateAccessToken,
          SaveAccessToken, RotateRefreshTokenCache, TryRefreshTokenGraceReplay
    <2> QED  BY <1>2, <2>1, Zenon
  <1>6. ASSUME NEW c \in Calls, GrantStep(c) \/ CallFails(c)
        PROVE  [Families!Next]_(Families!fvars)
    <2>1. CASE ~CreateRefreshToken(c)
      BY <1>0, <1>6, <2>1, Zenon
      DEF GrantStep, CallFails, GrantAccessToken, GrantSaveAccessToken, SaveRefreshToken
    <2> QED  BY <1>3, <2>1, Zenon
  <1>7. ASSUME NEW l \in Logouts, LogoutStep(l) PROVE [Families!Next]_(Families!fvars)
    <2>1. CASE ~RevokeRefreshTokensByUserID(l)
      BY <1>0, <1>7, <2>1, Zenon
      DEF LogoutStep, ListActiveAccessTokens, ListActiveRefreshTokens, RevokeAccessTokensByUserID,
          RevokeAccessToken, RevokeRefreshToken, LogoutReturns, LogoutFails
    <2> QED  BY <1>4, <2>1, Zenon
  <1>8. CASE Tick \/ UNCHANGED vars
    BY <1>0, <1>8, Zenon DEF Tick, vars
  <1> QED  BY <1>5, <1>6, <1>7, <1>8, Zenon DEF Next

\* The detailed specification implements the abstract token family.
THEOREM Refinement == Spec => ImplementsTokenFamily
  <1>1. Init => Families!Init
    BY Zenon DEF Init, Families!Init, Holder
  <1>2. RotationInv /\ RotationInv' /\ [Next]_vars => [Families!Next]_(Families!fvars)
    BY FamilyStep, Zenon
  <1> QED  BY <1>1, <1>2, RotationInvariant, PTL DEF Spec, ImplementsTokenFamily, Families!Spec


-----------------------------------------------------------------------------
(* Reuse detection.  The replay check knows Redis only; what it needs is   *)
(* that the hash keys are of the family their rows are of, and that the    *)
(* family-revoked key lives as long as the key of the reused token.        *)

\* Tokens are in other hands only once the call that minted them has answered.
HandedInv ==
    /\ \A c \in Calls : old[c] # None => pc[old[c]] = "ok"
    /\ \A c \in Calls : response[c] # None => pc[response[c]] = "ok"
    /\ \A t \in Calls : grace[t].token # None => pc[grace[t].token] = "ok"

\* A hash key is of its row's family, also the one a call is about to write.
HashFamilyInv ==
    /\ \A c \in Calls : pc[c] = "rotateCache" =>
         c \in rows /\ old[c] \in rows /\ root[c] = root[old[c]]
    /\ \A c \in Calls : pc[c] = "grantSaveRefresh" => c \in rows /\ root[c] = c
    /\ \A t \in Calls : hash[t].status # "absent" => t \in rows /\ hash[t].family = root[t]

\* rotate_token.lua gives a key no expiry when its row has expired already, and
\* the family key would then live for a minute only.  Such a token is never
\* rotated, so its reuse is never detected: it was expired before anyone had it.
LastingInv ==
    /\ \A t \in Calls : expires[t] < Forever
    /\ \A t \in Calls : hash[t].exp = Forever => t \in rows /\ expires[t] <= now
    /\ \A c \in Calls : pc[c] \in {"mint", "saveAccess", "rotate"} /\ hash[old[c]].exp = Forever
                        => expires[old[c]] <= at[c]
    /\ \A c \in Calls : pc[c] = "rotateCache" => hash[old[c]].exp # Forever
    /\ \A t \in Calls : hash[t].status \in {"rotated", "compromised"} => hash[t].exp # Forever

\* The family-revoked key outlives the key of the reused token.
MarkedInv ==
    \A t \in Calls : hash[t].status = "compromised" /\ hash[t].exp > now
                     => familyRevoked[hash[t].family] >= hash[t].exp

ReuseInv == RotationInv /\ HandedInv /\ HashFamilyInv /\ LastingInv /\ MarkedInv

\* What check_refresh_replay writes: nothing, or it marks a rotated key of a
\* family that is not marked yet.
LEMMA ReplayWrites ==
    ASSUME TypeOK, NEW t \in Calls, NEW f \in Fingerprints \cup {None}, ReplayEffect(t, f),
           hash[t].family \in Calls \/ hash[t].status = "absent"
    PROVE  \/ UNCHANGED <<hash, familyRevoked>>
           \/ /\ hash[t].status = "rotated" /\ hash[t].exp > now /\ ~FamilyMarked(t)
              /\ hash'[t].status = "compromised"
              /\ hash'[t].family = hash[t].family /\ hash'[t].exp = hash[t].exp
              /\ \A u \in Calls \ {t} : hash'[u] = hash[u]
              /\ hash[t].exp # Forever => familyRevoked'[hash[t].family] = hash[t].exp
              /\ \A u \in Calls \ {hash[t].family} : familyRevoked'[u] = familyRevoked[u]
  <1>1. CASE ReplayCode(t, f) # -2
    BY <1>1, Zenon DEF ReplayEffect
  <1>2. CASE ReplayCode(t, f) = -2
    <2>1. HashExists(t) /\ ~FamilyMarked(t) /\ hash[t].status = "rotated"
      BY <1>2 DEF ReplayCode
    <2>2. hash \in [Calls -> HashType] /\ familyRevoked \in [Calls -> Int]
      BY Zenon DEF TypeOK
    <2>3. hash[t].family \in Calls
      BY <2>1, Zenon
    <2>4. hash' = [hash EXCEPT ![t] = [hash[t] EXCEPT !.status = "compromised"]]
      BY <1>2, <2>2, Zenon DEF ReplayEffect
    <2>5. /\ hash'[t] = [hash[t] EXCEPT !.status = "compromised"]
          /\ \A u \in Calls \ {t} : hash'[u] = hash[u]
      BY <2>2, <2>4, Zenon
    <2>6. hash'[t].status = "compromised" /\ hash'[t].family = hash[t].family /\ hash'[t].exp = hash[t].exp
      <3>1. PICK h \in HashType : h = hash[t]
        BY <2>2, Zenon
      <3>2. PICK k : k = [h EXCEPT !.status = "compromised"]
        BY Zenon
      <3>3. k.status = "compromised" /\ k.family = h.family /\ k.exp = h.exp
        BY <3>1, <3>2, Zenon DEF HashType
      <3> QED  BY <2>5, <3>1, <3>2, <3>3, Zenon
    <2>7. /\ hash[t].exp # Forever => familyRevoked'[hash[t].family] = hash[t].exp
          /\ \A u \in Calls \ {hash[t].family} : familyRevoked'[u] = familyRevoked[u]
      BY <1>2, <2>2, <2>3, Zenon DEF ReplayEffect
    <2> QED  BY <2>1, <2>5, <2>6, <2>7, Zenon DEF HashExists
  <1> QED  BY <1>1, <1>2, Zenon

\* What rotate_token writes.
LEMMA RotateWrites ==
    ASSUME TypeOK, NEW t \in Calls, NEW new \in Calls, t # new,
           NEW f \in Fingerprints \cup {None}, RotateTokenScript(t, new, f)
    PROVE  /\ hash'[new].status = "active" /\ hash'[new].family = hash[t].family
           /\ hash'[new].exp = IF expires[new] > now THEN expires[new] ELSE Forever
           /\ hash'[t].status = "rotated" /\ hash'[t].family = hash[t].family
           /\ hash'[t].exp = hash[t].exp
           /\ \A u \in Calls \ {t, new} : hash'[u] = hash[u]
           /\ grace'[t].token = new /\ \A u \in Calls \ {t} : grace'[u] = grace[u]
  <1> DEFINE e == IF expires[new] > now THEN expires[new] ELSE Forever
             o == [hash[t] EXCEPT !.status = "rotated", !.graceUntil = now + GracePeriod, !.bindFp = f]
             n == [NoHash EXCEPT !.status = "active", !.family = hash[t].family, !.exp = e]
             h1 == [hash EXCEPT ![t] = o]
  <1>0. hash \in [Calls -> HashType] /\ grace \in [Calls -> GraceType]
    BY Zenon DEF TypeOK
  <1>1. hash' = [h1 EXCEPT ![new] = n]
    BY <1>0, Zenon DEF RotateTokenScript, RotateTokenInto
  <1>2. o.status = "rotated" /\ o.family = hash[t].family /\ o.exp = hash[t].exp
    BY <1>0, Zenon DEF HashType
  <1>3. n.status = "active" /\ n.family = hash[t].family /\ n.exp = e
    <2> HIDE DEF e
    <2> QED  BY Zenon DEF NoHash
  <1>4. grace'[t].token = new /\ \A u \in Calls \ {t} : grace'[u] = grace[u]
    BY <1>0, Zenon DEF RotateTokenScript, RotateTokenInto
  <1>5. hash'[new] = n /\ hash'[t] = o /\ \A u \in Calls \ {t, new} : hash'[u] = hash[u]
    <2> HIDE DEF o, n
    <2> QED  BY <1>0, <1>1, Zenon
  <1> QED  BY <1>2, <1>3, <1>4, <1>5, Zenon

\* What SaveRefreshToken writes.
LEMMA SaveWrites ==
    ASSUME TypeOK, NEW c \in Calls, SaveRefreshToken(c)
    PROVE  /\ pc[c] = "grantSaveRefresh" /\ pc'[c] = "ok" /\ UNCHANGED <<now, expires, familyRevoked, old, at>>
           /\ \A d \in Calls \ {c} : pc'[d] = pc[d] /\ hash'[d] = hash[d]
           /\ \/ hash'[c] = hash[c]
              \/ hash'[c].status = "active" /\ hash'[c].family = c /\ hash'[c].exp = expires[c]
  <1> PICK n : n = [NoHash EXCEPT !.status = "active", !.family = c, !.exp = expires[c]]
    BY Zenon
  <1>1. n.status = "active" /\ n.family = c /\ n.exp = expires[c]
    BY Zenon DEF NoHash
  <1>2. /\ pc[c] = "grantSaveRefresh" /\ pc' = [pc EXCEPT ![c] = "ok"]
        /\ UNCHANGED <<now, expires, familyRevoked, old, at>>
        /\ hash' = [hash EXCEPT ![c] = n] \/ hash' = hash
    BY Zenon DEF SaveRefreshToken, Goto, db
  <1>3. pc'[c] = "ok" /\ \A d \in Calls \ {c} : pc'[d] = pc[d]
    BY <1>2, Zenon DEF TypeOK
  <1>4. (hash'[c] = hash[c] \/ hash'[c] = n) /\ \A d \in Calls \ {c} : hash'[d] = hash[d]
    BY <1>2, Zenon DEF TypeOK
  <1> QED  BY <1>1, <1>2, <1>3, <1>4, Zenon

\* A call that has answered is over.
LEMMA AnsweredForGood ==
    ASSUME TypeOK, [Next]_vars, NEW x \in Calls, pc[x] = "ok"
    PROVE  pc'[x] = "ok"
  <1> USE DEF db, redis, call, logout, Goto
  <1>1. CASE Tick \/ UNCHANGED vars
    BY <1>1, Zenon DEF Tick, vars
  <1>2. ASSUME NEW c \in Calls, ExchangeStep(c) \/ GrantStep(c) \/ CallFails(c)
        PROVE  pc'[x] = "ok"
    <2>1. pc \in [Calls -> Steps] /\ pc[c] # "ok" /\ \E s : pc' = [pc EXCEPT ![c] = s]
      BY <1>2, Zenon
      DEF ExchangeStep, CheckRefreshTokenReplay, FindActiveRefreshToken, CreateAccessToken,
          SaveAccessToken, RotateRefreshToken, RotateTransaction, RotateRefreshTokenCache,
          TryRefreshTokenGraceReplay, GrantStep, GrantAccessToken, GrantSaveAccessToken,
          CreateRefreshToken, SaveRefreshToken, CallFails, TypeOK
    <2> QED  BY <2>1, Zenon
  <1>3. ASSUME NEW l \in Logouts, LogoutStep(l) PROVE pc'[x] = "ok"
    BY <1>3, Zenon
    DEF LogoutStep, ListActiveAccessTokens, ListActiveRefreshTokens, RevokeAccessTokensByUserID,
        RevokeRefreshTokensByUserID, RevokeAccessToken, RevokeRefreshToken, LogoutReturns,
        LogoutFails
  <1> QED  BY <1>1, <1>2, <1>3, Zenon DEF Next

\* Rows are not deleted and stay in their family, with their expiry.
LEMMA RowsKept ==
    ASSUME TypeOK, CallInv, [Next]_vars
    PROVE  /\ rows \subseteq rows'
           /\ \A t \in rows : root'[t] = root[t] /\ expires'[t] = expires[t]
  <1> USE DEF db, redis, call, logout, Goto
  <1>0. ASSUME UNCHANGED <<rows, root, expires>>
        PROVE  /\ rows \subseteq rows'
               /\ \A t \in rows : root'[t] = root[t] /\ expires'[t] = expires[t]
    BY <1>0, Zenon
  <1>1. ASSUME NEW c \in Calls, c \notin rows, NEW r, NEW e,
               rows' = rows \cup {c}, root' = [root EXCEPT ![c] = r],
               expires' = [expires EXCEPT ![c] = e]
        PROVE  /\ rows \subseteq rows'
               /\ \A t \in rows : root'[t] = root[t] /\ expires'[t] = expires[t]
    BY <1>1, Zenon DEF TypeOK
  <1>2. ASSUME NEW c \in Calls, RotateRefreshToken(c)
        PROVE  /\ rows \subseteq rows'
               /\ \A t \in rows : root'[t] = root[t] /\ expires'[t] = expires[t]
    BY <1>0, <1>1, <1>2, Zenon DEF RotateRefreshToken, RotateTransaction, SwapRow, CallInv
  <1>3. ASSUME NEW c \in Calls, CreateRefreshToken(c)
        PROVE  /\ rows \subseteq rows'
               /\ \A t \in rows : root'[t] = root[t] /\ expires'[t] = expires[t]
    BY <1>1, <1>3, Zenon DEF CreateRefreshToken, CallInv
  <1>4. CASE Tick \/ UNCHANGED vars
    BY <1>0, <1>4, Zenon DEF Tick, vars
  <1>5. ASSUME NEW c \in Calls, ExchangeStep(c) \/ GrantStep(c) \/ CallFails(c),
               ~RotateRefreshToken(c), ~CreateRefreshToken(c)
        PROVE  UNCHANGED <<rows, root, expires>>
    BY <1>5, Zenon
    DEF ExchangeStep, CheckRefreshTokenReplay, FindActiveRefreshToken, CreateAccessToken,
        SaveAccessToken, RotateRefreshTokenCache, TryRefreshTokenGraceReplay,
        GrantStep, GrantAccessToken, GrantSaveAccessToken, SaveRefreshToken, CallFails
  <1>6. ASSUME NEW l \in Logouts, LogoutStep(l) PROVE UNCHANGED <<rows, root, expires>>
    BY <1>6, Zenon
    DEF LogoutStep, ListActiveAccessTokens, ListActiveRefreshTokens, RevokeAccessTokensByUserID,
        RevokeRefreshTokensByUserID, RevokeAccessToken, RevokeRefreshToken, LogoutReturns,
        LogoutFails
  <1> QED  BY <1>0, <1>2, <1>3, <1>4, <1>5, <1>6, Zenon DEF Next

\* Steps that leave the token hashes and their calls alone.
QuietStep ==
    /\ UNCHANGED <<hash, grace, familyRevoked, expires>>
    /\ \A c \in Calls :
         /\ response'[c] = response[c]
         /\ old'[c] = old[c]
         /\ pc'[c] \in {"rotateCache", "grantSaveRefresh"} => pc'[c] = pc[c]
         /\ pc'[c] \in {"mint", "saveAccess", "rotate"} =>
              /\ pc[c] \in Exchanging
              /\ (pc[c] \in {"mint", "saveAccess", "rotate"} /\ at'[c] = at[c]) \/ at'[c] = now
    /\ now' \in {now, now + 1}

\* Steps that matter to reuse detection, and the others.
LEMMA ReuseSteps ==
    ASSUME TypeOK, CallInv, [Next]_vars
    PROVE  \/ QuietStep
           \/ \E c, t \in Calls, f \in Fingerprints, m \in Modes : CheckRefreshTokenReplay(c, t, f, m)
           \/ \E c \in Calls : \/ RotateRefreshToken(c) \/ RotateRefreshTokenCache(c)
                               \/ TryRefreshTokenGraceReplay(c)
                               \/ CreateRefreshToken(c) \/ SaveRefreshToken(c)
  <1> USE DEF db, redis, call, logout, Goto
  <1>1. CASE Tick \/ UNCHANGED vars
    BY <1>1, Zenon DEF Tick, vars, QuietStep, Exchanging
  <1>2. ASSUME NEW c \in Calls, FindActiveRefreshToken(c) PROVE QuietStep
    BY <1>2, Zenon DEF FindActiveRefreshToken, QuietStep, TypeOK, Exchanging
  <1>3. ASSUME NEW c \in Calls, CreateAccessToken(c) \/ SaveAccessToken(c) PROVE QuietStep
    BY <1>3, Zenon DEF CreateAccessToken, SaveAccessToken, QuietStep, TypeOK, Exchanging
  <1>4. ASSUME NEW c \in Calls, NEW m \in Modes, GrantAccessToken(c, m) PROVE QuietStep
    BY <1>4, Zenon DEF GrantAccessToken, QuietStep, TypeOK, Exchanging
  <1>5. ASSUME NEW c \in Calls, GrantSaveAccessToken(c) \/ CallFails(c) PROVE QuietStep
    BY <1>5, Zenon DEF GrantSaveAccessToken, CallFails, QuietStep, TypeOK, Exchanging
  <1>6. ASSUME NEW l \in Logouts, LogoutStep(l) PROVE QuietStep
    BY <1>6, Zenon
    DEF LogoutStep, ListActiveAccessTokens, ListActiveRefreshTokens, RevokeAccessTokensByUserID,
        RevokeRefreshTokensByUserID, RevokeAccessToken, RevokeRefreshToken, LogoutReturns,
        LogoutFails, QuietStep, Exchanging
  <1> QED
    BY <1>1, <1>2, <1>3, <1>4, <1>5, <1>6, Zenon DEF Next, ExchangeStep, GrantStep

\* Tokens stay with their call until it has answered.
LEMMA HandedNext ==
    ASSUME TypeOK, CallInv, ReplyInv, HandedInv, [Next]_vars
    PROVE  HandedInv'
  <1> USE DEF db, redis, call, logout, Goto
  <1>0. \A x \in Calls : pc[x] = "ok" => pc'[x] = "ok"
    BY AnsweredForGood, Zenon
  <1>1. /\ \A c \in Calls : old[c] # None => old[c] \in Calls /\ pc[old[c]] = "ok"
        /\ \A c \in Calls : response[c] # None => response[c] \in Calls /\ pc[response[c]] = "ok"
        /\ \A t \in Calls : grace[t].token # None => grace[t].token \in Calls /\ pc[grace[t].token] = "ok"
    BY Zenon DEF HandedInv, TypeOK, GraceType
  <1>a. ASSUME NEW c \in Calls, NEW x, x # None => x \in Calls /\ pc'[x] = "ok",
               response' = [response EXCEPT ![c] = x]
        PROVE  \A d \in Calls : response'[d] # None => pc'[response'[d]] = "ok"
    <2>1. response'[c] = x /\ \A d \in Calls \ {c} : response'[d] = response[d]
      BY <1>a, Zenon DEF TypeOK
    <2> QED  BY <1>0, <1>1, <1>a, <2>1, Zenon
  <1>2. CASE QuietStep
    BY <1>0, <1>1, <1>2, Zenon DEF QuietStep, HandedInv
  <1>3. ASSUME NEW c \in Calls, NEW t \in Calls, NEW f \in Fingerprints, NEW m \in Modes,
               CheckRefreshTokenReplay(c, t, f, m)
        PROVE  HandedInv'
    <2>1. pc[t] = "ok"
      BY <1>1, <1>3, IdentityAssumption, Zenon DEF CheckRefreshTokenReplay, HandedOut
    <2>2. UNCHANGED grace /\ old'[c] = t /\ \A d \in Calls \ {c} : old'[d] = old[d]
      BY <1>3, Zenon DEF CheckRefreshTokenReplay, TypeOK
    <2>3. PICK x \in {grace[t].token, None} : response' = [response EXCEPT ![c] = x]
      BY <1>3, Zenon DEF CheckRefreshTokenReplay
    <2>4. \A d \in Calls : response'[d] # None => pc'[response'[d]] = "ok"
      BY <1>0, <1>1, <1>a, <2>3, Zenon
    <2> QED  BY <1>0, <1>1, <2>1, <2>2, <2>4, Zenon DEF HandedInv
  <1>4. ASSUME NEW c \in Calls, RotateRefreshToken(c) \/ CreateRefreshToken(c) PROVE HandedInv'
    <2>1. UNCHANGED <<grace, old, response>>
      BY <1>4, Zenon DEF RotateRefreshToken, RotateTransaction, CreateRefreshToken
    <2> QED  BY <1>0, <1>1, <2>1, Zenon DEF HandedInv
  <1>5. ASSUME NEW c \in Calls, RotateRefreshTokenCache(c) PROVE HandedInv'
    <2>1. /\ pc[c] = "rotateCache" /\ old[c] \in Calls /\ UNCHANGED old
          /\ response' = [response EXCEPT ![c] = c] /\ pc' = [pc EXCEPT ![c] = "ok"]
      BY <1>5, Zenon DEF RotateRefreshTokenCache, CallInv, Exchanging
    <2>2. pc'[c] = "ok" /\ old[c] # c
      BY <1>1, <2>1, IdentityAssumption, Zenon DEF TypeOK
    <2>3. \A d \in Calls : response'[d] # None => pc'[response'[d]] = "ok"
      BY <1>a, <2>1, <2>2, Zenon
    <2>4. ASSUME RotateTokenScript(old[c], c, fp[c])
          PROVE  grace'[old[c]].token = c /\ \A u \in Calls \ {old[c]} : grace'[u] = grace[u]
      <3>1. fp[c] \in Fingerprints \cup {None}
        BY Zenon DEF TypeOK
      <3> QED  BY <2>1, <2>2, <2>4, <3>1, RotateWrites, Zenon
    <2>5. \A t \in Calls : grace'[t].token \in {grace[t].token, c}
      BY <1>5, <2>4, Zenon DEF RotateRefreshTokenCache
    <2> QED  BY <1>0, <1>1, <2>1, <2>2, <2>3, <2>5, Zenon DEF HandedInv
  <1>6. ASSUME NEW c \in Calls, TryRefreshTokenGraceReplay(c) PROVE HandedInv'
    <2>1. old[c] \in Calls /\ UNCHANGED <<old, grace>>
      BY <1>6, Zenon DEF TryRefreshTokenGraceReplay, CallInv, Exchanging
    <2>2. PICK x \in {grace[old[c]].token, None} : response' = [response EXCEPT ![c] = x]
      BY <1>6, Zenon DEF TryRefreshTokenGraceReplay
    <2>3. \A d \in Calls : response'[d] # None => pc'[response'[d]] = "ok"
      BY <1>0, <1>1, <1>a, <2>1, <2>2, Zenon
    <2> QED  BY <1>0, <1>1, <2>1, <2>3, Zenon DEF HandedInv
  <1>7. ASSUME NEW c \in Calls, SaveRefreshToken(c) PROVE HandedInv'
    <2>1. UNCHANGED <<old, grace>> /\ response' = [response EXCEPT ![c] = c]
          /\ pc' = [pc EXCEPT ![c] = "ok"]
      BY <1>7, Zenon DEF SaveRefreshToken
    <2>2. pc'[c] = "ok"
      BY <2>1, Zenon DEF TypeOK
    <2>3. \A d \in Calls : response'[d] # None => pc'[response'[d]] = "ok"
      BY <1>a, <2>1, <2>2, Zenon
    <2> QED  BY <1>0, <1>1, <2>1, <2>3, Zenon DEF HandedInv
  <1> QED  BY ReuseSteps, <1>2, <1>3, <1>4, <1>5, <1>6, <1>7, Zenon

\* The hash keys stay in the families of their rows.
LEMMA HashFamilyNext ==
    ASSUME RotationInv, HandedInv, HashFamilyInv, [Next]_vars
    PROVE  HashFamilyInv'
  <1> USE DEF db, redis, call, logout, Goto
  <1>0. /\ TypeOK /\ CallInv /\ rows \subseteq rows'
        /\ \A t \in rows : t \in Calls /\ root[t] \in Calls /\ root'[t] = root[t]
    BY RowsKept, Zenon DEF RotationInv, RowInv, TypeOK
  <1>1. ASSUME NEW c \in Calls, pc'[c] = pc[c], old'[c] = old[c]
        PROVE  /\ pc'[c] = "rotateCache" => c \in rows' /\ old'[c] \in rows' /\ root'[c] = root'[old'[c]]
               /\ pc'[c] = "grantSaveRefresh" => c \in rows' /\ root'[c] = c
    BY <1>0, <1>1, Zenon DEF HashFamilyInv
  <1>2. ASSUME \A t \in Calls : hash'[t].status # "absent" =>
                 t \in rows /\ hash'[t].family = root[t]
        PROVE  \A t \in Calls : hash'[t].status # "absent" =>
                 t \in rows' /\ hash'[t].family = root'[t]
    BY <1>0, <1>2, Zenon
  <1>3. CASE QuietStep
    BY <1>0, <1>1, <1>2, <1>3, Zenon DEF QuietStep, HashFamilyInv
  <1>4. ASSUME NEW c \in Calls, NEW t \in Calls, NEW f \in Fingerprints \cup {None}, ReplayEffect(t, f)
        PROVE  \A u \in Calls : hash'[u].status # "absent" =>
                 u \in rows /\ hash'[u].family = root[u]
    <2>1. hash[t].family \in Calls \/ hash[t].status = "absent"
      BY <1>0, Zenon DEF HashFamilyInv
    <2>2. CASE UNCHANGED <<hash, familyRevoked>>
      BY <2>2, Zenon DEF HashFamilyInv
    <2>3. CASE /\ hash[t].status = "rotated" /\ hash'[t].family = hash[t].family
               /\ \A u \in Calls \ {t} : hash'[u] = hash[u]
      BY <2>3, Zenon DEF HashFamilyInv
    <2> QED  BY <1>0, <1>4, <2>1, <2>2, <2>3, ReplayWrites, Zenon
  <1>5. ASSUME NEW c \in Calls, NEW t \in Calls, NEW f \in Fingerprints, NEW m \in Modes,
               CheckRefreshTokenReplay(c, t, f, m)
        PROVE  HashFamilyInv'
    <2>1. /\ ReplayEffect(t, f) /\ pc'[c] \notin {"rotateCache", "grantSaveRefresh"}
          /\ \A d \in Calls \ {c} : pc'[d] = pc[d] /\ old'[d] = old[d]
      BY <1>0, <1>5, Zenon DEF CheckRefreshTokenReplay, TypeOK
    <2> QED  BY <1>1, <1>2, <1>4, <2>1, Zenon DEF HashFamilyInv
  <1>6. ASSUME NEW c \in Calls, RotateRefreshToken(c) PROVE HashFamilyInv'
    <2>0. c \notin rows /\ UNCHANGED <<hash, old>> /\ pc[c] = "rotate" /\ old[c] \in Calls
      BY <1>0, <1>6, Zenon DEF RotateRefreshToken, RotateTransaction, CallInv, Exchanging
    <2>1. \A d \in Calls \ {c} : pc'[d] = pc[d] /\ old'[d] = old[d]
      BY <1>0, <1>6, Zenon DEF RotateRefreshToken, RotateTransaction, TypeOK
    <2>2. \/ pc'[c] = "graceReplay"
          \/ pc'[c] = "rotateCache" /\ Unrevoked(old[c]) /\ SwapRow(c)
      BY <1>0, <1>6, Zenon DEF RotateRefreshToken, RotateTransaction, TypeOK
    <2>3. pc'[c] = "rotateCache" => c \in rows' /\ old'[c] \in rows' /\ root'[c] = root'[old'[c]]
      <3> SUFFICES ASSUME Unrevoked(old[c]), SwapRow(c)
                   PROVE  c \in rows' /\ old'[c] \in rows' /\ root'[c] = root'[old'[c]]
        BY <2>2, Zenon
      <3>1. old[c] \in rows /\ c \in rows'
        BY Zenon DEF Unrevoked, SwapRow
      <3>2. root'[c] = root[old[c]]
        BY <1>0, Zenon DEF SwapRow, TypeOK
      <3> QED  BY <1>0, <2>0, <3>1, <3>2, Zenon
    <2> QED  BY <1>1, <1>2, <2>0, <2>1, <2>2, <2>3, Zenon DEF HashFamilyInv
  <1>7. ASSUME NEW c \in Calls, RotateRefreshTokenCache(c) PROVE HashFamilyInv'
    <2>1. /\ pc[c] = "rotateCache" /\ pc'[c] = "ok"
          /\ \A d \in Calls \ {c} : pc'[d] = pc[d] /\ old'[d] = old[d]
      BY <1>0, <1>7, Zenon DEF RotateRefreshTokenCache, TypeOK
    <2>2. old[c] \in Calls /\ old[c] # c
      BY <1>0, <2>1, IdentityAssumption, Zenon DEF CallInv, Exchanging, HandedInv
    <2>3. ASSUME RotateTokenApplies(old[c]), RotateTokenScript(old[c], c, fp[c])
          PROVE  \A u \in Calls : hash'[u].status # "absent" =>
                   u \in rows /\ hash'[u].family = root[u]
      <3>1. fp[c] \in Fingerprints \cup {None}
        BY <1>0, Zenon DEF TypeOK
      <3>2. /\ hash'[c].family = hash[old[c]].family
            /\ hash'[old[c]].family = hash[old[c]].family
            /\ \A u \in Calls \ {old[c], c} : hash'[u] = hash[u]
        BY <1>0, <2>2, <2>3, <3>1, RotateWrites, Zenon
      <3>3. hash[old[c]].status # "absent"
        BY <2>3, Zenon DEF RotateTokenApplies, HashExists
      <3> QED  BY <2>1, <2>2, <3>2, <3>3, Zenon DEF HashFamilyInv
    <2>4. ASSUME UNCHANGED hash
          PROVE  \A u \in Calls : hash'[u].status # "absent" =>
                   u \in rows /\ hash'[u].family = root[u]
      BY <2>4, Zenon DEF HashFamilyInv
    <2>5. \A u \in Calls : hash'[u].status # "absent" => u \in rows /\ hash'[u].family = root[u]
      BY <1>7, <2>3, <2>4, Zenon DEF RotateRefreshTokenCache
    <2> QED  BY <1>1, <1>2, <2>1, <2>5, Zenon DEF HashFamilyInv
  <1>8. ASSUME NEW c \in Calls, TryRefreshTokenGraceReplay(c) PROVE HashFamilyInv'
    <2>1. /\ old[c] \in Calls /\ fp[c] \in Fingerprints \cup {None} /\ ReplayEffect(old[c], fp[c])
          /\ pc'[c] \notin {"rotateCache", "grantSaveRefresh"}
          /\ \A d \in Calls \ {c} : pc'[d] = pc[d] /\ old'[d] = old[d]
      BY <1>0, <1>8, Zenon DEF TryRefreshTokenGraceReplay, TypeOK, CallInv, Exchanging
    <2> QED  BY <1>1, <1>2, <1>4, <2>1, Zenon DEF HashFamilyInv
  <1>9. ASSUME NEW c \in Calls, CreateRefreshToken(c) PROVE HashFamilyInv'
    <2>1. /\ pc'[c] = "grantSaveRefresh" /\ UNCHANGED hash /\ c \in rows' /\ root'[c] = c
          /\ \A d \in Calls \ {c} : pc'[d] = pc[d] /\ old'[d] = old[d]
      <3>1. /\ pc' = [pc EXCEPT ![c] = "grantSaveRefresh"] /\ rows' = rows \cup {c}
            /\ root' = [root EXCEPT ![c] = c] /\ UNCHANGED <<hash, old>>
        BY <1>9, Zenon DEF CreateRefreshToken
      <3>2. root'[c] = c
        BY <1>0, <3>1, Zenon DEF TypeOK
      <3>3. pc'[c] = "grantSaveRefresh" /\ \A d \in Calls \ {c} : pc'[d] = pc[d]
        <4>1. pc \in [Calls -> Steps]
          BY <1>0, Zenon DEF TypeOK
        <4> QED  BY <3>1, <4>1, Zenon
      <3> QED  BY <3>1, <3>2, <3>3, Zenon
    <2> QED  BY <1>1, <1>2, <2>1, Zenon DEF HashFamilyInv
  <1>10. ASSUME NEW c \in Calls, SaveRefreshToken(c) PROVE HashFamilyInv'
    <2>1. /\ pc[c] = "grantSaveRefresh" /\ pc'[c] = "ok"
          /\ \A d \in Calls \ {c} : pc'[d] = pc[d] /\ old'[d] = old[d]
      BY <1>0, <1>10, SaveWrites, Zenon
    <2>2. hash'[c] = hash[c] \/ hash'[c].family = c
      BY <1>0, <1>10, SaveWrites, Zenon
    <2>3. \A u \in Calls \ {c} : hash'[u] = hash[u]
      BY <1>0, <1>10, SaveWrites, Zenon
    <2>4. \A u \in Calls : hash'[u].status # "absent" => u \in rows /\ hash'[u].family = root[u]
      BY <2>1, <2>2, <2>3, Zenon DEF HashFamilyInv
    <2> QED  BY <1>1, <1>2, <2>1, <2>4, Zenon DEF HashFamilyInv
  <1> QED  BY <1>0, ReuseSteps, <1>3, <1>5, <1>6, <1>7, <1>8, <1>9, <1>10, Zenon

\* A token whose key has no expiry is not rotated.
LEMMA LastingNext ==
    ASSUME RotationInv, HandedInv, HashFamilyInv, LastingInv, [Next]_vars
    PROVE  LastingInv'
  <1> USE DEF db, redis, call, logout, Goto
  <1>0. /\ TypeOK /\ CallInv /\ rows \subseteq rows' /\ rows \subseteq Calls
        /\ \A t \in rows : expires'[t] = expires[t]
    BY RowsKept, Zenon DEF RotationInv, TypeOK
  <1>1. \A t \in Calls : expires[t] \in Int /\ at[t] \in Int /\ at[t] <= MaxTime
    BY <1>0, BoundsAssumption DEF TypeOK
  <1>2. now \in Int /\ MaxTime \in Int /\ RefreshTTL \in Int /\ Forever = MaxTime + RefreshTTL + 1
    BY <1>0, BoundsAssumption DEF TypeOK, Forever
  <1> DEFINE Early(s) == s \in {"mint", "saveAccess", "rotate"}
             NoNew == \A t \in Calls : hash'[t].exp = Forever => hash[t].exp = Forever
             Later == now' \in Int /\ now <= now'
             Expiries == \A t \in Calls : expires'[t] < Forever
             Rotated == \A t \in Calls : hash'[t].status \in {"rotated", "compromised"} =>
                                         hash'[t].exp # Forever
             InHand(c) == /\ Early(pc'[c]) /\ hash'[old'[c]].exp = Forever
                             => expires'[old'[c]] <= at'[c]
                          /\ pc'[c] = "rotateCache" => hash'[old'[c]].exp # Forever
  <1>3. ASSUME NoNew, Later
        PROVE  \A t \in Calls : hash'[t].exp = Forever => t \in rows' /\ expires'[t] <= now'
    <2> SUFFICES ASSUME NEW t \in Calls, hash'[t].exp = Forever
                 PROVE  t \in rows' /\ expires'[t] <= now'
      BY Zenon
    <2>1. t \in rows /\ expires[t] <= now
      BY <1>3, Zenon DEF LastingInv
    <2>2. t \in rows' /\ expires'[t] = expires[t]
      BY <1>0, <2>1, Zenon
    <2> QED  BY <1>1, <1>2, <1>3, <2>1, <2>2
  <1>4. ASSUME NoNew, NEW c \in Calls, old'[c] = old[c], old[c] \in Calls \/ ~Early(pc'[c]),
               pc'[c] = "rotateCache" => pc[c] = "rotateCache",
               Early(pc'[c]) => (Early(pc[c]) /\ at'[c] = at[c]) \/ at'[c] = now
        PROVE  InHand(c)
    <2>1. ASSUME Early(pc'[c]), hash'[old'[c]].exp = Forever PROVE expires'[old'[c]] <= at'[c]
      <3>1. old[c] \in rows /\ expires[old[c]] <= now
        BY <1>4, <2>1, Zenon DEF LastingInv
      <3>2. expires[old[c]] <= at'[c]
        BY <1>4, <2>1, <3>1, Zenon DEF LastingInv
      <3> QED  BY <1>0, <1>4, <3>1, <3>2, Zenon
    <2>2. ASSUME pc'[c] = "rotateCache" PROVE hash'[old'[c]].exp # Forever
      <3>1. old[c] \in Calls /\ hash[old[c]].exp # Forever
        BY <1>0, <1>4, <2>2, Zenon DEF CallInv, Exchanging, LastingInv
      <3> QED  BY <1>4, <3>1, Zenon
    <2> QED  BY <2>1, <2>2, Zenon
  <1>5. ASSUME NoNew, Later, Expiries, Rotated, \A c \in Calls : InHand(c) PROVE LastingInv'
    <2>1. Forever' = Forever
      BY Zenon DEF Forever
    <2> QED  BY <1>3, <1>5, <2>1, Zenon DEF LastingInv
  <1>6. UNCHANGED expires => Expiries
    BY Zenon DEF LastingInv
  <1>7. \A c \in Calls : pc[c] \in Exchanging => old[c] \in Calls
    BY <1>0, Zenon DEF CallInv
  <1>8. UNCHANGED now => Later
    BY <1>2
  <1>9. CASE QuietStep
    <2>1. NoNew /\ Rotated /\ Expiries
      BY <1>6, <1>9, Zenon DEF QuietStep, LastingInv
    <2>2. Later
      BY <1>2, <1>9 DEF QuietStep
    <2>3. \A c \in Calls : InHand(c)
      BY <1>4, <1>7, <1>9, <2>1, Zenon DEF QuietStep
    <2> QED  BY <1>5, <2>1, <2>2, <2>3, Zenon
  <1>10. ASSUME NEW t \in Calls, NEW f \in Fingerprints \cup {None}, ReplayEffect(t, f)
         PROVE  NoNew /\ Rotated
    <2>1. hash[t].family \in Calls \/ hash[t].status = "absent"
      BY <1>0, Zenon DEF HashFamilyInv, RotationInv, RowInv
    <2>2. CASE UNCHANGED <<hash, familyRevoked>>
      BY <2>2, Zenon DEF LastingInv
    <2>3. CASE /\ hash[t].status = "rotated" /\ hash'[t].exp = hash[t].exp
               /\ \A u \in Calls \ {t} : hash'[u] = hash[u]
      BY <2>3, Zenon DEF LastingInv
    <2> QED  BY <1>0, <1>10, <2>1, <2>2, <2>3, ReplayWrites, Zenon
  <1>11. ASSUME NEW c \in Calls, NEW t \in Calls, NEW f \in Fingerprints, NEW m \in Modes,
                CheckRefreshTokenReplay(c, t, f, m)
         PROVE  LastingInv'
    <2>1. /\ ReplayEffect(t, f) /\ ~Early(pc'[c]) /\ pc'[c] # "rotateCache"
          /\ UNCHANGED <<now, expires>>
          /\ \A d \in Calls \ {c} : pc'[d] = pc[d] /\ old'[d] = old[d] /\ at'[d] = at[d]
      BY <1>0, <1>11, Zenon DEF CheckRefreshTokenReplay, TypeOK
    <2>2. NoNew /\ Rotated /\ Later /\ Expiries
      BY <1>6, <1>8, <1>10, <2>1, Zenon
    <2>3. \A d \in Calls : InHand(d)
      BY <1>4, <1>7, <2>1, <2>2, Zenon DEF Exchanging
    <2> QED  BY <1>5, <2>2, <2>3, Zenon
  <1>12. ASSUME NEW c \in Calls, RotateRefreshToken(c) PROVE LastingInv'
    <2>1. /\ UNCHANGED <<now, hash, old, at>> /\ pc[c] = "rotate" /\ old[c] \in Calls
          /\ \A d \in Calls \ {c} : pc'[d] = pc[d]
      BY <1>0, <1>7, <1>12, Zenon DEF RotateRefreshToken, RotateTransaction, TypeOK, Exchanging
    <2>2. \/ pc'[c] = "graceReplay" /\ UNCHANGED expires
          \/ /\ pc'[c] = "rotateCache" /\ expires[old[c]] > at[c]
             /\ expires' = [expires EXCEPT ![c] = at[c] + RefreshTTL]
      BY <1>0, <1>12, Zenon DEF RotateRefreshToken, RotateTransaction, SwapRow, TypeOK
    <2>3. Expiries
      <3>1. expires'[c] \in {expires[c], at[c] + RefreshTTL} /\ \A t \in Calls \ {c} : expires'[t] = expires[t]
        BY <1>0, <2>2, Zenon DEF TypeOK
      <3>2. at[c] + RefreshTTL < Forever
        BY <1>1, <1>2
      <3> QED  BY <3>1, <3>2, Zenon DEF LastingInv
    <2>4. NoNew /\ Rotated /\ Later
      BY <1>8, <2>1, Zenon DEF LastingInv
    <2>5. \A d \in Calls \ {c} : InHand(d)
      BY <1>4, <1>7, <2>1, <2>4, Zenon DEF Exchanging
    <2>6. ASSUME pc'[c] = "rotateCache" PROVE hash[old[c]].exp # Forever
      <3>1. ~(expires[old[c]] <= at[c])
        BY <1>1, <2>1, <2>2, <2>6
      <3> QED  BY <2>1, <3>1, Zenon DEF LastingInv
    <2>7. InHand(c)
      BY <2>1, <2>2, <2>6, Zenon
    <2> QED  BY <1>5, <2>3, <2>4, <2>5, <2>7, Zenon
  <1>13. ASSUME NEW c \in Calls, TryRefreshTokenGraceReplay(c) PROVE LastingInv'
    <2>1. /\ old[c] \in Calls /\ fp[c] \in Fingerprints \cup {None} /\ ReplayEffect(old[c], fp[c])
          /\ ~Early(pc'[c]) /\ pc'[c] # "rotateCache" /\ UNCHANGED <<now, expires, old, at>>
          /\ \A d \in Calls \ {c} : pc'[d] = pc[d]
      BY <1>0, <1>7, <1>13, Zenon DEF TryRefreshTokenGraceReplay, TypeOK, Exchanging
    <2>2. NoNew /\ Rotated /\ Later /\ Expiries
      BY <1>6, <1>8, <1>10, <2>1, Zenon
    <2>3. \A d \in Calls : InHand(d)
      BY <1>4, <1>7, <2>1, <2>2, Zenon DEF Exchanging
    <2> QED  BY <1>5, <2>2, <2>3, Zenon
  <1>14. ASSUME NEW c \in Calls, CreateRefreshToken(c) PROVE LastingInv'
    <2>1. /\ UNCHANGED <<now, hash, old, at>> /\ pc'[c] = "grantSaveRefresh"
          /\ \A d \in Calls \ {c} : pc'[d] = pc[d]
          /\ expires' = [expires EXCEPT ![c] = at[c] + RefreshTTL]
      BY <1>0, <1>14, Zenon DEF CreateRefreshToken, TypeOK
    <2>2. at[c] + RefreshTTL < Forever
      BY <1>1, <1>2
    <2>3. Expiries
      BY <1>0, <2>1, <2>2, Zenon DEF LastingInv, TypeOK
    <2>4. NoNew /\ Rotated /\ Later
      BY <1>8, <2>1, Zenon DEF LastingInv
    <2>5. \A d \in Calls : InHand(d)
      BY <1>4, <1>7, <2>1, <2>4, Zenon DEF Exchanging
    <2> QED  BY <1>5, <2>3, <2>4, <2>5, Zenon
  <1>15. ASSUME NEW c \in Calls, SaveRefreshToken(c) PROVE LastingInv'
    <2>1. /\ UNCHANGED <<now, expires, old, at>> /\ pc'[c] = "ok"
          /\ \A d \in Calls \ {c} : pc'[d] = pc[d]
      BY <1>0, <1>15, SaveWrites, Zenon
    <2>2. /\ hash'[c] = hash[c] \/ (hash'[c].status = "active" /\ hash'[c].exp = expires[c])
          /\ \A u \in Calls \ {c} : hash'[u] = hash[u]
      BY <1>0, <1>15, SaveWrites, Zenon
    <2>3. expires[c] # Forever
      BY <1>1, <1>2 DEF LastingInv
    <2>4. NoNew /\ Rotated /\ Later /\ Expiries
      BY <1>6, <1>8, <2>1, <2>2, <2>3, Zenon DEF LastingInv
    <2>5. \A d \in Calls : InHand(d)
      BY <1>4, <1>7, <2>1, <2>4, Zenon DEF Exchanging
    <2> QED  BY <1>5, <2>4, <2>5, Zenon
  <1>16. ASSUME NEW c \in Calls, RotateRefreshTokenCache(c) PROVE LastingInv'
    <2>1. /\ UNCHANGED <<now, expires, old, at>> /\ pc[c] = "rotateCache" /\ pc'[c] = "ok"
          /\ \A d \in Calls \ {c} : pc'[d] = pc[d]
      BY <1>0, <1>16, Zenon DEF RotateRefreshTokenCache, TypeOK
    <2>2. CASE UNCHANGED hash
      <3>1. NoNew /\ Rotated /\ Later /\ Expiries
        BY <1>6, <1>8, <2>1, <2>2, Zenon DEF LastingInv
      <3>2. \A d \in Calls : InHand(d)
        BY <1>4, <1>7, <2>1, <3>1, Zenon DEF Exchanging
      <3> QED  BY <1>5, <3>1, <3>2, Zenon
    <2>3. ASSUME RotateTokenScript(old[c], c, fp[c]) PROVE LastingInv'
      <3>1. fp[c] \in Fingerprints \cup {None} /\ old[c] \in Calls /\ old[c] # c
        BY <1>0, <1>7, <2>1, IdentityAssumption, Zenon DEF TypeOK, HandedInv, Exchanging
      <3>2. /\ hash'[c].status = "active"
            /\ hash'[c].exp = IF expires[c] > now THEN expires[c] ELSE Forever
            /\ hash'[old[c]].exp = hash[old[c]].exp
            /\ \A u \in Calls \ {old[c], c} : hash'[u] = hash[u]
        BY <1>0, <2>3, <3>1, RotateWrites, Zenon
      <3>3. hash[old[c]].exp # Forever /\ c \in rows
        BY <2>1, Zenon DEF LastingInv, HashFamilyInv
      <3>4. \A d \in Calls : old[d] # c
        BY <2>1, IdentityAssumption, Zenon DEF HandedInv
      <3>5. \A u \in Calls \ {c} : hash'[u].exp = hash[u].exp
        BY <3>2, Zenon
      <3>6. \A t \in Calls : hash'[t].exp = Forever => t \in rows' /\ expires'[t] <= now'
        <4>1. expires[c] > now \/ expires[c] <= now
          BY <1>1, <1>2
        <4>2. expires[c] # Forever
          BY <1>1, <1>2 DEF LastingInv
        <4>3. hash'[c].exp = Forever => expires[c] <= now
          BY <3>2, <4>1, <4>2, Zenon
        <4> QED  BY <1>0, <2>1, <3>3, <3>5, <4>3, Zenon DEF LastingInv
      <3>7. Rotated
        BY <3>2, <3>3, <3>5, Zenon DEF LastingInv
      <3>8. \A d \in Calls : InHand(d)
        <4> SUFFICES ASSUME NEW d \in Calls, d # c PROVE InHand(d)
          BY <2>1, Zenon
        <4>1. old[d] \in Calls => hash'[old'[d]].exp = hash[old[d]].exp
          BY <2>1, <3>4, <3>5, Zenon
        <4>2. Early(pc'[d]) \/ pc'[d] = "rotateCache" => old[d] \in Calls
          BY <1>7, <2>1, Zenon DEF Exchanging
        <4> QED  BY <2>1, <4>1, <4>2, Zenon DEF LastingInv
      <3>9. Expiries /\ Forever' = Forever
        BY <1>6, <2>1, Zenon DEF Forever
      <3> QED  BY <3>6, <3>7, <3>8, <3>9, Zenon DEF LastingInv
    <2> QED  BY <1>16, <2>2, <2>3, Zenon DEF RotateRefreshTokenCache
  <1> QED
    BY <1>0, ReuseSteps, <1>9, <1>11, <1>12, <1>13, <1>14, <1>15, <1>16, Zenon

\* The family-revoked key outlives the reused token's key: it is set to that
\* key's expiry, and set again only after it is over.
LEMMA MarkedNext ==
    ASSUME RotationInv, HandedInv, HashFamilyInv, LastingInv, MarkedInv, [Next]_vars
    PROVE  MarkedInv'
  <1> USE DEF db, redis, call, logout, Goto
  <1>a. TypeOK /\ CallInv /\ RowInv
    BY Zenon DEF RotationInv
  <1>b. now \in Int
    BY <1>a, BoundsAssumption DEF TypeOK
  <1>c. \A t \in Calls : hash[t].exp \in Int /\ familyRevoked[t] \in Int
    BY <1>a, Zenon DEF TypeOK, HashType
  <1>d. \A t \in Calls : hash[t].status # "absent" => hash[t].family \in Calls
    BY <1>a, Zenon DEF TypeOK, RowInv, HashFamilyInv
  <1>0. /\ TypeOK /\ CallInv /\ now \in Int
        /\ \A t \in Calls : hash[t].exp \in Int
        /\ \A t \in Calls : hash[t].status # "absent" => hash[t].family \in Calls
        /\ \A t \in Calls : familyRevoked[t] \in Int
    BY <1>a, <1>b, <1>c, <1>d, Zenon
  <1>1. ASSUME NEW t \in Calls, hash'[t] = hash[t], UNCHANGED familyRevoked, now' \in {now, now + 1},
               hash'[t].status = "compromised", hash'[t].exp > now'
        PROVE  familyRevoked'[hash'[t].family] >= hash'[t].exp
    <2>1. hash[t].exp > now
      BY <1>0, <1>1
    <2> QED  BY <1>1, <2>1, Zenon DEF MarkedInv
  <1>2. ASSUME NEW t \in Calls, NEW f \in Fingerprints \cup {None}, ReplayEffect(t, f), UNCHANGED now
        PROVE  MarkedInv'
    <2>1. hash[t].family \in Calls \/ hash[t].status = "absent"
      BY <1>0, Zenon
    <2>2. CASE UNCHANGED <<hash, familyRevoked>>
      BY <1>1, <1>2, <2>2, Zenon DEF MarkedInv
    <2>3. ASSUME hash[t].status = "rotated", ~FamilyMarked(t),
                 hash'[t].family = hash[t].family, hash'[t].exp = hash[t].exp,
                 \A u \in Calls \ {t} : hash'[u] = hash[u],
                 hash[t].exp # Forever => familyRevoked'[hash[t].family] = hash[t].exp,
                 \A u \in Calls \ {hash[t].family} : familyRevoked'[u] = familyRevoked[u]
          PROVE  MarkedInv'
      <3>1. familyRevoked'[hash'[t].family] = hash'[t].exp /\ hash'[t].exp \in Int
        BY <1>0, <2>3, Zenon DEF LastingInv
      <3>2. familyRevoked'[hash'[t].family] >= hash'[t].exp
        BY <3>1
      <3>3. ASSUME NEW u \in Calls, u # t, hash'[u].status = "compromised", hash'[u].exp > now'
            PROVE  familyRevoked'[hash'[u].family] >= hash'[u].exp
        <4>1. hash[u].status = "compromised" /\ hash[u].exp > now /\ hash[u].family \in Calls
          BY <1>0, <1>2, <2>3, <3>3, Zenon
        <4>2. familyRevoked[hash[u].family] >= hash[u].exp
          BY <4>1, Zenon DEF MarkedInv
        <4>3. hash[u].family # hash[t].family
          <5>1. ~(familyRevoked[hash[t].family] > now)
            BY <2>3, Zenon DEF FamilyMarked
          <5>2. familyRevoked[hash[u].family] > now
            BY <1>0, <4>1, <4>2
          <5> QED  BY <5>1, <5>2, Zenon
        <4> QED  BY <2>3, <3>3, <4>1, <4>2, <4>3, Zenon
      <3> QED  BY <3>2, <3>3, Zenon DEF MarkedInv
    <2> QED  BY <1>0, <1>2, <2>1, <2>2, <2>3, ReplayWrites, Zenon
  <1>3. CASE QuietStep
    BY <1>1, <1>3, Zenon DEF QuietStep, MarkedInv
  <1>4. ASSUME NEW c \in Calls, NEW t \in Calls, NEW f \in Fingerprints, NEW m \in Modes,
               CheckRefreshTokenReplay(c, t, f, m)
        PROVE  MarkedInv'
    BY <1>2, <1>4, Zenon DEF CheckRefreshTokenReplay
  <1>5. ASSUME NEW c \in Calls, RotateRefreshToken(c) \/ CreateRefreshToken(c) PROVE MarkedInv'
    <2>1. UNCHANGED <<hash, familyRevoked, now>>
      BY <1>5, Zenon DEF RotateRefreshToken, RotateTransaction, CreateRefreshToken
    <2> QED  BY <1>1, <2>1, Zenon DEF MarkedInv
  <1>6. ASSUME NEW c \in Calls, TryRefreshTokenGraceReplay(c) PROVE MarkedInv'
    <2>1. /\ old[c] \in Calls /\ fp[c] \in Fingerprints \cup {None}
          /\ ReplayEffect(old[c], fp[c]) /\ UNCHANGED now
      BY <1>0, <1>6, Zenon DEF TryRefreshTokenGraceReplay, CallInv, Exchanging, TypeOK
    <2> QED  BY <1>2, <2>1, Zenon
  <1>7. ASSUME NEW c \in Calls, SaveRefreshToken(c) PROVE MarkedInv'
    <2>1. /\ UNCHANGED <<familyRevoked, now>>
          /\ hash'[c] = hash[c] \/ hash'[c].status = "active"
          /\ \A u \in Calls \ {c} : hash'[u] = hash[u]
      BY <1>0, <1>7, SaveWrites, Zenon
    <2> QED  BY <1>1, <2>1, Zenon DEF MarkedInv
  <1>8. ASSUME NEW c \in Calls, RotateRefreshTokenCache(c) PROVE MarkedInv'
    <2>1. UNCHANGED <<familyRevoked, now>>
      BY <1>8, Zenon DEF RotateRefreshTokenCache
    <2>2. CASE UNCHANGED hash
      BY <1>1, <2>1, <2>2, Zenon DEF MarkedInv
    <2>3. ASSUME RotateTokenScript(old[c], c, fp[c]) PROVE MarkedInv'
      <3>1. fp[c] \in Fingerprints \cup {None} /\ old[c] \in Calls /\ old[c] # c
        BY <1>0, <1>8, IdentityAssumption, Zenon
        DEF RotateRefreshTokenCache, TypeOK, HandedInv, CallInv, Exchanging
      <3>2. /\ hash'[c].status = "active" /\ hash'[old[c]].status = "rotated"
            /\ \A u \in Calls \ {old[c], c} : hash'[u] = hash[u]
        BY <1>0, <2>3, <3>1, RotateWrites, Zenon
      <3> QED  BY <1>1, <2>1, <3>2, Zenon DEF MarkedInv
    <2> QED  BY <1>8, <2>2, <2>3, Zenon DEF RotateRefreshTokenCache
  <1> QED  BY <1>0, ReuseSteps, <1>3, <1>4, <1>5, <1>6, <1>7, <1>8, Zenon

\* The empty cache has no reused token.
LEMMA ReuseInit == Init => ReuseInv
  <1> SUFFICES ASSUME Init PROVE ReuseInv
    BY Zenon
  <1>1. Forever \in Int /\ 0 < Forever
    BY BoundsAssumption DEF Forever
  <1>2. \A t \in Calls : hash[t].status = "absent" /\ hash[t].exp = 0 /\ hash[t].exp # Forever
    BY <1>1 DEF Init, NoHash
  <1>3. \A t \in Calls : expires[t] = 0 /\ grace[t].token = None
    BY Zenon DEF Init, NoGrace
  <1>4. HandedInv /\ HashFamilyInv /\ MarkedInv
    BY <1>2, <1>3, Zenon DEF Init, HandedInv, HashFamilyInv, MarkedInv
  <1>5. LastingInv
    BY <1>1, <1>2, <1>3, Zenon DEF Init, LastingInv
  <1> QED  BY <1>4, <1>5, RotationInit, Zenon DEF ReuseInv

\* Redis and the rows agree on families, and a detected reuse stays marked.
LEMMA ReuseInvariant == Spec => []ReuseInv
  <1>1. ReuseInv /\ [Next]_vars => ReuseInv'
    BY TypeNext, CallNext, RowNext, ReplyNext, HandedNext, HashFamilyNext, LastingNext, MarkedNext,
       Zenon DEF ReuseInv, RotationInv
  <1> QED  BY <1>1, ReuseInit, PTL DEF Spec

\* Once check_refresh_replay has detected the reuse of a token, and until that
\* token's key would have expired, no exchange of a cached token of the same
\* family passes the replay check: whatever rotations, retries and logouts are in
\* flight, with lost cache writes and stale reads, for any lifetimes.
THEOREM ReuseIsBlocked == Spec => ReuseBlocksFamily
  <1> DEFINE P == \A c \in Calls :
                    pc[c] = "idle" /\ pc'[c] = "find" /\ HashExists(old'[c])
                    => ~\E t \in rows : /\ root[t] = root[old'[c]]
                                        /\ hash[t].status = "compromised"
                                        /\ hash[t].exp > now
  <1>1. ReuseInv /\ [Next]_vars => [P]_vars
    <2> SUFFICES ASSUME ReuseInv, Next, NEW c \in Calls, pc[c] = "idle", pc'[c] = "find",
                        HashExists(old'[c]), NEW t \in rows, root[t] = root[old'[c]],
                        hash[t].status = "compromised", hash[t].exp > now
                 PROVE  FALSE
      BY Zenon
    <2> USE DEF db, redis, call, logout, Goto
    <2>0. TypeOK /\ RowInv /\ HashFamilyInv /\ MarkedInv
      BY Zenon DEF ReuseInv, RotationInv
    <2>1. PICK u \in Calls, f \in Fingerprints, m \in Modes : CheckRefreshTokenReplay(c, u, f, m)
      <3>1. ASSUME NEW d \in Calls, \/ FindActiveRefreshToken(d) \/ CreateAccessToken(d)
                                    \/ SaveAccessToken(d) \/ RotateRefreshToken(d)
                                    \/ RotateRefreshTokenCache(d) \/ TryRefreshTokenGraceReplay(d)
                                    \/ GrantStep(d) \/ CallFails(d)
            PROVE  FALSE
        <4>1. PICK s : pc' = [pc EXCEPT ![d] = s] /\ s # "find"
          BY <3>1, Zenon
          DEF FindActiveRefreshToken, CreateAccessToken, SaveAccessToken, RotateRefreshToken,
              RotateTransaction, RotateRefreshTokenCache, TryRefreshTokenGraceReplay, GrantStep,
              GrantAccessToken, GrantSaveAccessToken, CreateRefreshToken, SaveRefreshToken, CallFails
        <4> QED  BY <2>0, <4>1, Zenon DEF TypeOK
      <3>2. ASSUME NEW d \in Calls, NEW u \in Calls, NEW f \in Fingerprints, NEW m \in Modes,
                   CheckRefreshTokenReplay(d, u, f, m)
            PROVE  d = c
        <4>1. PICK s : pc' = [pc EXCEPT ![d] = s]
          BY <3>2, Zenon DEF CheckRefreshTokenReplay
        <4> QED  BY <2>0, <4>1, Zenon DEF TypeOK
      <3>3. ~Tick /\ \A l \in Logouts : ~LogoutStep(l)
        BY Zenon
        DEF Tick, LogoutStep, ListActiveAccessTokens, ListActiveRefreshTokens,
            RevokeAccessTokensByUserID, RevokeRefreshTokensByUserID, RevokeAccessToken,
            RevokeRefreshToken, LogoutReturns, LogoutFails
      <3> QED  BY <3>1, <3>2, <3>3, Zenon DEF Next, ExchangeStep
    <2>2. old'[c] = u /\ ReplayCode(u, f) = 0
      BY <2>1 DEF CheckRefreshTokenReplay, ReuseInv, RotationInv, TypeOK
    <2>3. ~FamilyMarked(u)
      BY <2>2 DEF ReplayCode
    <2>4. t \in Calls /\ hash[t].family = root[t] /\ hash[u].family = root[u]
      BY <2>2, Zenon DEF HashExists, ReuseInv, HashFamilyInv, RotationInv, TypeOK
    <2>5. familyRevoked[root[u]] >= hash[t].exp
      BY <2>2, <2>4, Zenon DEF ReuseInv, MarkedInv
    <2>6. familyRevoked[root[u]] \in Int /\ hash[t].exp \in Int /\ now \in Int
      <3>1. root[u] \in Calls
        BY <2>0, <2>2, Zenon DEF RowInv, TypeOK
      <3>2. familyRevoked[root[u]] \in Int /\ hash[t].exp \in Int
        BY <2>0, <2>4, <3>1, Zenon DEF TypeOK, HashType
      <3> QED  BY <2>0, <3>2, BoundsAssumption DEF TypeOK
    <2>7. familyRevoked[root[u]] > now
      BY <2>5, <2>6
    <2> QED  BY <2>3, <2>4, <2>7, Zenon DEF FamilyMarked
  <1> QED  BY <1>1, ReuseInvariant, PTL DEF Spec, ReuseBlocksFamily
=============================================================================
