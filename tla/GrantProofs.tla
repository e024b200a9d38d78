---------------------------- MODULE GrantProofs ----------------------------
(***************************************************************************)
(* Proofs about AuthCode, for any slots, users, clients and registrations: *)
(* a code buys tokens once, tokens follow the grant, consents add up.      *)
(*                                                                         *)
(* Consents rest on the locks of the upsert's transaction, so the theorems *)
(* about them have GapLocks as a hypothesis (InnoDB's default isolation,   *)
(* which the code does not change), and the one that nobody is asked again *)
(* needs a reader that does not lag.                                       *)
(*                                                                         *)
(* At the end the device grant, the instance D of DeviceCode: its tokens   *)
(* go to the user who approved, and polls are spaced.                      *)
(***************************************************************************)
EXTENDS MC_Grants, Integers, TLAPS

-----------------------------------------------------------------------------
(* Types. *)

Grants == {"none", "authorization_code", "client_credentials", "password"}

Requests ==
    [pc : Steps, no : 0..MaxRequests, grant : Grants,
     client : Clients \cup {Nobody}, user : Users \cup {Nobody}, uri : URIs \cup {Nobody},
     scopes : SUBSET Scopes, challenge : MaybeVerifier, verifier : MaybeVerifier,
     code : 0..MaxRequests, found : SUBSET Scopes]

TokenRows ==
    [no : 0..MaxRequests, client : Clients \cup {Nobody}, user : Users \cup {Nobody},
     scopes : SUBSET Scopes, grant : Grants, code : 0..MaxRequests,
     uri : URIs \cup {Nobody}, verifier : MaybeVerifier]

GrantType ==
    /\ who \in Users \cup {Nobody} /\ active \subseteq Users
    /\ consent \in [Users -> [Clients -> SUBSET Scopes]]
    /\ agreed \in [Users -> [Clients -> SUBSET Scopes]]
    /\ code \in [Numbers -> CodeRows]
    /\ access \subseteq TokenRows /\ refresh \subseteq Numbers
    /\ req \in [Slots -> Requests]
    /\ count \in 0..MaxRequests /\ logins \in 0..MaxLogins /\ askedAgain \in BOOLEAN

-----------------------------------------------------------------------------
(* The inductive invariant. *)

\* Consent covers what a request, a code or a token is about, where it has to.
Covered(q) == Client[q.client].requireConsent => q.scopes \subseteq consent[q.user][q.client]

\* A request or a token has what the code row it comes from has.
Follows(q, k) ==
    /\ q.client = k.client /\ q.user = k.user /\ q.uri = k.uri /\ q.scopes = k.scopes
    /\ k.challenge # Nobody => q.verifier = k.challenge

\* The request holds no token yet, or the one it has just stored.
TokenInHand(r) ==
    \A t \in access : t.no = req[r].no => At(r, "refresh") /\ t = Token(r)

\* Each request has a number of its own, that of the code or the tokens it makes.
NumbersInv ==
    /\ \A r \in Slots : ~At(r, "idle") =>
        /\ req[r].no \in 1..count
        /\ code[req[r].no].status = "none"
        /\ TokenInHand(r)
        /\ \A s \in Slots : ~At(s, "idle") /\ req[s].no = req[r].no => s = r
    /\ \A n \in Numbers : code[n].status # "none" => n \in 1..count
    /\ \A t \in access : t.no \in 1..count

\* Steps of the token endpoint: before and after the code is consumed.
Redeeming == {"consume", "update"}
Issuing == {"access", "refresh"}

\* What a request is about at each of its steps.
RequestOK(r) ==
    /\ req[r].client \in Clients /\ req[r].scopes \subseteq Client[req[r].client].scopes
    /\ req[r].pc \notin Redeeming \cup Issuing =>
        req[r].user \in Users /\ req[r].grant = "none" /\ req[r].code = 0
    /\ req[r].pc \in Redeeming =>
        /\ req[r].grant = "authorization_code"
        /\ req[r].code \in Numbers /\ code[req[r].code].status # "none"
    /\ req[r].pc \in Issuing =>
        /\ req[r].grant # "none"
        /\ req[r].grant # "client_credentials" => req[r].user \in Users
        /\ req[r].grant # "authorization_code" => req[r].code = 0
        /\ req[r].grant = "authorization_code" =>
            /\ req[r].code \in Numbers /\ code[req[r].code].status = "consumed"
            /\ Follows(req[r], code[req[r].code])
    /\ At(r, "refresh") =>
        Token(r) \in access /\ req[r].user \in Users /\ "offline_access" \in req[r].scopes

RequestInv == \A r \in Slots : ~At(r, "idle") => RequestOK(r)

\* Codes are issued for a user and a client, within the client's scopes.
CodeInv ==
    /\ \A n \in Numbers : code[n].status # "none" =>
        /\ code[n].client \in Clients /\ code[n].user \in Users
        /\ code[n].scopes \subseteq Client[code[n].client].scopes
    /\ \A n \in Numbers : code[n].status = "none" => code[n] = NoCode

TokenInv ==
    /\ \A t \in access :
        /\ t.client \in Clients /\ t.scopes \subseteq Client[t.client].scopes
        /\ t.grant # "authorization_code" => t.code = 0
        /\ t.grant = "authorization_code" =>
            t.code \in Numbers /\ code[t.code].status = "consumed" /\ Follows(t, code[t.code])
        /\ t.no \in refresh => t.user \in Users /\ "offline_access" \in t.scopes
    /\ \A n \in refresh : \E t \in access : t.no = n

\* The row lock of ConsumeByCode: one exchange at a time is past the look at the
\* code, it has not been consumed before, and no more than one gets tokens.
OnceInv ==
    /\ \A r, s \in Slots :
        /\ At(r, "update") /\ At(s, "update") /\ req[r].code = req[s].code => r = s
        /\ At(r, "access") /\ At(s, "access") /\ req[r].code = req[s].code /\ req[r].code # 0
            => r = s
    /\ \A r \in Slots : At(r, "update") => code[req[r].code].status # "consumed"
    /\ \A r \in Slots, t \in access : At(r, "access") /\ req[r].code # 0 => t.code # req[r].code
    /\ CodeRedeemedOnce

RedeemInv == GrantType /\ NumbersInv /\ RequestInv /\ CodeInv /\ TokenInv /\ OnceInv

\* The locks of the upsert: the row as read is the row as it is, and a holder of
\* an existing row is alone.
LockInv ==
    \A r \in Slots : At(r, "upsert") =>
        /\ req[r].found = consent[req[r].user][req[r].client]
        /\ req[r].found # {} => Holders(r) = {}

ConsentInv ==
    /\ LockInv
    /\ \A r \in Slots : At(r, "code") => Covered(req[r])
    /\ \A n \in Numbers : code[n].status # "none" => Covered(code[n])
    /\ \A u \in Users, c \in Clients : agreed[u][c] \subseteq consent[u][c]

-----------------------------------------------------------------------------
(* What Goto, Return and Begin do to the requests. *)

\* The fields a step that only goes on leaves as they are.
SameFields(p, q) ==
    /\ p.no = q.no /\ p.grant = q.grant /\ p.client = q.client /\ p.user = q.user
    /\ p.uri = q.uri /\ p.scopes = q.scopes /\ p.challenge = q.challenge
    /\ p.verifier = q.verifier /\ p.code = q.code

Others(r) == \A s \in Slots : s # r => req'[s] = req[s]

\* An empty slot is a request.
LEMMA IdleType == Idle \in Requests /\ Idle.pc = "idle"
  BY AuthCodeAssumption DEF Idle, Requests, Grants, Steps, MaybeVerifier

\* Goto moves one request and changes nothing else in it.
LEMMA GotoEffect ==
    ASSUME GrantType, NEW r \in Slots, NEW step \in Steps, Goto(r, step)
    PROVE  /\ req' \in [Slots -> Requests] /\ Others(r)
           /\ req'[r].pc = step /\ SameFields(req'[r], req[r]) /\ req'[r].found = req[r].found
<1>1. req[r] \in Requests
  BY Zenon DEF GrantType
<1>2. req' = [req EXCEPT ![r] = [req[r] EXCEPT !.pc = step]]
  BY Zenon DEF Goto
<1>3. req'[r] = [req[r] EXCEPT !.pc = step] /\ Others(r)
  BY <1>2, Zenon DEF GrantType, Others
<1>4. [req[r] EXCEPT !.pc = step] \in Requests
  BY <1>1, Zenon DEF Requests
<1>5. req'[r].pc = step /\ SameFields(req'[r], req[r]) /\ req'[r].found = req[r].found
  BY <1>1, <1>3, Zenon DEF SameFields, Requests
<1> QED
  BY <1>2, <1>3, <1>4, <1>5, Zenon DEF GrantType

\* Return empties one slot.
LEMMA ReturnEffect ==
    ASSUME GrantType, NEW r \in Slots, Return(r)
    PROVE  req' \in [Slots -> Requests] /\ Others(r) /\ req'[r].pc = "idle"
  BY IdleType, Zenon DEF GrantType, Return, Others

\* The token a request would store does not change while it goes on.
LEMMA TokenStays ==
    ASSUME NEW r \in Slots, SameFields(req'[r], req[r])
    PROVE  Token(r)' = Token(r)
  BY Zenon DEF SameFields, Token

-----------------------------------------------------------------------------
(* A code is redeemed once. *)

\* Requests go on or end, and codes stay what they are: the numbers stay in use.
LEMMA NumbersKept ==
    ASSUME GrantType, NumbersInv, count' = count,
           \A n \in Numbers : code'[n].status = "none" <=> code[n].status = "none",
           \A t \in access' : t.no \in 1..count,
           \A s \in Slots : req'[s].pc # "idle" =>
               req'[s].no = req[s].no /\ req[s].pc # "idle" /\ TokenInHand(s)'
    PROVE  NumbersInv'
<1>1. ASSUME NEW s \in Slots, req'[s].pc # "idle"
      PROVE  /\ req'[s].no \in 1..count' /\ code'[req'[s].no].status = "none" /\ TokenInHand(s)'
             /\ \A r \in Slots : req'[r].pc # "idle" /\ req'[r].no = req'[s].no => r = s
  <2>1. /\ req[s].no \in 1..count /\ code[req[s].no].status = "none"
        /\ \A r \in Slots : req[r].pc # "idle" /\ req[r].no = req[s].no => r = s
    BY <1>1, Zenon DEF NumbersInv, At
  <2>2. req[s].no \in Numbers
    BY <2>1, AuthCodeAssumption DEF GrantType, Numbers
  <2> QED
    BY <1>1, <2>1, <2>2, Zenon
<1>2. \A n \in Numbers : code'[n].status # "none" => n \in 1..count'
  BY Zenon DEF NumbersInv
<1> QED
  BY <1>1, <1>2, Zenon DEF NumbersInv, At

\* An answered request leaves everything as it is.
LEMMA Answered ==
    ASSUME RedeemInv, NEW r \in Slots, Return(r), UNCHANGED <<browser, code, tokens, count>>,
           consent' \in [Users -> [Clients -> SUBSET Scopes]],
           agreed' \in [Users -> [Clients -> SUBSET Scopes]], askedAgain' \in BOOLEAN
    PROVE  RedeemInv'
<1> USE DEF RedeemInv, At
<1>1. Others(r) /\ req'[r].pc = "idle" /\ req' \in [Slots -> Requests]
  BY ReturnEffect, Zenon
<1>2. GrantType'
  BY <1>1, Zenon DEF GrantType, tokens, browser
<1>3. NumbersInv'
  BY <1>1 DEF NumbersInv, TokenInHand, Others, Token, tokens
<1>4. RequestInv'
  <2>1. ASSUME NEW s \in Slots, req'[s].pc # "idle"
        PROVE  req'[s] = req[s] /\ Token(s)' = Token(s)
    BY <1>1, <2>1, Zenon DEF Others, Token
  <2> QED
    BY <2>1, Zenon DEF RequestInv, RequestOK, tokens
<1>5. CodeInv' /\ TokenInv'
  BY Zenon DEF CodeInv, TokenInv, tokens
<1>6. OnceInv'
  <2>1. \A s \in Slots : req'[s].pc # "idle" => req'[s] = req[s]
    BY <1>1, Zenon DEF Others
  <2> QED
    BY <2>1 DEF OnceInv, CodeRedeemedOnce, tokens
<1> QED
  BY <1>2, <1>3, <1>4, <1>5, <1>6, Zenon

\* A request of the authorize endpoint or the consent page goes on.
LEMMA Moved ==
    ASSUME RedeemInv, NEW r \in Slots, req' \in [Slots -> Requests], Others(r),
           req[r].pc \notin {"idle"} \cup Redeeming \cup Issuing,
           req'[r].pc \in {"consent", "code", "select", "upsert"}, SameFields(req'[r], req[r]),
           UNCHANGED <<browser, consent, code, tokens, count, agreed>>, askedAgain' \in BOOLEAN
    PROVE  RedeemInv'
<1> USE DEF RedeemInv, At, tokens
<1>1. Token(r)' = Token(r)
  BY TokenStays, Zenon
<1>2. GrantType'
  BY Zenon DEF GrantType, browser
<1>3. NumbersInv'
  BY <1>1 DEF NumbersInv, TokenInHand, Others, Token, SameFields, Issuing
<1>4. RequestInv'
  BY <1>1 DEF RequestInv, RequestOK, Others, Token, SameFields, Redeeming, Issuing
<1>5. CodeInv' /\ TokenInv'
  BY Zenon DEF CodeInv, TokenInv
<1>6. OnceInv'
  BY DEF OnceInv, CodeRedeemedOnce, Others
<1> QED
  BY <1>2, <1>3, <1>4, <1>5, <1>6, Zenon

\* What a request may start with.
Startable(q) ==
    /\ q \in Requests /\ q.client \in Clients /\ q.scopes \subseteq Client[q.client].scopes
    /\ \/ q.pc \in {"session", "load"} /\ q.user \in Users /\ q.grant = "none" /\ q.code = 0
       \/ /\ q.pc = "consume" /\ q.grant = "authorization_code"
          /\ q.code \in Numbers /\ code[q.code].status # "none"
       \/ q.pc = "access" /\ q.grant = "client_credentials" /\ q.code = 0
       \/ q.pc = "access" /\ q.grant = "password" /\ q.code = 0 /\ q.user \in Users

\* A request that starts takes the next number.
LEMMA Begun ==
    ASSUME RedeemInv, NEW r \in Slots, Free(r), NEW q, Startable(q), q.no = count + 1,
           req' = [req EXCEPT ![r] = q], count' = count + 1,
           UNCHANGED <<browser, consent, code, tokens, history>>
    PROVE  RedeemInv'
<1> USE AuthCodeAssumption DEF RedeemInv, At, tokens
<1>1. Others(r) /\ req'[r] = q /\ req' \in [Slots -> Requests]
  BY Zenon DEF GrantType, Others, Startable
<1>2. count \in Nat /\ count' \in 1..MaxRequests
  BY DEF Free, GrantType
<1>3. GrantType'
  BY <1>1, <1>2 DEF GrantType, browser, history
<1>4. NumbersInv'
  <2>1. \A s \in Slots : s # r /\ ~At(s, "idle") => req[s].no \in 1..count
    BY Zenon DEF NumbersInv
  <2>2. \A t \in access : t.no \in 1..count
    BY Zenon DEF NumbersInv
  <2>3. code[count + 1].status = "none"
    BY <1>2 DEF NumbersInv, GrantType, CodeRows, Numbers
  <2> QED
    BY <1>1, <1>2, <2>1, <2>2, <2>3 DEF NumbersInv, TokenInHand, Others, Token, Numbers
<1>5. RequestInv'
  BY <1>1 DEF RequestInv, RequestOK, Others, Token, Startable, Redeeming, Issuing
<1>6. CodeInv' /\ TokenInv'
  BY Zenon DEF CodeInv, TokenInv
<1>7. OnceInv'
  BY <1>1 DEF OnceInv, CodeRedeemedOnce, Others, Startable
<1> QED
  BY <1>3, <1>4, <1>5, <1>6, <1>7, Zenon

\* What the rows of codes keep when the status of one of them changes.
OnlyStatus(n, status) ==
    /\ code' \in [Numbers -> CodeRows] /\ code'[n].status = status
    /\ \A m \in Numbers : m # n => code'[m] = code[m]
    /\ code'[n].client = code[n].client /\ code'[n].user = code[n].user
    /\ code'[n].uri = code[n].uri /\ code'[n].scopes = code[n].scopes
    /\ code'[n].challenge = code[n].challenge

\* An update of a status column changes one row, and that column only.
LEMMA StatusEffect ==
    ASSUME GrantType, NEW n \in Numbers, NEW status \in {"consumed", "expired"},
           code' = [code EXCEPT ![n].status = status]
    PROVE  OnlyStatus(n, status)
<1>1. code[n] \in CodeRows
  BY Zenon DEF GrantType
<1>2. [code[n] EXCEPT !.status = status] \in CodeRows
  BY <1>1, Zenon DEF CodeRows
<1>3. code' = [code EXCEPT ![n] = [code[n] EXCEPT !.status = status]]
  BY Zenon
<1>4. code'[n] = [code[n] EXCEPT !.status = status]
  BY <1>3, Zenon DEF GrantType
<1>5. /\ code'[n].status = status /\ code'[n].client = code[n].client
      /\ code'[n].user = code[n].user /\ code'[n].uri = code[n].uri
      /\ code'[n].scopes = code[n].scopes /\ code'[n].challenge = code[n].challenge
  BY <1>1, <1>4 DEF CodeRows
<1>6. code' \in [Numbers -> CodeRows] /\ \A m \in Numbers : m # n => code'[m] = code[m]
  BY <1>2, <1>3, Zenon DEF GrantType
<1> QED
  BY <1>5, <1>6, Zenon DEF OnlyStatus

\* CreateCode: the row gets the number of the request.
LEMMA CodeCreated ==
    ASSUME RedeemInv, NEW r \in Slots, CreateCode(r)
    PROVE  RedeemInv'
<1> USE DEF RedeemInv, At, tokens, CreateCode
<1> DEFINE n == req[r].no
<1>1. Others(r) /\ req'[r].pc = "idle" /\ req' \in [Slots -> Requests]
  BY ReturnEffect, Zenon
<1>2. /\ n \in Numbers /\ n \in 1..count /\ code[n].status = "none"
      /\ req[r].client \in Clients /\ req[r].user \in Users
      /\ req[r].scopes \subseteq Client[req[r].client].scopes
  BY AuthCodeAssumption DEF NumbersInv, RequestInv, RequestOK, GrantType, Numbers, Redeeming, Issuing
<1>3. req[r] \in Requests /\ NewCode(r) \in CodeRows
  BY Zenon DEF GrantType, Requests, CodeRows, NewCode
<1>4. /\ code' \in [Numbers -> CodeRows] /\ code'[n] = NewCode(r)
      /\ \A m \in Numbers : m # n => code'[m] = code[m]
  BY <1>2, <1>3, Zenon DEF GrantType
<1>5. GrantType'
  BY <1>1, <1>4, Zenon DEF GrantType, browser, history
<1>6. NumbersInv'
  <2>1. \A s \in Slots : s # r /\ ~At(s, "idle") => req[s].no # n /\ req[s].no \in Numbers
    BY AuthCodeAssumption DEF NumbersInv, Numbers, GrantType
  <2>2. \A s \in Slots : At(s, "idle")' \/ (s # r /\ ~At(s, "idle") /\ req'[s] = req[s])
    BY <1>1, Zenon DEF Others
  <2> QED
    BY <1>1, <1>2, <1>4, <2>1, <2>2 DEF NumbersInv, TokenInHand, Token
<1>7. RequestInv'
  BY <1>1, <1>2, <1>4 DEF RequestInv, RequestOK, Others, Token, Follows
<1>8. CodeInv'
  BY <1>2, <1>4, Zenon DEF CodeInv, NewCode
<1>9. TokenInv'
  BY <1>2, <1>4, Zenon DEF TokenInv, Follows
<1>10. OnceInv'
  BY <1>1, <1>2, <1>4 DEF OnceInv, CodeRedeemedOnce, Others, RequestInv, RequestOK, Redeeming
<1> QED
  BY <1>5, <1>6, <1>7, <1>8, <1>9, <1>10, Zenon

\* ConsumeSelect: the code is locked, was not consumed, and goes to the update.
LEMMA CodeSelected ==
    ASSUME RedeemInv, NEW r \in Slots, ConsumeSelect(r), Goto(r, "update")
    PROVE  RedeemInv'
<1> USE DEF RedeemInv, At, tokens, ConsumeSelect
<1>1. /\ req' \in [Slots -> Requests] /\ Others(r)
      /\ req'[r].pc = "update" /\ SameFields(req'[r], req[r])
  BY GotoEffect, Zenon DEF Steps
<1>2. Token(r)' = Token(r)
  BY <1>1, TokenStays, Zenon
<1>3. code[req[r].code].status = "fresh"
  <2>1. ~Return(r)
    BY <1>1, ReturnEffect, Zenon
  <2> QED
    BY <2>1, Zenon DEF Consumable
<1>4. GrantType'
  BY <1>1, Zenon DEF GrantType, browser, history
<1>5. NumbersInv'
  BY <1>1, <1>2 DEF NumbersInv, TokenInHand, Others, Token, SameFields
<1>6. RequestInv'
  BY <1>1, <1>2 DEF RequestInv, RequestOK, Others, Token, SameFields, Redeeming, Issuing
<1>7. CodeInv' /\ TokenInv'
  BY Zenon DEF CodeInv, TokenInv
<1>8. OnceInv'
  BY <1>1, <1>3 DEF OnceInv, CodeRedeemedOnce, Others, SameFields
<1> QED
  BY <1>4, <1>5, <1>6, <1>7, <1>8, Zenon

\* A status changes and nothing else does: whoever relies on the code being
\* consumed, or not, goes on doing so.
LEMMA StatusKeeps ==
    ASSUME RedeemInv, NEW n \in Numbers, NEW status \in {"consumed", "expired"},
           OnlyStatus(n, status), code[n].status \notin {"none", "consumed"},
           UNCHANGED access
    PROVE  /\ CodeInv'
           /\ \A m \in Numbers : (code'[m].status = "none") <=> (code[m].status = "none")
           /\ \A m \in Numbers : code[m].status = "consumed" => code'[m] = code[m]
           /\ \A t \in access : t.code # n /\ (t.grant = "authorization_code" => t.code \in Numbers)
<1> USE DEF RedeemInv, OnlyStatus
<1>1. CodeInv'
  BY Zenon DEF CodeInv
<1>2. \A m \in Numbers : m # n => code'[m] = code[m]
  BY Zenon
<1>3. \A t \in access : t.code # n /\ (t.grant = "authorization_code" => t.code \in Numbers)
  BY AuthCodeAssumption DEF TokenInv, Numbers
<1> QED
  BY <1>1, <1>2, <1>3, Zenon

\* The number of a request is that of a code row.
LEMMA NumberInRange ==
    ASSUME RedeemInv
    PROVE  \A r \in Slots : ~At(r, "idle") => req[r].no \in Numbers
  BY AuthCodeAssumption DEF RedeemInv, NumbersInv, Numbers, GrantType

\* ConsumeByCode commits, and the request is refused or hears of an error.
LEMMA CodeSpent ==
    ASSUME RedeemInv, NEW r \in Slots, At(r, "update"), Return(r),
           code' = [code EXCEPT ![req[r].code].status = "consumed"],
           UNCHANGED <<browser, consent, tokens, count, history>>
    PROVE  RedeemInv'
<1> USE DEF RedeemInv, At, tokens
<1> DEFINE n == req[r].code
<1>1. Others(r) /\ req'[r].pc = "idle" /\ req' \in [Slots -> Requests]
  BY ReturnEffect, Zenon
<1>2. n \in Numbers /\ code[n].status \notin {"none", "consumed"}
  BY Zenon DEF RequestInv, RequestOK, OnceInv, Redeeming
<1>3. OnlyStatus(n, "consumed")
  BY <1>2, StatusEffect, Zenon
<1>4. /\ CodeInv'
      /\ \A m \in Numbers : (code'[m].status = "none") <=> (code[m].status = "none")
      /\ \A m \in Numbers : code[m].status = "consumed" => code'[m] = code[m]
      /\ \A t \in access : t.code # n /\ (t.grant = "authorization_code" => t.code \in Numbers)
  BY <1>2, <1>3, StatusKeeps, Zenon
<1>5. GrantType'
  BY <1>1, <1>3, Zenon DEF GrantType, browser, history, OnlyStatus
<1>6. NumbersInv'
  BY <1>1, <1>4, NumberInRange DEF NumbersInv, TokenInHand, Others, Token
<1>7. RequestInv'
  BY <1>1, <1>4 DEF RequestInv, RequestOK, Others, Token, Follows
<1>8. TokenInv'
  BY <1>4 DEF TokenInv, Follows
<1>9. OnceInv'
  <2>1. \A s \in Slots : s # r /\ At(s, "update") => req[s].code # n /\ req[s].code \in Numbers
    BY Zenon DEF OnceInv, RequestInv, RequestOK, Redeeming
  <2> QED
    BY <1>1, <1>3, <2>1 DEF OnceInv, CodeRedeemedOnce, Others, OnlyStatus
<1> QED
  BY <1>4, <1>5, <1>6, <1>7, <1>8, <1>9, Zenon

\* ConsumeUpdate: the request matches the code and takes user and scopes from it.
LEMMA CodeRedeemed ==
    ASSUME RedeemInv, NEW r \in Slots, ConsumeUpdate(r), ~Return(r)
    PROVE  RedeemInv'
<1> USE DEF RedeemInv, At, tokens
<1> DEFINE n == req[r].code
           k == code[n]
           q == [req[r] EXCEPT !.pc = "access", !.user = k.user, !.scopes = k.scopes]
<1>0. /\ code' = [code EXCEPT ![n].status = "consumed"]
      /\ req' = [req EXCEPT ![r].pc = "access", ![r].user = k.user, ![r].scopes = k.scopes]
  BY Zenon DEF ConsumeUpdate
<1>1. /\ At(r, "update")
      /\ k.client = req[r].client /\ k.uri = req[r].uri
      /\ ValidateCodeVerifier(req[r].client, req[r].verifier, k)
      /\ UNCHANGED <<browser, consent, tokens, count, history>>
  BY Zenon DEF ConsumeUpdate
<1>2. n \in Numbers /\ k.status \notin {"none", "consumed"} /\ req[r].grant = "authorization_code"
  BY <1>1, Zenon DEF RequestInv, RequestOK, OnceInv, Redeeming
<1>3. OnlyStatus(n, "consumed")
  BY <1>0, <1>2, StatusEffect, Zenon
<1>4. /\ CodeInv'
      /\ \A m \in Numbers : (code'[m].status = "none") <=> (code[m].status = "none")
      /\ \A m \in Numbers : code[m].status = "consumed" => code'[m] = code[m]
      /\ \A t \in access : t.code # n /\ (t.grant = "authorization_code" => t.code \in Numbers)
  BY <1>1, <1>2, <1>3, StatusKeeps, Zenon
<1>5. req[r] \in Requests /\ k \in CodeRows
  BY <1>2, Zenon DEF GrantType
<1>6. q \in Requests
  BY <1>5, Zenon DEF Requests, CodeRows, Steps
<1>7. req' = [req EXCEPT ![r] = q]
  BY <1>0, Zenon
<1> HIDE DEF q
<1>8. Others(r) /\ req' \in [Slots -> Requests]
  BY <1>6, <1>7, Zenon DEF GrantType, Others
<1>9. /\ req'[r].pc = "access" /\ req'[r].user = k.user /\ req'[r].scopes = k.scopes
      /\ req'[r].no = req[r].no /\ req'[r].grant = req[r].grant /\ req'[r].code = n
      /\ req'[r].client = req[r].client /\ req'[r].uri = req[r].uri
      /\ req'[r].verifier = req[r].verifier
  BY <1>5, <1>7, Zenon DEF Requests, GrantType, q
<1>10. GrantType'
  BY <1>1, <1>3, <1>8, Zenon DEF GrantType, browser, history, OnlyStatus
<1>11. NumbersInv'
  BY <1>1, <1>4, <1>8, <1>9, NumberInRange DEF NumbersInv, TokenInHand, Others, Token
<1>12. Follows(req'[r], code'[n])
  BY <1>1, <1>3, <1>9, Zenon DEF Follows, OnlyStatus, ValidateCodeVerifier
<1>13. k.client \in Clients /\ k.user \in Users /\ k.scopes \subseteq Client[k.client].scopes
  BY <1>2, Zenon DEF CodeInv
<1>14. RequestInv'
  <2>1. RequestOK(r)'
    BY <1>1, <1>2, <1>3, <1>4, <1>8, <1>9, <1>12, <1>13, Zenon
    DEF RequestOK, Redeeming, Issuing, OnlyStatus
  <2>2. ASSUME NEW s \in Slots, s # r, ~At(s, "idle") PROVE RequestOK(s)'
    BY <1>1, <1>4, <1>8, <2>2 DEF RequestInv, RequestOK, Others, Token, Follows
  <2> QED
    BY <1>8, <2>1, <2>2, Zenon DEF RequestInv, Others
<1>15. TokenInv'
  <2>1. \A t \in access : t.grant = "authorization_code" => code'[t.code] = code[t.code]
    BY <1>4, Zenon DEF TokenInv
  <2>2. ASSUME NEW t \in access, t.grant = "authorization_code"
        PROVE  t.code \in Numbers /\ code'[t.code].status = "consumed" /\ Follows(t, code'[t.code])
    BY <2>1, <2>2, Zenon DEF TokenInv
  <2> QED
    BY <1>1, <2>2, Zenon DEF TokenInv, Follows
<1>16. OnceInv'
  <2>1. \A s \in Slots : s # r /\ At(s, "update") => req[s].code # n /\ req[s].code \in Numbers
    BY <1>1, Zenon DEF OnceInv, RequestInv, RequestOK, Redeeming
  <2>2. \A s \in Slots : s # r /\ At(s, "access") => req[s].code # n
    <3>1. 0 \notin Numbers
      BY AuthCodeAssumption DEF Numbers
    <3> QED
      BY <1>2, <3>1, Zenon DEF RequestInv, RequestOK, Issuing
  <2>3. \A s \in Slots : s # r => req'[s] = req[s]
    BY <1>8, Zenon DEF Others
  <2>4. ASSUME NEW s \in Slots, req'[s].pc = "update"
        PROVE  code'[req'[s].code].status # "consumed"
    <3>1. s # r /\ req'[s] = req[s]
      BY <1>9, <2>3, <2>4, Zenon
    <3> QED
      BY <1>3, <2>1, <2>4, <3>1, Zenon DEF OnceInv, OnlyStatus
  <2>5. ASSUME NEW s \in Slots, NEW w \in Slots, req'[s].code = req'[w].code
        PROVE  /\ req'[s].pc = "update" /\ req'[w].pc = "update" => s = w
               /\ req'[s].pc = "access" /\ req'[w].pc = "access" /\ req'[s].code # 0 => s = w
    <3>1. CASE s = r \/ w = r
      BY <1>9, <2>2, <2>3, <2>5, <3>1, Zenon
    <3>2. CASE s # r /\ w # r
      <4>1. req'[s] = req[s] /\ req'[w] = req[w]
        BY <2>3, <3>2, Zenon
      <4> QED
        BY <2>5, <4>1, Zenon DEF OnceInv
    <3> QED
      BY <3>1, <3>2, Zenon
  <2>6. ASSUME NEW s \in Slots, NEW t \in access, req'[s].pc = "access", req'[s].code # 0
        PROVE  t.code # req'[s].code
    <3>1. CASE s = r
      BY <1>4, <1>9, <3>1, Zenon
    <3>2. CASE s # r
      <4>1. req'[s] = req[s]
        BY <2>3, <3>2, Zenon
      <4> QED
        BY <2>6, <4>1, Zenon DEF OnceInv
    <3> QED
      BY <3>1, <3>2, Zenon
  <2> QED
    BY <1>1, <2>4, <2>5, <2>6, Zenon DEF OnceInv, CodeRedeemedOnce
<1> QED
  BY <1>4, <1>10, <1>11, <1>14, <1>15, <1>16, Zenon

\* Expire: only a fresh code.
LEMMA CodeExpired ==
    ASSUME RedeemInv, NEW n \in Numbers, Expire(n)
    PROVE  RedeemInv'
<1> USE DEF RedeemInv, At, tokens, Expire
<1>1. OnlyStatus(n, "expired")
  BY StatusEffect, Zenon
<1>2. /\ CodeInv'
      /\ \A m \in Numbers : (code'[m].status = "none") <=> (code[m].status = "none")
      /\ \A m \in Numbers : code[m].status = "consumed" => code'[m] = code[m]
      /\ \A t \in access : t.code # n /\ (t.grant = "authorization_code" => t.code \in Numbers)
  BY <1>1, StatusKeeps, Zenon
<1>3. GrantType'
  BY <1>1, Zenon DEF GrantType, browser, history, OnlyStatus
<1>4. NumbersInv'
  BY <1>2, AuthCodeAssumption DEF NumbersInv, TokenInHand, Token, Numbers, GrantType
<1>5. RequestInv'
  BY <1>2 DEF RequestInv, RequestOK, Token, Follows
<1>6. TokenInv'
  BY <1>2 DEF TokenInv, Follows
<1>7. OnceInv'
  BY <1>1, Zenon DEF OnceInv, CodeRedeemedOnce, OnlyStatus, RequestInv, RequestOK, Redeeming
<1> QED
  BY <1>2, <1>3, <1>4, <1>5, <1>6, <1>7, Zenon

-----------------------------------------------------------------------------
(* The tokens are stored. *)

\* CreateAccessToken: the token is stored, and the request ends or goes on to
\* its refresh token.
LEMMA AccessStored ==
    ASSUME RedeemInv, NEW r \in Slots, CreateAccessToken(r)
    PROVE  RedeemInv'
<1> USE DEF RedeemInv, At, tokens
<1>1. /\ At(r, "access") /\ access' = access \cup {Token(r)}
      /\ UNCHANGED <<browser, consent, code, refresh, count, history>>
  BY Zenon DEF CreateAccessToken
<1>2. /\ Others(r) /\ req' \in [Slots -> Requests]
      /\ \/ req'[r].pc = "idle"
         \/ req'[r].pc = "refresh" /\ SameFields(req'[r], req[r]) /\ ShouldIssueRefreshToken(r)
  BY GotoEffect, ReturnEffect, Zenon DEF CreateAccessToken, Steps
<1>3. req'[r].pc = "idle" \/ Token(r)' = Token(r)
  BY <1>2, TokenStays, Zenon
<1>4. req[r] \in Requests /\ Token(r) \in TokenRows
  BY Zenon DEF GrantType, Requests, TokenRows, Token
<1>5. /\ Token(r).no = req[r].no /\ Token(r).client = req[r].client
      /\ Token(r).user = req[r].user /\ Token(r).scopes = req[r].scopes
      /\ Token(r).grant = req[r].grant /\ Token(r).code = req[r].code
      /\ Token(r).uri = req[r].uri /\ Token(r).verifier = req[r].verifier
  BY Zenon DEF Token
<1>6. RequestOK(r) /\ req[r].no \in 1..count
  BY <1>1, Zenon DEF RequestInv, NumbersInv
<1>7. \A t \in access : t.no # req[r].no
  BY <1>1, Zenon DEF NumbersInv, TokenInHand
<1>8. req[r].no \notin refresh
  BY <1>7, Zenon DEF TokenInv
<1>9. GrantType'
  BY <1>1, <1>2, <1>4, Zenon DEF GrantType, browser, history
<1>10. NumbersInv'
  <2>1. ASSUME NEW s \in Slots, req'[s].pc # "idle"
        PROVE  req'[s].no = req[s].no /\ req[s].pc # "idle" /\ Token(s)' = Token(s)
    <3>1. CASE s = r
      BY <1>1, <1>2, <1>3, <2>1, <3>1 DEF SameFields
    <3>2. CASE s # r
      BY <1>2, <2>1, <3>2, Zenon DEF Others, Token
    <3> QED
      BY <3>1, <3>2, Zenon
  <2>2. ASSUME NEW s \in Slots, req'[s].pc # "idle"
        PROVE  TokenInHand(s)'
    <3>1. req'[s].no = req[s].no /\ req[s].pc # "idle" /\ Token(s)' = Token(s)
      BY <2>1, <2>2, Zenon
    <3>2. CASE s = r
      BY <1>1, <1>2, <1>7, <2>2, <3>1, <3>2, Zenon DEF TokenInHand
    <3>3. CASE s # r
      <4>1. req[s].no # req[r].no /\ TokenInHand(s) /\ req'[s].pc = req[s].pc
        BY <1>1, <1>2, <3>1, <3>3, Zenon DEF NumbersInv, Others
      <4> QED
        BY <1>1, <1>5, <3>1, <4>1, Zenon DEF TokenInHand
    <3> QED
      BY <3>2, <3>3, Zenon
  <2>3. \A t \in access' : t.no \in 1..count
    BY <1>1, <1>5, <1>6, Zenon DEF NumbersInv
  <2> QED
    BY <1>1, <2>1, <2>2, <2>3, NumbersKept, Zenon
<1>11. RequestInv'
  <2>1. At(r, "idle")' \/ RequestOK(r)'
    BY <1>1, <1>2, <1>3, <1>6, Zenon
       DEF RequestOK, SameFields, Redeeming, Issuing, Follows, ShouldIssueRefreshToken
  <2>2. ASSUME NEW s \in Slots, s # r, ~At(s, "idle") PROVE RequestOK(s)'
    <3>1. req'[s] = req[s] /\ Token(s)' = Token(s) /\ access \subseteq access'
      BY <1>1, <1>2, <2>2, Zenon DEF Others, Token
    <3> QED
      BY <1>1, <2>2, <3>1, Zenon DEF RequestInv, RequestOK, Follows
  <2> QED
    BY <1>2, <2>1, <2>2, Zenon DEF RequestInv, Others
<1>12. CodeInv'
  BY <1>1, Zenon DEF CodeInv
<1>13. TokenInv'
  <2>1. req[r].grant = "authorization_code" =>
            /\ req[r].code \in Numbers /\ code[req[r].code].status = "consumed"
            /\ Follows(Token(r), code[req[r].code])
    BY <1>1, <1>5, <1>6, Zenon DEF RequestOK, Issuing, Follows
  <2>2. req[r].client \in Clients /\ req[r].scopes \subseteq Client[req[r].client].scopes
    BY <1>6, Zenon DEF RequestOK
  <2>3. req[r].grant # "authorization_code" => req[r].code = 0
    BY <1>1, <1>6, Zenon DEF RequestOK, Issuing
  <2> QED
    <3>1. ASSUME NEW t \in access
          PROVE  /\ t.client \in Clients /\ t.scopes \subseteq Client[t.client].scopes
                 /\ t.grant # "authorization_code" => t.code = 0
                 /\ t.grant = "authorization_code" =>
                     t.code \in Numbers /\ code[t.code].status = "consumed" /\ Follows(t, code[t.code])
                 /\ t.no \in refresh => t.user \in Users /\ "offline_access" \in t.scopes
      BY <3>1, Zenon DEF TokenInv
    <3>2. PICK t : t = Token(r)
      BY Zenon
    <3>3. /\ t.client \in Clients /\ t.scopes \subseteq Client[t.client].scopes
          /\ t.grant # "authorization_code" => t.code = 0
          /\ t.grant = "authorization_code" =>
              t.code \in Numbers /\ code[t.code].status = "consumed" /\ Follows(t, code[t.code])
          /\ t.no \notin refresh
      BY <1>5, <1>8, <2>1, <2>2, <2>3, <3>2, Zenon
    <3>4. \A n \in refresh : \E x \in access' : x.no = n
      BY <1>1, Zenon DEF TokenInv
    <3> QED
      BY <1>1, <3>1, <3>2, <3>3, <3>4, Zenon DEF TokenInv, Follows
<1>14. OnceInv'
  BY <1>1, <1>2, <1>5 DEF OnceInv, CodeRedeemedOnce, Others
<1> QED
  BY <1>9, <1>10, <1>11, <1>12, <1>13, <1>14, Zenon

\* CreateRefreshToken: the refresh token is stored beside the access token.
LEMMA RefreshStored ==
    ASSUME RedeemInv, NEW r \in Slots, CreateRefreshToken(r)
    PROVE  RedeemInv'
<1> USE DEF RedeemInv, At, tokens
<1>1. /\ At(r, "refresh") /\ refresh' = refresh \cup {req[r].no}
      /\ UNCHANGED <<browser, consent, code, access, count, history>>
  BY Zenon DEF CreateRefreshToken
<1>2. Others(r) /\ req' \in [Slots -> Requests] /\ req'[r].pc = "idle"
  BY ReturnEffect, Zenon DEF CreateRefreshToken
<1>3. req[r].no \in Numbers
  BY <1>1, NumberInRange, Zenon
<1>4. GrantType'
  BY <1>1, <1>2, <1>3, Zenon DEF GrantType, browser, history
<1>5. NumbersInv'
  BY <1>1, <1>2 DEF NumbersInv, TokenInHand, Others, Token
<1>6. RequestInv'
  BY <1>1, <1>2 DEF RequestInv, RequestOK, Others, Token
<1>7. CodeInv'
  BY <1>1, Zenon DEF CodeInv
<1>8. TokenInv'
  <2>1. /\ Token(r) \in access /\ Token(r).no = req[r].no
        /\ \A t \in access : t.no = req[r].no => t = Token(r)
    BY <1>1, Zenon DEF RequestInv, RequestOK, NumbersInv, TokenInHand, Token
  <2>2. Token(r).user \in Users /\ "offline_access" \in Token(r).scopes
    BY <1>1, Zenon DEF RequestInv, RequestOK, Token
  <2> QED
    BY <1>1, <2>1, <2>2, Zenon DEF TokenInv
<1>9. OnceInv'
  BY <1>1, <1>2 DEF OnceInv, CodeRedeemedOnce, Others
<1> QED
  BY <1>4, <1>5, <1>6, <1>7, <1>8, <1>9, Zenon

-----------------------------------------------------------------------------
(* Every step keeps RedeemInv. *)

\* What each endpoint puts into a request when it starts it.
LEMMA ArriveStarts ==
    ASSUME RedeemInv, NEW r \in Slots, Arrive(r)
    PROVE  Free(r) /\ \E f : Startable(f) /\ Begin(r, f)
<1> USE AuthCodeAssumption, IdleType DEF RedeemInv
<1>1. Free(r)
  BY Zenon DEF Arrive
<1>2. \A c \in Clients : Client[c].scopes \subseteq Scopes /\ Client[c].uris \subseteq URIs
  BY Zenon DEF Registration
<1>3. \A scopes \in Asks : scopes \subseteq Scopes /\ Requested(scopes) \subseteq Scopes
  BY Zenon DEF Requested, Scopes
<1>4. ASSUME NEW c \in Clients, NEW uri \in URIs, NEW scopes \in Asks, NEW ch \in MaybeVerifier,
             Authorize(r, c, uri, scopes, ch)
      PROVE  \E f : Startable(f) /\ Begin(r, f)
  <2> DEFINE f == [Idle EXCEPT !.pc = "session", !.client = c, !.user = who, !.uri = uri,
                               !.scopes = Requested(scopes), !.challenge = ch]
  <2>1. who \in Users /\ Requested(scopes) \subseteq Client[c].scopes /\ Begin(r, f)
    BY <1>4, Zenon DEF Authorize, AuthorizeAccepts, GrantType
  <2>2. Startable(f)
    BY <1>2, <1>3, <2>1, Zenon DEF Startable, Requests, Steps, Idle, Grants
  <2> QED
    BY <2>1, <2>2, Zenon
<1>5. ASSUME NEW c \in Clients, NEW uri \in URIs, NEW scopes \in Asks, Decide(r, c, uri, scopes)
      PROVE  \E f : Startable(f) /\ Begin(r, f)
  <2> DEFINE f == [Idle EXCEPT !.pc = "load", !.client = c, !.user = who,
                               !.scopes = Requested(scopes)]
  <2>1. who \in Users /\ Requested(scopes) \subseteq Client[c].scopes /\ Begin(r, f)
    BY <1>5, Zenon DEF Decide, ReturnToAccepted, GrantType
  <2>2. Startable(f)
    BY <1>2, <1>3, <2>1, Zenon DEF Startable, Requests, Steps, Idle, Grants
  <2> QED
    BY <2>1, <2>2, Zenon
<1>6. ASSUME NEW c \in Clients, NEW n \in Numbers, NEW uri \in URIs, NEW v \in MaybeVerifier,
             ExchangeAuthorizationCode(r, c, n, uri, v)
      PROVE  \E f : Startable(f) /\ Begin(r, f)
  <2> DEFINE f == [Idle EXCEPT !.pc = "consume", !.grant = "authorization_code", !.client = c,
                               !.code = n, !.uri = uri, !.verifier = v]
  <2>1. code[n].status # "none" /\ Begin(r, f)
    BY <1>6, Zenon DEF ExchangeAuthorizationCode, CodeInv
  <2>2. Startable(f)
    <3>1. n \in 0..MaxRequests
      BY DEF Numbers
    <3>2. f \in Requests
      BY <3>1, Zenon DEF Requests, Steps, Idle, Grants
    <3>3. f.client = c /\ f.scopes = {} /\ f.pc = "consume" /\ f.code = n
          /\ f.grant = "authorization_code"
      BY Zenon DEF Idle
    <3> QED
      BY <2>1, <3>2, <3>3, Zenon DEF Startable
  <2> QED
    BY <2>1, <2>2, Zenon
<1>7. ASSUME NEW c \in Clients, NEW scopes \in Asks, ExchangeClientCredentials(r, c, scopes)
      PROVE  \E f : Startable(f) /\ Begin(r, f)
  <2> DEFINE f == [Idle EXCEPT !.pc = "access", !.grant = "client_credentials", !.client = c,
                               !.scopes = GrantScopes(c, scopes)]
  <2>1. GrantScopes(c, scopes) \subseteq Client[c].scopes /\ Begin(r, f)
    BY <1>7, Zenon DEF ExchangeClientCredentials
  <2>2. Startable(f)
    BY <1>2, <2>1, Zenon DEF Startable, Requests, Steps, Idle, Grants
  <2> QED
    BY <2>1, <2>2, Zenon
<1>8. ASSUME NEW c \in Clients, NEW scopes \in Asks, NEW u \in Users,
             ExchangePassword(r, c, u, scopes)
      PROVE  \E f : Startable(f) /\ Begin(r, f)
  <2> DEFINE f == [Idle EXCEPT !.pc = "access", !.grant = "password", !.client = c, !.user = u,
                               !.scopes = GrantScopes(c, scopes)]
  <2>1. GrantScopes(c, scopes) \subseteq Client[c].scopes /\ Begin(r, f)
    BY <1>8, Zenon DEF ExchangePassword
  <2>2. Startable(f)
    BY <1>2, <2>1, Zenon DEF Startable, Requests, Steps, Idle, Grants
  <2> QED
    BY <2>1, <2>2, Zenon
<1> QED
  BY <1>1, <1>4, <1>5, <1>6, <1>7, <1>8, Zenon DEF Arrive

\* Begin: a request with the next number takes a free slot.
LEMMA Started ==
    ASSUME RedeemInv, NEW r \in Slots, Free(r), NEW f, Startable(f), Begin(r, f)
    PROVE  RedeemInv'
<1> DEFINE q == [f EXCEPT !.no = count + 1]
<1>1. count + 1 \in 0..MaxRequests
  BY AuthCodeAssumption DEF RedeemInv, GrantType, Free
<1>2. q.no = count + 1 /\ Startable(q)
  BY <1>1, Zenon DEF Startable, Requests
<1>3. /\ req' = [req EXCEPT ![r] = q] /\ count' = count + 1
      /\ UNCHANGED <<browser, consent, code, tokens, history>>
  BY Zenon DEF Begin
<1> HIDE DEF q
<1> QED
  BY <1>2, <1>3, Begun, Zenon

\* Every step keeps what a code and its tokens are.
LEMMA RedeemNext ==
    ASSUME RedeemInv, [Next]_vars
    PROVE  RedeemInv'
<1>1. /\ GrantType /\ consent \in [Users -> [Clients -> SUBSET Scopes]]
      /\ agreed \in [Users -> [Clients -> SUBSET Scopes]] /\ askedAgain \in BOOLEAN
  BY Zenon DEF RedeemInv, GrantType
<1>2. ASSUME NEW r \in Slots, Return(r), UNCHANGED <<browser, consent, code, tokens, count, agreed>>,
             askedAgain' \in BOOLEAN
      PROVE  RedeemInv'
  BY <1>1, <1>2, Answered, Zenon
<1>3. ASSUME NEW r \in Slots, NEW step \in {"consent", "code", "select"}, Goto(r, step),
             req[r].pc \in {"session", "consent", "load"},
             UNCHANGED <<browser, consent, code, tokens, count, agreed, askedAgain>>
      PROVE  RedeemInv'
  <2>1. /\ req' \in [Slots -> Requests] /\ Others(r)
        /\ req'[r].pc = step /\ SameFields(req'[r], req[r])
    BY <1>1, <1>3, GotoEffect, Zenon DEF Steps
  <2> QED
    BY <1>1, <1>3, <2>1, Moved, Zenon DEF Redeeming, Issuing
<1>4. CASE \E r \in Slots : Arrive(r)
  BY <1>4, ArriveStarts, Started, Zenon
<1>5. CASE \E r \in Slots : FindActiveSession(r)
  BY <1>1, <1>2, <1>3, <1>5, Zenon DEF FindActiveSession, At, history
<1>6. CASE \E r \in Slots : HasActiveConsent(r)
  <2> PICK r \in Slots : HasActiveConsent(r)
    BY <1>6, Zenon
  <2>1. CASE Goto(r, "code") /\ UNCHANGED askedAgain
    BY <1>3, <2>1, Zenon DEF HasActiveConsent, At
  <2>2. CASE Return(r) /\ askedAgain' \in BOOLEAN
    BY <1>2, <2>2, Zenon DEF HasActiveConsent
  <2> QED
    BY <1>1, <2>1, <2>2, Zenon DEF HasActiveConsent
<1>7. CASE \E r \in Slots : CreateCode(r)
  BY <1>7, CodeCreated, Zenon
<1>8. CASE \E r \in Slots : LoadContext(r)
  BY <1>1, <1>2, <1>3, <1>8, Zenon DEF LoadContext, At, history
<1>9. CASE \E r \in Slots : UpsertSelectExisting(r)
  <2> PICK r \in Slots : UpsertSelectExisting(r)
    BY <1>9, Zenon
  <2> DEFINE row == consent[req[r].user][req[r].client]
             q == [req[r] EXCEPT !.pc = "upsert", !.found = row]
  <2>1. /\ At(r, "select") /\ req' = [req EXCEPT ![r].pc = "upsert", ![r].found = row]
        /\ UNCHANGED <<browser, consent, code, tokens, count, history>>
    BY Zenon DEF UpsertSelectExisting
  <2>2. req[r] \in Requests /\ row \in SUBSET Scopes
    BY <1>1, <2>1 DEF GrantType, RedeemInv, RequestInv, RequestOK, At, Redeeming, Issuing
  <2>3. q \in Requests /\ q.pc = "upsert" /\ SameFields(q, req[r])
    BY <2>2, Zenon DEF Requests, Steps, SameFields
  <2>4. req' = [req EXCEPT ![r] = q]
    BY <2>1, Zenon
  <2> HIDE DEF q
  <2>5. req' \in [Slots -> Requests] /\ Others(r) /\ req'[r] = q
    BY <1>1, <2>3, <2>4, Zenon DEF GrantType, Others
  <2> QED
    BY <1>1, <2>1, <2>3, <2>5, Moved, Zenon DEF At, Redeeming, Issuing, history
<1>10. CASE \E r \in Slots : UpsertDeadlock(r)
  BY <1>1, <1>2, <1>10, Zenon DEF UpsertDeadlock, history
<1>11. CASE \E r \in Slots : UpsertActiveConsent(r)
  <2> PICK r \in Slots : UpsertActiveConsent(r)
    BY <1>11, Zenon
  <2>1. /\ req[r].user \in Users /\ req[r].client \in Clients
        /\ req[r].found \subseteq Scopes /\ req[r].scopes \subseteq Scopes
    BY <1>1, Zenon
    DEF UpsertActiveConsent, RedeemInv, RequestInv, RequestOK, At, Redeeming, Issuing,
                GrantType, Requests
  <2>2. consent' \in [Users -> [Clients -> SUBSET Scopes]]
    BY <1>1, <2>1, Zenon DEF UpsertActiveConsent
  <2>3. agreed' \in [Users -> [Clients -> SUBSET Scopes]]
    BY <1>1, <2>1, Zenon DEF UpsertActiveConsent
  <2> QED
    BY <1>1, <2>2, <2>3, Answered, Zenon DEF UpsertActiveConsent
<1>12. CASE \E r \in Slots : ConsumeSelect(r)
  <2> PICK r \in Slots : ConsumeSelect(r)
    BY <1>12, Zenon
  <2>1. CASE Goto(r, "update")
    BY <2>1, CodeSelected, Zenon
  <2>2. CASE Return(r)
    BY <1>1, <1>2, <2>2, Zenon DEF ConsumeSelect, history
  <2> QED
    BY <2>1, <2>2, Zenon DEF ConsumeSelect
<1>13. CASE \E r \in Slots : ConsumeUpdate(r)
  <2> PICK r \in Slots : ConsumeUpdate(r)
    BY <1>13, Zenon
  <2>1. CASE Return(r)
    BY <2>1, CodeSpent, Zenon DEF ConsumeUpdate
  <2>2. CASE ~Return(r)
    BY <2>2, CodeRedeemed, Zenon
  <2> QED
    BY <2>1, <2>2, Zenon
<1>14. CASE \E r \in Slots : CreateAccessToken(r)
  BY <1>14, AccessStored, Zenon
<1>15. CASE \E r \in Slots : CreateRefreshToken(r)
  BY <1>15, RefreshStored, Zenon
<1>16. CASE \E r \in Slots : CallFails(r)
  BY <1>1, <1>2, <1>16, Zenon DEF CallFails, history
<1>17. CASE \E r \in Slots : CommitUnknown(r)
  BY <1>17, CodeSpent, Zenon DEF CommitUnknown
<1>18. ASSUME UNCHANGED <<consent, code, tokens, req, count, history>>,
              who' \in Users \cup {Nobody}, active' \subseteq Users, logins' \in 0..MaxLogins
       PROVE  RedeemInv'
  <2>1. GrantType'
    BY <1>1, <1>18, Zenon DEF RedeemInv, GrantType, tokens, history
  <2>2. NumbersInv'
    BY <1>1, <1>18, Zenon DEF RedeemInv, NumbersInv, TokenInHand, At, Token, tokens
  <2>3. RequestInv'
    <3>1. \A s \in Slots : req'[s] = req[s] /\ Token(s)' = Token(s)
      BY <1>18, Zenon DEF Token
    <3> QED
      BY <1>18, <3>1, Zenon DEF RedeemInv, RequestInv, RequestOK, At, Follows, tokens
  <2>4. CodeInv'
    BY <1>1, <1>18, Zenon DEF RedeemInv, CodeInv
  <2>5. TokenInv'
    BY <1>1, <1>18, Zenon DEF RedeemInv, TokenInv, Follows, tokens
  <2>6. OnceInv'
    BY <1>1, <1>18, Zenon DEF RedeemInv, OnceInv, CodeRedeemedOnce, At, tokens
  <2> QED
    BY <2>1, <2>2, <2>3, <2>4, <2>5, <2>6, Zenon DEF RedeemInv
<1>19. CASE LogOut
  BY <1>1, <1>18, <1>19, Zenon DEF LogOut, GrantType
<1>20. CASE \E u \in Users : LogIn(u)
  <2>1. logins' \in 0..MaxLogins /\ who' \in Users /\ active' \subseteq Users
    BY <1>1, <1>20, AuthCodeAssumption DEF LogIn, GrantType
  <2> QED
    BY <1>18, <1>20, <2>1, Zenon DEF LogIn
<1>21. CASE \E n \in Numbers : Expire(n)
  BY <1>21, CodeExpired, Zenon
<1>22. CASE UNCHANGED vars
  BY <1>1, <1>18, <1>22, Zenon DEF vars, browser, GrantType
<1> QED
  BY <1>4, <1>5, <1>6, <1>7, <1>8, <1>9, <1>10, <1>11, <1>12, <1>13, <1>14, <1>15, <1>16, <1>17,
     <1>19, <1>20, <1>21, <1>22, Zenon DEF Next, AuthorizeStep, ConsentStep, TokenStep

-----------------------------------------------------------------------------
(* Consents add up. *)

\* Begin fills one slot.
LEMMA BeginEffect ==
    ASSUME RedeemInv, NEW r \in Slots, Arrive(r)
    PROVE  /\ Others(r) /\ req'[r].pc \notin {"upsert", "code"}
           /\ UNCHANGED <<consent, code, agreed, askedAgain>>
<1>1. PICK f : Startable(f) /\ Begin(r, f)
  BY ArriveStarts, Zenon
<1>2. req \in [Slots -> Requests] /\ f \in Requests /\ f.pc \notin {"upsert", "code"}
  BY <1>1, Zenon DEF RedeemInv, GrantType, Startable
<1>3. [f EXCEPT !.no = count + 1].pc = f.pc
  BY <1>2, Zenon DEF Requests
<1>4. req' = [req EXCEPT ![r] = [f EXCEPT !.no = count + 1]]
  BY <1>1, Zenon DEF Begin
<1>5. Others(r) /\ req'[r].pc = f.pc
  BY <1>2, <1>3, <1>4, Zenon DEF Others
<1> QED
  BY <1>1, <1>2, <1>5, Zenon DEF Begin, history

\* A step of a request that takes no lock and changes no consent.
LEMMA ConsentKept ==
    ASSUME ConsentInv, NEW r \in Slots, Others(r), req'[r].pc # "upsert",
           At(r, "code")' => Covered(req'[r]),
           \A n \in Numbers : code'[n].status # "none" => Covered(code'[n]),
           UNCHANGED <<consent, agreed>>
    PROVE  ConsentInv'
<1>1. LockInv'
  <2>1. ASSUME NEW s \in Slots, req'[s].pc = "upsert"
        PROVE  req'[s] = req[s]
    BY <2>1, Zenon DEF Others
  <2>2. ASSUME NEW s \in Slots, req'[s].pc = "upsert"
        PROVE  /\ req'[s].found = consent[req'[s].user][req'[s].client]
               /\ req'[s].found # {} => Holders(s)' = {}
    <3>1. req'[s] = req[s] /\ req[s].pc = "upsert"
      BY <2>1, <2>2, Zenon
    <3>2. /\ req[s].found = consent[req[s].user][req[s].client]
          /\ req[s].found # {} => Holders(s) = {}
      BY <3>1, Zenon DEF ConsentInv, LockInv, At
    <3>3. Holders(s)' \subseteq Holders(s)
      BY <2>1, <3>1, Zenon DEF Holders, At, SameRow
    <3> QED
      BY <3>1, <3>2, <3>3
  <2> QED
    BY <2>2, Zenon DEF LockInv, At
<1>2. \A s \in Slots : At(s, "code")' => Covered(req[s])'
  BY Zenon DEF ConsentInv, Others, At, Covered
<1>3. \A n \in Numbers : (code[n].status # "none" => Covered(code[n]))'
  BY Zenon DEF Covered
<1>4. \A u \in Users, c \in Clients : (agreed[u][c] \subseteq consent[u][c])'
  BY Zenon DEF ConsentInv
<1> QED
  BY <1>1, <1>2, <1>3, <1>4, Zenon DEF ConsentInv

\* A status that changes leaves the code covered.
LEMMA StatusCovered ==
    ASSUME ConsentInv, NEW n \in Numbers, code[n].status # "none",
           NEW status, OnlyStatus(n, status)
    PROVE  \A m \in Numbers : code'[m].status # "none" => Covered(code'[m])
  BY DEF ConsentInv, OnlyStatus, Covered

\* The locking read: a row that is there is taken by one request at a time, and
\* whoever found none still finds none.
LEMMA LockTaken ==
    ASSUME RedeemInv, ConsentInv, NEW r \in Slots, UpsertSelectExisting(r)
    PROVE  ConsentInv'
<1> DEFINE row == consent[req[r].user][req[r].client]
           q == [req[r] EXCEPT !.pc = "upsert", !.found = row]
<1>1. /\ At(r, "select") /\ RowFree(r)
      /\ UNCHANGED <<consent, code, agreed>>
  BY Zenon DEF UpsertSelectExisting, history
<1>2. req[r] \in Requests /\ req \in [Slots -> Requests]
  BY Zenon DEF RedeemInv, GrantType
<1>3. req' = [req EXCEPT ![r] = q]
  BY Zenon DEF UpsertSelectExisting
<1>4. /\ q.pc = "upsert" /\ q.found = row /\ q.user = req[r].user /\ q.client = req[r].client
  BY <1>2, Zenon DEF Requests
<1> HIDE DEF q
<1>5. Others(r) /\ req'[r] = q
  BY <1>2, <1>3, Zenon DEF Others
<1>6. ASSUME NEW s \in Slots, s # r, At(s, "upsert"), req[s].found # {}
      PROVE  ~SameRow(r, s)
  BY <1>1, <1>6, Zenon DEF RowFree, Holders, ConsentInv, LockInv, SameRow
<1>7. LockInv'
  <2>1. (At(r, "upsert") => /\ req[r].found = consent[req[r].user][req[r].client]
                            /\ req[r].found # {} => Holders(r) = {})'
    BY <1>1, <1>4, <1>5, Zenon DEF RowFree, Holders, SameRow, At, Others
  <2>2. ASSUME NEW s \in Slots, s # r, At(s, "upsert")
        PROVE  (/\ req[s].found = consent[req[s].user][req[s].client]
                /\ req[s].found # {} => Holders(s) = {})'
    BY <1>1, <1>4, <1>5, <1>6, <2>2 DEF ConsentInv, LockInv, Others, At, Holders, SameRow
  <2> QED
    BY <1>5, <2>1, <2>2, Zenon DEF LockInv, Others, At
<1>8. \A s \in Slots : At(s, "code")' => Covered(req[s])'
  BY <1>1, <1>4, <1>5, Zenon DEF ConsentInv, Others, At, Covered
<1>9. /\ \A n \in Numbers : (code[n].status # "none" => Covered(code[n]))'
      /\ \A u \in Users, c \in Clients : (agreed[u][c] \subseteq consent[u][c])'
  BY <1>1, Zenon DEF ConsentInv, Covered
<1> QED
  BY <1>7, <1>8, <1>9, Zenon DEF ConsentInv

\* The write of the upsert: under the locks the row it adds to is the row as it
\* is, so consents only grow, and nobody else has read that row.
LEMMA ConsentGrows ==
    ASSUME GapLocks, RedeemInv, ConsentInv, NEW r \in Slots, UpsertActiveConsent(r)
    PROVE  ConsentInv'
<1> DEFINE u == req[r].user
           c == req[r].client
<1>1. /\ At(r, "upsert") /\ MayInsert(r) /\ UNCHANGED code
      /\ consent' = [consent EXCEPT ![u][c] = req[r].found \cup req[r].scopes]
      /\ agreed' = [agreed EXCEPT ![u][c] = @ \cup req[r].scopes]
  BY Zenon DEF UpsertActiveConsent
<1>2. Others(r) /\ req'[r].pc = "idle"
  BY ReturnEffect, Zenon DEF UpsertActiveConsent, RedeemInv
<1>3. /\ consent \in [Users -> [Clients -> SUBSET Scopes]]
      /\ agreed \in [Users -> [Clients -> SUBSET Scopes]]
      /\ u \in Users /\ c \in Clients
  BY <1>1, Zenon DEF RedeemInv, GrantType, RequestInv, RequestOK, At, Redeeming, Issuing
<1>4. req[r].found = consent[u][c]
  BY <1>1, Zenon DEF ConsentInv, LockInv
<1>5. /\ consent'[u][c] = consent[u][c] \cup req[r].scopes
      /\ agreed'[u][c] = agreed[u][c] \cup req[r].scopes
      /\ \A v \in Users, d \in Clients : v # u \/ d # c =>
            consent'[v][d] = consent[v][d] /\ agreed'[v][d] = agreed[v][d]
  BY <1>1, <1>3, <1>4, Zenon
<1>6. \A v \in Users, d \in Clients : consent[v][d] \subseteq consent'[v][d]
  BY <1>5, Zenon
<1>7. ASSUME NEW s \in Slots, s # r, At(s, "upsert")
      PROVE  ~SameRow(r, s)
  <2>1. SUFFICES ASSUME SameRow(r, s) PROVE FALSE
    BY Zenon
  <2>2. s \in Holders(r) /\ r \in Holders(s)
    BY <1>1, <1>7, <2>1, Zenon DEF Holders, SameRow
  <2>3. req[s].found # {}
    BY <1>1, <2>2, Zenon DEF MayInsert
  <2> QED
    BY <1>7, <2>2, <2>3, Zenon DEF ConsentInv, LockInv
<1>8. LockInv'
  <2>1. ASSUME NEW s \in Slots, s # r, At(s, "upsert")
        PROVE  req[s].found = consent'[req[s].user][req[s].client]
    <3>1. req[s].user \in Users /\ req[s].client \in Clients
      BY <2>1, Zenon DEF RedeemInv, RequestInv, RequestOK, At, Redeeming, Issuing
    <3> QED
      BY <1>5, <1>7, <2>1, <3>1 DEF ConsentInv, LockInv, SameRow
  <2> QED
    BY <1>2, <2>1 DEF ConsentInv, LockInv, Others, At, Holders, SameRow
<1>9. \A s \in Slots : At(s, "code")' => Covered(req[s])'
  <2>1. ASSUME NEW s \in Slots, s # r, At(s, "code")
        PROVE  req[s].user \in Users /\ req[s].client \in Clients
    BY <2>1, Zenon DEF RedeemInv, RequestInv, RequestOK, At, Redeeming, Issuing
  <2> QED
    BY <1>2, <1>6, <2>1 DEF ConsentInv, Others, At, Covered
<1>10. \A n \in Numbers : (code[n].status # "none" => Covered(code[n]))'
  BY <1>1, <1>6, Zenon DEF ConsentInv, Covered, RedeemInv, CodeInv
<1>11. \A v \in Users, d \in Clients : agreed'[v][d] \subseteq consent'[v][d]
  BY <1>5 DEF ConsentInv
<1> QED
  BY <1>8, <1>9, <1>10, <1>11, Zenon DEF ConsentInv

\* Every step keeps what consents are.
LEMMA ConsentNext ==
    ASSUME GapLocks, RedeemInv, ConsentInv, [Next]_vars
    PROVE  ConsentInv'
<1>1. GrantType /\ \A n \in Numbers : code[n].status # "none" => Covered(code[n])
  BY Zenon DEF RedeemInv, ConsentInv
<1>2. ASSUME NEW r \in Slots, Return(r), UNCHANGED <<consent, code, agreed>>
      PROVE  ConsentInv'
  <2>1. Others(r) /\ req'[r].pc = "idle"
    BY <1>1, <1>2, ReturnEffect, Zenon
  <2> QED
    BY <1>1, <1>2, <2>1, ConsentKept, Zenon DEF At
<1>3. ASSUME NEW r \in Slots, NEW step \in Steps \ {"upsert"}, Goto(r, step),
             step = "code" => Covered(req[r]), UNCHANGED <<consent, code, agreed>>
      PROVE  ConsentInv'
  <2>1. Others(r) /\ req'[r].pc = step /\ SameFields(req'[r], req[r])
    BY <1>1, <1>3, GotoEffect, Zenon
  <2> QED
    BY <1>1, <1>3, <2>1, ConsentKept, Zenon DEF At, Covered, SameFields
<1>4. ASSUME NEW r \in Slots, At(r, "update"), req'[r].pc \in {"access", "idle"}, Others(r),
             code' = [code EXCEPT ![req[r].code].status = "consumed"],
             UNCHANGED <<consent, agreed>>
      PROVE  ConsentInv'
  <2>1. req[r].code \in Numbers /\ code[req[r].code].status # "none"
    BY <1>4, Zenon DEF RedeemInv, RequestInv, RequestOK, At, Redeeming
  <2>2. \A m \in Numbers : code'[m].status # "none" => Covered(code'[m])
    BY <1>1, <1>4, <2>1, StatusEffect, StatusCovered, Zenon
  <2> QED
    BY <1>4, <2>2, ConsentKept, Zenon DEF At
<1>5. CASE \E r \in Slots : Arrive(r)
  BY <1>1, <1>5, BeginEffect, ConsentKept, Zenon DEF At
<1>6. CASE \E r \in Slots : FindActiveSession(r)
  BY <1>2, <1>3, <1>6, Zenon DEF FindActiveSession, history, Steps, Covered
<1>7. CASE \E r \in Slots : HasActiveConsent(r)
  <2> PICK r \in Slots : HasActiveConsent(r)
    BY <1>7, Zenon
  <2>1. CASE Return(r)
    BY <1>2, <2>1, Zenon DEF HasActiveConsent
  <2>2. CASE ~Return(r)
    BY <1>3, <2>2, Zenon DEF HasActiveConsent, HasConsentFor, Covered, Steps
  <2> QED
    BY <2>1, <2>2, Zenon
<1>8. CASE \E r \in Slots : CreateCode(r)
  <2> PICK r \in Slots : CreateCode(r)
    BY <1>8, Zenon
  <2>1. Others(r) /\ req'[r].pc = "idle"
    BY <1>1, ReturnEffect, Zenon DEF CreateCode
  <2>2. Covered(NewCode(r))
    BY Zenon DEF CreateCode, ConsentInv, Covered, NewCode
  <2>3. \A n \in Numbers : code'[n] = code[n] \/ code'[n] = NewCode(r)
    BY <1>1, Zenon DEF CreateCode, GrantType
  <2> QED
    BY <1>1, <2>1, <2>2, <2>3, ConsentKept, Zenon DEF CreateCode, At, history
<1>9. CASE \E r \in Slots : LoadContext(r)
  BY <1>2, <1>3, <1>9, Zenon DEF LoadContext, history, Steps
<1>10. CASE \E r \in Slots : UpsertSelectExisting(r)
  BY <1>10, LockTaken, Zenon
<1>11. CASE \E r \in Slots : UpsertDeadlock(r)
  BY <1>2, <1>11, Zenon DEF UpsertDeadlock, history
<1>12. CASE \E r \in Slots : UpsertActiveConsent(r)
  BY <1>12, ConsentGrows, Zenon
<1>13. CASE \E r \in Slots : ConsumeSelect(r)
  BY <1>2, <1>3, <1>13, Zenon DEF ConsumeSelect, history, Steps
<1>14. CASE \E r \in Slots : ConsumeUpdate(r)
  <2> PICK r \in Slots : ConsumeUpdate(r)
    BY <1>14, Zenon
  <2>1. CASE Return(r)
    BY <1>1, <1>4, <2>1, ReturnEffect, Zenon DEF ConsumeUpdate, history
  <2>2. CASE ~Return(r)
    <3>1. Others(r) /\ req'[r].pc = "access"
      BY <1>1, <2>2 DEF ConsumeUpdate, GrantType, Requests, Others
    <3> QED
      BY <1>4, <3>1, Zenon DEF ConsumeUpdate, history
  <2> QED
    BY <2>1, <2>2, Zenon
<1>15. CASE \E r \in Slots : CreateAccessToken(r)
  BY <1>2, <1>3, <1>15, Zenon DEF CreateAccessToken, history, Steps
<1>16. CASE \E r \in Slots : CreateRefreshToken(r)
  BY <1>2, <1>16, Zenon DEF CreateRefreshToken, history
<1>17. CASE \E r \in Slots : CallFails(r)
  BY <1>2, <1>17, Zenon DEF CallFails, history
<1>18. CASE \E r \in Slots : CommitUnknown(r)
  BY <1>1, <1>4, <1>18, ReturnEffect, Zenon DEF CommitUnknown, history
<1>19. ASSUME UNCHANGED <<consent, agreed, req>>,
              \A n \in Numbers : code'[n].status # "none" => Covered(code'[n])
       PROVE  ConsentInv'
  BY <1>19, Zenon DEF ConsentInv, LockInv, At, Holders, SameRow, Covered
<1>20. CASE LogOut \/ (\E u \in Users : LogIn(u)) \/ UNCHANGED vars
  BY <1>1, <1>19, <1>20, Zenon DEF LogOut, LogIn, vars, history
<1>21. CASE \E n \in Numbers : Expire(n)
  <2> PICK n \in Numbers : Expire(n)
    BY <1>21, Zenon
  <2>1. \A m \in Numbers : code'[m].status # "none" => Covered(code'[m])
    BY <1>1, StatusEffect, StatusCovered, Zenon DEF Expire
  <2> QED
    BY <1>19, <2>1, Zenon DEF Expire, history
<1> QED
  BY <1>5, <1>6, <1>7, <1>8, <1>9, <1>10, <1>11, <1>12, <1>13, <1>14, <1>15, <1>16, <1>17, <1>18,
     <1>20, <1>21, Zenon DEF Next, AuthorizeStep, ConsentStep, TokenStep

\* HasActiveConsent on a reader that does not lag.
LEMMA AskedNext ==
    ASSUME ~StaleReads, RedeemInv, ConsentInv, NotAskedAgain, [Next]_vars
    PROVE  NotAskedAgain'
<1>1. ASSUME NEW r \in Slots, HasActiveConsent(r)
      PROVE  NotAskedAgain'
  <2>1. req[r].user \in Users /\ req[r].client \in Clients
    BY <1>1, Zenon DEF RedeemInv, RequestInv, RequestOK, At, Redeeming, Issuing, HasActiveConsent
  <2> QED
    BY <1>1, <2>1, Zenon DEF HasActiveConsent, HasConsentFor, NotAskedAgain, ConsentInv
<1>2. ASSUME UNCHANGED askedAgain PROVE NotAskedAgain'
  BY <1>2, Zenon DEF NotAskedAgain
<1>3. ASSUME NEW r \in Slots, Arrive(r) PROVE UNCHANGED askedAgain
  BY <1>3, BeginEffect, Zenon
<1> QED
  BY <1>1, <1>2, <1>3, Zenon
     DEF Next, AuthorizeStep, ConsentStep, TokenStep, vars, history, FindActiveSession, CreateCode,
         LoadContext, UpsertSelectExisting, UpsertDeadlock, UpsertActiveConsent, ConsumeSelect,
         ConsumeUpdate, CreateAccessToken, CreateRefreshToken, CallFails, CommitUnknown, LogOut,
         LogIn, Expire

-----------------------------------------------------------------------------
(* The theorems. *)

\* The invariants hold at the start.
LEMMA GrantInit ==
    ASSUME Init
    PROVE  RedeemInv /\ ConsentInv /\ NotAskedAgain
<1> USE AuthCodeAssumption, IdleType DEF Init, At
<1>1. GrantType
  <2>1. consent \in [Users -> [Clients -> SUBSET Scopes]]
    BY DEF Scopes
  <2>2. NoCode \in CodeRows
    BY Zenon DEF NoCode, CodeRows, MaybeVerifier
  <2>3. code \in [Numbers -> CodeRows] /\ req \in [Slots -> Requests]
    BY <2>2, Zenon
  <2>4. /\ who = Nobody /\ active = {} /\ access = {} /\ refresh = {} /\ agreed = consent
        /\ count = 0 /\ logins = 0 /\ askedAgain \in BOOLEAN
    BY Zenon
  <2>5. 0 \in 0..MaxRequests /\ 0 \in 0..MaxLogins
    OBVIOUS
  <2> HIDE AuthCodeAssumption, IdleType DEF Init
  <2> QED
    BY <2>1, <2>3, <2>4, <2>5, Zenon DEF GrantType
<1>2. \A n \in Numbers : code[n] = NoCode /\ code[n].status = "none"
  BY Zenon DEF NoCode
<1>3. NumbersInv /\ RequestInv /\ CodeInv /\ TokenInv /\ OnceInv
  BY <1>2, Zenon DEF NumbersInv, RequestInv, CodeInv, TokenInv, OnceInv, CodeRedeemedOnce
<1>4. ConsentInv /\ NotAskedAgain
  BY <1>2, Zenon DEF ConsentInv, LockInv, NotAskedAgain
<1> QED
  BY <1>1, <1>3, <1>4, Zenon DEF RedeemInv

\* The invariant of codes and tokens holds throughout.
LEMMA RedeemAlways == Spec => []RedeemInv
<1>1. Init => RedeemInv
  BY GrantInit, Zenon
<1>2. RedeemInv /\ [Next]_vars => RedeemInv'
  BY RedeemNext, Zenon
<1> QED
  BY <1>1, <1>2, PTL DEF Spec

\* The state is well typed: every token row and every request in every slot
\* holds values of its columns, and a refresh token has its access token.
THEOREM GrantTypeCorrect == Spec => []TypeOK
<1>1. RedeemInv => TypeOK
  <2> SUFFICES ASSUME RedeemInv PROVE TypeOK
    BY Zenon
  <2> USE AuthCodeAssumption DEF RedeemInv
  <2>1. \A t \in access : t.no \in Numbers /\ t.client \in Clients /\ t.scopes \subseteq Scopes
    <3>1. \A t \in access : t.no \in Numbers
      BY DEF NumbersInv, Numbers, GrantType
    <3> QED
      BY <3>1, Zenon DEF TokenInv, GrantType, TokenRows
  <2>2. refresh \subseteq {t.no : t \in access}
    BY Zenon DEF TokenInv
  <2>3. ASSUME NEW r \in Slots
        PROVE  /\ req[r].pc \in Steps /\ req[r].no \in 0..MaxRequests
               /\ req[r].pc = "refresh" => req[r].user \in Users
    BY Zenon DEF GrantType, Requests, RequestInv, RequestOK, At
  <2> QED
    BY <2>1, <2>2, <2>3, Zenon DEF TypeOK, GrantType
<1> QED
  BY <1>1, RedeemAlways, PTL

\* A code buys tokens once (ConsumeByCode and what follows it), whatever the
\* isolation level, the replicas and the failing calls do.
THEOREM CodeBuysOnce == Spec => []CodeRedeemedOnce
<1>1. RedeemInv => CodeRedeemedOnce
  BY Zenon DEF RedeemInv, OnceInv
<1> QED
  BY <1>1, RedeemAlways, PTL

\* Tokens follow the grant: user, scopes, client, redirect URI, verifier and
\* consent (exchangeAuthorizationCode, issueUserGrantTokens), when the locking
\* read of the consent upsert locks the gap.
THEOREM TokensComeFromGrant ==
    ASSUME GapLocks
    PROVE  Spec => []TokensFollowGrant
<1>1. Init => RedeemInv /\ ConsentInv
  BY GrantInit, Zenon
<1>2. RedeemInv /\ ConsentInv /\ [Next]_vars => (RedeemInv /\ ConsentInv)'
  BY RedeemNext, ConsentNext, Zenon
<1>3. RedeemInv /\ ConsentInv => TokensFollowGrant
  BY DEF RedeemInv, TokenInv, ConsentInv, TokensFollowGrant, Follows, Covered
<1> QED
  BY <1>1, <1>2, <1>3, PTL DEF Spec

\* Consents add up (UpsertActiveConsent, HasActiveConsent), when the locking read
\* locks the gap and no replica lags.
THEOREM ConsentsStand ==
    ASSUME GapLocks, ~StaleReads
    PROVE  Spec => []ConsentsAddUp
<1>1. Init => RedeemInv /\ ConsentInv /\ NotAskedAgain
  BY GrantInit, Zenon
<1>2. RedeemInv /\ ConsentInv /\ NotAskedAgain /\ [Next]_vars
        => (RedeemInv /\ ConsentInv /\ NotAskedAgain)'
  BY RedeemNext, ConsentNext, AskedNext, Zenon
<1>3. ConsentInv /\ NotAskedAgain => ConsentsAddUp
  BY Zenon DEF ConsentInv, ConsentsAddUp
<1> QED
  BY <1>1, <1>2, <1>3, PTL DEF Spec

-----------------------------------------------------------------------------
(* The device grant (DeviceCode, its hash named entry here). *)

DeviceType ==
    /\ now \in 0..MaxTime /\ born \in -1..MaxTime
    /\ entry \in D!Entry
    /\ pc \in [Polls -> D!PollSteps]
    /\ seen \in [Polls -> D!Entry]
    /\ at \in [Polls -> 0..MaxTime]
    /\ polledAt \in [Polls -> -1..MaxTime]
    /\ issued \in [Polls -> Deciders \cup {Nobody}]
    /\ approvers \subseteq Deciders

\* An approved status names a user who approved, in the hash and in every copy.
ApprovedInv ==
    /\ entry.status = "approved" => entry.user \in approvers
    /\ \A p \in Polls :
        /\ seen[p].status = "approved" => seen[p].user \in approvers
        /\ pc[p] \in {"consume", "ok"} => issued[p] \in approvers

\* last bounds the polls allowed so far to within a second, and the comparison that an unbroken
\* WATCH stands for still holds.
SpacedInv ==
    /\ born = -1 => \A p \in Polls : pc[p] = "idle" /\ polledAt[p] = -1
    /\ entry.full => \A p \in Polls :
        IF entry.last = -1 THEN polledAt[p] = -1 ELSE polledAt[p] < entry.last + Second
    /\ \A p \in Polls : p \in watch /\ pc[p] = "exec" =>
        entry.last = -1 \/ at[p] >= entry.last + Interval

DeviceInv == DeviceType /\ ApprovedInv /\ SpacedInv

\* formatTime moves a time back by less than a second.
LEMMA WholeSeconds ==
    ASSUME NEW t \in Nat
    PROVE  /\ D!FormatTime(t) \in Nat
           /\ t - Second < D!FormatTime(t) /\ D!FormatTime(t) <= t
<1>1. t % Second \in 0..Second - 1 /\ t % Second <= t
  BY DeviceAssumption
<1> QED
  BY <1>1, DeviceAssumption DEF D!FormatTime

\* What a write to the hash may look like.
LEMMA EntryWritten ==
    ASSUME DeviceType
    PROVE  /\ D!NoCode \in D!Entry
           /\ \A d \in Deciders :
                [entry EXCEPT !.present = TRUE, !.status = "approved", !.user = d] \in D!Entry
           /\ [entry EXCEPT !.present = TRUE, !.status = "denied"] \in D!Entry
           /\ [entry EXCEPT !.present = TRUE, !.status = "consumed"] \in D!Entry
           /\ \A p \in Polls : [entry EXCEPT !.last = D!FormatTime(at[p])] \in D!Entry
<1>1. D!NoCode \in D!Entry
  BY DEF D!Entry, D!NoCode, D!Status
<1>2. ASSUME NEW d \in Deciders
      PROVE  [entry EXCEPT !.present = TRUE, !.status = "approved", !.user = d] \in D!Entry
  BY Zenon DEF DeviceType, D!Entry, D!Status
<1>3. /\ [entry EXCEPT !.present = TRUE, !.status = "denied"] \in D!Entry
      /\ [entry EXCEPT !.present = TRUE, !.status = "consumed"] \in D!Entry
  BY Zenon DEF DeviceType, D!Entry, D!Status
<1>4. ASSUME NEW p \in Polls
      PROVE  [entry EXCEPT !.last = D!FormatTime(at[p])] \in D!Entry
  <2>1. at[p] \in Nat
    BY DeviceAssumption DEF DeviceType
  <2>2. D!FormatTime(at[p]) \in Int
    BY <2>1, WholeSeconds
  <2> QED
    BY <2>2, Zenon DEF DeviceType, D!Entry
<1> QED
  BY <1>1, <1>2, <1>3, <1>4, Zenon

\* The device grant's invariant holds at the start.
LEMMA DeviceInit ==
    ASSUME D!Init
    PROVE  DeviceInv
<1>1. D!NoCode \in D!Entry /\ D!NoCode.status = "" /\ ~D!NoCode.full
  BY DEF D!Entry, D!NoCode, D!Status
<1>2. DeviceType
  <2>1. 0 \in 0..MaxTime /\ -1 \in -1..MaxTime
    BY DeviceAssumption
  <2>2. now \in 0..MaxTime
    <3>1. now \in 0..Second - 1
      BY Zenon DEF D!Init
    <3> QED
      BY <3>1, DeviceAssumption
  <2> QED
    BY <1>1, <2>1, <2>2, Zenon DEF D!Init, DeviceType, D!PollSteps
<1>3. ApprovedInv /\ SpacedInv
  BY <1>1, Zenon DEF D!Init, ApprovedInv, SpacedInv
<1> QED
  BY <1>2, <1>3, Zenon DEF DeviceInv

\* Every step of the device grant keeps its invariant.
LEMMA DeviceNext ==
    ASSUME DeviceInv, [D!Next]_(D!vars)
    PROVE  DeviceInv'
<1> USE DeviceAssumption DEF DeviceInv
<1>1. CASE D!Tick
  BY <1>1 DEF D!Tick, D!poll, D!decision, DeviceType, ApprovedInv, SpacedInv
<1>2. CASE D!Start
  <2>1. /\ born = -1 /\ born' = now /\ watch' = {}
        /\ UNCHANGED <<now, pc, seen, at, polledAt, issued, approvers>>
        /\ entry' = [present |-> TRUE, full |-> TRUE, status |-> "pending",
                     user |-> Nobody, last |-> -1]
    BY <1>2, Zenon DEF D!Start, D!WriteCode, D!poll, D!decision
  <2>2. entry' \in D!Entry /\ entry'.status = "pending" /\ entry'.last = -1
    BY <2>1 DEF D!Entry, D!Status
  <2>3. now \in -1..MaxTime /\ now # -1
    BY DEF DeviceType
  <2>4. DeviceType' /\ ApprovedInv'
    BY <2>1, <2>2, <2>3, Zenon DEF DeviceType, ApprovedInv
  <2>5. SpacedInv'
    BY <2>1, <2>2, <2>3 DEF SpacedInv
  <2> QED
    BY <2>4, <2>5, Zenon
<1>3. ASSUME UNCHANGED <<now, born, entry, watch, pc, seen, at, polledAt, issued, approvers>>
      PROVE  DeviceInv'
  BY <1>3, Zenon DEF DeviceType, ApprovedInv, SpacedInv
<1>4. CASE D!CodeExpires
  BY <1>4, EntryWritten, Zenon
     DEF D!CodeExpires, D!WriteCode, D!NoCode, D!poll, D!decision, DeviceType, ApprovedInv,
         SpacedInv
<1>5. CASE D!UserKeyExpires \/ UNCHANGED D!vars
  BY <1>3, <1>5, Zenon DEF D!UserKeyExpires, D!vars, D!poll, D!decision
<1>6. CASE \E d \in Deciders : \/ \E a \in {"approve", "deny"} : D!LoadContext(d, a)
                              \/ D!ReloadByUserCode(d) \/ D!DecisionFails(d)
  BY <1>3, <1>6, Zenon DEF D!LoadContext, D!ReloadByUserCode, D!DecisionFails, D!poll
<1>7. CASE \E d \in Deciders : D!WriteDecision(d)
  <2> PICK d \in Deciders : D!WriteDecision(d)
    BY <1>7, Zenon
  <2>1. /\ UNCHANGED <<now, born, pc, seen, at, polledAt, issued>> /\ watch' = {}
        /\ \/ /\ entry' = [entry EXCEPT !.present = TRUE, !.status = "approved", !.user = d]
              /\ approvers' = approvers \cup {d}
           \/ /\ entry' = [entry EXCEPT !.present = TRUE, !.status = "denied"]
              /\ UNCHANGED approvers
    BY Zenon DEF D!WriteDecision, D!WriteCode, D!poll
  <2>2. entry' \in D!Entry
    BY <2>1, EntryWritten, Zenon
  <2>3. /\ entry'.last = entry.last /\ entry'.full = entry.full
        /\ entry'.status = "approved" => entry'.user \in approvers'
    BY <2>1, Zenon DEF DeviceType, D!Entry
  <2> QED
    BY <2>1, <2>2, <2>3, Zenon DEF DeviceType, ApprovedInv, SpacedInv
<1>8. CASE \E p \in Polls : D!GetByDeviceCode(p)
  BY <1>8 DEF D!GetByDeviceCode, D!Goto, D!decision, DeviceType, ApprovedInv, SpacedInv,
              D!PollSteps
<1>9. CASE \E p \in Polls : D!TouchPollWatch(p)
  <2> PICK p \in Polls : D!TouchPollWatch(p)
    BY <1>9, Zenon
  <2>1. PICK t \in at[p]..now :
            /\ at' = [at EXCEPT ![p] = t]
            /\ D!Goto(p, IF ~entry.present \/ (entry.last # -1 /\ t < entry.last + Interval)
                         THEN "slow_down" ELSE "exec")
    BY Zenon DEF D!TouchPollWatch
  <2>2. t \in 0..MaxTime
    BY DEF DeviceType
  <2>3. DeviceType'
    BY <2>1, <2>2, Zenon DEF D!TouchPollWatch, D!Goto, D!decision, DeviceType, D!PollSteps
  <2>4. ApprovedInv'
    BY <2>1, Zenon DEF D!TouchPollWatch, D!Goto, D!decision, DeviceType, ApprovedInv
  <2>5. SpacedInv'
    BY <2>1, <2>2 DEF D!TouchPollWatch, D!Goto, D!decision, DeviceType, SpacedInv, D!Entry
  <2> QED
    BY <2>3, <2>4, <2>5, Zenon
<1>10. CASE \E p \in Polls : D!TouchPollExec(p)
  <2> PICK p \in Polls : D!TouchPollExec(p)
    BY <1>10, Zenon
  <2>1. CASE p \in watch
    <3>1. /\ entry' = [entry EXCEPT !.last = D!FormatTime(at[p])] /\ watch' = {}
          /\ polledAt' = [polledAt EXCEPT ![p] = at[p]] /\ pc' = [pc EXCEPT ![p] = "status"]
          /\ UNCHANGED <<now, born, seen, at, issued, approvers>> /\ pc[p] = "exec"
      BY <2>1, Zenon DEF D!TouchPollExec, D!WriteCode, D!Goto, D!decision
    <3>2. /\ entry'.last = D!FormatTime(at[p]) /\ entry'.full = entry.full
          /\ entry'.status = entry.status /\ entry'.user = entry.user /\ entry' \in D!Entry
      BY <3>1, EntryWritten, Zenon DEF DeviceType, D!Entry
    <3>3. entry.last \in Int /\ at[p] \in 0..MaxTime
      BY Zenon DEF DeviceType, D!Entry
    <3>4. /\ entry'.last \in Nat /\ at[p] < entry'.last + Second
          /\ entry'.last # -1
      <4>1. at[p] \in Nat /\ Second \in Nat
        BY <3>3
      <4>2. D!FormatTime(at[p]) \in Nat /\ at[p] - Second < D!FormatTime(at[p])
        BY <4>1, WholeSeconds
      <4> QED
        BY <3>2, <4>1, <4>2
    <3>5. entry.full => \A q \in Polls : polledAt[q] < entry'.last + Second
      <4> SUFFICES ASSUME entry.full, NEW q \in Polls
                   PROVE  polledAt[q] < entry'.last + Second
        OBVIOUS
      <4>1. polledAt[q] \in Int /\ Second \in Nat /\ Interval \in Nat /\ Interval >= Second
        BY DEF DeviceType
      <4>2. \/ entry.last = -1 /\ polledAt[q] = -1
            \/ entry.last # -1 /\ polledAt[q] < entry.last + Second
        BY Zenon DEF SpacedInv
      <4>3. entry.last = -1 \/ at[p] >= entry.last + Interval
        BY <2>1, <3>1, Zenon DEF SpacedInv
      <4> QED
        BY <3>3, <3>4, <4>1, <4>2, <4>3
    <3>6. DeviceType'
      BY <3>1, <3>2, <3>3 DEF DeviceType, D!PollSteps
    <3>7. ApprovedInv'
      BY <3>1, <3>2 DEF ApprovedInv, DeviceType
    <3>8. SpacedInv'
      BY <3>1, <3>2, <3>3, <3>4, <3>5 DEF SpacedInv, DeviceType
    <3> QED
      BY <3>6, <3>7, <3>8, Zenon
  <2>2. CASE p \notin watch
    BY <2>2, Zenon
    DEF D!TouchPollExec, D!Goto, D!decision, DeviceType, ApprovedInv, SpacedInv, D!PollSteps
  <2> QED
    BY <2>1, <2>2, Zenon
<1>11. CASE \E p \in Polls : D!IssueTokens(p)
  <2> PICK p \in Polls : D!IssueTokens(p)
    BY <1>11, Zenon
  <2>1. DeviceType'
    <3>1. seen[p].user \in Deciders \cup {Nobody}
      BY Zenon DEF DeviceType, D!Entry
    <3> QED
      BY <3>1, Zenon DEF D!IssueTokens, D!Goto, D!decision, DeviceType, D!PollSteps
  <2>2. ApprovedInv'
    BY Zenon DEF D!IssueTokens, D!Answerable, D!Goto, D!decision, DeviceType, ApprovedInv
  <2>3. SpacedInv'
    BY Zenon DEF D!IssueTokens, D!Goto, D!decision, DeviceType, SpacedInv
  <2> QED
    BY <2>1, <2>2, <2>3, Zenon
<1>12. CASE \E p \in Polls : D!MarkConsumed(p)
  <2> PICK p \in Polls : D!MarkConsumed(p)
    BY <1>12, Zenon
  <2>1. /\ entry'.last = entry.last /\ entry'.full = entry.full /\ entry'.status = "consumed"
        /\ entry' \in D!Entry
    BY EntryWritten, Zenon DEF D!MarkConsumed, D!WriteCode, DeviceType, D!Entry
  <2>2. /\ pc[p] = "consume" /\ pc' = [pc EXCEPT ![p] = "ok"] /\ watch' = {}
        /\ UNCHANGED <<now, born, seen, at, polledAt, issued, approvers>>
    BY Zenon DEF D!MarkConsumed, D!WriteCode, D!Goto, D!decision
  <2> QED
    BY <2>1, <2>2, Zenon DEF DeviceType, ApprovedInv, SpacedInv, D!PollSteps
<1>13. CASE \E p \in Polls : D!PollFails(p)
  BY <1>13 DEF D!PollFails, D!Goto, D!decision, DeviceType, ApprovedInv, SpacedInv, D!PollSteps
<1> QED
  BY <1>1, <1>2, <1>4, <1>5, <1>6, <1>7, <1>8, <1>9, <1>10, <1>11, <1>12, <1>13, Zenon
     DEF D!Next, D!DecisionStep, D!PollStep

\* The device grant's invariant holds throughout.
LEMMA DeviceAlways == D!Spec => []DeviceInv
<1>1. D!Init => DeviceInv
  BY DeviceInit, Zenon
<1>2. DeviceInv /\ [D!Next]_(D!vars) => DeviceInv'
  BY DeviceNext, Zenon
<1> QED
  BY <1>1, <1>2, PTL DEF D!Spec

\* Tokens of the device grant go to a user who approved, and to polls that began
\* before the code expired (exchangeDeviceCode, Decide).
THEOREM DeviceTokensToApprover == D!Spec => IssuedToApprover
<1> DEFINE Issues ==
        \A p \in Polls :
            /\ pc'[p] \in {"consume", "ok"} => issued'[p] \in approvers'
            /\ pc[p] = "idle" /\ now >= born + DeviceTTL => pc'[p] \in {"idle", "refused"}
<1>1. ASSUME DeviceInv, DeviceInv', [D!Next]_(D!vars)
      PROVE  Issues
  <2>1. ASSUME NEW p \in Polls
        PROVE  pc'[p] \in {"consume", "ok"} => issued'[p] \in approvers'
    BY <1>1, Zenon DEF DeviceInv, ApprovedInv
  <2>2. ASSUME NEW p \in Polls, pc[p] = "idle", now >= born + DeviceTTL
        PROVE  pc'[p] \in {"idle", "refused"}
    <3>1. /\ pc \in [Polls -> D!PollSteps] /\ now \in Int
          /\ born \in Int /\ born >= -1 /\ DeviceTTL \in Nat \ {0}
      BY <1>1, DeviceAssumption DEF DeviceInv, DeviceType
    <3>2. ~D!Usable(entry)
      <4>1. born + DeviceTTL \in Nat
        BY <3>1
      <4>2. D!ExpiresAt \in Nat /\ D!ExpiresAt <= born + DeviceTTL
        BY <4>1, WholeSeconds DEF D!ExpiresAt
      <4> QED
        BY <2>2, <3>1, <4>1, <4>2 DEF D!Usable
    <3>3. CASE UNCHANGED pc
      BY <2>2, <3>3, Zenon
    <3>4. CASE \E q \in Polls : D!PollStep(q)
      <4> PICK q \in Polls : D!PollStep(q)
        BY <3>4, Zenon
      <4>1. CASE q = p
        BY <2>2, <3>1, <3>2, <4>1, Zenon
           DEF D!PollStep, D!GetByDeviceCode, D!TouchPollWatch, D!TouchPollExec, D!IssueTokens,
               D!MarkConsumed, D!PollFails, D!Goto
      <4>2. CASE q # p
        BY <2>2, <3>1, <4>2, Zenon
           DEF D!PollStep, D!GetByDeviceCode, D!TouchPollWatch, D!TouchPollExec, D!IssueTokens,
               D!MarkConsumed, D!PollFails, D!Goto
      <4> QED
        BY <4>1, <4>2, Zenon
    <3> QED
      BY <1>1, <3>3, <3>4, Zenon
         DEF D!Next, D!Tick, D!Start, D!UserKeyExpires, D!CodeExpires, D!DecisionStep,
             D!LoadContext, D!ReloadByUserCode, D!WriteDecision, D!DecisionFails, D!poll, D!vars
  <2> QED
    BY <2>1, <2>2, Zenon
<1>2. DeviceInv /\ DeviceInv' /\ [D!Next]_(D!vars) => [Issues]_(D!vars)
  BY <1>1, Zenon
<1> QED
  BY <1>2, DeviceAlways, PTL DEF D!Spec, IssuedToApprover, D!IssuedToApprover

\* Polls that TouchPoll lets through while the code lives are apart by the
\* interval, less the fraction of a second formatTime drops.
THEOREM DevicePollsSpaced == D!Spec => PollsSpaced
<1> DEFINE Spaced ==
        \A p, q \in Polls :
            entry.full /\ polledAt[p] # polledAt'[p] /\ polledAt[q] >= 0
            => polledAt'[p] - polledAt[q] > Interval - Second
<1>1. ASSUME DeviceInv, [D!Next]_(D!vars)
      PROVE  Spaced
  <2>1. CASE UNCHANGED polledAt
    BY <2>1, Zenon
  <2>2. ASSUME NEW r \in Polls, D!TouchPollExec(r), r \in watch
        PROVE  Spaced
    <3>1. polledAt' = [polledAt EXCEPT ![r] = at[r]] /\ pc[r] = "exec"
      BY <2>2, Zenon DEF D!TouchPollExec
    <3>2. entry.last = -1 \/ at[r] >= entry.last + Interval
      BY <1>1, <2>2, <3>1, Zenon DEF DeviceInv, SpacedInv
    <3>3. /\ polledAt \in [Polls -> Int] /\ at[r] \in Int /\ entry.last \in Int
          /\ Interval \in Int /\ Second \in Int
      BY <1>1, DeviceAssumption DEF DeviceInv, DeviceType, D!Entry
    <3>4. entry.full => \A q \in Polls :
            IF entry.last = -1 THEN polledAt[q] = -1 ELSE polledAt[q] < entry.last + Second
      BY <1>1, Zenon DEF DeviceInv, SpacedInv
    <3> QED
      BY <3>1, <3>2, <3>3, <3>4
  <2> QED
    BY <1>1, <2>1, <2>2, Zenon
       DEF D!Next, D!Tick, D!Start, D!UserKeyExpires, D!CodeExpires, D!DecisionStep,
           D!LoadContext, D!ReloadByUserCode, D!WriteDecision, D!DecisionFails, D!poll, D!vars,
           D!PollStep, D!GetByDeviceCode, D!TouchPollWatch, D!TouchPollExec, D!IssueTokens,
           D!MarkConsumed, D!PollFails
<1>2. DeviceInv /\ [D!Next]_(D!vars) => [Spaced]_(D!vars)
  BY <1>1, Zenon
<1> QED
  BY <1>2, DeviceAlways, PTL DEF D!Spec, PollsSpaced, D!PollsSpaced
=============================================================================
