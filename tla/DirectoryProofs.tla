--------------------------- MODULE DirectoryProofs ---------------------------
(***************************************************************************)
(* Proofs about Roles and Registry, what administrators write.  The two    *)
(* share their form (concurrent requests in slots, one step per store      *)
(* call) and no state: they are the instances of MC_Directory, and their   *)
(* constants are left open.                                                *)
(* What a proof needs of them is a hypothesis of the theorem.              *)
(***************************************************************************)
EXTENDS MC_Directory, FiniteSetTheorems, TLAPS

-----------------------------------------------------------------------------
(* Roles. *)

\* migrate.sql has the built-in roles, among them those of the first users; a
\* mask is no missing row, and user ids are no role codes.
RolesData ==
    /\ {"end_user", "super_admin"} \subseteq DOMAIN Builtin /\ DOMAIN Seeded = DOMAIN Builtin
    /\ R!Absent \notin Masks
    /\ \A c \in DOMAIN Builtin : Builtin[c] # R!Absent /\ Seeded[c] # R!Absent
    /\ Admin \in Users /\ Users \cap R!Codes = {}

RoleOps == {"none", "bootstrap", "create", "update", "delete", "assign"}

\* The masks in the tables and in requests.
RoleMasks ==
    Masks \cup {Builtin[c] : c \in DOMAIN Builtin} \cup {Seeded[c] : c \in DOMAIN Builtin}

RoleRequests ==
    [pc : R!Steps, op : RoleOps, code : R!Codes, user : Users, custom : BOOLEAN,
     mask : RoleMasks \cup {{}}, todo : SUBSET DOMAIN Builtin]

Events == RoleMasks \cup {R!Absent} \cup (R!Codes \X RoleMasks)

RoleType ==
    /\ roles \in [R!Codes -> RoleMasks \cup {R!Absent}]
    /\ role \in [Users -> R!Codes] /\ mask \in [Users -> RoleMasks]
    /\ roleReq \in [Slots -> RoleRequests]
    /\ roleCount \in Nat
    /\ trail \in [R!Subjects -> Events]

\* What a request knows when it is about to write, unless another request about
\* the same role came between: MayChange, Assignable and Unused still hold.
RoleRequestOK(q) ==
    /\ q.pc = "idle" <=> q.op = "none"
    /\ q.op = "bootstrap" => q.pc \in {"upsert", "audit"}
    /\ q.pc = "upsert" => q.op = "bootstrap"
    /\ q.op = "bootstrap" /\ q.pc = "audit" => q.todo = {}
    /\ q.pc = "count" => q.op = "delete"
    /\ q.op = "assign" /\ q.custom => q.mask \in Masks
    /\ q.op \in {"create", "update"} => q.mask \in Masks
    /\ q.pc \in {"write", "audit"} /\ q.op = "assign" => q.mask \in RoleMasks
    /\ q.pc \in {"count", "write"} /\ q.op \in {"update", "delete"} => q.code \notin DOMAIN Builtin
    /\ q.pc = "audit" /\ q.op \in {"create", "update", "delete"} => q.code \notin DOMAIN Builtin
    /\ q.pc = "write" /\ q.op \in {"update", "assign"} =>
        roles[q.code] # R!Absent \/ q.code \in overlapped
    /\ q.pc = "write" /\ q.op = "delete" =>
        R!Unused(q.code) \/ q.code \in overlapped

\* No two requests are about the same user or role, system roles apart, unless
\* that is on record.
OneAbout ==
    \A r, s \in Slots : \A x \in R!About(roleReq[r]) \cap R!About(roleReq[s]) :
        r = s \/ x \in overlapped \/ x \in DOMAIN Builtin

\* A request has changed a row and its event is still to be written.
Owes(q, x) == (q.pc = "audit" /\ x \in R!Changed(q)) \/ x \in R!Upserted(q)

\* A subject whose event is still to be written is as that event will say, any
\* other as the latest event says.
TrailInv ==
    /\ \A x \in R!Subjects \ overlapped, r \in Slots :
        Owes(roleReq[r], x) => R!Event(roleReq[r], x) = R!Row(x)
    /\ \A x \in R!Subjects \ (overlapped \cup unrecorded) :
        trail[x] = R!Row(x) \/ \E r \in Slots : Owes(roleReq[r], x)

RoleInv ==
    /\ RoleType /\ \A r \in Slots : RoleRequestOK(roleReq[r])
    /\ OneAbout /\ R!RolesStand /\ TrailInv

\* A step changes one request.
RoleOthers(r, q) ==
    /\ roleReq' \in [Slots -> RoleRequests] /\ roleReq'[r] = q
    /\ \A s \in Slots : s # r => roleReq'[s] = roleReq[s]

\* A step that rewrites its own request leaves those of the others.
LEMMA RoleEffect ==
    ASSUME roleReq \in [Slots -> RoleRequests], NEW r \in Slots, NEW q \in RoleRequests,
           roleReq' = [roleReq EXCEPT ![r] = q]
    PROVE  RoleOthers(r, q)
BY Zenon DEF RoleOthers

\* The free slot.
LEMMA RoleIdle ==
    ASSUME RolesData
    PROVE  /\ R!Idle \in RoleRequests /\ R!Idle.pc = "idle" /\ R!Idle.op = "none"
           /\ R!About(R!Idle) = {} /\ RoleRequestOK(R!Idle) /\ \A x : ~Owes(R!Idle, x)
<1>1. /\ R!Idle \in RoleRequests /\ R!Idle.pc = "idle" /\ R!Idle.op = "none"
    BY Zenon DEF RolesData, R!Idle, RoleRequests, RoleOps, R!Steps, R!EndUser, R!Codes, R!SystemRoles
<1>2. R!About(R!Idle) = {} /\ R!Upserted(R!Idle) = {}
    BY <1>1, Zenon DEF R!About, R!Changed, R!Upserted
<1>3. RoleRequestOK(R!Idle)
    BY <1>1, Zenon DEF RoleRequestOK
<1>4. \A x : ~Owes(R!Idle, x)
    BY <1>1, <1>2, Zenon DEF Owes
<1> QED
    BY <1>1, <1>2, <1>3, <1>4, Zenon

\* What a request may have changed is among what it is about.
LEMMA OwesAbout ==
    ASSUME NEW q, NEW x, Owes(q, x)
    PROVE  x \in R!Changed(q) /\ x \in R!About(q) /\ q.op # "none"
<1>1. CASE q.pc = "audit" /\ x \in R!Changed(q)
    BY <1>1, Zenon DEF R!About, R!Changed
<1>2. CASE x \in R!Upserted(q)
  <2>1. q.op = "bootstrap" /\ x \in R!SystemRoles
    BY <1>2, Zenon DEF R!Upserted
  <2> QED
    BY <2>1, Zenon DEF R!About, R!Changed
<1> QED
    BY <1>1, <1>2, Zenon DEF Owes

\* A request that goes on to its next store call.
LEMMA RoleGoto ==
    ASSUME roleReq \in [Slots -> RoleRequests], NEW r \in Slots, NEW step \in R!Steps,
           R!Goto(r, step)
    PROVE  \E q \in RoleRequests :
            /\ RoleOthers(r, q) /\ q.pc = step
            /\ q.op = roleReq[r].op /\ q.code = roleReq[r].code /\ q.user = roleReq[r].user
            /\ q.custom = roleReq[r].custom /\ q.mask = roleReq[r].mask /\ q.todo = roleReq[r].todo
<1> DEFINE q == [roleReq[r] EXCEPT !.pc = step]
<1>1. /\ q \in RoleRequests /\ q.pc = step
      /\ q.op = roleReq[r].op /\ q.code = roleReq[r].code /\ q.user = roleReq[r].user
      /\ q.custom = roleReq[r].custom /\ q.mask = roleReq[r].mask /\ q.todo = roleReq[r].todo
    BY Zenon DEF RoleRequests
<1>2. roleReq' = [roleReq EXCEPT ![r] = q]
    BY Zenon DEF R!Goto
<1> HIDE DEF q
<1> QED
    BY <1>1, <1>2, RoleEffect, Zenon

\* A request that keeps its operation and subject is about the same subjects, and
\* its event says the same.
LEMMA AboutSame ==
    ASSUME NEW p, NEW q, q.op = p.op, q.code = p.code, q.user = p.user
    PROVE  /\ R!About(q) = R!About(p) /\ R!Changed(q) = R!Changed(p)
           /\ q.mask = p.mask => \A x : R!Event(q, x) = R!Event(p, x)
BY Zenon DEF R!About, R!Changed, R!Event

\* Which requests are about the same, after a step that adds to what one of them
\* is about only what no other is, or what is put on record.
LEMMA AboutKept ==
    ASSUME OneAbout, NEW r \in Slots, NEW q, RoleOthers(r, q), overlapped \subseteq overlapped',
           \A x \in R!About(q) :
               x \in R!About(roleReq[r]) \/ x \in overlapped' \/ x \in DOMAIN Builtin \/ ~R!Busy(x)
    PROVE  OneAbout'
<1> SUFFICES ASSUME NEW s \in Slots, NEW t \in Slots, s # t,
                    NEW x \in R!About(roleReq'[s]) \cap R!About(roleReq'[t])
             PROVE  x \in overlapped' \/ x \in DOMAIN Builtin
    BY Zenon DEF OneAbout
<1>1. CASE s # r /\ t # r
    BY <1>1, Zenon DEF OneAbout, RoleOthers
<1>2. ASSUME NEW v \in Slots, v # r, x \in R!About(roleReq[v]), x \in R!About(q)
      PROVE  x \in overlapped' \/ x \in DOMAIN Builtin
  <2>1. R!Busy(x)
    BY <1>2, Zenon DEF R!Busy
  <2> QED
    BY <1>2, <2>1, Zenon DEF OneAbout
<1> QED
    BY <1>1, <1>2, Zenon DEF RoleOthers

\* The trail, after a step that records no event and changes the rows of D.
LEMMA TrailKept ==
    ASSUME TrailInv, NEW r \in Slots, NEW q, RoleOthers(r, q), UNCHANGED trail,
           overlapped \subseteq overlapped', unrecorded \subseteq unrecorded', NEW D,
           \A x \in R!Subjects : x \notin D => R!Row(x)' = R!Row(x),
           \A s \in Slots, x \in D :
               s # r /\ Owes(roleReq[s], x) => x \in overlapped' \/ R!Event(roleReq[s], x) = R!Row(x)',
           \A x \in D : Owes(q, x) \/ x \in unrecorded',
           \A x \in R!Subjects : Owes(q, x) => x \in overlapped' \/ R!Event(q, x) = R!Row(x)',
           \A x \in R!Subjects : Owes(roleReq[r], x) => Owes(q, x) \/ x \in unrecorded'
    PROVE  TrailInv'
<1>1. roleReq'[r] = q /\ \A s \in Slots : s # r => roleReq'[s] = roleReq[s]
    BY Zenon DEF RoleOthers
<1>2. ASSUME NEW x \in R!Subjects \ overlapped', NEW s \in Slots, Owes(roleReq'[s], x)
      PROVE  R!Event(roleReq'[s], x) = R!Row(x)'
  <2>1. CASE s = r
    BY <1>1, <1>2, <2>1, Zenon
  <2>2. CASE s # r
    BY <1>1, <1>2, <2>2, Zenon DEF TrailInv
  <2> QED
    BY <2>1, <2>2, Zenon
<1>3. ASSUME NEW x \in R!Subjects \ (overlapped' \cup unrecorded')
      PROVE  trail'[x] = R!Row(x)' \/ \E s \in Slots : Owes(roleReq'[s], x)
  <2>1. CASE x \in D
    BY <1>1, <1>3, <2>1, Zenon
  <2>2. CASE x \notin D
    <3>1. R!Row(x)' = R!Row(x) /\ x \in R!Subjects \ (overlapped \cup unrecorded)
      BY <1>3, <2>2, Zenon
    <3>2. CASE trail[x] = R!Row(x)
      BY <3>1, <3>2, Zenon
    <3>3. ASSUME NEW s \in Slots, Owes(roleReq[s], x)
          PROVE  \E v \in Slots : Owes(roleReq'[v], x)
      BY <1>1, <1>3, <3>3, Zenon
    <3> QED
      BY <3>1, <3>2, <3>3, Zenon DEF TrailInv
  <2> QED
    BY <2>1, <2>2, Zenon
<1> QED
    BY <1>2, <1>3, Zenon DEF TrailInv, Owes, R!Event, R!Changed, R!Upserted, R!SystemRoles, R!Subjects, R!Codes

\* Steps that change no row: a request that arrives, goes on, is refused or
\* fails.
LEMMA RoleControl ==
    ASSUME RolesData, RoleInv, NEW r \in Slots, NEW q \in RoleRequests, RoleOthers(r, q),
           UNCHANGED <<roles, role, mask, trail>>, roleCount' \in Nat,
           overlapped \subseteq overlapped', unrecorded \subseteq unrecorded',
           \A x \in R!About(q) :
               x \in R!About(roleReq[r]) \/ x \in overlapped' \/ x \in DOMAIN Builtin \/ ~R!Busy(x),
           \A x : ~Owes(q, x),
           \A x : Owes(roleReq[r], x) => x \in unrecorded', RoleRequestOK(q)'
    PROVE  RoleInv'
<1>1. RoleType'
    BY Zenon DEF RoleInv, RoleType, RoleOthers
<1>2. ASSUME NEW s \in Slots
      PROVE  RoleRequestOK(roleReq[s])'
  <2>1. CASE s = r
    BY <2>1, Zenon DEF RoleOthers
  <2>2. CASE s # r
    <3>1. roleReq'[s] = roleReq[s] /\ RoleRequestOK(roleReq[s])
      BY <2>2, Zenon DEF RoleInv, RoleOthers
    <3> QED
      BY <3>1, Zenon DEF RoleRequestOK, R!Unused
  <2> QED
    BY <2>1, <2>2, Zenon
<1>3. OneAbout'
    BY AboutKept, Zenon DEF RoleInv
<1>4. R!RolesStand'
    BY Zenon DEF RoleInv, R!RolesStand
<1>5. TrailInv'
  <2>1. \A x : R!Row(x)' = R!Row(x)
    BY Zenon DEF R!Row
  <2>2. PICK D : D = {}
    BY Zenon
  <2>3. /\ \A s \in Slots, x \in D :
             s # r /\ Owes(roleReq[s], x) => x \in overlapped' \/ R!Event(roleReq[s], x) = R!Row(x)'
        /\ \A x \in D : Owes(q, x) \/ x \in unrecorded'
    BY <2>2, Zenon
  <2>4. \A x \in R!Subjects : x \notin D => R!Row(x)' = R!Row(x)
    BY <2>1, Zenon
  <2> QED
    BY <2>3, <2>4, TrailKept, Zenon DEF RoleInv
<1> QED
    BY <1>1, <1>2, <1>3, <1>4, <1>5, Zenon DEF RoleInv

\* A request that arrives is recorded if another is about the same.
LEMMA RoleBegin ==
    ASSUME RolesData, RoleInv, NEW r \in Slots, NEW a, NEW q \in RoleRequests,
           R!Begin(r, a, q), R!At(r, "idle"), q.pc \in {"upsert", "find"}, q.op # "none",
           q.op = "bootstrap" <=> q.pc = "upsert",
           q.op = "bootstrap" => q.todo = DOMAIN Builtin,
           q.op = "assign" /\ q.custom => q.mask \in Masks,
           q.op \in {"create", "update"} => q.mask \in Masks
    PROVE  RoleInv'
<1>1. RoleOthers(r, q)
    BY RoleEffect, Zenon DEF RoleInv, RoleType, R!Begin
<1>2. UNCHANGED <<roles, role, mask, trail, unrecorded>> /\ roleCount' \in Nat
    BY DEF RoleInv, RoleType, R!Begin, R!rows
<1>3. overlapped' = overlapped \cup {x \in R!About(q) \ R!SystemRoles : R!Busy(x)}
    BY Zenon DEF R!Begin
<1>4. \A x : ~Owes(q, x)
    BY Zenon DEF Owes, R!Upserted, R!SystemRoles
<1>5. \A x : ~Owes(roleReq[r], x)
  <2>1. roleReq[r].op = "none"
    BY Zenon DEF R!At, RoleInv, RoleRequestOK
  <2> QED
    BY <2>1, OwesAbout, Zenon
<1>6. RoleRequestOK(q)'
    BY Zenon DEF RoleRequestOK
<1>7. \A x \in R!About(q) : x \in overlapped' \/ x \in DOMAIN Builtin \/ ~R!Busy(x)
    BY <1>3, Zenon DEF R!SystemRoles
<1> QED
    BY <1>1, <1>2, <1>3, <1>4, <1>5, <1>6, <1>7, RoleControl, Zenon

\* A request takes a free slot.
LEMMA RoleArrive ==
    ASSUME RolesData, RoleInv, NEW r \in Slots, R!Arrive(r)
    PROVE  RoleInv'
<1>1. R!At(r, "idle")
    BY Zenon DEF R!Arrive, R!Free
<1>2. ASSUME NEW a \in Users, R!Bootstrap(r, a)
      PROVE  RoleInv'
  <2> DEFINE q == [R!Idle EXCEPT !.pc = "upsert", !.op = "bootstrap", !.todo = R!SystemRoles]
  <2>1. q \in RoleRequests /\ q.pc = "upsert" /\ q.op = "bootstrap" /\ q.todo = DOMAIN Builtin
    BY RoleIdle, Zenon DEF RoleRequests, RoleOps, R!Steps, R!SystemRoles
  <2>2. R!Begin(r, a, q)
    BY <1>2, Zenon DEF R!Bootstrap
  <2> HIDE DEF q
  <2> QED
    BY <1>1, <2>1, <2>2, RoleBegin, Zenon
<1>3. ASSUME NEW a \in Users, NEW c \in R!Codes, NEW m \in Masks, R!CreateRole(r, a, c, m)
      PROVE  RoleInv'
  <2> DEFINE q == [R!Idle EXCEPT !.pc = "find", !.op = "create", !.code = c, !.mask = m]
  <2>1. q \in RoleRequests /\ q.pc = "find" /\ q.op = "create" /\ q.mask \in Masks
    BY RoleIdle, Zenon DEF RoleRequests, RoleOps, R!Steps, RoleMasks
  <2>2. R!Begin(r, a, q)
    BY <1>3, Zenon DEF R!CreateRole
  <2> HIDE DEF q
  <2> QED
    BY <1>1, <2>1, <2>2, RoleBegin, Zenon
<1>4. ASSUME NEW a \in Users, NEW c \in R!Codes, NEW m \in Masks, R!UpdateRole(r, a, c, m)
      PROVE  RoleInv'
  <2> DEFINE q == [R!Idle EXCEPT !.pc = "find", !.op = "update", !.code = c, !.mask = m]
  <2>1. q \in RoleRequests /\ q.pc = "find" /\ q.op = "update" /\ q.mask \in Masks
    BY RoleIdle, Zenon DEF RoleRequests, RoleOps, R!Steps, RoleMasks
  <2>2. R!Begin(r, a, q)
    BY <1>4, Zenon DEF R!UpdateRole
  <2> HIDE DEF q
  <2> QED
    BY <1>1, <2>1, <2>2, RoleBegin, Zenon
<1>5. ASSUME NEW a \in Users, NEW c \in R!Codes, R!DeleteRole(r, a, c)
      PROVE  RoleInv'
  <2> DEFINE q == [R!Idle EXCEPT !.pc = "find", !.op = "delete", !.code = c]
  <2>1. q \in RoleRequests /\ q.pc = "find" /\ q.op = "delete"
    BY RoleIdle, Zenon DEF RoleRequests, RoleOps, R!Steps
  <2>2. R!Begin(r, a, q)
    BY <1>5, Zenon DEF R!DeleteRole
  <2> HIDE DEF q
  <2> QED
    BY <1>1, <2>1, <2>2, RoleBegin, Zenon
<1>6. ASSUME NEW a \in Users, NEW c \in R!Codes, NEW u \in Users, R!AssignRole(r, a, u, c)
      PROVE  RoleInv'
  <2> DEFINE p == [R!Idle EXCEPT !.pc = "find", !.op = "assign", !.user = u, !.code = c]
             q(m) == [R!Idle EXCEPT !.pc = "find", !.op = "assign", !.user = u, !.code = c,
                                    !.custom = TRUE, !.mask = m]
  <2>1. p \in RoleRequests /\ p.pc = "find" /\ p.op = "assign" /\ ~p.custom
    BY RoleIdle, Zenon DEF RoleRequests, RoleOps, R!Steps, R!Idle
  <2>2. ASSUME NEW m \in Masks
        PROVE  q(m) \in RoleRequests /\ q(m).pc = "find" /\ q(m).op = "assign" /\ q(m).mask \in Masks
    BY RoleIdle, Zenon DEF RoleRequests, RoleOps, R!Steps, RoleMasks
  <2>3. R!Begin(r, a, p) \/ \E m \in Masks : R!Begin(r, a, q(m))
    BY <1>6, Zenon DEF R!AssignRole
  <2> HIDE DEF p, q
  <2>4. ASSUME R!Begin(r, a, p) PROVE RoleInv'
    BY <1>1, <2>1, <2>4, RoleBegin, Zenon
  <2>5. ASSUME NEW m \in Masks, R!Begin(r, a, q(m)) PROVE RoleInv'
    BY <1>1, <2>2, <2>5, RoleBegin, Zenon
  <2> QED
    BY <2>3, <2>4, <2>5, Zenon
<1> QED
    BY <1>2, <1>3, <1>4, <1>5, <1>6, Zenon DEF R!Arrive

\* The end of a request without an event, with what it may have changed on record.
LEMMA RoleReturn ==
    ASSUME RolesData, RoleInv, NEW r \in Slots, R!Return(r),
           UNCHANGED <<roles, role, mask, trail, overlapped, roleCount>>,
           unrecorded \subseteq unrecorded', \A x : Owes(roleReq[r], x) => x \in unrecorded'
    PROVE  RoleInv'
<1>1. RoleOthers(r, R!Idle)
    BY RoleIdle, RoleEffect, Zenon DEF RoleInv, RoleType, R!Return
<1>2. /\ R!Idle \in RoleRequests /\ R!Idle.op = "none" /\ R!Idle.pc = "idle"
      /\ R!About(R!Idle) = {} /\ \A x : ~Owes(R!Idle, x)
    BY RoleIdle, Zenon
<1>3. RoleRequestOK(R!Idle)'
    BY <1>2, Zenon DEF RoleRequestOK
<1>4. roleCount' \in Nat
    BY Zenon DEF RoleInv, RoleType
<1> QED
    BY <1>1, <1>2, <1>3, <1>4, RoleControl, Zenon

\* A request that is neither done nor a bootstrap has changed nothing.
LEMMA OwesNothing ==
    ASSUME NEW q, q.pc # "audit", q.op # "bootstrap"
    PROVE  \A x : ~Owes(q, x)
BY Zenon DEF Owes, R!Upserted

\* A request that goes on to its next store call, what it found being so.
LEMMA RoleStep ==
    ASSUME RolesData, RoleInv, NEW r \in Slots, NEW q \in RoleRequests, RoleOthers(r, q),
           roleReq[r].pc # "audit", q.pc # "audit", q.op # "bootstrap", RoleRequestOK(q),
           q.op = roleReq[r].op, q.code = roleReq[r].code, q.user = roleReq[r].user,
           UNCHANGED <<roles, role, mask, trail, unrecorded, overlapped, roleCount>>
    PROVE  RoleInv'
<1>1. R!About(q) = R!About(roleReq[r])
    BY AboutSame, Zenon
<1>2. RoleRequestOK(q)'
    BY Zenon DEF RoleRequestOK, R!Unused
<1>3. roleCount' \in Nat
    BY Zenon DEF RoleInv, RoleType
<1>4. (\A x : ~Owes(q, x)) /\ \A x : ~Owes(roleReq[r], x)
    BY OwesNothing, Zenon
<1> QED
    BY <1>1, <1>2, <1>3, <1>4, RoleControl, Zenon

\* FindByRoleCode: what the operations find is so when they go on.
LEMMA RoleFind ==
    ASSUME RolesData, RoleInv, NEW r \in Slots, R!FindByRoleCode(r)
    PROVE  RoleInv'
<1>1. /\ roleReq[r] \in RoleRequests /\ roleReq \in [Slots -> RoleRequests]
      /\ roleReq[r].pc = "find" /\ RoleRequestOK(roleReq[r])
      /\ UNCHANGED <<roles, role, mask, trail, unrecorded, overlapped, roleCount>>
    BY Zenon DEF RoleInv, RoleType, R!FindByRoleCode, R!At, R!history, R!rows
<1>2. /\ roles \in [R!Codes -> RoleMasks \cup {R!Absent}] /\ roleReq[r].code \in R!Codes
      /\ \A c \in DOMAIN Builtin : roles[c] # R!Absent
    BY <1>1, Zenon DEF RolesData, RoleInv, RoleType, RoleRequests, R!RolesStand, R!SystemRoles
<1>3. CASE R!Return(r)
  <2>1. unrecorded \subseteq unrecorded' /\ \A x : ~Owes(roleReq[r], x)
    BY <1>1, OwesNothing, Zenon DEF RoleRequestOK
  <2> QED
    BY <1>1, <1>3, <2>1, RoleReturn, Zenon
<1>4. ASSUME NEW step \in {"count", "write"}, R!Goto(r, step),
             \/ roleReq[r].op = "create" /\ step = "write"
             \/ /\ roleReq[r].op \in {"update", "delete"} /\ R!MayChange(roleReq[r])
                /\ step = IF roleReq[r].op = "delete" THEN "count" ELSE "write"
      PROVE  RoleInv'
  <2>1. step \in R!Steps
    BY Zenon DEF R!Steps
  <2>2. PICK q \in RoleRequests :
          /\ RoleOthers(r, q) /\ q.pc = step
          /\ q.op = roleReq[r].op /\ q.code = roleReq[r].code /\ q.user = roleReq[r].user
          /\ q.custom = roleReq[r].custom /\ q.mask = roleReq[r].mask
    BY <1>1, <1>4, <2>1, RoleGoto, Zenon
  <2>3. RoleRequestOK(q)
    BY <1>1, <1>4, <2>2, Zenon DEF RoleRequestOK, R!MayChange, R!SystemRoles
  <2>4. q.pc # "audit" /\ q.op # "bootstrap"
    BY <1>1, <2>2, <2>3, Zenon DEF RoleRequestOK
  <2> QED
    BY <1>1, <2>2, <2>3, <2>4, RoleStep, Zenon
<1>5. ASSUME roleReq[r].op = "assign", R!Assignable(roleReq[r]),
             roleReq' = [roleReq EXCEPT ![r].pc = "write",
                            ![r].mask = IF roleReq[r].custom THEN @ ELSE roles[roleReq[r].code]]
      PROVE  RoleInv'
  <2> DEFINE q == [roleReq[r] EXCEPT !.pc = "write",
                      !.mask = IF roleReq[r].custom THEN @ ELSE roles[roleReq[r].code]]
  <2>1. roles[roleReq[r].code] \in RoleMasks /\ roles[roleReq[r].code] # R!Absent
    BY <1>2, <1>5, Zenon DEF R!Assignable
  <2>2. /\ q \in RoleRequests /\ q.pc = "write" /\ q.op = roleReq[r].op
        /\ q.code = roleReq[r].code /\ q.user = roleReq[r].user /\ q.custom = roleReq[r].custom
        /\ q.mask = IF roleReq[r].custom THEN roleReq[r].mask ELSE roles[roleReq[r].code]
    BY <1>1, <2>1, Zenon DEF RoleRequests, R!Steps
  <2>3. roleReq' = [roleReq EXCEPT ![r] = q]
    BY <1>1, <1>5, Zenon
  <2> HIDE DEF q
  <2>4. RoleOthers(r, q)
    BY <1>1, <2>2, <2>3, RoleEffect, Zenon
  <2>5. RoleRequestOK(q)
    BY <1>1, <1>5, <2>1, <2>2, Zenon DEF RoleRequestOK, RoleMasks
  <2> QED
    BY <1>1, <1>5, <2>2, <2>4, <2>5, RoleStep, Zenon
<1>6. \/ R!Return(r)
      \/ \E step \in {"count", "write"} :
           /\ R!Goto(r, step)
           /\ \/ roleReq[r].op = "create" /\ step = "write"
              \/ /\ roleReq[r].op \in {"update", "delete"} /\ R!MayChange(roleReq[r])
                 /\ step = IF roleReq[r].op = "delete" THEN "count" ELSE "write"
      \/ /\ roleReq[r].op = "assign" /\ R!Assignable(roleReq[r])
         /\ roleReq' = [roleReq EXCEPT ![r].pc = "write",
                           ![r].mask = IF roleReq[r].custom THEN @ ELSE roles[roleReq[r].code]]
    BY Zenon DEF R!FindByRoleCode
<1> QED
    BY <1>3, <1>4, <1>5, <1>6, Zenon

\* CountByRoleCode: the role is unused when DeleteRole goes on.
LEMMA RoleCountStep ==
    ASSUME RolesData, RoleInv, NEW r \in Slots, R!CountByRoleCode(r)
    PROVE  RoleInv'
<1>1. /\ roleReq[r] \in RoleRequests /\ roleReq \in [Slots -> RoleRequests]
      /\ roleReq[r].pc = "count" /\ RoleRequestOK(roleReq[r])
      /\ UNCHANGED <<roles, role, mask, trail, unrecorded, overlapped, roleCount>>
    BY Zenon DEF RoleInv, RoleType, R!CountByRoleCode, R!At, R!history, R!rows
<1>2. CASE R!Return(r)
  <2>1. unrecorded \subseteq unrecorded' /\ \A x : ~Owes(roleReq[r], x)
    BY <1>1, OwesNothing, Zenon DEF RoleRequestOK
  <2> QED
    BY <1>1, <1>2, <2>1, RoleReturn, Zenon
<1>3. CASE R!Unused(roleReq[r].code) /\ R!Goto(r, "write")
  <2>1. "write" \in R!Steps
    BY Zenon DEF R!Steps
  <2>2. PICK q \in RoleRequests :
          /\ RoleOthers(r, q) /\ q.pc = "write"
          /\ q.op = roleReq[r].op /\ q.code = roleReq[r].code /\ q.user = roleReq[r].user
          /\ q.custom = roleReq[r].custom /\ q.mask = roleReq[r].mask
    BY <1>1, <1>3, <2>1, RoleGoto
  <2>3. RoleRequestOK(q)
    BY <1>1, <1>3, <2>2, Zenon DEF RoleRequestOK
  <2>4. q.pc # "audit" /\ q.op # "bootstrap"
    BY <1>1, <2>2, <2>3, Zenon DEF RoleRequestOK
  <2> QED
    BY <1>1, <2>2, <2>3, <2>4, RoleStep, Zenon
<1> QED
    BY <1>2, <1>3, Zenon DEF R!CountByRoleCode

\* A store call fails and the request ends; a bootstrap leaves its upserts.
LEMMA RoleFails ==
    ASSUME RolesData, RoleInv, NEW r \in Slots, R!CallFails(r)
    PROVE  RoleInv'
<1>1. \A x : Owes(roleReq[r], x) => x \in unrecorded'
    BY Zenon DEF R!CallFails, R!Fail, Owes
<1> QED
    BY <1>1, RoleReturn, Zenon DEF R!CallFails, R!Fail, R!rows

\* Steps that change the rows of D.  The other rows and what other requests know
\* of them stay, unless they overlap.
LEMMA RoleChange ==
    ASSUME RolesData, RoleInv, NEW r \in Slots, NEW q \in RoleRequests, RoleOthers(r, q),
           UNCHANGED <<trail, overlapped, roleCount>>, unrecorded \subseteq unrecorded',
           roles' \in [R!Codes -> RoleMasks \cup {R!Absent}],
           role' \in [Users -> R!Codes], mask' \in [Users -> RoleMasks],
           R!RolesStand', RoleRequestOK(q)', R!About(q) \subseteq R!About(roleReq[r]),
           \A c \in R!Codes : c \notin R!About(roleReq[r]) =>
               /\ roles[c] # R!Absent => roles'[c] # R!Absent
               /\ R!Unused(c) => R!Unused(c)',
           NEW D, \A x \in R!Subjects : x \notin D => R!Row(x)' = R!Row(x),
           \A s \in Slots, x \in D :
               s # r /\ Owes(roleReq[s], x) => x \in overlapped' \/ R!Event(roleReq[s], x) = R!Row(x)',
           \A x \in D : Owes(q, x) \/ x \in unrecorded',
           \A x \in R!Subjects : Owes(q, x) => x \in overlapped' \/ R!Event(q, x) = R!Row(x)',
           \A x \in R!Subjects : Owes(roleReq[r], x) => Owes(q, x) \/ x \in unrecorded'
    PROVE  RoleInv'
<1>1. RoleType'
    BY Zenon DEF RoleInv, RoleType, RoleOthers
<1>2. ASSUME NEW s \in Slots
      PROVE  RoleRequestOK(roleReq[s])'
  <2>1. CASE s = r
    BY <2>1, Zenon DEF RoleOthers
  <2>2. CASE s # r
    <3>1. /\ roleReq'[s] = roleReq[s] /\ RoleRequestOK(roleReq[s]) /\ roleReq[s] \in RoleRequests
      BY <2>2, Zenon DEF RoleInv, RoleType, RoleOthers
    <3>2. PICK p \in RoleRequests : p = roleReq[s]
      BY <3>1, Zenon
    <3>3. p.op \in {"update", "delete", "assign"} => p.code \in R!About(p)
      BY Zenon DEF R!About, R!Changed
    <3>4. p.op \in {"update", "delete", "assign"} /\ p.code \in R!About(roleReq[r]) =>
            p.code \in overlapped \/ p.code \in DOMAIN Builtin
      BY <2>2, <3>2, <3>3, Zenon DEF RoleInv, OneAbout
    <3>5. p.code \in R!Codes /\ (p.code \in DOMAIN Builtin => roles'[p.code] # R!Absent)
      BY Zenon DEF RolesData, RoleRequests, R!RolesStand, R!SystemRoles
    <3>6. RoleRequestOK(p)'
      BY <3>1, <3>2, <3>4, <3>5, Zenon DEF RoleRequestOK
    <3> QED
      BY <3>1, <3>2, <3>6, Zenon DEF RoleRequestOK, R!Unused
  <2> QED
    BY <2>1, <2>2, Zenon
<1>3. OneAbout'
    BY AboutKept, Zenon DEF RoleInv
<1>4. TrailInv'
    BY TrailKept, Zenon DEF RoleInv
<1> QED
    BY <1>1, <1>2, <1>3, <1>4, Zenon DEF RoleInv

\* Upsert: a system role is as built in, which all bootstraps say.
LEMMA RoleUpsert ==
    ASSUME RolesData, RoleInv, NEW r \in Slots, R!Upsert(r)
    PROVE  RoleInv'
<1>1. PICK p \in RoleRequests : p = roleReq[r]
    BY Zenon DEF RoleInv, RoleType
<1>2. PICK c \in p.todo :
        /\ roles' = [roles EXCEPT ![c] = Builtin[c]]
        /\ \/ /\ roleReq' = [roleReq EXCEPT ![r].todo = @ \ {c},
                                    ![r].pc = IF roleReq[r].todo = {c} THEN "audit" ELSE @]
              /\ UNCHANGED unrecorded
           \/ R!Return(r) /\ unrecorded' = unrecorded \cup R!Upserted(p) \cup {c}
    BY <1>1, Zenon DEF R!Upsert, R!Fail
<1>3. /\ roleReq \in [Slots -> RoleRequests] /\ p.pc = "upsert" /\ p.op = "bootstrap" /\ RoleRequestOK(p)
      /\ UNCHANGED <<role, mask, trail, overlapped, roleCount>>
    BY <1>1, Zenon DEF RoleInv, RoleType, RoleRequestOK, R!Upsert, R!At
<1>4. /\ roles \in [R!Codes -> RoleMasks \cup {R!Absent}] /\ p.todo \subseteq DOMAIN Builtin
      /\ role \in [Users -> R!Codes] /\ mask \in [Users -> RoleMasks] /\ R!RolesStand
      /\ DOMAIN Builtin \subseteq R!Codes /\ Users \cap R!Codes = {}
    BY Zenon DEF RolesData, RoleInv, RoleType, RoleRequests, R!Codes, R!SystemRoles
<1>5. c \in DOMAIN Builtin /\ c \in R!Codes /\ Builtin[c] \in RoleMasks /\ Builtin[c] # R!Absent
    BY <1>4, Zenon DEF RolesData, RoleMasks
<1>6. /\ roles' \in [R!Codes -> RoleMasks \cup {R!Absent}] /\ roles'[c] = Builtin[c]
      /\ \A d \in R!Codes : d # c => roles'[d] = roles[d]
    BY <1>2, <1>4, <1>5, Zenon
<1>7. R!RolesStand'
  <2>1. \A d \in DOMAIN Builtin : roles'[d] \in {Seeded[d], Builtin[d]}
    BY <1>4, <1>6, Zenon DEF R!RolesStand, R!SystemRoles
  <2>2. ASSUME NEW u \in Users
        PROVE  roles'[role[u]] # R!Absent \/ role[u] \in overlapped
    BY <1>4, <1>5, <1>6, Zenon DEF R!RolesStand
  <2> QED
    BY <1>3, <2>1, <2>2, Zenon DEF R!RolesStand, R!SystemRoles
<1>8. \A d \in R!Codes : /\ roles[d] # R!Absent => roles'[d] # R!Absent
                         /\ R!Unused(d) => R!Unused(d)'
    BY <1>3, <1>5, <1>6, Zenon DEF R!Unused
<1>9. (\A x \in R!Subjects : x \notin {c} => R!Row(x)' = R!Row(x)) /\ R!Row(c)' = Builtin[c]
    BY <1>3, <1>5, <1>6, Zenon DEF R!Row
<1>10. ASSUME NEW s \in Slots, Owes(roleReq[s], c)
       PROVE  R!Event(roleReq[s], c) = Builtin[c]
  <2>1. c \in R!Changed(roleReq[s]) /\ roleReq[s] \in RoleRequests /\ RoleRequestOK(roleReq[s])
    BY <1>10, OwesAbout, Zenon DEF RoleInv, RoleType
  <2>2. PICK v \in RoleRequests : v = roleReq[s]
    BY <2>1, Zenon
  <2>3. v.op \in {"create", "update", "delete"} => v.code = c /\ v.pc = "audit"
    BY <1>10, <2>1, <2>2, Zenon DEF R!Changed, Owes, R!Upserted
  <2>4. v.op = "assign" => v.user = c
    BY <2>1, <2>2, Zenon DEF R!Changed
  <2>5. v.op \notin {"create", "update", "delete"}
    BY <1>5, <2>1, <2>2, <2>3, Zenon DEF RoleRequestOK
  <2>6. v.op # "assign"
    BY <1>4, <1>5, <2>4, Zenon DEF RoleRequests
  <2>7. v.op = "bootstrap"
    BY <2>1, <2>2, <2>5, <2>6, Zenon DEF R!Changed
  <2> QED
    BY <2>2, <2>7, Zenon DEF R!Event
<1>11. \A x \in {c} : \A s \in Slots : Owes(roleReq[s], x) => R!Event(roleReq[s], x) = R!Row(x)'
    BY <1>9, <1>10, Zenon
<1>12. \A x : Owes(p, x) <=> x \in DOMAIN Builtin \ p.todo
    BY <1>3, Zenon DEF Owes, R!Upserted, R!SystemRoles
<1>13. \A x \in R!Subjects : x \in DOMAIN Builtin \ p.todo => x \in overlapped' \/ R!Row(x)' = Builtin[x]
  <2> SUFFICES ASSUME NEW x \in DOMAIN Builtin \ p.todo, x \in R!Subjects, x \notin overlapped
               PROVE  R!Row(x)' = Builtin[x]
    BY <1>3, Zenon
  <2>1. R!Event(p, x) = R!Row(x)
    BY <1>1, <1>12, Zenon DEF RoleInv, TrailInv
  <2>2. R!Event(p, x) = Builtin[x]
    BY <1>3, Zenon DEF R!Event
  <2> QED
    BY <1>9, <2>1, <2>2, Zenon
<1>14. CASE R!Return(r) /\ unrecorded' = unrecorded \cup R!Upserted(p) \cup {c}
  <2>1. /\ RoleOthers(r, R!Idle) /\ R!Idle \in RoleRequests /\ R!About(R!Idle) = {}
        /\ \A x : ~Owes(R!Idle, x)
    BY <1>3, <1>14, RoleIdle, RoleEffect, Zenon DEF R!Return
  <2>2. RoleRequestOK(R!Idle)'
    BY RoleIdle, Zenon DEF RoleRequestOK
  <2>3. \A x : Owes(p, x) => x \in unrecorded'
    BY <1>3, <1>14, Zenon DEF Owes
  <2>4. unrecorded \subseteq unrecorded' /\ c \in unrecorded'
    BY <1>14, Zenon
  <2>5. PICK D : D = {c}
    BY Zenon
  <2>6. role' \in [Users -> R!Codes] /\ mask' \in [Users -> RoleMasks]
    BY <1>3, <1>4, Zenon
  <2>7. /\ \A x \in R!Subjects : x \notin D => R!Row(x)' = R!Row(x)
        /\ \A s \in Slots, x \in D :
             s # r /\ Owes(roleReq[s], x) => x \in overlapped' \/ R!Event(roleReq[s], x) = R!Row(x)'
        /\ \A x \in D : x \in unrecorded'
    BY <1>9, <1>11, <2>4, <2>5, Zenon
  <2>8. /\ \A x : Owes(roleReq[r], x) => x \in unrecorded'
        /\ R!About(R!Idle) \subseteq R!About(roleReq[r])
    BY <1>1, <2>1, <2>3, Zenon
  <2> QED
    BY <1>3, <1>6, <1>7, <1>8, <2>1, <2>2, <2>4, <2>6, <2>7, <2>8, RoleChange, Zenon
<1>15. CASE /\ roleReq' = [roleReq EXCEPT ![r].todo = @ \ {c},
                              ![r].pc = IF roleReq[r].todo = {c} THEN "audit" ELSE @]
            /\ UNCHANGED unrecorded
  <2> DEFINE q == [p EXCEPT !.todo = @ \ {c}, !.pc = IF p.todo = {c} THEN "audit" ELSE @]
  <2>1. /\ q \in RoleRequests /\ q.op = p.op /\ q.code = p.code /\ q.user = p.user
        /\ q.todo = p.todo \ {c} /\ q.pc = IF p.todo = {c} THEN "audit" ELSE p.pc
    BY <1>4, Zenon DEF RoleRequests, R!Steps
  <2>2. roleReq' = [roleReq EXCEPT ![r] = q]
    BY <1>1, <1>3, <1>15, Zenon
  <2> HIDE DEF q
  <2>3. RoleOthers(r, q)
    BY <1>3, <2>1, <2>2, RoleEffect, Zenon
  <2>4. R!About(q) = R!About(p)
    BY <2>1, AboutSame, Zenon
  <2>5. RoleRequestOK(q)'
    <3>1. q.op = "bootstrap" /\ q.pc \in {"upsert", "audit"} /\ (q.pc = "audit" => q.todo = {})
      BY <1>3, <2>1, Zenon
    <3> QED
      BY <3>1, Zenon DEF RoleRequestOK
  <2>6. \A x : Owes(q, x) <=> x \in DOMAIN Builtin \ (p.todo \ {c})
    <3>1. q.op = "bootstrap" /\ (q.pc = "audit" => q.todo = {}) /\ q.todo = p.todo \ {c}
      BY <1>3, <2>1, Zenon
    <3>2. R!Changed(q) = DOMAIN Builtin /\ R!Upserted(q) = DOMAIN Builtin \ q.todo
      BY <3>1, Zenon DEF R!Changed, R!Upserted, R!SystemRoles
    <3> QED
      BY <3>1, <3>2, Zenon DEF Owes
  <2>7. \A x \in R!Subjects : Owes(q, x) => x \in overlapped' \/ R!Event(q, x) = R!Row(x)'
    <3>1. \A x : R!Event(q, x) = Builtin[x]
      BY <1>3, <2>1, Zenon DEF R!Event
    <3> QED
      BY <1>9, <1>13, <2>6, <3>1, Zenon
  <2>8. PICK D : D = {c}
    BY Zenon
  <2>9. role' \in [Users -> R!Codes] /\ mask' \in [Users -> RoleMasks] /\ unrecorded \subseteq unrecorded'
    BY <1>3, <1>4, <1>15, Zenon
  <2>10. (\A x \in D : Owes(q, x)) /\ \A x : Owes(p, x) => Owes(q, x)
    BY <1>5, <1>12, <2>6, <2>8, Zenon
  <2>11. /\ \A x \in R!Subjects : x \notin D => R!Row(x)' = R!Row(x)
         /\ \A s \in Slots, x \in D :
              s # r /\ Owes(roleReq[s], x) => x \in overlapped' \/ R!Event(roleReq[s], x) = R!Row(x)'
    BY <1>9, <1>11, <2>8, Zenon
  <2>12. /\ \A x : Owes(roleReq[r], x) => Owes(q, x)
         /\ R!About(q) \subseteq R!About(roleReq[r])
    BY <1>1, <2>4, <2>10, Zenon
  <2> QED
    BY <1>3, <1>6, <1>7, <1>8, <2>1, <2>3, <2>5, <2>7, <2>9, <2>10, <2>11, <2>12, RoleChange, Zenon
<1> QED
    BY <1>2, <1>14, <1>15, Zenon

\* A write of the row of a request's subject, with what the event will say; the
\* answer may be lost.
LEMMA RoleWritten ==
    ASSUME RolesData, RoleInv, NEW r \in Slots, NEW p \in RoleRequests, p = roleReq[r], p.pc = "write",
           p.op \in {"create", "update", "delete", "assign"},
           p.op # "assign" => p.code \notin DOMAIN Builtin,
           UNCHANGED <<trail, overlapped, roleCount>>,
           \/ R!Goto(r, "audit") /\ UNCHANGED unrecorded
           \/ R!Return(r) /\ unrecorded' = unrecorded \cup R!Changed(p),
           roles' \in [R!Codes -> RoleMasks \cup {R!Absent}],
           role' \in [Users -> R!Codes], mask' \in [Users -> RoleMasks], R!RolesStand',
           \A x \in R!Subjects : x \notin R!Changed(p) => R!Row(x)' = R!Row(x),
           \A x \in R!Changed(p) : x \in overlapped \/ R!Event(p, x) = R!Row(x)',
           \A c \in R!Codes : c # p.code => /\ roles[c] # R!Absent => roles'[c] # R!Absent
                                            /\ R!Unused(c) => R!Unused(c)'
    PROVE  RoleInv'
<1>1. R!Changed(p) \cap DOMAIN Builtin = {} /\ R!Changed(p) \subseteq R!About(p) /\ p.code \in R!About(p)
  <2>1. p.user \in Users /\ DOMAIN Builtin \subseteq R!Codes
    BY Zenon DEF RoleRequests, R!Codes, R!SystemRoles
  <2>2. p.op = "assign" => R!Changed(p) = {p.user}
    BY Zenon DEF R!Changed
  <2>3. p.op # "assign" => R!Changed(p) = {p.code}
    BY Zenon DEF R!Changed
  <2>4. R!Changed(p) \cap DOMAIN Builtin = {}
    BY <2>1, <2>2, <2>3, Zenon DEF RolesData
  <2>5. R!About(p) = R!Changed(p) \cup (IF p.op = "assign" THEN {p.code} ELSE {})
    BY Zenon DEF R!About
  <2>6. p.code \in R!About(p)
    <3>1. CASE p.op = "assign"
      BY <2>5, <3>1, Zenon
    <3>2. CASE p.op # "assign"
      BY <2>3, <2>5, <3>2, Zenon
    <3> QED
      BY <3>1, <3>2, Zenon
  <2>7. R!Changed(p) \subseteq R!About(p)
    BY <2>5
  <2> QED
    BY <2>4, <2>6, <2>7, Zenon
<1>2. \A s \in Slots, x \in R!Changed(p) : s # r /\ Owes(roleReq[s], x) => x \in overlapped'
    BY <1>1, OwesAbout, Zenon DEF RoleInv, OneAbout
<1>3. RoleRequestOK(p) /\ roleReq \in [Slots -> RoleRequests] /\ \A x : ~Owes(p, x)
    BY OwesNothing, Zenon DEF RoleInv, RoleType
<1>4. PICK D : D = R!Changed(p)
    BY Zenon
<1>5. /\ \A x \in R!Subjects : x \notin D => R!Row(x)' = R!Row(x)
      /\ \A s \in Slots, x \in D :
           s # r /\ Owes(roleReq[s], x) => x \in overlapped' \/ R!Event(roleReq[s], x) = R!Row(x)'
      /\ \A c \in R!Codes : c \notin R!About(roleReq[r]) =>
           /\ roles[c] # R!Absent => roles'[c] # R!Absent
           /\ R!Unused(c) => R!Unused(c)'
  <2>1. \A x \in R!Subjects : x \notin D => R!Row(x)' = R!Row(x)
    BY <1>4, Zenon
  <2>2. \A s \in Slots, x \in D : s # r /\ Owes(roleReq[s], x) => x \in overlapped'
    BY <1>2, <1>4, Zenon
  <2>3. ASSUME NEW c \in R!Codes, c \notin R!About(roleReq[r])
        PROVE  /\ roles[c] # R!Absent => roles'[c] # R!Absent
               /\ R!Unused(c) => R!Unused(c)'
    <3>1. c # p.code
      BY <1>1, <2>3, Zenon
    <3> QED
      BY <3>1, Zenon
  <2> QED
    BY <2>1, <2>2, <2>3, Zenon
<1>6. CASE R!Return(r) /\ unrecorded' = unrecorded \cup R!Changed(p)
  <2>1. /\ RoleOthers(r, R!Idle) /\ R!Idle \in RoleRequests /\ R!About(R!Idle) = {}
        /\ \A x : ~Owes(R!Idle, x)
    BY <1>3, <1>6, RoleIdle, RoleEffect, Zenon DEF R!Return
  <2>2. RoleRequestOK(R!Idle)'
    BY RoleIdle, Zenon DEF RoleRequestOK
  <2>3. unrecorded \subseteq unrecorded' /\ \A x \in D : x \in unrecorded'
    BY <1>4, <1>6, Zenon
  <2>4. R!About(R!Idle) \subseteq R!About(roleReq[r])
    BY <2>1, Zenon
  <2> QED
    BY <1>3, <1>5, <2>1, <2>2, <2>3, <2>4, RoleChange, Zenon
<1>7. CASE R!Goto(r, "audit") /\ UNCHANGED unrecorded
  <2>1. "audit" \in R!Steps
    BY Zenon DEF R!Steps
  <2>2. PICK q \in RoleRequests :
          /\ RoleOthers(r, q) /\ q.pc = "audit" /\ q.op = p.op /\ q.code = p.code
          /\ q.user = p.user /\ q.custom = p.custom /\ q.mask = p.mask
    BY <1>3, <1>7, <2>1, RoleGoto, Zenon
  <2>3. /\ R!About(q) = R!About(p) /\ R!Changed(q) = R!Changed(p)
        /\ \A x : R!Event(q, x) = R!Event(p, x)
    <3>1. q.op = p.op /\ q.code = p.code /\ q.user = p.user /\ q.mask = p.mask
      BY <2>2, Zenon
    <3> QED
      BY <3>1, AboutSame
  <2>4. RoleRequestOK(q)'
    <3>1. /\ q.op = "assign" => q.mask \in RoleMasks
          /\ q.op = "assign" /\ q.custom => q.mask \in Masks
          /\ q.op \in {"create", "update"} => q.mask \in Masks
      BY <1>3, <2>2, Zenon DEF RoleRequestOK
    <3>2. q.op \in {"create", "update", "delete"} => q.code \notin DOMAIN Builtin
      BY <2>2, Zenon
    <3>3. q.op \notin {"none", "bootstrap"}
      BY <2>2, Zenon
    <3> QED
      BY <2>2, <3>1, <3>2, <3>3, Zenon DEF RoleRequestOK
  <2>5. \A x : Owes(q, x) <=> x \in D
    BY <1>4, <2>2, <2>3, OwesAbout, Zenon DEF Owes
  <2>6. \A x \in R!Subjects : Owes(q, x) => x \in overlapped' \/ R!Event(q, x) = R!Row(x)'
    BY <1>4, <2>3, <2>5, Zenon
  <2>7. unrecorded \subseteq unrecorded' /\ R!About(q) \subseteq R!About(roleReq[r])
    BY <1>7, <2>3, Zenon
  <2>8. RoleOthers(r, q) /\ \A x \in D : Owes(q, x)
    BY <2>2, <2>5, Zenon
  <2> QED
    BY <1>3, <1>5, <2>4, <2>6, <2>7, <2>8, RoleChange, Zenon
<1> QED
    BY <1>6, <1>7, Zenon

\* Write: the row of the request's subject is changed.
LEMMA RoleWrite ==
    ASSUME RolesData, RoleInv, NEW r \in Slots, R!Write(r)
    PROVE  RoleInv'
<1>1. PICK p \in RoleRequests : p = roleReq[r]
    BY Zenon DEF RoleInv, RoleType
<1>2. /\ p.pc = "write" /\ RoleRequestOK(p) /\ \A x : ~Owes(p, x)
      /\ UNCHANGED <<trail, overlapped, roleCount>>
  <2>1. p.pc = "write" /\ RoleRequestOK(p) /\ UNCHANGED <<trail, overlapped, roleCount>>
    BY <1>1, Zenon DEF RoleInv, R!Write, R!At
  <2> QED
    BY <2>1, OwesNothing, Zenon DEF RoleRequestOK
<1>3. /\ roles \in [R!Codes -> RoleMasks \cup {R!Absent}] /\ p.code \in R!Codes
      /\ role \in [Users -> R!Codes] /\ mask \in [Users -> RoleMasks] /\ p.user \in Users
      /\ R!RolesStand /\ Users \cap R!Codes = {} /\ DOMAIN Builtin \subseteq R!Codes
      /\ \A c \in DOMAIN Builtin : roles[c] # R!Absent
      /\ Masks \subseteq RoleMasks /\ R!Absent \notin Masks
    BY Zenon DEF RolesData, RoleInv, RoleType, RoleRequests, R!RolesStand, R!SystemRoles, R!Codes, RoleMasks
<1>4. CASE R!Return(r) /\ UNCHANGED <<R!rows, unrecorded>>
  <2>1. UNCHANGED <<roles, role, mask>> /\ unrecorded \subseteq unrecorded'
    BY <1>4, Zenon DEF R!rows
  <2> QED
    BY <1>1, <1>2, <1>4, <2>1, RoleReturn, Zenon
<1>5. ASSUME R!WriteRow(p), \/ R!Goto(r, "audit") /\ UNCHANGED unrecorded
                            \/ R!Return(r) /\ unrecorded' = unrecorded \cup R!Changed(p)
      PROVE  RoleInv'
  <2>1. ASSUME p.op \in {"create", "update", "delete"}, p.code \notin DOMAIN Builtin,
               NEW m \in RoleMasks \cup {R!Absent}, roles' = [roles EXCEPT ![p.code] = m],
               UNCHANGED <<role, mask>>,
               p.code \notin overlapped => m = IF p.op = "delete" THEN R!Absent ELSE p.mask,
               m = R!Absent => R!Unused(p.code) \/ p.code \in overlapped \/ roles[p.code] = R!Absent
        PROVE  RoleInv'
    <3>1. /\ roles' \in [R!Codes -> RoleMasks \cup {R!Absent}] /\ roles'[p.code] = m
          /\ \A c \in R!Codes : c # p.code => roles'[c] = roles[c]
      BY <1>3, <2>1, Zenon
    <3>2. R!RolesStand'
      <4>1. \A c \in DOMAIN Builtin : roles'[c] \in {Seeded[c], Builtin[c]}
        BY <1>3, <2>1, <3>1, Zenon DEF R!RolesStand, R!SystemRoles
      <4>2. ASSUME NEW u \in Users
            PROVE  roles'[role[u]] # R!Absent \/ role[u] \in overlapped
        BY <1>3, <2>1, <3>1, Zenon DEF R!RolesStand, R!Unused
      <4> QED
        BY <1>2, <2>1, <4>1, <4>2, Zenon DEF R!RolesStand, R!SystemRoles
    <3>3. R!Changed(p) = {p.code} /\ \A x : R!Event(p, x) = IF p.op = "delete" THEN R!Absent ELSE p.mask
      BY <2>1, Zenon DEF R!Changed, R!Event
    <3>4. \A x \in R!Subjects : x \notin R!Changed(p) => R!Row(x)' = R!Row(x)
      BY <2>1, <3>1, <3>3, Zenon DEF R!Row
    <3>5. R!Row(p.code)' = m
      BY <1>3, <3>1, Zenon DEF R!Row
    <3>6. \A x \in R!Changed(p) : x \in overlapped \/ R!Event(p, x) = R!Row(x)'
      BY <2>1, <3>3, <3>5, Zenon
    <3>7. \A c \in R!Codes : c # p.code => /\ roles[c] # R!Absent => roles'[c] # R!Absent
                                           /\ R!Unused(c) => R!Unused(c)'
      BY <2>1, <3>1, Zenon DEF R!Unused
    <3>8. role' \in [Users -> R!Codes] /\ mask' \in [Users -> RoleMasks]
      BY <1>3, <2>1, Zenon
    <3>9. p.op \in {"create", "update", "delete", "assign"} /\ p.code \notin DOMAIN Builtin
      BY <2>1, Zenon
    <3> QED
      BY <1>1, <1>2, <1>5, <3>1, <3>2, <3>4, <3>6, <3>7, <3>8, <3>9, RoleWritten, Zenon
  <2>2. CASE p.op = "create"
    <3>1. roles[p.code] = R!Absent /\ roles' = [roles EXCEPT ![p.code] = p.mask] /\ UNCHANGED <<role, mask>>
      BY <1>5, <2>2, Zenon DEF R!WriteRow
    <3>2. p.mask \in Masks
      BY <1>2, <2>2, Zenon DEF RoleRequestOK
    <3>3. p.code \notin DOMAIN Builtin /\ p.mask \in RoleMasks /\ p.mask # R!Absent
      BY <1>3, <3>1, <3>2, Zenon
    <3> QED
      BY <2>1, <2>2, <3>1, <3>3, Zenon
  <2>3. CASE p.op = "update"
    <3>1. /\ p.mask \in Masks /\ p.code \notin DOMAIN Builtin
          /\ roles[p.code] # R!Absent \/ p.code \in overlapped
      BY <1>2, <2>3, Zenon DEF RoleRequestOK
    <3>2. PICK m : m = IF roles[p.code] = R!Absent THEN R!Absent ELSE p.mask
      BY Zenon
    <3>3. roles' = [roles EXCEPT ![p.code] = m] /\ UNCHANGED <<role, mask>>
      BY <1>5, <2>3, <3>2, Zenon DEF R!WriteRow
    <3>4. m \in RoleMasks \cup {R!Absent} /\ (m = R!Absent => roles[p.code] = R!Absent)
      BY <1>3, <3>1, <3>2, Zenon
    <3> QED
      BY <2>1, <2>3, <3>1, <3>2, <3>3, <3>4, Zenon
  <2>4. CASE p.op = "delete"
    <3>1. p.code \notin DOMAIN Builtin /\ (R!Unused(p.code) \/ p.code \in overlapped)
      BY <1>2, <2>4, Zenon DEF RoleRequestOK
    <3>2. roles' = [roles EXCEPT ![p.code] = R!Absent] /\ UNCHANGED <<role, mask>>
      BY <1>5, <2>4, Zenon DEF R!WriteRow
    <3> QED
      BY <2>1, <2>4, <3>1, <3>2, Zenon
  <2>5. CASE p.op = "assign"
    <3>1. /\ role' = [role EXCEPT ![p.user] = p.code] /\ mask' = [mask EXCEPT ![p.user] = p.mask]
          /\ UNCHANGED roles
      BY <1>5, <2>5, Zenon DEF R!WriteRow
    <3>2. p.mask \in RoleMasks /\ (roles[p.code] # R!Absent \/ p.code \in overlapped)
      BY <1>2, <2>5, Zenon DEF RoleRequestOK
    <3>3. /\ role' \in [Users -> R!Codes] /\ mask' \in [Users -> RoleMasks]
          /\ role'[p.user] = p.code /\ mask'[p.user] = p.mask
          /\ \A u \in Users : u # p.user => role'[u] = role[u] /\ mask'[u] = mask[u]
      BY <1>3, <3>1, <3>2, Zenon
    <3>4. R!RolesStand'
      <4>1. \A c \in DOMAIN Builtin : roles'[c] \in {Seeded[c], Builtin[c]}
        BY <1>3, <3>1, Zenon DEF R!RolesStand, R!SystemRoles
      <4>2. ASSUME NEW u \in Users
            PROVE  roles[role'[u]] # R!Absent \/ role'[u] \in overlapped
        BY <1>3, <3>2, <3>3, Zenon DEF R!RolesStand
      <4> QED
        BY <1>2, <3>1, <4>1, <4>2, Zenon DEF R!RolesStand, R!SystemRoles
    <3>5. R!Changed(p) = {p.user} /\ \A x : R!Event(p, x) = <<p.code, p.mask>>
      BY <2>5, Zenon DEF R!Changed, R!Event
    <3>6. \A x \in R!Subjects : x \notin R!Changed(p) => R!Row(x)' = R!Row(x)
      BY <3>1, <3>3, <3>5, Zenon DEF R!Row, R!Subjects
    <3>7. R!Row(p.user)' = <<p.code, p.mask>>
      BY <1>3, <3>3, Zenon DEF R!Row
    <3>8. \A x \in R!Changed(p) : x \in overlapped \/ R!Event(p, x) = R!Row(x)'
      BY <3>5, <3>7, Zenon
    <3>9. \A c \in R!Codes : c # p.code => /\ roles[c] # R!Absent => roles'[c] # R!Absent
                                           /\ R!Unused(c) => R!Unused(c)'
      BY <3>1, <3>3, Zenon DEF R!Unused
    <3>10. roles' \in [R!Codes -> RoleMasks \cup {R!Absent}]
      BY <1>3, <3>1, Zenon
    <3> QED
      BY <1>1, <1>2, <1>5, <2>5, <3>3, <3>4, <3>6, <3>8, <3>9, <3>10, RoleWritten, Zenon
  <2> QED
    BY <1>5, <2>2, <2>3, <2>4, <2>5, Zenon DEF R!WriteRow
<1> QED
    BY <1>1, <1>4, <1>5, Zenon DEF R!Write, R!Fail

\* recordAdminAuditEvent: the event tells what the row holds.
LEMMA RoleAudit ==
    ASSUME RolesData, RoleInv, NEW r \in Slots, R!RecordAdminAuditEvent(r)
    PROVE  RoleInv'
<1>1. PICK q \in RoleRequests : q = roleReq[r]
    BY Zenon DEF RoleInv, RoleType
<1>2. /\ roleReq \in [Slots -> RoleRequests] /\ q.pc = "audit" /\ RoleRequestOK(q) /\ R!Return(r)
      /\ UNCHANGED <<roles, role, mask, roleCount, overlapped>>
    BY <1>1, Zenon DEF RoleInv, RoleType, R!RecordAdminAuditEvent, R!At, R!Fail, R!rows
<1>3. CASE unrecorded' = unrecorded \cup R!Changed(q) /\ UNCHANGED trail
  <2>1. unrecorded \subseteq unrecorded' /\ \A x : Owes(roleReq[r], x) => x \in unrecorded'
    BY <1>1, <1>3, OwesAbout, Zenon
  <2> QED
    BY <1>2, <1>3, <2>1, RoleReturn, Zenon
<1>4. CASE /\ trail' = [x \in R!Subjects |-> IF x \in R!Changed(q) THEN R!Event(q, x) ELSE trail[x]]
           /\ unrecorded' = unrecorded \ R!Changed(q)
  <2>1. RoleOthers(r, R!Idle) /\ R!About(R!Idle) = {} /\ \A x : ~Owes(R!Idle, x)
    BY <1>2, RoleIdle, RoleEffect, Zenon DEF R!Return
  <2>2. RoleType'
    <3>1. ASSUME NEW x \in R!Changed(q)
          PROVE  R!Event(q, x) \in Events
      <4>1. q.op = "bootstrap" => x \in DOMAIN Builtin
        BY Zenon DEF R!Changed, R!SystemRoles
      <4>2. q.op \in {"bootstrap", "create", "update", "delete", "assign"} /\ q.code \in R!Codes
        BY Zenon DEF R!Changed, RoleRequests, RoleOps
      <4>3. CASE q.op = "bootstrap"
        BY <4>1, <4>3, Zenon DEF R!Event, Events, RoleMasks
      <4>4. CASE q.op = "assign"
        <5>1. q.mask \in RoleMasks
          BY <1>2, <4>4, Zenon DEF RoleRequestOK
        <5> QED
          BY <4>2, <4>4, <5>1, Zenon DEF R!Event, Events
      <4>5. CASE q.op = "delete"
        BY <4>5, Zenon DEF R!Event, Events
      <4>6. CASE q.op \in {"create", "update"}
        <5>1. q.mask \in Masks
          BY <1>2, <4>6, Zenon DEF RoleRequestOK
        <5> QED
          BY <4>6, <5>1, Zenon DEF R!Event, Events, RoleMasks
      <4> QED
        BY <4>2, <4>3, <4>4, <4>5, <4>6, Zenon
    <3>2. trail' \in [R!Subjects -> Events]
      BY <1>4, <3>1, Zenon DEF RoleInv, RoleType
    <3> QED
      BY <1>2, <2>1, <3>2, RoleIdle, Zenon DEF RoleInv, RoleType, RoleOthers
  <2>3. ASSUME NEW s \in Slots
        PROVE  RoleRequestOK(roleReq[s])'
    <3>1. CASE s = r
      <4>1. R!Idle.pc = "idle" /\ R!Idle.op = "none" /\ roleReq'[s] = R!Idle
        BY <2>1, <3>1, RoleIdle, Zenon DEF RoleOthers
      <4> QED
        BY <4>1, Zenon DEF RoleRequestOK
    <3>2. CASE s # r
      <4>1. roleReq'[s] = roleReq[s] /\ RoleRequestOK(roleReq[s])
        BY <2>1, <3>2, Zenon DEF RoleInv, RoleOthers
      <4> QED
        BY <1>2, <4>1, Zenon DEF RoleRequestOK, R!Unused
    <3> QED
      BY <3>1, <3>2, Zenon
  <2>4. OneAbout'
    <3>1. overlapped \subseteq overlapped' /\ \A x \in R!About(R!Idle) : x \in R!About(roleReq[r])
      BY <1>2, <2>1, Zenon
    <3> QED
      BY <2>1, <3>1, AboutKept, Zenon DEF RoleInv
  <2>5. R!RolesStand'
    BY <1>2, Zenon DEF RoleInv, R!RolesStand
  <2>6. /\ \A s \in Slots : s # r => roleReq'[s] = roleReq[s]
        /\ \A s \in Slots, x \in R!Subjects : Owes(roleReq'[s], x) => s # r
    BY <2>1, Zenon DEF RoleOthers
  <2>7. ASSUME NEW x \in R!Subjects \ overlapped, NEW s \in Slots, Owes(roleReq'[s], x)
        PROVE  R!Event(roleReq'[s], x) = R!Row(x)
    BY <2>6, <2>7, Zenon DEF RoleInv, TrailInv
  <2>8. ASSUME NEW x \in R!Subjects \ (overlapped \cup unrecorded')
        PROVE  trail'[x] = R!Row(x) \/ \E s \in Slots : Owes(roleReq'[s], x)
    <3>1. CASE x \in R!Changed(q)
      <4>1. trail'[x] = R!Event(q, x) /\ Owes(q, x)
        BY <1>2, <1>4, <3>1, Zenon DEF Owes
      <4> QED
        BY <1>1, <4>1, Zenon DEF RoleInv, TrailInv
    <3>2. CASE x \notin R!Changed(q)
      <4>1. trail'[x] = trail[x] /\ x \in R!Subjects \ (overlapped \cup unrecorded)
        BY <1>4, <3>2, <2>8, Zenon
      <4>2. \A s \in Slots : Owes(roleReq[s], x) => roleReq'[s] = roleReq[s]
        BY <1>1, <2>6, <3>2, OwesAbout, Zenon
      <4> QED
        BY <4>1, <4>2, Zenon DEF RoleInv, TrailInv
    <3> QED
      BY <3>1, <3>2, Zenon
  <2>9. \A x : R!Row(x)' = R!Row(x)
    BY <1>2, Zenon DEF R!Row
  <2>10. TrailInv'
    <3>1. ASSUME NEW x \in R!Subjects \ overlapped', NEW s \in Slots, Owes(roleReq'[s], x)
          PROVE  R!Event(roleReq'[s], x) = R!Row(x)'
      BY <1>2, <2>7, <2>9, <3>1, Zenon
    <3>2. ASSUME NEW x \in R!Subjects \ (overlapped' \cup unrecorded')
          PROVE  trail'[x] = R!Row(x)' \/ \E s \in Slots : Owes(roleReq'[s], x)
      BY <1>2, <2>8, <2>9, <3>2, Zenon
    <3> QED
      BY <3>1, <3>2, Zenon DEF TrailInv, Owes, R!Event, R!Changed, R!Upserted, R!SystemRoles, R!Subjects, R!Codes
  <2> QED
    BY <2>2, <2>3, <2>4, <2>5, <2>10, Zenon DEF RoleInv
<1> QED
    BY <1>1, <1>3, <1>4, Zenon DEF R!RecordAdminAuditEvent, R!Fail

\* The rows of migrate.sql, no request.
LEMMA RoleInit ==
    ASSUME RolesData, R!Init
    PROVE  RoleInv
<1>1. roles \in [R!Codes -> RoleMasks \cup {R!Absent}]
    BY Zenon DEF R!Init, RoleMasks, R!Codes, R!SystemRoles
<1>2. role \in [Users -> R!Codes] /\ \A u \in Users : role[u] \in DOMAIN Builtin
    BY Zenon DEF R!Init, R!Codes, R!SystemRoles
<1>3. mask \in [Users -> RoleMasks]
    BY <1>2, Zenon DEF R!Init, RoleMasks
<1>4. R!Idle \in RoleRequests /\ \A r \in Slots : roleReq[r] = R!Idle
    BY RoleIdle, Zenon DEF R!Init
<1>5. \A x \in R!Subjects : R!Row(x) \in Events
    BY <1>1, <1>2, <1>3, Zenon DEF R!Row, R!Subjects, Events
<1>6. trail \in [R!Subjects -> Events]
    BY <1>5, Zenon DEF R!Init
<1>7. RoleType
    BY <1>1, <1>2, <1>3, <1>4, <1>6, Zenon DEF R!Init, RoleType
<1>8. (\A r \in Slots : RoleRequestOK(roleReq[r])) /\ OneAbout
    BY <1>4, RoleIdle, Zenon DEF OneAbout
<1>9. R!RolesStand
  <2>1. \A c \in DOMAIN Builtin : roles[c] = Seeded[c] /\ roles[c] # R!Absent
    BY Zenon DEF RolesData, R!Init, R!Codes, R!SystemRoles
  <2> QED
    BY <1>2, <2>1, Zenon DEF R!RolesStand, R!SystemRoles
<1>10. TrailInv
    BY <1>4, RoleIdle, Zenon DEF TrailInv, R!Init
<1> QED
    BY <1>7, <1>8, <1>9, <1>10, Zenon DEF RoleInv

\* Every step of the requests keeps the invariant.
LEMMA RoleNext ==
    ASSUME RolesData, RoleInv, [R!Next]_(R!vars)
    PROVE  RoleInv'
<1>1. CASE UNCHANGED R!vars
  <2>1. UNCHANGED <<roles, role, mask, roleReq, roleCount, trail, overlapped, unrecorded>>
    BY <1>1, Zenon DEF R!vars
  <2>2. \A q : RoleRequestOK(q)' <=> RoleRequestOK(q)
    BY <2>1, Zenon DEF RoleRequestOK, R!Unused
  <2>3. \A x : R!Row(x)' = R!Row(x)
    BY <2>1, Zenon DEF R!Row
  <2>4. TrailInv'
    <3>1. ASSUME NEW x \in R!Subjects \ overlapped', NEW s \in Slots, Owes(roleReq'[s], x)
          PROVE  R!Event(roleReq'[s], x) = R!Row(x)'
      BY <2>1, <2>3, <3>1, Zenon DEF RoleInv, TrailInv
    <3>2. ASSUME NEW x \in R!Subjects \ (overlapped' \cup unrecorded')
          PROVE  trail'[x] = R!Row(x)' \/ \E s \in Slots : Owes(roleReq'[s], x)
      BY <2>1, <2>3, <3>2, Zenon DEF RoleInv, TrailInv
    <3> QED
      BY <3>1, <3>2, Zenon DEF TrailInv, Owes, R!Event, R!Changed, R!Upserted, R!SystemRoles, R!Subjects, R!Codes
  <2> QED
    BY <2>1, <2>4, Zenon DEF RoleInv, RoleType, OneAbout, R!RolesStand, RoleRequestOK, R!Unused
<1>2. CASE R!Next
    BY <1>2, RoleArrive, RoleUpsert, RoleFind, RoleCountStep, RoleWrite, RoleAudit, RoleFails, Zenon
    DEF R!Next
<1> QED
    BY <1>1, <1>2, Zenon

\* The rows and the audit trail of the roles keep their invariant.
LEMMA RoleInvariant ==
    ASSUME RolesData
    PROVE  R!Spec => []RoleInv
<1>1. R!Init => RoleInv
    BY RoleInit, Zenon
<1>2. RoleInv /\ [R!Next]_(R!vars) => RoleInv'
    BY RoleNext, Zenon
<1> QED
    BY <1>1, <1>2, PTL DEF R!Spec

\* For any number of users, roles and concurrent requests, failing or not, and
\* any masks in migrate.sql: system roles have the mask of migrate.sql or the
\* built-in one, and the role of a user exists unless requests about it
\* overlapped (BootstrapBuiltinRoles, UpdateRole, DeleteRole, AssignRole).
THEOREM RolesAreKept ==
    ASSUME RolesData
    PROVE  R!Spec => []RolesStand
<1>1. RoleInv => RolesStand
    BY Zenon DEF RoleInv, RolesStand
<1> QED
    BY <1>1, RoleInvariant, PTL

\* The latest audit event about a role or a user tells what its row holds once
\* the requests about it are answered, unless they overlapped or the latest
\* change has no event; bootstraps may overlap (recordAdminAuditEvent).
THEOREM TrailIsTrue ==
    ASSUME RolesData
    PROVE  R!Spec => []TrailTells
<1>1. RoleInv => TrailTells
  <2> SUFFICES ASSUME RoleInv, NEW x \in R!Subjects, ~R!Busy(x), x \notin overlapped \cup unrecorded
               PROVE  trail[x] = R!Row(x)
    BY Zenon DEF TrailTells, R!TrailTells
  <2>1. \A r \in Slots : ~Owes(roleReq[r], x)
    BY OwesAbout, Zenon DEF R!Busy
  <2> QED
    BY <2>1, Zenon DEF RoleInv, TrailInv
<1> QED
    BY <1>1, RoleInvariant, PTL

-----------------------------------------------------------------------------
(* Registry. *)

\* Every URI in a request or in migrate.sql.
URIs == UNION ({{list[i] : i \in DOMAIN list} : list \in URILists}
               \cup {in.uris : in \in Inputs} \cup {in.logout : in \in Inputs}
               \cup {SeededClients[c]["redirect"] : c \in DOMAIN SeededClients}
               \cup {SeededClients[c]["post_logout"] : c \in DOMAIN SeededClients})

\* What migrate.sql, CreateClient and the registrations bring: clients with
\* finitely many URIs, and lists of URIs that end.
RegistryData ==
    /\ \A in \in Inputs : IsFiniteSet(in.uris) /\ IsFiniteSet(in.logout)
    /\ \A list \in URILists : list \in Seq(URIs)
    /\ \A c \in DOMAIN SeededClients :
        /\ SeededClients[c] # <<>>
        /\ \A t \in G!Tables : IsFiniteSet(SeededClients[c][t])

Models ==
    {G!Model(in) : in \in {i \in Inputs : G!Accepted(i)}}
    \cup {SeededClients[c] : c \in DOMAIN SeededClients}

RegRequests ==
    [pc : G!Steps, op : {"none", "client", "uris", "link", "redirect"},
     client : ClientIds \cup {G!None}, model : Models \cup {<<>>}, table : G!Tables,
     todo : Seq(URIs), mine : SUBSET URIs, code : ShortCodes \cup {G!None},
     target : Targets \cup {G!None}, attempts : Nat]

\* The clients and their URIs.  URIs are only added, and none is counted before
\* the client is there.  A client is as its creator was told.
ClientStores ==
    /\ clients \in [ClientIds -> Models \cup {<<>>}]
    /\ \A c \in ClientIds : created[c] \in {<<>>, clients[c]}
    /\ created \in [ClientIds -> Models \cup {<<>>}]
    /\ uris \in [G!Tables -> [ClientIds -> SUBSET URIs]]
    /\ registered \in [G!Tables -> [ClientIds -> Nat]]
    /\ \A t \in G!Tables, c \in ClientIds :
        /\ IsFiniteSet(uris[t][c])
        /\ clients[c] # <<>> => clients[c][t] \subseteq uris[t][c]
        /\ clients[c] = <<>> => registered[t][c] = 0
        /\ clients[c] # <<>> =>
            unsure \/ registered[t][c] = Cardinality(uris[t][c] \ clients[c][t])

\* A link is as its creator was told.
LinkStores ==
    /\ links \in [ShortCodes -> Targets \cup {G!None}]
    /\ promised \in [ShortCodes -> Targets \cup {G!None}]
    /\ \A k \in ShortCodes : promised[k] \in {G!None, links[k]}

\* A link that is there stays as it is.
LinksStay == \A k \in ShortCodes : links[k] # G!None => links'[k] = links[k]

\* A registration has found its client, and what it has inserted is new.
Registering(q) ==
    /\ q.op = "uris" /\ clients[q.client] # <<>> /\ IsFiniteSet(q.mine)
    /\ q.mine \cap uris[q.table][q.client] = {}

RegRequestOK(q) ==
    /\ q.op = "client" => q.client \in ClientIds /\ q.model \in Models
    /\ q.op = "uris" => q.client \in ClientIds
    /\ q.op = "redirect" => q.code \in ShortCodes
    /\ q.pc = "insert" => q.op = "client"
    /\ q.pc \in {"resolve", "click"} => q.op = "redirect"
    /\ q.pc = "click" => links[q.code] # G!None /\ q.target = links[q.code]
    /\ IF q.pc = "register" THEN Registering(q) ELSE q.mine = {}

\* Two requests about the URIs of one client.
SameKey(p, q) == p.client = q.client /\ p.table = q.table

\* Transactions that run at once have not inserted the same URI.
InsertsApart ==
    \A r, s \in Slots : r # s /\ SameKey(regReq[r], regReq[s]) => regReq[r].mine \cap regReq[s].mine = {}

RegInv ==
    /\ ClientStores /\ LinkStores /\ regReq \in [Slots -> RegRequests]
    /\ \A r \in Slots : RegRequestOK(regReq[r])
    /\ InsertsApart

\* A step changes one request.
RegOthers(r, q) ==
    /\ regReq' \in [Slots -> RegRequests] /\ regReq'[r] = q
    /\ \A s \in Slots : s # r => regReq'[s] = regReq[s]

\* A step that rewrites its own request leaves those of the others.
LEMMA RegEffect ==
    ASSUME regReq \in [Slots -> RegRequests], NEW r \in Slots, NEW q \in RegRequests,
           regReq' = [regReq EXCEPT ![r] = q]
    PROVE  RegOthers(r, q)
BY Zenon DEF RegOthers

\* The free slot.
LEMMA RegIdle ==
    G!Idle \in RegRequests /\ G!Idle.pc = "idle" /\ G!Idle.mine = {} /\ RegRequestOK(G!Idle)
<1>1. G!Idle \in RegRequests /\ G!Idle.pc = "idle" /\ G!Idle.op = "none" /\ G!Idle.mine = {}
    BY DEF G!Idle, RegRequests, G!Steps, G!Tables
<1> QED
    BY <1>1, Zenon DEF RegRequestOK

\* A client is there once it is in the table, with finitely many URIs.
LEMMA ModelFacts ==
    ASSUME RegistryData, NEW m \in Models
    PROVE  m # <<>> /\ \A t \in G!Tables : m[t] \subseteq URIs /\ IsFiniteSet(m[t])
<1>1. ASSUME NEW c \in DOMAIN SeededClients, m = SeededClients[c]
      PROVE  m # <<>> /\ \A t \in G!Tables : m[t] \subseteq URIs /\ IsFiniteSet(m[t])
  <2>1. m["redirect"] \subseteq URIs /\ m["post_logout"] \subseteq URIs
    BY <1>1, Zenon DEF URIs
  <2> QED
    BY <1>1, <2>1, Zenon DEF RegistryData, G!Tables
<1>2. ASSUME NEW in \in Inputs, m = G!Model(in)
      PROVE  m # <<>> /\ \A t \in G!Tables : m[t] \subseteq URIs /\ IsFiniteSet(m[t])
  <2>1. m["redirect"] = G!RedirectURIs(in) /\ m["post_logout"] = in.logout
    BY <1>2, Zenon DEF G!Model
  <2>2. m # <<>>
    <3>1. "type" \in DOMAIN m
      BY <1>2, Zenon DEF G!Model
    <3> QED
      BY <3>1
  <2>3. in.uris \subseteq URIs /\ in.logout \subseteq URIs
    BY Zenon DEF URIs
  <2>4. \A t \in G!Tables : m[t] \subseteq URIs /\ IsFiniteSet(m[t])
    BY <2>1, <2>3, FS_EmptySet, Zenon DEF G!Tables, G!RedirectURIs, RegistryData
  <2> QED
    BY <2>2, <2>4, Zenon
<1> QED
    BY <1>1, <1>2, Zenon DEF Models

\* The parts of a step: the stores, the request that takes it, and what the
\* others have inserted.
LEMMA RegStep ==
    ASSUME RegInv, NEW r \in Slots, NEW q \in RegRequests, RegOthers(r, q),
           ClientStores', LinkStores', LinksStay, RegRequestOK(q)',
           \A s \in Slots : s # r /\ regReq[s].pc = "register" =>
            /\ clients'[regReq[s].client] # <<>>
            /\ regReq[s].mine \cap uris'[regReq[s].table][regReq[s].client] = {},
           \A s \in Slots : s # r /\ SameKey(q, regReq[s]) => q.mine \cap regReq[s].mine = {}
    PROVE  RegInv'
<1>1. ASSUME NEW s \in Slots
      PROVE  RegRequestOK(regReq[s])'
  <2>1. PICK p : p = regReq[s] /\ RegRequestOK(p)
    BY Zenon DEF RegInv
  <2>2. CASE s # r
    <3>1. regReq'[s] = p
      BY <2>1, <2>2, Zenon DEF RegOthers
    <3>2. p.pc = "register" => Registering(p)'
      BY <2>1, <2>2, Zenon DEF RegRequestOK, Registering
    <3>3. p.pc = "click" => links'[p.code] # G!None /\ p.target = links'[p.code]
      BY <2>1, Zenon DEF RegRequestOK, LinksStay
    <3>4. RegRequestOK(p)'
      BY <2>1, <3>2, <3>3, Zenon DEF RegRequestOK
    <3> QED
      BY <3>1, <3>4, Zenon
  <2>3. CASE s = r
    BY <2>3, Zenon DEF RegOthers
  <2> QED
    BY <2>2, <2>3, Zenon
<1>2. InsertsApart'
  <2> SUFFICES ASSUME NEW s \in Slots, NEW t \in Slots, s # t, SameKey(regReq'[s], regReq'[t])
               PROVE  regReq'[s].mine \cap regReq'[t].mine = {}
    BY Zenon DEF InsertsApart, SameKey
  <2>1. CASE s # r /\ t # r
    BY <2>1, Zenon DEF RegInv, InsertsApart, RegOthers
  <2>2. CASE s = r
    BY <2>2, Zenon DEF RegOthers
  <2>3. CASE t = r
    BY <2>3, Zenon DEF RegOthers, SameKey
  <2> QED
    BY <2>1, <2>2, <2>3, Zenon
<1> QED
    BY <1>1, <1>2, Zenon DEF RegInv, RegOthers

\* Steps that leave the clients alone, of a request that is in no transaction.
LEMMA RegQuiet ==
    ASSUME RegInv, NEW r \in Slots, NEW q \in RegRequests, RegOthers(r, q), RegRequestOK(q),
           q.mine = {}, UNCHANGED G!clientVars, LinkStores', LinksStay
    PROVE  RegInv'
<1>1. UNCHANGED <<clients, uris, registered, unsure, created>>
    BY Zenon DEF G!clientVars
<1>2. ClientStores'
    BY <1>1, Zenon DEF RegInv, ClientStores
<1>3. RegRequestOK(q)'
  <2>1. q.pc = "click" => links'[q.code] # G!None /\ q.target = links'[q.code]
    BY Zenon DEF RegRequestOK, LinksStay
  <2> QED
    BY <1>1, <2>1, Zenon DEF RegRequestOK, Registering
<1>4. \A s \in Slots : regReq[s].pc = "register" =>
        /\ clients'[regReq[s].client] # <<>>
        /\ regReq[s].mine \cap uris'[regReq[s].table][regReq[s].client] = {}
    BY <1>1, Zenon DEF RegInv, RegRequestOK, Registering
<1> QED
    BY <1>2, <1>3, <1>4, RegStep, Zenon

\* Short links as they were.
LEMMA LinksSame ==
    ASSUME RegInv, UNCHANGED G!linkVars
    PROVE  LinkStores' /\ LinksStay
BY Zenon DEF RegInv, LinkStores, LinksStay, G!linkVars

\* A request that is answered.
LEMMA RegReturn ==
    ASSUME RegInv, NEW r \in Slots, G!Return(r)
    PROVE  RegOthers(r, G!Idle)
BY RegIdle, RegEffect, Zenon DEF RegInv, G!Return

\* A request is answered and its slot is free again.
LEMMA RegAnswered ==
    ASSUME RegInv, NEW r \in Slots, G!Return(r), UNCHANGED G!clientVars, LinkStores', LinksStay
    PROVE  RegInv'
BY RegReturn, RegIdle, RegQuiet, Zenon

\* What can arrive.
LEMMA RegArrive ==
    ASSUME RegistryData, RegInv, NEW r \in Slots, G!Arrive(r)
    PROVE  RegInv'
<1>1. ASSUME NEW q \in RegRequests, G!Begin(r, q), RegRequestOK(q), q.mine = {}
      PROVE  RegInv'
  <2>1. RegOthers(r, q)
    BY <1>1, RegEffect, Zenon DEF RegInv, G!Begin
  <2> QED
    BY <1>1, <2>1, LinksSame, RegQuiet, Zenon DEF G!Begin
<1>2. ASSUME NEW c \in ClientIds, NEW in \in Inputs, G!CreateClient(r, c, in)
      PROVE  RegInv'
  <2> DEFINE q == [G!Idle EXCEPT !.pc = "find", !.op = "client", !.client = c, !.model = G!Model(in)]
  <2>1. G!Model(in) \in Models
    BY <1>2, Zenon DEF Models, G!CreateClient
  <2>2. /\ q \in RegRequests /\ q.pc = "find" /\ q.op = "client" /\ q.client = c /\ q.model \in Models
        /\ q.mine = {}
    BY <2>1, RegIdle, Zenon DEF RegRequests, G!Steps
  <2>3. G!Begin(r, q)
    BY <1>2, Zenon DEF G!CreateClient
  <2> HIDE DEF q
  <2> QED
    BY <1>1, <2>2, <2>3, Zenon DEF RegRequestOK
<1>3. ASSUME NEW c \in ClientIds, NEW list \in URILists, NEW t \in G!Tables,
             G!Begin(r, [G!Idle EXCEPT !.pc = "find", !.op = "uris", !.client = c, !.table = t,
                                       !.todo = list])
      PROVE  RegInv'
  <2> DEFINE q == [G!Idle EXCEPT !.pc = "find", !.op = "uris", !.client = c, !.table = t, !.todo = list]
  <2>1. list \in Seq(URIs)
    BY Zenon DEF RegistryData
  <2>2. /\ q \in RegRequests /\ q.pc = "find" /\ q.op = "uris" /\ q.client = c /\ q.mine = {}
    BY <2>1, Zenon DEF G!Idle, RegRequests, G!Steps
  <2>3. G!Begin(r, q)
    BY <1>3, Zenon
  <2> HIDE DEF q
  <2> QED
    BY <1>1, <2>2, <2>3, Zenon DEF RegRequestOK
<1>4. ASSUME NEW k \in ShortCodes \cup {G!None}, NEW t \in Targets, G!CreateLink(r, k, t)
      PROVE  RegInv'
  <2> DEFINE q == [G!Idle EXCEPT !.pc = "create", !.op = "link", !.code = k, !.target = t]
  <2>1. q \in RegRequests /\ q.pc = "create" /\ q.op = "link" /\ q.mine = {}
    BY RegIdle, Zenon DEF RegRequests, G!Steps
  <2>2. G!Begin(r, q)
    BY <1>4, Zenon DEF G!CreateLink
  <2> HIDE DEF q
  <2> QED
    BY <1>1, <2>1, <2>2, Zenon DEF RegRequestOK
<1>5. ASSUME NEW k \in ShortCodes, G!Redirect(r, k)
      PROVE  RegInv'
  <2> DEFINE q == [G!Idle EXCEPT !.pc = "resolve", !.op = "redirect", !.code = k]
  <2>1. q \in RegRequests /\ q.pc = "resolve" /\ q.op = "redirect" /\ q.code = k /\ q.mine = {}
    BY RegIdle, Zenon DEF RegRequests, G!Steps
  <2>2. G!Begin(r, q)
    BY <1>5, Zenon DEF G!Redirect
  <2> HIDE DEF q
  <2> QED
    BY <1>1, <2>1, <2>2, Zenon DEF RegRequestOK
<1>6. "redirect" \in G!Tables /\ "post_logout" \in G!Tables
    BY Zenon DEF G!Tables
<1> QED
    BY <1>2, <1>3, <1>4, <1>5, <1>6, Zenon
    DEF G!Arrive, G!RegisterRedirectURIs, G!RegisterPostLogoutRedirectURIs

\* A request that goes on to another step, outside a transaction.
LEMMA RegGoto ==
    ASSUME RegInv, NEW r \in Slots, NEW step \in G!Steps, G!Goto(r, step),
           regReq[r].mine = {}
    PROVE  \E q \in RegRequests :
            /\ RegOthers(r, q) /\ q.pc = step /\ q.mine = {}
            /\ q.op = regReq[r].op /\ q.client = regReq[r].client /\ q.model = regReq[r].model
            /\ q.table = regReq[r].table /\ q.code = regReq[r].code
<1> DEFINE q == [regReq[r] EXCEPT !.pc = step]
<1>1. regReq \in [Slots -> RegRequests] /\ regReq[r] \in RegRequests
    BY Zenon DEF RegInv
<1>2. /\ q \in RegRequests /\ q.pc = step /\ q.mine = {}
      /\ q.op = regReq[r].op /\ q.client = regReq[r].client /\ q.model = regReq[r].model
      /\ q.table = regReq[r].table /\ q.code = regReq[r].code
    BY <1>1, Zenon DEF RegRequests
<1>3. regReq' = [regReq EXCEPT ![r] = q]
    BY <1>1, Zenon DEF G!Goto
<1> HIDE DEF q
<1>4. RegOthers(r, q)
    BY <1>1, <1>2, <1>3, RegEffect, Zenon
<1> QED
    BY <1>2, <1>4, Zenon

\* FindByClientID: the registration goes on only with a client that is there.
LEMMA RegFind ==
    ASSUME RegistryData, RegInv, NEW r \in Slots, G!FindByClientID(r)
    PROVE  RegInv'
<1>1. /\ regReq[r].pc = "find" /\ UNCHANGED G!clientVars /\ UNCHANGED G!linkVars
      /\ RegRequestOK(regReq[r])
    BY Zenon DEF RegInv, G!FindByClientID, G!At
<1>2. regReq[r].mine = {} /\ LinkStores' /\ LinksStay
    BY <1>1, LinksSame, Zenon DEF RegRequestOK
<1>3. CASE regReq[r].op = "client" /\ G!Goto(r, "insert")
  <2>1. PICK q \in RegRequests : /\ RegOthers(r, q) /\ q.pc = "insert" /\ q.mine = {}
                                 /\ q.op = "client" /\ q.client = regReq[r].client
                                 /\ q.model = regReq[r].model
    BY <1>2, <1>3, RegGoto DEF G!Steps
  <2>2. RegRequestOK(q)
    BY <1>1, <1>3, <2>1, Zenon DEF RegRequestOK
  <2> QED
    BY <1>1, <1>2, <2>1, <2>2, RegQuiet
<1>4. CASE /\ regReq[r].op = "uris" /\ clients[regReq[r].client] # <<>> /\ G!Goto(r, "register")
  <2>1. PICK q \in RegRequests : /\ RegOthers(r, q) /\ q.pc = "register" /\ q.mine = {}
                                 /\ q.op = "uris" /\ q.client = regReq[r].client
    BY <1>2, <1>4, RegGoto DEF G!Steps
  <2>2. RegRequestOK(q)
    BY <1>1, <1>4, <2>1, FS_EmptySet, Zenon DEF RegRequestOK, Registering
  <2> QED
    BY <1>1, <1>2, <2>1, <2>2, RegQuiet, Zenon
<1>5. CASE G!Return(r)
    BY <1>1, <1>2, <1>5, RegAnswered, Zenon
<1> QED
    BY <1>3, <1>4, <1>5, Zenon DEF G!FindByClientID

\* A step that inserts a client inserts its URIs, and no registration was about
\* a client that is not there.
LEMMA RegInsertClient ==
    ASSUME RegistryData, RegInv, NEW r \in Slots, G!InsertClient(r)
    PROVE  RegInv'
<1>1. PICK c, m : c = regReq[r].client /\ m = regReq[r].model
    BY Zenon
<1>2. /\ c \in ClientIds /\ m \in Models
    BY <1>1, Zenon DEF RegInv, RegRequestOK, G!InsertClient, G!At
<1>3. /\ G!Return(r) /\ registered' = registered /\ unsure' = unsure /\ UNCHANGED G!linkVars
    BY Zenon DEF G!InsertClient
<1>4. LinkStores' /\ LinksStay
    BY <1>3, LinksSame, Zenon
<1>5. CASE UNCHANGED <<clients, uris, created>>
    BY <1>3, <1>4, <1>5, RegAnswered, Zenon DEF G!clientVars
<1>6. CASE /\ clients[c] = <<>> /\ clients' = [clients EXCEPT ![c] = m]
           /\ uris' = [t \in G!Tables |-> [uris[t] EXCEPT ![c] = m[t]]]
           /\ created' = [created EXCEPT ![c] = m] \/ created' = created
  <2>1. m # <<>> /\ \A t \in G!Tables : m[t] \subseteq URIs /\ IsFiniteSet(m[t])
    BY <1>2, ModelFacts, Zenon
  <2>2. /\ clients' \in [ClientIds -> Models \cup {<<>>}] /\ clients'[c] = m
        /\ \A d \in ClientIds : d # c => clients'[d] = clients[d]
    BY <1>2, <1>6, Zenon DEF RegInv, ClientStores
  <2>3. /\ uris' \in [G!Tables -> [ClientIds -> SUBSET URIs]]
        /\ \A t \in G!Tables : uris'[t][c] = m[t]
        /\ \A t \in G!Tables, d \in ClientIds : d # c => uris'[t][d] = uris[t][d]
    BY <1>2, <1>6, <2>1, Zenon DEF RegInv, ClientStores
  <2>4. ASSUME NEW t \in G!Tables, NEW d \in ClientIds
        PROVE  /\ IsFiniteSet(uris'[t][d])
               /\ clients'[d] # <<>> => clients'[d][t] \subseteq uris'[t][d]
               /\ clients'[d] = <<>> => registered'[t][d] = 0
               /\ clients'[d] # <<>> =>
                    unsure' \/ registered'[t][d] = Cardinality(uris'[t][d] \ clients'[d][t])
    <3>1. CASE d # c
      <4>1. /\ uris'[t][d] = uris[t][d] /\ clients'[d] = clients[d]
            /\ registered'[t][d] = registered[t][d] /\ unsure' = unsure
        BY <1>3, <2>2, <2>3, <3>1, Zenon
      <4>2. /\ IsFiniteSet(uris[t][d])
            /\ clients[d] # <<>> => clients[d][t] \subseteq uris[t][d]
            /\ clients[d] = <<>> => registered[t][d] = 0
            /\ clients[d] # <<>> =>
                unsure \/ registered[t][d] = Cardinality(uris[t][d] \ clients[d][t])
        BY Zenon DEF RegInv, ClientStores
      <4> QED
        BY <4>1, <4>2, Zenon
    <3>2. CASE d = c
      <4>1. uris'[t][c] = m[t] /\ clients'[c] = m /\ registered'[t][c] = 0
        BY <1>2, <1>3, <1>6, <2>2, <2>3, Zenon DEF RegInv, ClientStores
      <4>2. uris'[t][c] \ clients'[c][t] = {}
        BY <4>1, Zenon
      <4> QED
        BY <2>1, <3>2, <4>1, <4>2, FS_EmptySet, Zenon
    <3> QED
      BY <3>1, <3>2, Zenon
  <2>5. ClientStores'
    <3>1. registered' \in [G!Tables -> [ClientIds -> Nat]]
      BY <1>3, Zenon DEF RegInv, ClientStores
    <3>2. /\ created \in [ClientIds -> Models \cup {<<>>}]
          /\ \A d \in ClientIds : created[d] \in {<<>>, clients[d]}
      BY Zenon DEF RegInv, ClientStores
    <3>3. /\ created' \in [ClientIds -> Models \cup {<<>>}]
          /\ created'[c] \in {<<>>, m} /\ \A d \in ClientIds : d # c => created'[d] = created[d]
      BY <1>2, <1>6, <3>2, Zenon
    <3>4. \A d \in ClientIds : created'[d] \in {<<>>, clients'[d]}
      BY <2>2, <3>2, <3>3, Zenon
    <3> QED
      BY <2>2, <2>3, <2>4, <3>1, <3>3, <3>4, Zenon DEF ClientStores
  <2>6. ASSUME NEW s \in Slots, regReq[s].pc = "register"
        PROVE  /\ clients'[regReq[s].client] # <<>>
               /\ regReq[s].mine \cap uris'[regReq[s].table][regReq[s].client] = {}
    <3>1. PICK p : p = regReq[s]
      BY Zenon
    <3>2. /\ p.client \in ClientIds /\ p.table \in G!Tables /\ clients[p.client] # <<>>
          /\ p.mine \cap uris[p.table][p.client] = {}
      BY <2>6, <3>1, Zenon DEF RegInv, RegRequestOK, Registering, RegRequests
    <3> QED
      BY <1>6, <2>2, <2>3, <3>1, <3>2
  <2>7. RegOthers(r, G!Idle) /\ RegRequestOK(G!Idle)'
    BY <1>3, RegReturn, RegIdle, Zenon DEF RegRequestOK
  <2> QED
    BY <1>4, <2>5, <2>6, <2>7, RegIdle, RegStep
<1> QED
    BY <1>1, <1>5, <1>6, Zenon DEF G!InsertClient

\* INSERT IGNORE of a URI nobody else has inserted or committed.
LEMMA RegInsertIgnore ==
    ASSUME RegistryData, RegInv, NEW r \in Slots, G!InsertIgnore(r)
    PROVE  RegInv'
<1>1. PICK p : p = regReq[r]
    BY Zenon
<1>2. /\ p \in RegRequests /\ p.pc = "register" /\ p.todo # <<>> /\ RegRequestOK(p)
    BY <1>1, Zenon DEF RegInv, G!InsertIgnore, G!At
<1>3. PICK u : u = Head(p.todo)
    BY Zenon
<1>4. p.todo \in Seq(URIs) /\ u \in URIs /\ Tail(p.todo) \in Seq(URIs)
    BY <1>2, <1>3 DEF RegRequests
<1>5. PICK M : M = p.mine \cup ({u} \ uris[p.table][p.client])
    BY Zenon
<1>6. PICK q : q = [p EXCEPT !.todo = Tail(p.todo), !.mine = M]
    BY Zenon
<1>7. M \subseteq URIs
    BY <1>2, <1>4, <1>5, Zenon DEF RegRequests
<1>8. /\ q \in RegRequests /\ q.pc = "register" /\ q.op = p.op /\ q.client = p.client
      /\ q.table = p.table /\ q.model = p.model /\ q.code = p.code /\ q.mine = M
    BY <1>2, <1>4, <1>6, <1>7, Zenon DEF RegRequests
<1>9. regReq' = [regReq EXCEPT ![r] = q]
    BY <1>1, <1>2, <1>3, <1>5, <1>6, Zenon
    DEF RegInv, RegRequests, G!InsertIgnore, G!Inserted, G!Next1
<1>10. RegOthers(r, q)
    BY <1>8, <1>9, RegEffect, Zenon DEF RegInv
<1>11. /\ IsFiniteSet(M) /\ M \cap uris[p.table][p.client] = {}
  <2>1. IsFiniteSet(p.mine) /\ p.mine \cap uris[p.table][p.client] = {}
    BY <1>2, Zenon DEF RegRequestOK, Registering
  <2>2. M = p.mine \cup {u} \/ M = p.mine
    BY <1>5, Zenon
  <2>3. IsFiniteSet(p.mine \cup {u})
    BY <2>1, FS_AddElement, Zenon
  <2> QED
    BY <1>5, <2>1, <2>2, <2>3, Zenon
<1>12. ASSUME NEW s \in Slots, s # r, SameKey(q, regReq[s])
       PROVE  q.mine \cap regReq[s].mine = {}
  <2>1. p.mine \cap regReq[s].mine = {}
    BY <1>1, <1>8, <1>12, Zenon DEF RegInv, InsertsApart, SameKey
  <2>2. u \notin regReq[s].mine
    BY <1>1, <1>2, <1>3, <1>8, <1>12 DEF SameKey, G!InsertIgnore, G!WaitsFor, G!Next1, G!At
  <2> QED
    BY <1>5, <1>8, <2>1, <2>2, Zenon
<1>13. /\ UNCHANGED <<clients, uris, registered, unsure, created>> /\ LinkStores' /\ LinksStay
    BY LinksSame, Zenon DEF G!InsertIgnore, G!clientVars
<1>14. ClientStores'
    BY <1>13, Zenon DEF RegInv, ClientStores
<1>15. RegRequestOK(q)'
    BY <1>2, <1>8, <1>11, <1>13, Zenon DEF RegRequestOK, Registering
<1>16. \A s \in Slots : regReq[s].pc = "register" =>
        /\ clients'[regReq[s].client] # <<>>
        /\ regReq[s].mine \cap uris'[regReq[s].table][regReq[s].client] = {}
    BY <1>13, Zenon DEF RegInv, RegRequestOK, Registering
<1> QED
    BY <1>8, <1>10, <1>12, <1>13, <1>14, <1>15, <1>16, RegStep

\* The instance's Cardinality is the usual one.
LEMMA SameCardinality ==
    ASSUME NEW S
    PROVE  G!Cardinality(S) = Cardinality(S)
BY Zenon DEF G!Cardinality, Cardinality

\* A transaction commits what it has inserted; the answer may be lost.
LEMMA RegCommit ==
    ASSUME RegistryData, RegInv, NEW r \in Slots, G!Commit(r)
    PROVE  RegInv'
<1>1. PICK c, t, M : c = regReq[r].client /\ t = regReq[r].table /\ M = regReq[r].mine
    BY Zenon
<1>2. /\ c \in ClientIds /\ t \in G!Tables /\ M \subseteq URIs /\ clients[c] # <<>>
      /\ IsFiniteSet(M) /\ M \cap uris[t][c] = {} /\ Cardinality(M) \in Nat
  <2>1. regReq[r] \in RegRequests /\ RegRequestOK(regReq[r]) /\ regReq[r].pc = "register"
    BY Zenon DEF RegInv, G!Commit, G!At
  <2>2. t \in G!Tables /\ M \subseteq URIs
    BY <1>1, <2>1, Zenon DEF RegRequests
  <2>3. c \in ClientIds /\ clients[c] # <<>> /\ IsFiniteSet(M) /\ M \cap uris[t][c] = {}
    BY <1>1, <2>1, Zenon DEF RegRequestOK, Registering
  <2> QED
    BY <2>2, <2>3, FS_CardinalityType, Zenon
<1>3. /\ G!Return(r) /\ clients' = clients /\ created' = created /\ UNCHANGED G!linkVars
      /\ uris' = [uris EXCEPT ![t][c] = uris[t][c] \cup M]
    BY <1>1, Zenon DEF G!Commit
<1>4. \/ /\ registered' = [registered EXCEPT ![t][c] = @ + Cardinality(M)]
         /\ unsure' = unsure
      \/ unsure' = TRUE /\ registered' = registered
  <2>1. \/ /\ registered' = [registered EXCEPT ![regReq[r].table][regReq[r].client]
                                                = @ + G!Cardinality(regReq[r].mine)]
           /\ unsure' = unsure
        \/ unsure' = TRUE /\ registered' = registered
    BY Zenon DEF G!Commit
  <2> QED
    BY <1>1, <2>1, SameCardinality, Zenon
<1>5. /\ uris' \in [G!Tables -> [ClientIds -> SUBSET URIs]] /\ uris'[t][c] = uris[t][c] \cup M
      /\ \A x \in G!Tables, d \in ClientIds : x # t \/ d # c => uris'[x][d] = uris[x][d]
    BY <1>2, <1>3 DEF RegInv, ClientStores
<1>6. /\ registered' \in [G!Tables -> [ClientIds -> Nat]]
      /\ \A x \in G!Tables, d \in ClientIds : x # t \/ d # c => registered'[x][d] = registered[x][d]
      /\ unsure' = TRUE \/ (unsure' = unsure /\ registered'[t][c] = registered[t][c] + Cardinality(M))
  <2>1. registered \in [G!Tables -> [ClientIds -> Nat]]
    BY Zenon DEF RegInv, ClientStores
  <2>2. CASE registered' = [registered EXCEPT ![t][c] = @ + Cardinality(M)] /\ unsure' = unsure
    <3>1. /\ registered' \in [G!Tables -> [ClientIds -> Nat]]
          /\ registered'[t][c] = registered[t][c] + Cardinality(M)
          /\ \A x \in G!Tables, d \in ClientIds :
                x # t \/ d # c => registered'[x][d] = registered[x][d]
      BY <1>2, <2>1, <2>2
    <3> QED
      BY <2>2, <3>1, Zenon
  <2>3. CASE unsure' = TRUE /\ registered' = registered
    BY <2>1, <2>3, Zenon
  <2> QED
    BY <1>4, <2>2, <2>3, Zenon
<1>7. ASSUME NEW x \in G!Tables, NEW d \in ClientIds
      PROVE  /\ IsFiniteSet(uris'[x][d])
             /\ clients'[d] # <<>> => clients'[d][x] \subseteq uris'[x][d]
             /\ clients'[d] = <<>> => registered'[x][d] = 0
             /\ clients'[d] # <<>> =>
                unsure' \/ registered'[x][d] = Cardinality(uris'[x][d] \ clients'[d][x])
  <2>1. /\ IsFiniteSet(uris[x][d])
        /\ clients[d] # <<>> => clients[d][x] \subseteq uris[x][d]
        /\ clients[d] = <<>> => registered[x][d] = 0
        /\ clients[d] # <<>> =>
            unsure \/ registered[x][d] = Cardinality(uris[x][d] \ clients[d][x])
    BY Zenon DEF RegInv, ClientStores
  <2>2. CASE x # t \/ d # c
    <3>1. /\ uris'[x][d] = uris[x][d] /\ clients'[d] = clients[d] /\ registered'[x][d] = registered[x][d]
          /\ unsure' = TRUE \/ unsure' = unsure
      BY <1>3, <1>5, <1>6, <2>2, Zenon
    <3> QED
      BY <2>1, <3>1, Zenon
  <2>3. CASE x = t /\ d = c
    <3>1. PICK U, B : U = uris[x][d] /\ B = clients[d][x]
      BY Zenon
    <3>2. /\ uris'[x][d] = U \cup M /\ clients'[d] = clients[d] /\ clients[d] # <<>>
          /\ M \cap U = {} /\ IsFiniteSet(U) /\ B \subseteq U
      BY <1>2, <1>3, <1>5, <2>1, <2>3, <3>1, Zenon
    <3>3. IsFiniteSet(uris'[x][d]) /\ clients'[d][x] \subseteq uris'[x][d]
      <4>1. IsFiniteSet(U \cup M)
        BY <1>2, <3>2, FS_Union, Zenon
      <4> QED
        BY <3>1, <3>2, <4>1, Zenon
    <3>4. Cardinality(uris'[x][d] \ clients'[d][x])
            = Cardinality(uris[x][d] \ clients[d][x]) + Cardinality(M)
      <4>1. Cardinality((U \cup M) \ B) = Cardinality(U \ B) + Cardinality(M)
        <5>1. (U \cup M) \ B = (U \ B) \cup M /\ (U \ B) \cap M = {}
          BY <3>2, Zenon
        <5>2. IsFiniteSet(U \ B) /\ Cardinality(U \ B) \in Nat
          BY <3>2, FS_Subset, FS_CardinalityType, Zenon
        <5>3. Cardinality((U \ B) \cup M)
                = Cardinality(U \ B) + Cardinality(M) - Cardinality((U \ B) \cap M)
          BY <1>2, <5>2, FS_Union, Zenon
        <5>4. Cardinality((U \ B) \cap M) = 0
          BY <5>1, FS_EmptySet, Zenon
        <5>5. Cardinality((U \ B) \cup M) = Cardinality(U \ B) + Cardinality(M)
          BY <1>2, <5>2, <5>3, <5>4
        <5> QED
          BY <5>1, <5>5, Zenon
      <4>2. uris'[x][d] \ clients'[d][x] = (U \cup M) \ B /\ uris[x][d] \ clients[d][x] = U \ B
        BY <3>1, <3>2, Zenon
      <4> QED
        BY <4>1, <4>2, Zenon
    <3>5. unsure' = TRUE \/ (unsure' = unsure /\ registered'[x][d] = registered[x][d] + Cardinality(M))
      BY <1>6, <2>3, Zenon
    <3> QED
      BY <2>1, <3>2, <3>3, <3>4, <3>5, Zenon
  <2> QED
    BY <2>2, <2>3, Zenon
<1>8. ClientStores'
  <2>1. /\ clients' \in [ClientIds -> Models \cup {<<>>}] /\ created' \in [ClientIds -> Models \cup {<<>>}]
        /\ \A d \in ClientIds : created'[d] \in {<<>>, clients'[d]}
    BY <1>3, Zenon DEF RegInv, ClientStores
  <2> QED
    BY <1>5, <1>6, <1>7, <2>1, Zenon DEF ClientStores
<1>9. ASSUME NEW s \in Slots, s # r, regReq[s].pc = "register"
      PROVE  /\ clients'[regReq[s].client] # <<>>
             /\ regReq[s].mine \cap uris'[regReq[s].table][regReq[s].client] = {}
  <2>1. PICK p : p = regReq[s]
    BY Zenon
  <2>2. /\ p.client \in ClientIds /\ p.table \in G!Tables /\ clients[p.client] # <<>>
        /\ p.mine \cap uris[p.table][p.client] = {}
    BY <1>9, <2>1, Zenon DEF RegInv, RegRequestOK, Registering, RegRequests
  <2>3. p.client = c /\ p.table = t => p.mine \cap M = {}
    BY <1>1, <1>9, <2>1, Zenon DEF RegInv, InsertsApart, SameKey
  <2> QED
    BY <1>3, <1>5, <2>1, <2>2, <2>3
<1>10. RegOthers(r, G!Idle) /\ RegRequestOK(G!Idle)'
    BY <1>3, RegReturn, RegIdle, Zenon DEF RegRequestOK
<1> QED
    BY <1>3, <1>8, <1>9, <1>10, RegIdle, RegStep, LinksSame

\* Two transactions that wait for each other: one of them is rolled back; and a
\* store call that fails.
LEMMA RegRolledBack ==
    ASSUME RegInv, NEW r \in Slots, G!Deadlock(r) \/ G!CallFails(r)
    PROVE  RegInv'
<1>1. G!Return(r) /\ UNCHANGED G!clientVars /\ UNCHANGED G!linkVars
    BY Zenon DEF G!Deadlock, G!CallFails
<1> QED
    BY <1>1, RegAnswered, LinksSame, Zenon

\* A short link is created, or another code is tried.
LEMMA RegInsertLink ==
    ASSUME RegInv, NEW r \in Slots, G!InsertLink(r)
    PROVE  RegInv'
<1>1. PICK p : p = regReq[r]
    BY Zenon
<1>2. p \in RegRequests /\ p.pc = "create" /\ p.mine = {} /\ RegRequestOK(p)
    BY <1>1, Zenon DEF RegInv, G!InsertLink, G!At, RegRequestOK
<1>3. UNCHANGED G!clientVars
    BY Zenon DEF G!InsertLink
<1>4. PICK k \in IF p.code = G!None THEN ShortCodes ELSE {p.code} :
        \/ /\ links[k] = G!None /\ links' = [links EXCEPT ![k] = p.target]
           /\ promised' = [promised EXCEPT ![k] = p.target] \/ promised' = promised
           /\ G!Return(r)
        \/ UNCHANGED <<links, promised>> /\ G!Return(r)
        \/ UNCHANGED <<links, promised>> /\ regReq' = [regReq EXCEPT ![r].attempts = @ + 1]
  <2>1. PICK k \in IF regReq[r].code = G!None THEN ShortCodes ELSE {regReq[r].code} :
        \/ /\ links[k] = G!None /\ links' = [links EXCEPT ![k] = regReq[r].target]
           /\ promised' = [promised EXCEPT ![k] = regReq[r].target] \/ promised' = promised
           /\ G!Return(r)
        \/ UNCHANGED <<links, promised>> /\ G!Return(r)
        \/ UNCHANGED <<links, promised>> /\ regReq' = [regReq EXCEPT ![r].attempts = @ + 1]
    BY Zenon DEF G!InsertLink, G!Put
  <2> QED
    BY <1>1, <2>1, Zenon
<1>5. LinkStores' /\ LinksStay
  <2>1. k \in ShortCodes /\ p.target \in Targets \cup {G!None}
    BY <1>2, Zenon DEF RegRequests
  <2>2. /\ links \in [ShortCodes -> Targets \cup {G!None}]
        /\ promised \in [ShortCodes -> Targets \cup {G!None}]
        /\ \A x \in ShortCodes : promised[x] \in {G!None, links[x]}
    BY Zenon DEF RegInv, LinkStores
  <2>3. CASE UNCHANGED <<links, promised>>
    BY <2>2, <2>3, Zenon DEF LinkStores, LinksStay
  <2>4. CASE /\ links[k] = G!None /\ links' = [links EXCEPT ![k] = p.target]
             /\ promised' = [promised EXCEPT ![k] = p.target] \/ promised' = promised
    <3>1. /\ links' \in [ShortCodes -> Targets \cup {G!None}] /\ links'[k] = p.target
          /\ \A x \in ShortCodes : x # k => links'[x] = links[x]
      BY <2>1, <2>2, <2>4, Zenon
    <3>2. /\ promised' \in [ShortCodes -> Targets \cup {G!None}] /\ promised'[k] \in {G!None, p.target}
          /\ \A x \in ShortCodes : x # k => promised'[x] = promised[x]
      BY <2>1, <2>2, <2>4, Zenon
    <3>3. \A x \in ShortCodes : promised'[x] \in {G!None, links'[x]}
      BY <2>2, <3>1, <3>2, Zenon
    <3> QED
      BY <2>4, <3>1, <3>2, <3>3, Zenon DEF LinkStores, LinksStay
  <2> QED
    BY <1>4, <2>3, <2>4, Zenon
<1>6. CASE G!Return(r)
    BY <1>3, <1>5, <1>6, RegAnswered, Zenon
<1>7. CASE regReq' = [regReq EXCEPT ![r].attempts = @ + 1]
  <2> PICK n \in Nat : n = p.attempts + 1
    BY <1>2 DEF RegRequests
  <2>1. PICK q : q = [p EXCEPT !.attempts = n]
    BY Zenon
  <2>2. /\ q \in RegRequests /\ q.pc = "create" /\ q.mine = {} /\ q.op = p.op /\ q.client = p.client
        /\ q.model = p.model /\ q.code = p.code
    BY <1>2, <2>1, Zenon DEF RegRequests
  <2>3. regReq' = [regReq EXCEPT ![r] = q]
    BY <1>1, <1>2, <1>7, <2>1, Zenon DEF RegInv, RegRequests
  <2>4. RegOthers(r, q)
    BY <2>2, <2>3, RegEffect, Zenon DEF RegInv
  <2>5. RegRequestOK(q)
    BY <1>2, <2>2, Zenon DEF RegRequestOK
  <2> QED
    BY <1>3, <1>5, <2>2, <2>4, <2>5, RegQuiet
<1> QED
    BY <1>4, <1>6, <1>7, Zenon

\* A short link is looked up.
LEMMA RegResolve ==
    ASSUME RegInv, NEW r \in Slots, G!Resolve(r)
    PROVE  RegInv'
<1>1. PICK p, q : p = regReq[r] /\ q = [p EXCEPT !.pc = "click", !.target = links[p.code]]
    BY Zenon
<1>2. /\ p \in RegRequests /\ p.mine = {} /\ RegRequestOK(p) /\ p.op = "redirect" /\ p.code \in ShortCodes
    BY <1>1, Zenon DEF RegInv, G!Resolve, G!At, RegRequestOK
<1>3. UNCHANGED G!clientVars /\ LinkStores' /\ LinksStay
    BY LinksSame, Zenon DEF G!Resolve
<1>4. CASE G!Return(r)
    BY <1>3, <1>4, RegAnswered, Zenon
<1>5. CASE /\ links[p.code] # G!None
           /\ regReq' = [regReq EXCEPT ![r].pc = "click", ![r].target = links[regReq[r].code]]
  <2>1. links[p.code] \in Targets \cup {G!None}
    BY <1>2, Zenon DEF RegInv, LinkStores
  <2>2. /\ q \in RegRequests /\ q.pc = "click" /\ q.mine = {} /\ q.op = "redirect" /\ q.code \in ShortCodes
        /\ q.code = p.code /\ q.target = links[p.code]
    BY <1>1, <1>2, <2>1, Zenon DEF RegRequests, G!Steps
  <2>3. regReq' = [regReq EXCEPT ![r] = q]
    BY <1>1, <1>2, <1>5, Zenon DEF RegInv, RegRequests
  <2>4. RegOthers(r, q)
    BY <2>2, <2>3, RegEffect, Zenon DEF RegInv
  <2>5. RegRequestOK(q)
    BY <1>5, <2>2, Zenon DEF RegRequestOK
  <2> QED
    BY <1>3, <2>2, <2>4, <2>5, RegQuiet
<1> QED
    BY <1>1, <1>4, <1>5, Zenon DEF G!Resolve

\* A click is counted, which leaves the link.
LEMMA RegClick ==
    ASSUME RegInv, NEW r \in Slots, G!IncrementClick(r)
    PROVE  RegInv'
<1>1. UNCHANGED <<links, promised>> /\ G!Return(r) /\ UNCHANGED G!clientVars
    BY Zenon DEF G!IncrementClick
<1>2. LinkStores' /\ LinksStay
    BY <1>1, Zenon DEF RegInv, LinkStores, LinksStay
<1> QED
    BY <1>1, <1>2, RegAnswered, Zenon

\* A link's time is over, or nothing happens.
LEMMA RegSame ==
    ASSUME RegInv, UNCHANGED G!vars \/ G!Expire
    PROVE  RegInv'
<1>1. /\ UNCHANGED <<clients, uris, registered, unsure, created>>
      /\ UNCHANGED <<links, promised, regReq>>
    BY Zenon DEF G!vars, G!Expire, G!clientVars
<1>2. ClientStores' /\ LinkStores' /\ regReq' \in [Slots -> RegRequests] /\ InsertsApart'
    BY <1>1, Zenon DEF RegInv, ClientStores, LinkStores, InsertsApart, SameKey
<1>3. \A r \in Slots : RegRequestOK(regReq[r])'
    BY <1>1, Zenon DEF RegInv, RegRequestOK, Registering
<1> QED
    BY <1>2, <1>3, Zenon DEF RegInv

\* The clients of migrate.sql, and no links.
LEMMA RegInit ==
    ASSUME RegistryData, G!Init
    PROVE  RegInv
<1>1. regReq \in [Slots -> RegRequests] /\ \A r \in Slots : regReq[r] = G!Idle
    BY RegIdle, Zenon DEF G!Init
<1>2. clients \in [ClientIds -> Models \cup {<<>>}] /\ created = clients
    BY Zenon DEF G!Init, Models
<1>3. ASSUME NEW t \in G!Tables, NEW c \in ClientIds
      PROVE  /\ uris[t][c] \subseteq URIs /\ IsFiniteSet(uris[t][c]) /\ registered[t][c] = 0
             /\ clients[c] # <<>> => uris[t][c] = clients[c][t]
  <2>1. registered[t][c] = 0
    BY Zenon DEF G!Init
  <2>2. CASE c \in DOMAIN SeededClients
    <3>1. clients[c] = SeededClients[c] /\ uris[t][c] = SeededClients[c][t] /\ SeededClients[c] \in Models
      BY <2>2, Zenon DEF G!Init, Models
    <3> QED
      BY <2>1, <3>1, ModelFacts, Zenon
  <2>3. CASE c \notin DOMAIN SeededClients
    <3>1. clients[c] = <<>> /\ uris[t][c] = {}
      BY <2>3, Zenon DEF G!Init
    <3> QED
      BY <2>1, <3>1, FS_EmptySet, Zenon
  <2> QED
    BY <2>2, <2>3, Zenon
<1>4. uris \in [G!Tables -> [ClientIds -> SUBSET URIs]]
  <2>1. uris = [t \in G!Tables |-> [c \in ClientIds |-> uris[t][c]]]
    BY Zenon DEF G!Init
  <2> QED
    BY <1>3, <2>1, Zenon
<1>5. ClientStores
  <2>1. registered \in [G!Tables -> [ClientIds -> Nat]]
    BY DEF G!Init
  <2>2. ASSUME NEW t \in G!Tables, NEW c \in ClientIds, clients[c] # <<>>
        PROVE  clients[c][t] \subseteq uris[t][c] /\ registered[t][c] = Cardinality(uris[t][c] \ clients[c][t])
    <3>1. uris[t][c] \ clients[c][t] = {}
      BY <1>3, <2>2, Zenon
    <3> QED
      BY <1>3, <2>2, <3>1, FS_EmptySet, Zenon
  <2> QED
    BY <1>2, <1>3, <1>4, <2>1, <2>2, Zenon DEF ClientStores
<1>6. LinkStores
    BY Zenon DEF G!Init, LinkStores
<1>7. InsertsApart
    BY <1>1, RegIdle, Zenon DEF InsertsApart
<1> QED
    BY <1>1, <1>5, <1>6, <1>7, RegIdle, Zenon DEF RegInv

\* The invariant holds throughout.
LEMMA RegInvariant ==
    ASSUME RegistryData
    PROVE  G!Spec => []RegInv
<1>1. G!Init => RegInv
    BY RegInit, Zenon
<1>2. ASSUME RegInv, [G!Next]_(G!vars)
      PROVE  RegInv'
  <2>1. CASE UNCHANGED G!vars \/ G!Expire
    BY <1>2, <2>1, RegSame, Zenon
  <2>2. ASSUME NEW r \in Slots,
               \/ G!Arrive(r) \/ G!FindByClientID(r) \/ G!InsertClient(r)
               \/ G!InsertIgnore(r) \/ G!Deadlock(r) \/ G!Commit(r)
               \/ G!InsertLink(r) \/ G!Resolve(r) \/ G!IncrementClick(r) \/ G!CallFails(r)
        PROVE  RegInv'
    BY <1>2, <2>2, RegArrive, RegFind, RegInsertClient, RegInsertIgnore, RegRolledBack, RegCommit,
       RegInsertLink, RegResolve, RegClick
  <2> QED
    BY <1>2, <2>1, <2>2, Zenon DEF G!Next
<1> QED
    BY <1>1, <1>2, PTL DEF G!Spec

\* Whatever creators of clients and of short links run at once, under one
\* client_id or code: what one of them was told, the settings and URIs of the
\* client or the target of the link, stands in the tables and in every redirect
\* from then on (CreateClient, RegisterRedirectURIs, Create and Resolve).
THEOREM PromisesAreKept ==
    ASSUME RegistryData
    PROVE  G!Spec => []PromisesKept
<1>1. RegInv => PromisesKept
  <2> SUFFICES ASSUME RegInv
               PROVE  G!PromisesKept
    BY Zenon DEF PromisesKept
  <2>1. ASSUME NEW c \in ClientIds, created[c] # <<>>
        PROVE  clients[c] = created[c] /\ \A t \in G!Tables : created[c][t] \subseteq uris[t][c]
    <3>1. clients[c] = created[c]
      BY <2>1, Zenon DEF RegInv, ClientStores
    <3> QED
      BY <2>1, <3>1, Zenon DEF RegInv, ClientStores
  <2>2. ASSUME NEW k \in ShortCodes, promised[k] # G!None
        PROVE  /\ links[k] = promised[k]
               /\ \A r \in Slots : G!At(r, "click") /\ regReq[r].code = k => regReq[r].target = promised[k]
    <3>1. links[k] = promised[k]
      BY <2>2, Zenon DEF RegInv, LinkStores
    <3> QED
      BY <3>1, Zenon DEF RegInv, RegRequestOK, G!At
  <2> QED
    BY <2>1, <2>2, Zenon DEF G!PromisesKept
<1> QED
    BY <1>1, RegInvariant, PTL

\* However registrations for one client overlap, wait for each other and are
\* rolled back, the counts they answer add up to the URIs that are there beside
\* those the client came with (RegisterRedirectURIs).
THEOREM RegistrationsAddUp ==
    ASSUME RegistryData
    PROVE  G!Spec => []CountsAddUp
<1>1. RegInv => CountsAddUp
  <2>1. RegInv => \A t \in G!Tables, c \in ClientIds : clients[c] # <<>> =>
                    unsure \/ registered[t][c] = G!Cardinality(uris[t][c] \ clients[c][t])
    BY SameCardinality, Zenon DEF RegInv, ClientStores
  <2> QED
    BY <2>1, Zenon DEF CountsAddUp, G!CountsAddUp
<1> QED
    BY <1>1, RegInvariant, PTL

=============================================================================
