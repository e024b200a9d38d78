------------------------------- MODULE Roles -------------------------------
(***************************************************************************)
(* Administration of roles and privileges: the guard in front of the       *)
(* console (middleware/admin_session.go), the operations of                *)
(* application/rbac that change operator_roles or the role of a user, and  *)
(* the audit event the handlers write after each of them.                  *)
(*                                                                         *)
(* Requests run concurrently, one step per store call.  A privilege mask   *)
(* is the set of its permission bits.  users.role_code has no foreign key  *)
(* to operator_roles.  migrate.sql creates the system roles and the first  *)
(* users, with masks that are not all the built-in ones of pkg/rbac; a     *)
(* bootstrap brings those in.  Input a format check or the guard refuses,  *)
(* and operations that only list, change nothing and are not steps.  The   *)
(* reader is taken to be up to date.  An event counts from when the        *)
(* repository has it, in the stream by default: its way to audit_events is *)
(* in AuditStream.                                                         *)
(***************************************************************************)
EXTENDS Naturals, FiniteSets

CONSTANTS
    Slots,          \* slots of concurrent requests
    MaxRequests,    \* bound: requests in all
    Users, Admin,   \* users, and the one who is an administrator at the start
    Builtin,        \* masks of the built-in roles, by role code
    Seeded,         \* masks of the same roles in migrate.sql
    CustomRoles,    \* codes of the roles created here
    Masks,          \* masks given in requests
    StoresFail      \* whether store calls may fail

SystemRoles == DOMAIN Builtin
Codes == SystemRoles \cup CustomRoles
Subjects == Codes \cup Users
EndUser == "end_user"

VARIABLES
    roles,          \* operator_roles: the mask by code, or Absent
    role, mask,     \* users: role_code and privilege_mask
    req, count,     \* the request in each slot; bounded counter
    trail,          \* audit events: what the latest one about a subject says
    overlapped,     \* history: subjects two requests were about at once
    unrecorded      \* history: subjects whose latest change has no audit event

vars == <<roles, role, mask, req, count, trail, overlapped, unrecorded>>
rows == <<roles, role, mask>>
history == <<overlapped, unrecorded>>

Absent == {"no row"}      \* not a mask

Idle == [pc |-> "idle", op |-> "none", code |-> EndUser, user |-> Admin,
         custom |-> FALSE,      \* the request gives a mask of its own
         mask |-> {},           \* the mask to write
         todo |-> {}]           \* built-in roles still to upsert

Steps == {"idle", "upsert", "find", "count", "write", "audit"}

TypeOK ==
    /\ roles \in [Codes -> Masks \cup {Builtin[c] : c \in SystemRoles}
                                 \cup {Seeded[c] : c \in SystemRoles} \cup {Absent}]
    /\ role \in [Users -> Codes]
    /\ \A r \in Slots : req[r].pc \in Steps /\ req[r].code \in Codes
    /\ count \in 0..MaxRequests
    /\ overlapped \subseteq Subjects /\ unrecorded \subseteq Subjects

\* The row of a role, or the role and mask of a user.
Row(x) == IF x \in Codes THEN roles[x] ELSE <<role[x], mask[x]>>

Init ==
    /\ roles = [c \in Codes |-> IF c \in SystemRoles THEN Seeded[c] ELSE Absent]
    /\ role \in [Users -> SystemRoles] /\ role[Admin] = "super_admin"
    /\ mask = [u \in Users |-> Seeded[role[u]]]
    /\ req = [r \in Slots |-> Idle] /\ count = 0
    /\ trail = [x \in Subjects |-> Row(x)]
    /\ overlapped = {} /\ unrecorded = {}

-----------------------------------------------------------------------------
(* Control of one request. *)

At(r, step) == req[r].pc = step

Goto(r, step) == req' = [req EXCEPT ![r].pc = step]

Return(r) == req' = [req EXCEPT ![r] = Idle]

\* Whose rows a request changes; its audit event tells of them.
Changed(q) == CASE q.op = "bootstrap"                      -> SystemRoles
                [] q.op \in {"create", "update", "delete"} -> {q.code}
                [] q.op = "assign"                         -> {q.user}
                [] OTHER                                   -> {}

\* What a request is about.
About(q) == Changed(q) \cup (IF q.op = "assign" THEN {q.code} ELSE {})

Busy(x) == \E r \in Slots : x \in About(req[r])

\* The permissions the router asks for.
Required(op) == {"AuthExec", IF op = "assign" THEN "UserManage" ELSE "OpsManage"}

HasAll(bits, required) == required \subseteq bits

\* RequireSessionPermissions: the user's mask as it is stored now.  That the
\* session is on, has OTP and its user is active is taken as given.
RequireSessionPermissions(a, op) == HasAll(mask[a], Required(op))

Free(r) == At(r, "idle") /\ count < MaxRequests

Begin(r, a, fields) ==
    /\ RequireSessionPermissions(a, fields.op)
    /\ count' = count + 1
    /\ req' = [req EXCEPT ![r] = fields]
    /\ overlapped' = overlapped \cup {x \in About(fields) \ SystemRoles : Busy(x)}
    /\ UNCHANGED <<rows, trail, unrecorded>>

\* The upserts a bootstrap has made.
Upserted(q) == IF q.op = "bootstrap" THEN SystemRoles \ q.todo ELSE {}

\* The request ends with an error, and without an event about what it changed.
Fail(r, changed) ==
    /\ StoresFail
    /\ Return(r)
    /\ unrecorded' = unrecorded \cup changed

\* A call fails, and has not changed anything.
CallFails(r) ==
    /\ req[r].pc \notin {"idle", "audit"}
    /\ Fail(r, Upserted(req[r]))
    /\ UNCHANGED <<rows, count, trail, overlapped>>

-----------------------------------------------------------------------------
(* The operations. *)

Bootstrap(r, a) ==
    Begin(r, a, [Idle EXCEPT !.pc = "upsert", !.op = "bootstrap", !.todo = SystemRoles])

CreateRole(r, a, c, m) ==
    Begin(r, a, [Idle EXCEPT !.pc = "find", !.op = "create", !.code = c, !.mask = m])

UpdateRole(r, a, c, m) ==
    Begin(r, a, [Idle EXCEPT !.pc = "find", !.op = "update", !.code = c, !.mask = m])

DeleteRole(r, a, c) ==
    Begin(r, a, [Idle EXCEPT !.pc = "find", !.op = "delete", !.code = c])

AssignRole(r, a, u, c) ==
    \/ Begin(r, a, [Idle EXCEPT !.pc = "find", !.op = "assign", !.user = u, !.code = c])
    \/ \E m \in Masks :
        Begin(r, a, [Idle EXCEPT !.pc = "find", !.op = "assign", !.user = u, !.code = c,
                                 !.custom = TRUE, !.mask = m])

\* BootstrapBuiltinRoles: one upsert after the other, system roles as built in.
\* The change may be made and the answer lost.
Upsert(r) ==
    /\ At(r, "upsert")
    /\ \E c \in req[r].todo :
        /\ roles' = [roles EXCEPT ![c] = Builtin[c]]
        /\ \/ /\ req' = [req EXCEPT ![r].todo = @ \ {c},
                                   ![r].pc = IF req[r].todo = {c} THEN "audit" ELSE @]
              /\ UNCHANGED unrecorded
           \/ Fail(r, Upserted(req[r]) \cup {c})
    /\ UNCHANGED <<role, mask, count, trail, overlapped>>

\* UpdateRole and DeleteRole: the role is there and not a system role.
MayChange(q) == roles[q.code] # Absent /\ q.code \notin SystemRoles

\* AssignRole: the role is there.
Assignable(q) == roles[q.code] # Absent

\* FindByRoleCode (after FindByID in AssignRole), and what each operation makes of the answer.
FindByRoleCode(r) ==
    /\ At(r, "find")
    /\ LET q == req[r] IN
        \/ /\ q.op = "create" /\ roles[q.code] = Absent
           /\ Goto(r, "write")
        \/ /\ q.op \in {"update", "delete"} /\ MayChange(q)
           /\ Goto(r, IF q.op = "delete" THEN "count" ELSE "write")
        \/ /\ q.op = "assign" /\ Assignable(q)
           /\ req' = [req EXCEPT ![r].pc = "write",
                                 ![r].mask = IF q.custom THEN @ ELSE roles[q.code]]
        \/ /\ \/ q.op = "create" /\ roles[q.code] # Absent
              \/ q.op \in {"update", "delete"} /\ ~MayChange(q)
              \/ q.op = "assign" /\ ~Assignable(q)
           /\ Return(r)  \* already exists, not found or immutable
    /\ UNCHANGED <<rows, count, trail, history>>

\* Mutant: whether the role is in use is not asked.
UnusedUnchecked(c) == TRUE

\* CountByRoleCode.
Unused(c) == \A u \in Users : role[u] # c

CountByRoleCode(r) ==
    /\ At(r, "count")
    /\ IF Unused(req[r].code) THEN Goto(r, "write") ELSE Return(r)  \* ErrRoleInUse
    /\ UNCHANGED <<rows, count, trail, history>>

\* Create fails on a taken code; Update and DeleteByRoleCode do not look at the
\* number of rows they affect, UpdateRoleAndPrivilege not at the role.
WriteRow(q) ==
    \/ /\ q.op = "create" /\ roles[q.code] = Absent
       /\ roles' = [roles EXCEPT ![q.code] = q.mask] /\ UNCHANGED <<role, mask>>
    \/ /\ q.op = "update"
       /\ roles' = [roles EXCEPT ![q.code] = IF @ = Absent THEN Absent ELSE q.mask]
       /\ UNCHANGED <<role, mask>>
    \/ /\ q.op = "delete"
       /\ roles' = [roles EXCEPT ![q.code] = Absent] /\ UNCHANGED <<role, mask>>
    \/ /\ q.op = "assign"
       /\ role' = [role EXCEPT ![q.user] = q.code]
       /\ mask' = [mask EXCEPT ![q.user] = q.mask]
       /\ UNCHANGED roles

\* The change may be made and the answer lost.
Write(r) ==
    /\ At(r, "write")
    /\ \/ /\ WriteRow(req[r])
          /\ \/ Goto(r, "audit") /\ UNCHANGED unrecorded
             \/ Fail(r, Changed(req[r]))
       \/ /\ req[r].op = "create" /\ roles[req[r].code] # Absent
          /\ Return(r)  \* duplicate key
          /\ UNCHANGED <<rows, unrecorded>>
    /\ UNCHANGED <<count, trail, overlapped>>

\* Mutant: the event of an assignment names the mask of the role.
EventOfRole(q, x) ==
    CASE q.op = "bootstrap" -> Builtin[x]
      [] q.op = "assign"    -> <<q.code, roles[q.code]>>
      [] q.op = "delete"    -> Absent
      [] OTHER              -> q.mask

\* What the audit event says of a subject; that of a bootstrap, that the system
\* roles are as built in.
Event(q, x) ==
    CASE q.op = "bootstrap" -> Builtin[x]
      [] q.op = "assign"    -> <<q.code, q.mask>>
      [] q.op = "delete"    -> Absent
      [] OTHER              -> q.mask

\* recordAdminAuditEvent after the change; a failure is logged, not reported.
RecordAdminAuditEvent(r) ==
    /\ At(r, "audit")
    /\ LET q == req[r] IN
        \/ /\ trail' = [x \in Subjects |-> IF x \in Changed(q) THEN Event(q, x) ELSE trail[x]]
           /\ unrecorded' = unrecorded \ Changed(q)
           /\ Return(r)  \* done
        \/ Fail(r, Changed(q)) /\ UNCHANGED trail  \* answered as done all the same
    /\ UNCHANGED <<rows, count, overlapped>>

\* A request arrives in a free slot.
Arrive(r) ==
    /\ Free(r)
    /\ \E a \in Users :
        \/ Bootstrap(r, a)
        \/ \E c \in Codes :
            \/ \E m \in Masks : CreateRole(r, a, c, m) \/ UpdateRole(r, a, c, m)
            \/ DeleteRole(r, a, c)
            \/ \E u \in Users : AssignRole(r, a, u, c)

Next ==
    \E r \in Slots :
        \/ Arrive(r)
        \/ Upsert(r) \/ FindByRoleCode(r) \/ CountByRoleCode(r) \/ Write(r)
        \/ RecordAdminAuditEvent(r) \/ CallFails(r)

Spec == Init /\ [][Next]_vars

-----------------------------------------------------------------------------
(* Properties *)

\* Whatever requests run at once, a system role has the mask of migrate.sql or
\* the built-in one and never what a request gives (ErrSystemRoleImmutable), and
\* the role of every user exists unless requests about that role overlapped:
\* AssignRole takes only roles that are there and DeleteRole only unused ones
\* (ErrRoleInUse).  Each of these checks is made on a row read before the write.
RolesStand ==
    /\ \A c \in SystemRoles : roles[c] \in {Seeded[c], Builtin[c]}
    /\ \A u \in Users : roles[role[u]] # Absent \/ role[u] \in overlapped

\* Without the exception it fails: Directory_role.cfg.
RolesAlwaysExist == \A u \in Users : roles[role[u]] # Absent

\* Once the requests about a role or a user are answered, the latest audit event
\* about it tells what the row holds, unless such requests overlapped or the
\* latest change has no event: its answer or the event was lost, or a bootstrap
\* failed midway.  A bootstrap's one event tells of all system roles, of which
\* some change, and overlapping bootstraps are no exception.
TrailTells ==
    \A x \in Subjects :
        ~Busy(x) /\ x \notin overlapped \cup unrecorded => trail[x] = Row(x)

=============================================================================
