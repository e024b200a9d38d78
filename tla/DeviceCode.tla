----------------------------- MODULE DeviceCode -----------------------------
(***************************************************************************)
(* One device code of the OAuth 2.0 device grant: the device service       *)
(* (application/device/service.go), the polling exchange of the token      *)
(* service (exchangeDeviceCode) and the Redis hash they share              *)
(* (device_code_repository.go).                                            *)
(*                                                                         *)
(* A poll is one call of the token endpoint; a decision is one submission  *)
(* of the browser's confirmation form by a logged-in user.  Each takes one *)
(* step per Redis round trip.  Clocks are read to a fraction of a second,  *)
(* times are stored in whole seconds.                                      *)
(***************************************************************************)
EXTENDS Integers, FiniteSets

CONSTANTS
    Polls,          \* token-endpoint calls with the device code
    Deciders,       \* logged-in users who submit the user code
    Second,         \* clock readings in a second: the clock is finer than that
    DeviceTTL,      \* s.deviceTTL
    Interval,       \* s.interval, the minimum time between polls
    MaxTime,        \* bound on the clock
    Nobody

VARIABLES
    now,
    born,           \* the time Start was called, or -1
    code,           \* the device-code hash
    userKey,        \* the user-code key exists
    watch,          \* polls whose WATCH of the hash is still clean
    pc, seen, at,   \* polls: next step, entry read, time of the last clock reading
    polledAt,       \* polls TouchPoll allowed: the time it recorded, else -1
    issued,         \* polls that stored tokens: the user they are for
    dpc, action,    \* decisions: next step and the action submitted
    approvers       \* history: users whose approval was written

poll == <<pc, seen, at, polledAt, issued>>
decision == <<dpc, action, approvers>>
vars == <<now, born, code, userKey, watch, poll, decision>>

-----------------------------------------------------------------------------
(* Values. *)

Status == {"", "pending", "approved", "denied", "consumed"}

\* full: the fields Save writes are there (client_id, expires_at, ...).
Entry == [present: BOOLEAN, full: BOOLEAN, status: Status,
          user: Deciders \cup {Nobody}, last: Int]

NoCode == [present |-> FALSE, full |-> FALSE, status |-> "", user |-> Nobody, last |-> -1]

PollSteps == {"idle", "watch", "exec", "status", "consume",
              "ok", "slow_down", "pending", "refused", "error"}

DecisionSteps == {"idle", "reload", "write", "done", "refused", "error"}

TypeOK ==
    /\ now \in 0..MaxTime
    /\ born \in -1..Second - 1
    /\ code \in Entry
    /\ userKey \in BOOLEAN
    /\ watch \subseteq Polls
    /\ pc \in [Polls -> PollSteps]
    /\ seen \in [Polls -> Entry]
    /\ at \in [Polls -> 0..MaxTime]
    /\ polledAt \in [Polls -> -1..MaxTime]
    /\ issued \in [Polls -> Deciders \cup {Nobody}]
    /\ dpc \in [Deciders -> DecisionSteps]
    /\ action \in [Deciders -> {"", "approve", "deny"}]
    /\ approvers \subseteq Deciders

\* Start may be called at any moment of a second.
Init ==
    /\ now \in 0..Second - 1
    /\ born = -1
    /\ code = NoCode
    /\ userKey = FALSE
    /\ watch = {}
    /\ pc = [p \in Polls |-> "idle"]
    /\ seen = [p \in Polls |-> NoCode]
    /\ at = [p \in Polls |-> 0]
    /\ polledAt = [p \in Polls |-> -1]
    /\ issued = [p \in Polls |-> Nobody]
    /\ dpc = [d \in Deciders |-> "idle"]
    /\ action = [d \in Deciders |-> ""]
    /\ approvers = {}

\* Nothing but Start happens before Start.
Tick ==
    /\ born # -1 /\ now < MaxTime
    /\ now' = now + 1
    /\ UNCHANGED <<born, code, userKey, watch, poll, decision>>

Goto(p, step) == pc' = [pc EXCEPT ![p] = step]

DecisionGoto(d, step) == dpc' = [dpc EXCEPT ![d] = step]

\* formatTime keeps whole seconds (RFC 3339), in every time written to the hash.
FormatTime(t) == t - (t % Second)

\* expires_at as it is stored.
ExpiresAt == FormatTime(born + DeviceTTL)

\* Any write to the hash breaks every WATCH on it.
WriteCode(c) == code' = c /\ watch' = {}

-----------------------------------------------------------------------------
(* The code's lifetime. *)

\* Start saves the hash and the user-code key with the same TTL.
Start ==
    /\ born = -1 /\ born' = now
    /\ WriteCode([present |-> TRUE, full |-> TRUE, status |-> "pending",
                  user |-> Nobody, last |-> -1])
    /\ userKey' = TRUE
    /\ UNCHANGED <<now, poll, decision>>

\* The TTLs are set a moment after the expiry was computed, so the keys go at
\* some time from then on.  A hash a late HSET brought back has no TTL.
UserKeyExpires ==
    /\ userKey /\ now >= born + DeviceTTL
    /\ userKey' = FALSE
    /\ UNCHANGED <<now, born, code, watch, poll, decision>>

CodeExpires ==
    /\ code.present /\ code.full /\ now >= born + DeviceTTL
    /\ WriteCode(NoCode)
    /\ UNCHANGED <<now, born, userKey, poll, decision>>

-----------------------------------------------------------------------------
(* Decide. *)

\* loadContext: the code must be there, in time and undecided.  The session
\* lookup that follows reads nothing of the code.
LoadContext(d, a) ==
    /\ born # -1 /\ dpc[d] = "idle"
    /\ action' = [action EXCEPT ![d] = a]
    /\ LET ok == /\ userKey /\ code.present /\ code.full /\ now < ExpiresAt
                 /\ code.status \in {"", "pending"}
       IN  DecisionGoto(d, IF ok THEN "reload" ELSE "refused")
    /\ UNCHANGED <<now, born, code, userKey, watch, poll, approvers>>

\* Approve and Deny of the repository look the code up again, without a look
\* at its status; a code that is gone is not an error.
ReloadByUserCode(d) ==
    /\ dpc[d] = "reload"
    /\ DecisionGoto(d, IF userKey /\ code.present THEN "write" ELSE "done")
    /\ UNCHANGED <<now, born, code, userKey, watch, poll, action, approvers>>

\* The HSET is unconditional, and creates the hash if it expired meanwhile.
WriteDecision(d) ==
    /\ dpc[d] = "write"
    /\ IF action[d] = "approve"
       THEN /\ WriteCode([code EXCEPT !.present = TRUE, !.status = "approved", !.user = d])
            /\ approvers' = approvers \cup {d}
       ELSE /\ WriteCode([code EXCEPT !.present = TRUE, !.status = "denied"])
            /\ UNCHANGED approvers
    /\ DecisionGoto(d, "done")
    /\ UNCHANGED <<now, born, userKey, poll, action>>

DecisionFails(d) ==
    /\ dpc[d] \in {"reload", "write"}
    /\ DecisionGoto(d, "error")
    /\ UNCHANGED <<now, born, code, userKey, watch, poll, action, approvers>>

-----------------------------------------------------------------------------
(* exchangeDeviceCode. *)

\* The checks on the entry read: it exists, for this client, and in time.
Usable(e) == e.present /\ e.full /\ now < ExpiresAt

GetByDeviceCode(p) ==
    /\ born # -1 /\ pc[p] = "idle"
    /\ seen' = [seen EXCEPT ![p] = code]
    /\ at' = [at EXCEPT ![p] = now]
    /\ Goto(p, IF Usable(code) THEN "watch" ELSE "refused")
    /\ UNCHANGED <<now, born, code, userKey, watch, polledAt, issued, decision>>

\* TouchPoll up to its read under WATCH.  polledAt is a clock reading taken at
\* any time since the entry was read.
TouchPollWatch(p) ==
    /\ pc[p] = "watch"
    /\ \E t \in at[p]..now :
         /\ at' = [at EXCEPT ![p] = t]
         /\ Goto(p, IF ~code.present \/ (code.last # -1 /\ t < code.last + Interval)
                    THEN "slow_down" ELSE "exec")
    /\ watch' = watch \cup {p}
    /\ UNCHANGED <<now, born, code, userKey, seen, polledAt, issued, decision>>

\* Its MULTI/EXEC, refused when the hash was written since the WATCH.  (Mutant:
\* no WATCH.)
TouchPollUnwatched(p) ==
    /\ pc[p] = "exec"
    /\ WriteCode([code EXCEPT !.present = TRUE, !.last = FormatTime(at[p])])
    /\ polledAt' = [polledAt EXCEPT ![p] = at[p]]
    /\ Goto(p, "status")
    /\ UNCHANGED <<now, born, userKey, seen, at, issued, decision>>

TouchPollExec(p) ==
    /\ pc[p] = "exec"
    /\ IF p \in watch
       THEN /\ WriteCode([code EXCEPT !.last = FormatTime(at[p])])
            /\ polledAt' = [polledAt EXCEPT ![p] = at[p]]
            /\ Goto(p, "status")
       ELSE Goto(p, "error") /\ UNCHANGED <<code, watch, polledAt>>
    /\ UNCHANGED <<now, born, userKey, seen, at, issued, decision>>

\* Mutant: a denied code falls through to the approved case.
AnswerDeniedToo(p) == seen[p].status \in {"approved", "denied"}

\* The switch on the status read before TouchPoll.
Answerable(p) == seen[p].status = "approved"

\* The switch, and issueUserGrantTokens for the user named in the entry.
IssueTokens(p) ==
    /\ pc[p] = "status"
    /\ IF Answerable(p)
       THEN issued' = [issued EXCEPT ![p] = seen[p].user] /\ Goto(p, "consume")
       ELSE /\ Goto(p, IF seen[p].status \in {"", "pending"} THEN "pending" ELSE "refused")
            /\ UNCHANGED issued
    /\ UNCHANGED <<now, born, code, userKey, watch, seen, at, polledAt, decision>>

\* MarkConsumed, unconditional as well.
MarkConsumed(p) ==
    /\ pc[p] = "consume"
    /\ WriteCode([code EXCEPT !.present = TRUE, !.status = "consumed"])
    /\ Goto(p, "ok")
    /\ UNCHANGED <<now, born, userKey, seen, at, polledAt, issued, decision>>

\* A failed round trip ends the poll; tokens already stored stay stored.
PollFails(p) ==
    /\ pc[p] \in {"watch", "exec", "status", "consume"}
    /\ Goto(p, "error")
    /\ UNCHANGED <<now, born, code, userKey, watch, seen, at, polledAt, issued, decision>>

-----------------------------------------------------------------------------

DecisionStep(d) ==
    \/ \E a \in {"approve", "deny"} : LoadContext(d, a)
    \/ ReloadByUserCode(d)
    \/ WriteDecision(d)
    \/ DecisionFails(d)

PollStep(p) ==
    \/ GetByDeviceCode(p)
    \/ TouchPollWatch(p)
    \/ TouchPollExec(p)
    \/ IssueTokens(p)
    \/ MarkConsumed(p)
    \/ PollFails(p)

Next ==
    \/ Tick
    \/ Start
    \/ UserKeyExpires
    \/ CodeExpires
    \/ \E d \in Deciders : DecisionStep(d)
    \/ \E p \in Polls : PollStep(p)

Spec == Init /\ [][Next]_vars

-----------------------------------------------------------------------------
(* Properties. *)

\* Of two polls that TouchPoll lets through while the code lives the later one
\* comes after the interval less a second, although each reads the last poll
\* time, and its own clock, some steps before it writes.  The interval itself is
\* kept only in whole seconds: last_polled_at has lost its fraction, so with an
\* interval of 5 polls at 10.9 and at 15.0 both pass.
PollsSpaced ==
    [][\A p, q \in Polls :
         code.full /\ polledAt[p] # polledAt'[p] /\ polledAt[q] >= 0
         => polledAt'[p] - polledAt[q] > Interval - Second]_vars

\* Tokens go to the user who approved, in time.  A poll that stores tokens stores
\* them for a user whose approval was written to this code, never for one who
\* denied it and never for nobody, whatever the order of competing decisions.
\* And it began before the code expired: a later one is refused even when a
\* decision or a MarkConsumed in flight has brought the hash back without a TTL.
IssuedToApprover ==
    [][\A p \in Polls :
         /\ pc'[p] \in {"consume", "ok"} => issued'[p] \in approvers'
         /\ pc[p] = "idle" /\ now >= born + DeviceTTL => pc'[p] \in {"idle", "refused"}]_vars

\* What the port's comment says of the status: it moves from pending to
\* approved or denied and from there to consumed, so a decision is not replaced
\* by another one and a consumed code does not come back.
StatusMovesForward ==
    [][code.present /\ code'.present /\ code'.status # code.status
       => \/ code.status = "pending" /\ code'.status \in {"approved", "denied"}
          \/ code.status \in {"approved", "denied"} /\ code'.status = "consumed"]_vars
=============================================================================
