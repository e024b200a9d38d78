----------------------------- MODULE AuditStream -----------------------------
(***************************************************************************)
(* The asynchronous audit log: the producer's deduplicating XADD, the      *)
(* consumer group of every server process (read loop and reclaim loop),    *)
(* the retry counters, the dead-letter stream and its replay command       *)
(* (infrastructure/auditstream, cmd/replay_audit_dlq), over the audit      *)
(* table's upsert (persistence/audit_event_repo.go).                       *)
(*                                                                         *)
(* Messages are numbered in stream order.  A loop takes one step per Redis *)
(* or MySQL round trip.  Any pending message may have been idle for        *)
(* ReclaimIdle, one that a slow loop still works on included.              *)
(***************************************************************************)
EXTENDS Naturals, Sequences, FiniteSets, FiniteSetsExt

CONSTANTS
    Events,         \* audit events, by event_id
    Malformed,      \* events whose fields decodeMessage refuses
    Processes,      \* server processes, each with one consumer
    BatchSize,      \* cfg.BatchSize
    MaxRetryCount,  \* cfg.MaxRetryCount
    MaxMessages,    \* bound on the length of the stream
    MaxFaults       \* bound on failed Redis commands and process crashes

ASSUME AuditAssumption ==
    /\ Malformed \subseteq Events /\ IsFiniteSet(Processes)
    /\ BatchSize \in Nat \ {0}
    /\ MaxRetryCount \in Nat \ {0}
    /\ MaxMessages \in Nat
    /\ MaxFaults \in Nat

VARIABLES
    published,      \* dedup keys: events the producer has added
    stream,         \* the main stream
    delivered,      \* the group's last delivered message
    pending,        \* delivered and not acknowledged
    dlq,            \* events in the dead-letter stream
    retry,          \* retry counter keys
    rows,           \* events in the audit table
    pc, batch,      \* loops: next step, and messages still to process
    faults,         \* Redis failures and crashes so far
    failed          \* history: failed inserts and failed INCRs, up to MaxRetryCount

store == <<published, stream, delivered, pending, dlq, retry, rows>>
vars == <<store, pc, batch, faults, failed>>

-----------------------------------------------------------------------------

Loops == Processes \X {"read", "reclaim"}

Steps == {"idle", "create", "retry", "clear", "ack", "dlq", "dlqAck", "dlqClear"}

TypeOK ==
    /\ published \subseteq Events
    /\ stream \in Seq(Events) /\ Len(stream) <= MaxMessages
    /\ delivered \in 0..Len(stream)
    /\ pending \subseteq 1..delivered
    /\ dlq \subseteq Events /\ rows \subseteq Events
    /\ retry \in [Events -> Nat]
    /\ pc \in [Loops -> Steps]
    /\ batch \in [Loops -> SUBSET (1..delivered)]
    /\ \A w \in Loops : pc[w] = "idle" <=> batch[w] = {}
    /\ faults \in 0..MaxFaults
    /\ failed \in [Events -> 0..MaxRetryCount]

Init ==
    /\ published = {} /\ stream = <<>> /\ delivered = 0 /\ pending = {}
    /\ dlq = {} /\ rows = {}
    /\ retry = [e \in Events |-> 0]
    /\ pc = [w \in Loops |-> "idle"]
    /\ batch = [w \in Loops |-> {}]
    /\ faults = 0
    /\ failed = [e \in Events |-> 0]

Current(w) == Min(batch[w])

Event(w) == stream[Current(w)]

Goto(w, step) == pc' = [pc EXCEPT ![w] = step] /\ UNCHANGED batch

\* On to the next message of the batch.
NextMessage(w) ==
    LET rest == batch[w] \ {Current(w)}
    IN  /\ batch' = [batch EXCEPT ![w] = rest]
        /\ pc' = [pc EXCEPT ![w] = IF rest = {} THEN "idle" ELSE "create"]

\* A Redis command fails.
RedisFails == faults < MaxFaults /\ faults' = faults + 1

NoteFailure(e) ==
    failed' = [failed EXCEPT ![e] = IF @ < MaxRetryCount THEN @ + 1 ELSE @]

-----------------------------------------------------------------------------
(* Producer. *)

\* enqueueAuditEventScript: a second call for the same event adds nothing.
Publish(e) ==
    /\ e \notin published /\ Len(stream) < MaxMessages
    /\ published' = published \cup {e}
    /\ stream' = Append(stream, e)
    /\ UNCHANGED <<delivered, pending, dlq, retry, rows, pc, batch, faults, failed>>

\* The replay command copies dead letters back to the main stream, around the
\* dedup key, and leaves them in the dead-letter stream.  It skips those without
\* event_id or event_type, but others that do not decode go back too: of a
\* malformed one it is left open which it is, the step being never forced.
ReplayDLQ(e) ==
    /\ e \in dlq /\ Len(stream) < MaxMessages
    /\ stream' = Append(stream, e)
    /\ UNCHANGED <<published, delivered, pending, dlq, retry, rows, pc, batch, faults, failed>>

-----------------------------------------------------------------------------
(* Consumer loops. *)

\* readLoop: XREADGROUP with ">" hands out the next new messages; they are
\* pending even if the reply is lost.
XReadGroup(w) ==
    LET last == Min({Len(stream), delivered + BatchSize})
        new  == (delivered + 1)..last
    IN  /\ w[2] = "read" /\ pc[w] = "idle" /\ new # {}
        /\ delivered' = last
        /\ pending' = pending \cup new
        /\ \/ /\ batch' = [batch EXCEPT ![w] = new]
              /\ pc' = [pc EXCEPT ![w] = "create"]
              /\ UNCHANGED faults
           \/ RedisFails /\ UNCHANGED <<pc, batch>>
        /\ UNCHANGED <<published, stream, dlq, retry, rows, failed>>

\* reclaimLoop: XAUTOCLAIM hands out messages that are pending for too long.
XAutoClaim(w) ==
    /\ w[2] = "reclaim" /\ pc[w] = "idle"
    /\ \E claimed \in (SUBSET pending) \ {{}} :
         /\ Cardinality(claimed) <= BatchSize
         /\ batch' = [batch EXCEPT ![w] = claimed]
    /\ pc' = [pc EXCEPT ![w] = "create"]
    /\ UNCHANGED <<store, faults, failed>>

\* decodeMessage and writer.Create: the insert is an upsert by event_id.
CreateEvent(w) ==
    /\ pc[w] = "create"
    /\ \/ Event(w) \in Malformed /\ Goto(w, "dlq") /\ UNCHANGED <<rows, failed>>
       \/ /\ Event(w) \notin Malformed
          /\ rows' = rows \cup {Event(w)} /\ Goto(w, "clear") /\ UNCHANGED failed
       \/ /\ Event(w) \notin Malformed
          /\ NoteFailure(Event(w)) /\ Goto(w, "retry") /\ UNCHANGED rows
    /\ UNCHANGED <<published, stream, delivered, pending, dlq, retry, faults>>

\* Mutant: the limit is compared before the increment counts.
RetriesExhaustedEarly(count) == count + 1 >= MaxRetryCount

RetriesExhausted(count) == count >= MaxRetryCount

\* incrementRetry: below the limit the message is left pending for a reclaim;
\* a failed INCR counts as the limit.
IncrementRetry(w) ==
    /\ pc[w] = "retry"
    /\ \/ /\ retry' = [retry EXCEPT ![Event(w)] = @ + 1]
          /\ IF RetriesExhausted(retry[Event(w)] + 1) THEN Goto(w, "dlq") ELSE NextMessage(w)
          /\ UNCHANGED <<faults, failed>>
       \/ /\ RedisFails
          /\ failed' = [failed EXCEPT ![Event(w)] = MaxRetryCount]
          /\ Goto(w, "dlq") /\ UNCHANGED retry
    /\ UNCHANGED <<published, stream, delivered, pending, dlq, rows>>

\* clearRetry after a stored event; its failure is only logged.
ClearRetry(w) ==
    /\ pc[w] = "clear"
    /\ \/ retry' = [retry EXCEPT ![Event(w)] = 0] /\ UNCHANGED faults
       \/ RedisFails /\ UNCHANGED retry
    /\ Goto(w, "ack")
    /\ UNCHANGED <<published, stream, delivered, pending, dlq, rows, failed>>

\* XACK; after a failure the message stays pending and comes back.
Ack(w) ==
    /\ pc[w] = "ack"
    /\ \/ pending' = pending \ {Current(w)} /\ UNCHANGED faults
       \/ RedisFails /\ UNCHANGED pending
    /\ NextMessage(w)
    /\ UNCHANGED <<published, stream, delivered, dlq, retry, rows, failed>>

\* Mutant: a failed XADD is acknowledged all the same.
AddToDLQThenAckAlways(w) ==
    /\ pc[w] = "dlq"
    /\ \/ dlq' = dlq \cup {Event(w)} /\ UNCHANGED faults
       \/ RedisFails /\ UNCHANGED dlq
    /\ Goto(w, "dlqAck")
    /\ UNCHANGED <<published, stream, delivered, pending, retry, rows, failed>>

\* moveToDLQ: XADD, XACK, DEL of the counter; an error ends it.
AddToDLQ(w) ==
    /\ pc[w] = "dlq"
    /\ \/ dlq' = dlq \cup {Event(w)} /\ Goto(w, "dlqAck") /\ UNCHANGED faults
       \/ RedisFails /\ NextMessage(w) /\ UNCHANGED dlq
    /\ UNCHANGED <<published, stream, delivered, pending, retry, rows, failed>>

\* Mutant: a dead letter is not acknowledged.
NoAckAfterDLQ(w) ==
    /\ pc[w] = "dlqAck"
    /\ NextMessage(w)
    /\ UNCHANGED <<store, faults, failed>>

AckAfterDLQ(w) ==
    /\ pc[w] = "dlqAck"
    /\ \/ /\ pending' = pending \ {Current(w)} /\ UNCHANGED faults
          /\ IF Event(w) \in Malformed THEN NextMessage(w) ELSE Goto(w, "dlqClear")
       \/ RedisFails /\ NextMessage(w) /\ UNCHANGED pending
    /\ UNCHANGED <<published, stream, delivered, dlq, retry, rows, failed>>

ClearRetryAfterDLQ(w) ==
    /\ pc[w] = "dlqClear"
    /\ \/ retry' = [retry EXCEPT ![Event(w)] = 0] /\ UNCHANGED faults
       \/ RedisFails /\ UNCHANGED retry
    /\ NextMessage(w)
    /\ UNCHANGED <<published, stream, delivered, pending, dlq, rows, failed>>

\* A process dies and restarts: ensureGroup finds the group, the batches in
\* hand are forgotten, their messages stay pending.
Crash(k) ==
    /\ \E w \in Loops : w[1] = k /\ pc[w] # "idle"
    /\ RedisFails
    /\ pc' = [w \in Loops |-> IF w[1] = k THEN "idle" ELSE pc[w]]
    /\ batch' = [w \in Loops |-> IF w[1] = k THEN {} ELSE batch[w]]
    /\ UNCHANGED <<store, failed>>

-----------------------------------------------------------------------------

ProcessStep(w) ==
    \/ CreateEvent(w) \/ IncrementRetry(w) \/ ClearRetry(w) \/ Ack(w)
    \/ AddToDLQ(w) \/ AckAfterDLQ(w) \/ ClearRetryAfterDLQ(w)

LoopStep(w) == XReadGroup(w) \/ XAutoClaim(w) \/ ProcessStep(w)

Next ==
    \/ \E e \in Events : Publish(e) \/ ReplayDLQ(e)
    \/ \E w \in Loops : LoopStep(w)
    \/ \E k \in Processes : Crash(k)

Spec == Init /\ [][Next]_vars

\* The loops are goroutines that never return while the process runs.
FairSpec == Spec /\ \A w \in Loops : WF_vars(LoopStep(w))

-----------------------------------------------------------------------------
(* Properties. *)

Waiting(i) == i > delivered \/ i \in pending

\* No event is lost: whatever the producer added is in the audit table or in
\* the dead-letter stream, or a message that carries it is still to be read or
\* reclaimed, through every order of failed commands, crashes and loops that
\* work on the same message at once.
NothingLost ==
    \A e \in published :
        \/ e \in rows \cup dlq
        \/ \E i \in DOMAIN stream : stream[i] = e /\ Waiting(i)

\* A well-formed event becomes a dead letter only after MaxRetryCount failed
\* inserts or a failed INCR, although several loops share its counter and any
\* of them may clear it.
DeadLettersWereRetried ==
    \A e \in dlq \ Malformed : failed[e] >= MaxRetryCount

\* Every message is eventually acknowledged: the pending list drains.
EventuallyAcknowledged ==
    \A i \in 1..MaxMessages : i \in DOMAIN stream ~> ~Waiting(i)
=============================================================================
