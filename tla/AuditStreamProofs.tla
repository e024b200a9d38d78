------------------------- MODULE AuditStreamProofs -------------------------
(***************************************************************************)
(* Proofs about AuditStream, for any number of server processes, events,   *)
(* messages and faults, any batch size and any retry limit: no published   *)
(* event is lost, and no well-formed event becomes a dead letter before    *)
(* its retries are used up.                                                *)
(***************************************************************************)
EXTENDS AuditStream, FiniteSetTheorems, WellFoundedInduction, TLAPS

-----------------------------------------------------------------------------
(* The inductive invariants. *)

\* A loop acknowledges a message only after its event was stored.
StoredInv ==
    \A w \in Loops :
        /\ pc[w] \in {"clear", "ack"} => Event(w) \in rows
        /\ pc[w] \in {"dlqAck", "dlqClear"} => Event(w) \in dlq

\* The statement about messages behind the one about events.
CoveredInv ==
    /\ \A i \in 1..Len(stream) : Waiting(i) \/ stream[i] \in rows \cup dlq
    /\ \A e \in published : \E i \in 1..Len(stream) : stream[i] = e

\* Loops that have seen an insert of the event fail and not counted it yet.
Counting(e) == {w \in Loops : pc[w] = "retry" /\ Event(w) = e}

\* A counter never runs ahead of the failures.
RetryOK(e) ==
    \/ failed[e] = MaxRetryCount
    \/ retry[e] + Cardinality(Counting(e)) <= failed[e]

RetriedInv ==
    /\ \A e \in Events : RetryOK(e)
    /\ \A w \in Loops :
        pc[w] = "dlq" /\ Event(w) \notin Malformed => failed[Event(w)] = MaxRetryCount
    /\ \A e \in dlq \ Malformed : failed[e] = MaxRetryCount

AuditInv == TypeOK /\ StoredInv /\ CoveredInv /\ RetriedInv

-----------------------------------------------------------------------------
(* Operators of the model. *)

\* FiniteSetsExt's Min is a member and a lower bound.
LEMMA MinIn ==
    ASSUME NEW S, S \subseteq Nat, S # {}
    PROVE  Min(S) \in S /\ \A y \in S : Min(S) <= y
<1> DEFINE R == {p \in Nat \X Nat : p[1] < p[2]}
<1>1. IsWellFoundedOn(R, Nat)
    BY NatLessThanWellFounded, Zenon DEF OpToRel
<1>2. \E x \in S : \A y \in S : ~(<<y, x>> \in R)
  <2> HIDE DEF R
  <2> QED
    BY <1>1, WFMin, Zenon
<1>3. \A x, y \in Nat : x < y => <<x, y>> \in R
    BY Zenon
<1>4. \E x \in S : \A y \in S : x <= y
  <2> HIDE DEF R
  <2>1. PICK x \in S : \A y \in S : ~(<<y, x>> \in R)
    BY <1>2, Zenon
  <2>2. \A y \in S : ~(y < x) /\ y \in Nat /\ x \in Nat
    BY <1>3, <2>1, Zenon
  <2> QED
    BY <2>2
<1> QED
    BY <1>4, Zenon DEF Min

\* Min picks the smaller of two numbers.
LEMMA MinOfTwo ==
    ASSUME NEW a \in Nat, NEW b \in Nat
    PROVE  Min({a, b}) = IF a <= b THEN a ELSE b
<1>1. {a, b} \subseteq Nat /\ {a, b} # {}
    BY Zenon
<1>2. Min({a, b}) \in {a, b} /\ Min({a, b}) <= a /\ Min({a, b}) <= b
    BY <1>1, MinIn, Zenon
<1> QED
    BY <1>2

\* A loop at work has a message, which is in the stream and was delivered.
LEMMA CurrentType ==
    ASSUME TypeOK, NEW w \in Loops, pc[w] # "idle"
    PROVE  /\ Current(w) \in batch[w] /\ Current(w) \in 1..delivered
           /\ Current(w) \in 1..Len(stream) /\ Event(w) \in Events
<1>1. batch[w] # {} /\ batch[w] \subseteq 1..delivered /\ delivered \in 0..Len(stream)
      /\ Len(stream) \in Nat
    BY DEF TypeOK
<1>2. batch[w] \subseteq Nat
    BY <1>1
<1>3. Current(w) \in batch[w]
    BY <1>1, <1>2, MinIn, Zenon DEF Current
<1>4. Current(w) \in 1..delivered /\ Current(w) \in 1..Len(stream)
    BY <1>1, <1>3
<1>5. Event(w) \in Events
    BY <1>4 DEF TypeOK, Event
<1> QED
    BY <1>3, <1>4, <1>5, Zenon

-----------------------------------------------------------------------------
(* What a step does to the loops. *)

Others(w) == \A v \in Loops : v # w => pc'[v] = pc[v] /\ batch'[v] = batch[v]

LoopsType ==
    /\ pc \in [Loops -> Steps]
    /\ batch \in [Loops -> SUBSET (1..delivered)]
    /\ \A w \in Loops : pc[w] = "idle" <=> batch[w] = {}

\* Goto changes the step of one loop.
LEMMA GotoEffect ==
    ASSUME TypeOK, NEW w \in Loops, NEW step \in Steps \ {"idle"}, pc[w] # "idle",
           Goto(w, step), delivered' = delivered
    PROVE  LoopsType' /\ Others(w) /\ pc'[w] = step /\ batch' = batch
<1>1. batch' = batch /\ pc' = [pc EXCEPT ![w] = step]
    BY Zenon DEF Goto
<1>2. pc' \in [Loops -> Steps] /\ pc'[w] = step /\ \A v \in Loops : v # w => pc'[v] = pc[v]
    BY <1>1, Zenon DEF TypeOK
<1> QED
    BY <1>1, <1>2, Zenon DEF TypeOK, LoopsType, Others

\* NextMessage takes one message out of the batch.
LEMMA NextEffect ==
    ASSUME TypeOK, NEW w \in Loops, NextMessage(w), delivered' = delivered
    PROVE  LoopsType' /\ Others(w) /\ pc'[w] \in {"idle", "create"}
<1> DEFINE rest == batch[w] \ {Current(w)}
<1>1. /\ batch' = [batch EXCEPT ![w] = rest]
      /\ pc' = [pc EXCEPT ![w] = IF rest = {} THEN "idle" ELSE "create"]
    BY Zenon DEF NextMessage
<1>2. rest \subseteq 1..delivered
    BY Zenon DEF TypeOK
<1> HIDE DEF rest
<1>3. /\ pc' \in [Loops -> Steps] /\ pc'[w] = IF rest = {} THEN "idle" ELSE "create"
      /\ \A v \in Loops : v # w => pc'[v] = pc[v]
    BY <1>1, Zenon DEF TypeOK, Steps
<1>4. /\ batch' \in [Loops -> SUBSET (1..delivered)] /\ batch'[w] = rest
      /\ \A v \in Loops : v # w => batch'[v] = batch[v]
    BY <1>1, <1>2, Zenon DEF TypeOK
<1> QED
    BY <1>3, <1>4, Zenon DEF TypeOK, LoopsType, Others

\* XREADGROUP hands out a range of messages that ends within the stream.
LEMMA ReadRange ==
    ASSUME TypeOK, NEW w \in Loops, XReadGroup(w)
    PROVE  /\ delivered' \in Nat /\ delivered < delivered' /\ delivered' <= Len(stream)
           /\ pending' = pending \cup ((delivered + 1)..delivered')
<1> DEFINE last == Min({Len(stream), delivered + BatchSize})
<1>1. /\ Len(stream) \in Nat /\ delivered \in Nat /\ delivered <= Len(stream)
      /\ BatchSize \in Nat /\ BatchSize > 0
    BY AuditAssumption DEF TypeOK
<1>2. last = IF Len(stream) <= delivered + BatchSize THEN Len(stream) ELSE delivered + BatchSize
    BY <1>1, MinOfTwo
<1>3. /\ delivered' = last /\ (delivered + 1)..last # {}
      /\ pending' = pending \cup ((delivered + 1)..last)
    BY Zenon DEF XReadGroup
<1> HIDE DEF last
<1> QED
    BY <1>1, <1>2, <1>3

\* XREADGROUP and XAUTOCLAIM fill the batch of an idle loop, or the reply is lost.
LEMMA ReadEffect ==
    ASSUME TypeOK, NEW w \in Loops, XReadGroup(w) \/ XAutoClaim(w)
    PROVE  /\ LoopsType' /\ Others(w) /\ pc'[w] \in {"idle", "create"}
           /\ stream' = stream /\ retry' = retry /\ failed' = failed
           /\ dlq' = dlq /\ rows' = rows /\ published' = published
<1>1. CASE XReadGroup(w)
  <2> DEFINE new == (delivered + 1)..delivered'
  <2>1. /\ delivered' \in Nat /\ delivered < delivered' /\ delivered \in Nat
    BY <1>1, ReadRange DEF TypeOK
  <2>2. new \subseteq 1..delivered' /\ new # {}
    BY <2>1
  <2>3. 1..delivered \subseteq 1..delivered'
    BY <2>1
  <2>4. \/ /\ batch' = [batch EXCEPT ![w] = new] /\ pc' = [pc EXCEPT ![w] = "create"]
        \/ pc' = pc /\ batch' = batch
    BY <1>1, Zenon DEF XReadGroup
  <2>5. pc[w] = "idle"
    BY <1>1, Zenon DEF XReadGroup
  <2> HIDE DEF new
  <2>6. LoopsType' /\ Others(w) /\ pc'[w] \in {"idle", "create"}
    <3>1. CASE pc' = pc /\ batch' = batch
        BY <2>3, <2>5, <3>1, Zenon DEF TypeOK, LoopsType, Others
    <3>2. CASE batch' = [batch EXCEPT ![w] = new] /\ pc' = [pc EXCEPT ![w] = "create"]
      <4>1. /\ pc' \in [Loops -> Steps] /\ pc'[w] = "create"
            /\ \A v \in Loops : v # w => pc'[v] = pc[v]
        BY <3>2, Zenon DEF TypeOK, Steps
      <4>2. /\ batch' \in [Loops -> SUBSET (1..delivered')] /\ batch'[w] = new
            /\ \A v \in Loops : v # w => batch'[v] = batch[v]
        BY <3>2, <2>2, <2>3, Zenon DEF TypeOK
      <4> QED
        BY <4>1, <4>2, <2>2, Zenon DEF TypeOK, LoopsType, Others
    <3> QED
        BY <2>4, <3>1, <3>2, Zenon
  <2> QED
    BY <1>1, <2>6, Zenon DEF XReadGroup
<1>2. CASE XAutoClaim(w)
  <2>1. PICK claimed \in (SUBSET pending) \ {{}} : batch' = [batch EXCEPT ![w] = claimed]
    BY <1>2, Zenon DEF XAutoClaim
  <2>2. pc' = [pc EXCEPT ![w] = "create"] /\ delivered' = delivered
    BY <1>2, Zenon DEF XAutoClaim, store
  <2>3. claimed \subseteq 1..delivered /\ claimed # {}
    BY Zenon DEF TypeOK
  <2>4. /\ pc' \in [Loops -> Steps] /\ pc'[w] = "create"
        /\ \A v \in Loops : v # w => pc'[v] = pc[v]
    BY <2>2, Zenon DEF TypeOK, Steps
  <2>5. /\ batch' \in [Loops -> SUBSET (1..delivered)] /\ batch'[w] = claimed
        /\ \A v \in Loops : v # w => batch'[v] = batch[v]
    BY <2>1, <2>3, Zenon DEF TypeOK
  <2>6. LoopsType' /\ Others(w)
    BY <2>2, <2>3, <2>4, <2>5, Zenon DEF TypeOK, LoopsType, Others
  <2> QED
    BY <1>2, <2>4, <2>6, Zenon DEF XAutoClaim, store
<1> QED
    BY <1>1, <1>2, Zenon

-----------------------------------------------------------------------------
(* Types. *)

\* Steps of a loop between messages and on one: it is at work, the stream stays,
\* and the loop either stays on its message or goes on to another.
LEMMA ProcessEffect ==
    ASSUME TypeOK, NEW w \in Loops, ProcessStep(w)
    PROVE  /\ pc[w] # "idle" /\ LoopsType' /\ Others(w)
           /\ UNCHANGED <<published, stream, delivered>>
           /\ batch' = batch \/ pc'[w] \in {"idle", "create"}
<1>1. pc[w] # "idle" /\ UNCHANGED <<published, stream, delivered>>
    BY Zenon DEF ProcessStep, CreateEvent, IncrementRetry, ClearRetry, Ack, AddToDLQ, AckAfterDLQ,
           ClearRetryAfterDLQ
<1>2. \/ NextMessage(w)
      \/ \E step \in Steps \ {"idle"} : Goto(w, step)
    BY Zenon DEF ProcessStep, CreateEvent, IncrementRetry, ClearRetry, Ack, AddToDLQ, AckAfterDLQ,
           ClearRetryAfterDLQ, Steps
<1> QED
    BY <1>1, <1>2, GotoEffect, NextEffect, Zenon

\* What a step on a message does to the stores stays within their types.
LEMMA ProcessType ==
    ASSUME TypeOK, NEW w \in Loops, ProcessStep(w)
    PROVE  TypeOK'
<1>1. /\ pc[w] # "idle" /\ LoopsType' /\ UNCHANGED <<published, stream, delivered>>
    BY ProcessEffect, Zenon
<1>2. Event(w) \in Events
    BY <1>1, CurrentType, Zenon
<1>3. faults' \in 0..MaxFaults
  <2>1. faults' = faults \/ RedisFails
    BY Zenon DEF ProcessStep, CreateEvent, IncrementRetry, ClearRetry, Ack, AddToDLQ, AckAfterDLQ,
           ClearRetryAfterDLQ
  <2> QED
    BY <2>1, AuditAssumption DEF TypeOK, RedisFails
<1>4. pending' \subseteq pending /\ rows' \subseteq Events /\ dlq' \subseteq Events
    BY <1>2, Zenon DEF ProcessStep, CreateEvent, IncrementRetry, ClearRetry, Ack, AddToDLQ,
                AckAfterDLQ, ClearRetryAfterDLQ, TypeOK
<1>5. retry' \in [Events -> Nat]
  <2>1. \/ retry' = retry
        \/ retry' = [retry EXCEPT ![Event(w)] = retry[Event(w)] + 1]
        \/ retry' = [retry EXCEPT ![Event(w)] = 0]
    BY Zenon DEF ProcessStep, CreateEvent, IncrementRetry, ClearRetry, Ack, AddToDLQ, AckAfterDLQ,
           ClearRetryAfterDLQ
  <2> QED
    BY <1>2, <2>1 DEF TypeOK
<1>6. failed' \in [Events -> 0..MaxRetryCount]
  <2>1. \/ failed' = failed
        \/ NoteFailure(Event(w))
        \/ failed' = [failed EXCEPT ![Event(w)] = MaxRetryCount]
    BY Zenon DEF ProcessStep, CreateEvent, IncrementRetry, ClearRetry, Ack, AddToDLQ, AckAfterDLQ,
           ClearRetryAfterDLQ
  <2>2. failed[Event(w)] \in 0..MaxRetryCount /\ MaxRetryCount \in Nat
    BY <1>2, AuditAssumption, Zenon DEF TypeOK
  <2>3. CASE NoteFailure(Event(w))
    <3> DEFINE n == IF failed[Event(w)] < MaxRetryCount THEN failed[Event(w)] + 1
                                                        ELSE failed[Event(w)]
    <3>1. n \in 0..MaxRetryCount
      BY <2>2
    <3>2. failed' = [failed EXCEPT ![Event(w)] = n]
      BY <2>3, Zenon DEF NoteFailure
    <3> HIDE DEF n
    <3> QED
      BY <3>1, <3>2, Zenon DEF TypeOK
  <2>4. CASE failed' = [failed EXCEPT ![Event(w)] = MaxRetryCount]
    <3>1. MaxRetryCount \in 0..MaxRetryCount
      BY <2>2
    <3> QED
      BY <2>4, <3>1, Zenon DEF TypeOK
  <2> QED
    BY <2>1, <2>3, <2>4, Zenon DEF TypeOK
<1> QED
    BY <1>1, <1>3, <1>4, <1>5, <1>6, Zenon DEF TypeOK, LoopsType

\* Publish and ReplayDLQ append one event to the stream.
LEMMA AppendEffect ==
    ASSUME TypeOK, NEW e \in Events, stream' = Append(stream, e)
    PROVE  /\ stream' \in Seq(Events) /\ Len(stream') = Len(stream) + 1
           /\ \A i \in 1..Len(stream) : stream'[i] = stream[i]
           /\ stream'[Len(stream) + 1] = e
BY DEF TypeOK

\* Every step keeps the types.
LEMMA TypeNext ==
    ASSUME TypeOK, [Next]_vars
    PROVE  TypeOK'
<1>1. CASE UNCHANGED vars
    BY <1>1, Zenon DEF TypeOK, vars, store
<1>2. ASSUME NEW e \in Events, Publish(e) \/ ReplayDLQ(e)
      PROVE  TypeOK'
  <2>1. stream' = Append(stream, e) /\ Len(stream) < MaxMessages
    BY <1>2, Zenon DEF Publish, ReplayDLQ
  <2>2. stream' \in Seq(Events) /\ Len(stream') = Len(stream) + 1
    BY <2>1, AppendEffect, Zenon
  <2>3. /\ published' \subseteq Events
        /\ UNCHANGED <<delivered, pending, dlq, retry, rows, pc, batch, faults, failed>>
    BY <1>2, Zenon DEF Publish, ReplayDLQ, TypeOK
  <2>4. Len(stream) \in Nat /\ delivered \in 0..Len(stream)
    BY DEF TypeOK
  <2>5. delivered' \in 0..Len(stream') /\ Len(stream') <= MaxMessages
    BY <2>1, <2>2, <2>3, <2>4, AuditAssumption
  <2> QED
    BY <2>2, <2>3, <2>5, Zenon DEF TypeOK
<1>3. ASSUME NEW w \in Loops, XReadGroup(w) \/ XAutoClaim(w)
      PROVE  TypeOK'
  <2>1. /\ LoopsType' /\ stream' = stream /\ retry' = retry /\ failed' = failed
        /\ dlq' = dlq /\ rows' = rows /\ published' = published
    BY <1>3, ReadEffect, Zenon
  <2>2. delivered' \in 0..Len(stream) /\ pending' \subseteq 1..delivered'
    <3>1. CASE XReadGroup(w)
      <4>1. /\ delivered' \in Nat /\ delivered < delivered' /\ delivered' <= Len(stream)
            /\ pending' = pending \cup ((delivered + 1)..delivered')
        BY <3>1, ReadRange, Zenon
      <4>2. delivered \in Nat /\ Len(stream) \in Nat /\ pending \subseteq 1..delivered
        BY DEF TypeOK
      <4> QED
        BY <4>1, <4>2
    <3>2. CASE XAutoClaim(w)
        BY <3>2, Zenon DEF XAutoClaim, store, TypeOK
    <3> QED
        BY <1>3, <3>1, <3>2, Zenon
  <2>3. faults' \in 0..MaxFaults
    <3>1. faults' = faults \/ RedisFails
        BY <1>3, Zenon DEF XReadGroup, XAutoClaim
    <3> QED
        BY <3>1, AuditAssumption DEF TypeOK, RedisFails
  <2> QED
    BY <2>1, <2>2, <2>3, Zenon DEF TypeOK, LoopsType
<1>4. ASSUME NEW k \in Processes, Crash(k)
      PROVE  TypeOK'
  <2>1. /\ pc' = [w \in Loops |-> IF w[1] = k THEN "idle" ELSE pc[w]]
        /\ batch' = [w \in Loops |-> IF w[1] = k THEN {} ELSE batch[w]]
        /\ UNCHANGED <<store, failed>>
    BY <1>4, Zenon DEF Crash
  <2>2. /\ pc' \in [Loops -> Steps] /\ batch' \in [Loops -> SUBSET (1..delivered)]
        /\ \A w \in Loops : pc'[w] = "idle" <=> batch'[w] = {}
    BY <2>1, Zenon DEF TypeOK, Steps
  <2>3. faults' \in 0..MaxFaults
    BY <1>4, AuditAssumption DEF Crash, RedisFails, TypeOK
  <2> QED
    BY <2>1, <2>2, <2>3, Zenon DEF TypeOK, store
<1> QED
    BY <1>1, <1>2, <1>3, <1>4, ProcessType, Zenon DEF Next, LoopStep

-----------------------------------------------------------------------------
(* No event is lost. *)

\* A loop that keeps its batch keeps its message.
LEMMA EventSame ==
    ASSUME NEW v \in Loops, batch'[v] = batch[v], stream' = stream
    PROVE  Current(v)' = Current(v) /\ Event(v)' = Event(v)
BY Zenon DEF Event, Current

\* So does one at work while the stream grows.
LEMMA EventAppended ==
    ASSUME TypeOK, NEW e \in Events, stream' = Append(stream, e),
           NEW v \in Loops, batch'[v] = batch[v], pc[v] # "idle"
    PROVE  Event(v)' = Event(v)
<1>1. Current(v) \in 1..Len(stream)
    BY CurrentType, Zenon
<1>2. \A i \in 1..Len(stream) : stream'[i] = stream[i]
    BY AppendEffect, Zenon
<1>3. Current(v)' = Current(v)
    BY Zenon DEF Current
<1> QED
    BY <1>1, <1>2, <1>3, Zenon DEF Event

\* A step on a message comes to its acknowledgement only with the event stored.
LEMMA StoredStep ==
    ASSUME TypeOK, StoredInv, NEW w \in Loops, ProcessStep(w)
    PROVE  /\ pc'[w] \in {"clear", "ack"} => Event(w) \in rows'
           /\ pc'[w] \in {"dlqAck", "dlqClear"} => Event(w) \in dlq'
           /\ rows \subseteq rows' /\ dlq \subseteq dlq'
<1>1. /\ pc[w] # "idle" /\ UNCHANGED delivered
    BY ProcessEffect, Zenon
<1>2. \A step \in Steps \ {"idle"} : Goto(w, step) => pc'[w] = step
    BY <1>1, GotoEffect, Zenon
<1>3. NextMessage(w) => pc'[w] \in {"idle", "create"}
    BY <1>1, NextEffect, Zenon
<1>4. CASE CreateEvent(w)
    BY <1>2, <1>4, Zenon DEF CreateEvent, Steps
<1>5. CASE IncrementRetry(w)
    BY <1>2, <1>3, <1>5, Zenon DEF IncrementRetry, Steps
<1>6. CASE ClearRetry(w)
    BY <1>2, <1>6, Zenon DEF ClearRetry, Steps, StoredInv
<1>7. CASE Ack(w)
    BY <1>3, <1>7, Zenon DEF Ack
<1>8. CASE AddToDLQ(w)
    BY <1>2, <1>3, <1>8, Zenon DEF AddToDLQ, Steps
<1>9. CASE AckAfterDLQ(w)
    BY <1>2, <1>3, <1>9, Zenon DEF AckAfterDLQ, Steps, StoredInv
<1>10. CASE ClearRetryAfterDLQ(w)
    BY <1>3, <1>10, Zenon DEF ClearRetryAfterDLQ
<1> QED
    BY <1>4, <1>5, <1>6, <1>7, <1>8, <1>9, <1>10, Zenon DEF ProcessStep

\* Every step keeps StoredInv.
LEMMA StoredNext ==
    ASSUME TypeOK, StoredInv, [Next]_vars
    PROVE  StoredInv'
<1>1. CASE UNCHANGED vars
    BY <1>1, Zenon DEF StoredInv, vars, store, Event, Current
<1>2. ASSUME NEW e \in Events, Publish(e) \/ ReplayDLQ(e)
      PROVE  StoredInv'
  <2>1. /\ stream' = Append(stream, e) /\ pc' = pc /\ batch' = batch
        /\ rows' = rows /\ dlq' = dlq
    BY <1>2, Zenon DEF Publish, ReplayDLQ
  <2>2. \A v \in Loops : pc[v] # "idle" => Event(v)' = Event(v)
    BY <2>1, EventAppended, Zenon
  <2> QED
    BY <2>1, <2>2, Zenon DEF StoredInv
<1>3. ASSUME NEW w \in Loops, LoopStep(w)
      PROVE  StoredInv'
  <2>1. /\ Others(w) /\ stream' = stream /\ rows \subseteq rows' /\ dlq \subseteq dlq'
    BY <1>3, ReadEffect, ProcessEffect, StoredStep, Zenon DEF LoopStep
  <2>2. /\ pc'[w] \in {"clear", "ack"} => Event(w)' \in rows'
        /\ pc'[w] \in {"dlqAck", "dlqClear"} => Event(w)' \in dlq'
    <3>1. CASE pc'[w] \in {"idle", "create"}
      BY <3>1, Zenon
    <3>2. CASE batch' = batch /\ ProcessStep(w)
      BY <2>1, <3>2, EventSame, StoredStep, Zenon
    <3> QED
      BY <1>3, <3>1, <3>2, ReadEffect, ProcessEffect, Zenon DEF LoopStep
  <2>3. \A v \in Loops : v # w => Event(v)' = Event(v) /\ pc'[v] = pc[v]
    BY <2>1, EventSame, Zenon DEF Others
  <2> QED
    BY <2>1, <2>2, <2>3, Zenon DEF StoredInv
<1>4. ASSUME NEW k \in Processes, Crash(k)
      PROVE  StoredInv'
  <2>1. /\ pc' = [w \in Loops |-> IF w[1] = k THEN "idle" ELSE pc[w]]
        /\ batch' = [w \in Loops |-> IF w[1] = k THEN {} ELSE batch[w]]
        /\ stream' = stream /\ rows' = rows /\ dlq' = dlq
    BY <1>4, Zenon DEF Crash, store
  <2>2. \A v \in Loops : pc'[v] = "idle" \/ (pc'[v] = pc[v] /\ batch'[v] = batch[v])
    BY <2>1, Zenon
  <2>3. \A v \in Loops : pc'[v] = "idle" \/ (pc'[v] = pc[v] /\ Event(v)' = Event(v))
    BY <2>1, <2>2, EventSame, Zenon
  <2> QED
    BY <2>1, <2>3, Zenon DEF StoredInv
<1> QED
    BY <1>1, <1>2, <1>3, <1>4, Zenon DEF Next

\* A message is taken out of the pending list only with its event stored.
LEMMA AcknowledgedStored ==
    ASSUME TypeOK, StoredInv, NEW w \in Loops, ProcessStep(w)
    PROVE  \A i \in pending : i \in pending' \/ stream[i] \in rows' \cup dlq'
<1>1. CASE Ack(w)
    BY <1>1, Zenon DEF Ack, StoredInv, Event
<1>2. CASE AckAfterDLQ(w)
    BY <1>2, Zenon DEF AckAfterDLQ, StoredInv, Event
<1>3. CASE ~Ack(w) /\ ~AckAfterDLQ(w)
    BY <1>3, Zenon DEF ProcessStep, CreateEvent, IncrementRetry, ClearRetry, AddToDLQ,
                ClearRetryAfterDLQ
<1> QED
    BY <1>1, <1>2, <1>3, Zenon

\* Every step keeps CoveredInv.
LEMMA CoveredNext ==
    ASSUME TypeOK, StoredInv, CoveredInv, [Next]_vars
    PROVE  CoveredInv'
<1>1. CASE UNCHANGED vars
    BY <1>1, Zenon DEF CoveredInv, Waiting, vars, store
<1>2. ASSUME NEW e \in Events, Publish(e) \/ ReplayDLQ(e)
      PROVE  CoveredInv'
  <2>1. /\ stream' = Append(stream, e) /\ published' \subseteq published \cup {e}
        /\ UNCHANGED <<delivered, pending, rows, dlq>>
    BY <1>2, Zenon DEF Publish, ReplayDLQ
  <2>2. /\ Len(stream') = Len(stream) + 1 /\ stream'[Len(stream) + 1] = e
        /\ \A i \in 1..Len(stream) : stream'[i] = stream[i]
    BY <2>1, AppendEffect, Zenon
  <2>3. Len(stream) \in Nat /\ delivered \in 0..Len(stream)
    BY DEF TypeOK
  <2>4. /\ 1..Len(stream') = (1..Len(stream)) \cup {Len(stream) + 1}
        /\ Len(stream) + 1 > delivered
    BY <2>2, <2>3
  <2>5. \A i \in 1..Len(stream') : Waiting(i)' \/ stream'[i] \in (rows \cup dlq)'
    BY <2>1, <2>2, <2>4, Zenon DEF CoveredInv, Waiting
  <2>6. \A f \in published' : \E i \in 1..Len(stream') : stream'[i] = f
    BY <2>1, <2>2, <2>4, Zenon DEF CoveredInv
  <2> QED
    BY <2>5, <2>6, Zenon DEF CoveredInv
<1>3. ASSUME NEW w \in Loops, XReadGroup(w)
      PROVE  CoveredInv'
  <2>1. /\ delivered' \in Nat /\ delivered < delivered'
        /\ pending' = pending \cup ((delivered + 1)..delivered')
    BY <1>3, ReadRange, Zenon
  <2>2. delivered \in Nat /\ Len(stream) \in Nat
    BY DEF TypeOK
  <2>3. stream' = stream /\ rows' = rows /\ dlq' = dlq /\ published' = published
    BY <1>3, ReadEffect, Zenon
  <2>4. \A i \in 1..Len(stream) : Waiting(i) => Waiting(i)'
    BY <2>1, <2>2 DEF Waiting
  <2> QED
    BY <2>3, <2>4, Zenon DEF CoveredInv
<1>4. ASSUME NEW w \in Loops, ProcessStep(w)
      PROVE  CoveredInv'
  <2>1. UNCHANGED <<published, stream, delivered>>
    BY <1>4, ProcessEffect, Zenon
  <2>2. rows \subseteq rows' /\ dlq \subseteq dlq'
    BY <1>4, StoredStep, Zenon
  <2>3. \A i \in pending : i \in pending' \/ stream[i] \in rows' \cup dlq'
    BY <1>4, AcknowledgedStored, Zenon
  <2> QED
    BY <2>1, <2>2, <2>3, Zenon DEF CoveredInv, Waiting
<1>5. ASSUME UNCHANGED store
      PROVE  CoveredInv'
    BY <1>5, Zenon DEF CoveredInv, Waiting, store
<1> QED
    BY <1>1, <1>2, <1>3, <1>4, <1>5, Zenon DEF Next, LoopStep, XAutoClaim, Crash

-----------------------------------------------------------------------------
(* Dead letters were retried. *)

\* The loops are finitely many, so those that count a failure can be counted.
LEMMA CountingSize ==
    ASSUME NEW e
    PROVE  IsFiniteSet(Counting(e)) /\ Cardinality(Counting(e)) \in Nat
<1>1. IsFiniteSet({"read", "reclaim"})
  <2>1. IsFiniteSet({"read"}) /\ {"read", "reclaim"} = {"read"} \cup {"reclaim"}
    BY FS_Singleton, Zenon
  <2> QED
    BY <2>1, FS_AddElement, Zenon
<1>2. IsFiniteSet(Loops)
    BY <1>1, AuditAssumption, FS_Product, Zenon DEF Loops
<1>3. Counting(e) \in SUBSET Loops
    BY Zenon DEF Counting
<1> QED
    BY <1>2, <1>3, FS_Subset, FS_CardinalityType, Zenon

\* Fewer loops to count, no lower failures and no higher counter keep RetryOK.
LEMMA RetryKept ==
    ASSUME TypeOK, TypeOK', NEW e \in Events, RetryOK(e),
           Counting(e)' \subseteq Counting(e),
           failed[e] <= failed'[e], retry'[e] <= retry[e]
    PROVE  RetryOK(e)'
<1>1. /\ failed[e] \in 0..MaxRetryCount /\ failed'[e] \in 0..MaxRetryCount
      /\ MaxRetryCount \in Nat /\ retry[e] \in Nat /\ retry'[e] \in Nat
    BY AuditAssumption, Zenon DEF TypeOK
<1>2. IsFiniteSet(Counting(e)) /\ Cardinality(Counting(e)) \in Nat
    BY CountingSize, Zenon
<1>3. Cardinality(Counting(e)') \in Nat /\ Cardinality(Counting(e)') <= Cardinality(Counting(e))
    BY <1>2, FS_Subset, FS_CardinalityType, Zenon
<1> QED
    BY <1>1, <1>2, <1>3 DEF RetryOK

\* A step of one loop that does not end in "retry" leaves no more loops to count.
LEMMA CountingShrinks ==
    ASSUME NEW w \in Loops, Others(w), stream' = stream, pc'[w] # "retry", NEW e
    PROVE  Counting(e)' \subseteq Counting(e)
BY EventSame, Zenon DEF Others, Counting

\* Steps that count no failure and increment no counter keep RetriedInv.
LEMMA RetriedKept ==
    ASSUME TypeOK, TypeOK', RetriedInv, NEW w \in Loops, Others(w), stream' = stream,
           pc'[w] # "retry",
           \A e \in Events : failed[e] <= failed'[e] /\ retry'[e] <= retry[e],
           pc'[w] = "dlq" /\ Event(w)' \notin Malformed => failed'[Event(w)'] = MaxRetryCount,
           \A e \in dlq' \ Malformed : e \in dlq \/ failed'[e] = MaxRetryCount
    PROVE  RetriedInv'
<1>1. \A e \in Events : RetryOK(e)'
    BY CountingShrinks, RetryKept, Zenon DEF RetriedInv
<1>2. \A e \in Events : failed[e] = MaxRetryCount => failed'[e] = MaxRetryCount
  <2> SUFFICES ASSUME NEW e \in Events, failed[e] = MaxRetryCount
               PROVE  failed'[e] = MaxRetryCount
    BY Zenon
  <2>1. failed'[e] \in 0..MaxRetryCount /\ MaxRetryCount \in Nat /\ MaxRetryCount <= failed'[e]
    BY AuditAssumption, Zenon DEF TypeOK
  <2> QED
    BY <2>1
<1>3. ASSUME NEW v \in Loops, pc'[v] = "dlq", Event(v)' \notin Malformed
      PROVE  failed'[Event(v)'] = MaxRetryCount
  <2>1. CASE v = w
    BY <1>3, <2>1, Zenon
  <2>2. CASE v # w
    <3>1. pc[v] = "dlq" /\ Event(v)' = Event(v)
      BY <1>3, <2>2, EventSame, Zenon DEF Others
    <3>2. Event(v) \in Events /\ failed[Event(v)] = MaxRetryCount
      BY <1>3, <3>1, CurrentType, Zenon DEF RetriedInv
    <3> QED
      BY <1>2, <3>1, <3>2, Zenon
  <2> QED
    BY <2>1, <2>2, Zenon
<1>4. \A e \in dlq' \ Malformed : failed'[e] = MaxRetryCount
    BY <1>2, Zenon DEF RetriedInv, TypeOK
<1> QED
    BY <1>1, <1>3, <1>4, Zenon DEF RetriedInv

\* A failed insert: one loop more to count, one failure more.
LEMMA RetriedCreateFails ==
    ASSUME TypeOK, TypeOK', RetriedInv, NEW w \in Loops, pc[w] = "create",
           NoteFailure(Event(w)), Goto(w, "retry"),
           UNCHANGED <<stream, delivered, dlq, retry>>
    PROVE  RetriedInv'
<1>1. PICK f \in Events : f = Event(w)
    BY CurrentType, Zenon
<1>2. Others(w) /\ pc'[w] = "retry" /\ batch' = batch
    BY GotoEffect, Zenon DEF Steps
<1>3. \A v \in Loops : Event(v)' = Event(v)
    BY <1>2, EventSame, Zenon
<1>4. failed' = [failed EXCEPT ![f] = IF failed[f] < MaxRetryCount THEN failed[f] + 1
                                                                   ELSE failed[f]]
    BY <1>1, Zenon DEF NoteFailure
<1>5. /\ failed'[f] = IF failed[f] < MaxRetryCount THEN failed[f] + 1 ELSE failed[f]
      /\ \A e \in Events : e # f => failed'[e] = failed[e]
    BY <1>1, <1>4, Zenon DEF TypeOK
<1>6. /\ failed[f] \in 0..MaxRetryCount /\ MaxRetryCount \in Nat /\ retry[f] \in Nat
      /\ retry' = retry
    BY <1>1, AuditAssumption, Zenon DEF TypeOK
<1>7. RetryOK(f)'
  <2>1. Counting(f)' = Counting(f) \cup {w} /\ w \notin Counting(f)
    BY <1>1, <1>2, <1>3, Zenon DEF Counting, Others
  <2>2. IsFiniteSet(Counting(f)) /\ Cardinality(Counting(f)) \in Nat
    BY CountingSize, Zenon
  <2>3. Cardinality(Counting(f)') = Cardinality(Counting(f)) + 1
    BY <2>1, <2>2, FS_AddElement, Zenon
  <2>4. failed[f] = MaxRetryCount \/ retry[f] + Cardinality(Counting(f)) <= failed[f]
    BY <1>1, Zenon DEF RetriedInv, RetryOK
  <2>5. failed'[f] = MaxRetryCount \/ retry'[f] + Cardinality(Counting(f)') <= failed'[f]
    BY <1>5, <1>6, <2>2, <2>3, <2>4
  <2> QED
    BY <2>5, Zenon DEF RetryOK
<1>8. \A e \in Events : e # f => RetryOK(e)'
  <2> SUFFICES ASSUME NEW e \in Events, e # f
               PROVE  RetryOK(e)'
    BY Zenon
  <2>1. Counting(e)' = Counting(e)
    BY <1>1, <1>2, <1>3, Zenon DEF Counting, Others
  <2> QED
    BY <1>5, <1>6, <2>1, Zenon DEF RetriedInv, RetryOK
<1>9. \A e \in Events : failed[e] = MaxRetryCount => failed'[e] = MaxRetryCount
    BY <1>5, <1>6
<1>10. \A v \in Loops : pc'[v] = "dlq" /\ Event(v)' \notin Malformed
                            => failed'[Event(v)'] = MaxRetryCount
    BY <1>2, <1>3, <1>9, CurrentType, Zenon DEF RetriedInv, Others
<1>11. \A e \in dlq' \ Malformed : failed'[e] = MaxRetryCount
    BY <1>9, Zenon DEF RetriedInv, TypeOK
<1> QED
    BY <1>7, <1>8, <1>10, <1>11, Zenon DEF RetriedInv

\* An INCR: one loop less to count, the counter one higher.  At the limit the
\* failures have reached it too.
LEMMA RetriedIncrement ==
    ASSUME TypeOK, TypeOK', RetriedInv, NEW w \in Loops, pc[w] = "retry",
           retry' = [retry EXCEPT ![Event(w)] = @ + 1],
           IF RetriesExhausted(retry[Event(w)] + 1) THEN Goto(w, "dlq") ELSE NextMessage(w),
           UNCHANGED <<stream, delivered, dlq, failed>>
    PROVE  RetriedInv'
<1>1. PICK f \in Events : f = Event(w)
    BY CurrentType, Zenon
<1>2. /\ Others(w) /\ pc'[w] # "retry"
      /\ pc'[w] = "dlq" => f = Event(w)' /\ retry[f] + 1 >= MaxRetryCount
  <2>1. CASE Goto(w, "dlq") /\ RetriesExhausted(retry[f] + 1)
    BY <1>1, <2>1, GotoEffect, EventSame DEF Steps, RetriesExhausted
  <2>2. CASE NextMessage(w)
    BY <2>2, NextEffect, Zenon
  <2> QED
    BY <1>1, <2>1, <2>2, Zenon
<1>3. \A v \in Loops : v # w => Event(v)' = Event(v) /\ pc'[v] = pc[v]
    BY <1>2, EventSame, Zenon DEF Others
<1>4. w \in Counting(f)
    BY <1>1, Zenon DEF Counting
<1>5. retry' = [retry EXCEPT ![f] = retry[f] + 1]
    BY <1>1, Zenon
<1>6. f = Event(w)
    BY <1>1, Zenon
<1>7. retry'[f] = retry[f] + 1 /\ \A e \in Events : e # f => retry'[e] = retry[e]
    BY <1>1, <1>5, Zenon DEF TypeOK
<1>8. /\ failed[f] \in 0..MaxRetryCount /\ MaxRetryCount \in Nat /\ retry[f] \in Nat
      /\ failed' = failed
    BY <1>1, AuditAssumption, Zenon DEF TypeOK
<1>9. failed[f] = MaxRetryCount \/ retry[f] + Cardinality(Counting(f)) <= failed[f]
    BY <1>1, Zenon DEF RetriedInv, RetryOK
<1>10. IsFiniteSet(Counting(f)) /\ Cardinality(Counting(f)) \in Nat
    BY CountingSize, Zenon
<1>11. RetryOK(f)'
  <2>1. Counting(f)' = Counting(f) \ {w}
    BY <1>2, <1>3, Zenon DEF Counting
  <2>2. Cardinality(Counting(f)') = Cardinality(Counting(f)) - 1
    BY <1>4, <1>10, <2>1, FS_RemoveElement, Zenon
  <2>3. failed'[f] = MaxRetryCount \/ retry'[f] + Cardinality(Counting(f)') <= failed'[f]
    BY <1>7, <1>8, <1>9, <1>10, <2>2
  <2> QED
    BY <2>3, Zenon DEF RetryOK
<1>12. \A e \in Events : e # f => RetryOK(e)'
  <2> SUFFICES ASSUME NEW e \in Events, e # f
               PROVE  RetryOK(e)'
    BY Zenon
  <2>1. Counting(e)' = Counting(e)
    BY <1>2, <1>3, <1>6, Zenon DEF Counting
  <2> QED
    BY <1>7, <1>8, <2>1, Zenon DEF RetriedInv, RetryOK
<1>13. pc'[w] = "dlq" => failed'[f] = MaxRetryCount
  <2>1. Cardinality(Counting(f)) > 0
    BY <1>4, <1>10, FS_EmptySet
  <2> QED
    BY <1>2, <1>8, <1>9, <1>10, <2>1
<1>14. \A v \in Loops : pc'[v] = "dlq" /\ Event(v)' \notin Malformed
                            => failed'[Event(v)'] = MaxRetryCount
    BY <1>2, <1>3, <1>8, <1>13, Zenon DEF RetriedInv
<1>15. \A e \in dlq' \ Malformed : failed'[e] = MaxRetryCount
    BY <1>8, Zenon DEF RetriedInv
<1> QED
    BY <1>11, <1>12, <1>14, <1>15, Zenon DEF RetriedInv

\* Every step on a message keeps RetriedInv.
LEMMA RetriedStep ==
    ASSUME TypeOK, TypeOK', RetriedInv, StoredInv, NEW w \in Loops, ProcessStep(w)
    PROVE  RetriedInv'
<1>1. pc[w] # "idle" /\ Others(w) /\ stream' = stream /\ delivered' = delivered
    BY ProcessEffect, Zenon
<1>2. \A step \in Steps \ {"idle"} : Goto(w, step) => pc'[w] = step /\ Event(w)' = Event(w)
    BY <1>1, GotoEffect, EventSame, Zenon
<1>3. NextMessage(w) => pc'[w] \in {"idle", "create"}
    BY <1>1, NextEffect, Zenon
<1>4. Event(w) \in Events
    BY <1>1, CurrentType, Zenon
<1>5. \A e \in Events : failed[e] <= failed[e] /\ retry[e] <= retry[e] /\ 0 <= retry[e]
    BY AuditAssumption DEF TypeOK
<1>6. CASE CreateEvent(w) /\ ~NoteFailure(Event(w))
  <2>1. /\ failed' = failed /\ retry' = retry /\ dlq' = dlq
        /\ \/ pc'[w] = "dlq" /\ Event(w) \in Malformed /\ Event(w)' = Event(w)
           \/ pc'[w] = "clear"
    BY <1>2, <1>6, Zenon DEF CreateEvent, Steps
  <2> QED
    BY <1>1, <1>5, <2>1, RetriedKept, Zenon
<1>7. CASE CreateEvent(w) /\ NoteFailure(Event(w))
  <2>1. CASE Goto(w, "retry")
    BY <1>1, <1>7, <2>1, RetriedCreateFails, Zenon DEF CreateEvent
  <2>2. CASE ~Goto(w, "retry")
    <3>1. /\ failed' = failed /\ retry' = retry /\ dlq' = dlq
          /\ \/ pc'[w] = "dlq" /\ Event(w) \in Malformed /\ Event(w)' = Event(w)
             \/ pc'[w] = "clear"
      BY <1>2, <1>7, <2>2, Zenon DEF CreateEvent, Steps
    <3> QED
      BY <1>1, <1>5, <3>1, RetriedKept, Zenon
  <2> QED
    BY <2>1, <2>2, Zenon
<1>8. CASE IncrementRetry(w)
  <2>1. CASE retry' = [retry EXCEPT ![Event(w)] = @ + 1] /\ failed' = failed
             /\ IF RetriesExhausted(retry[Event(w)] + 1) THEN Goto(w, "dlq") ELSE NextMessage(w)
    BY <1>1, <1>8, <2>1, RetriedIncrement, Zenon DEF IncrementRetry
  <2>2. CASE failed' = [failed EXCEPT ![Event(w)] = MaxRetryCount] /\ retry' = retry
             /\ Goto(w, "dlq")
    <3>1. pc'[w] = "dlq" /\ Event(w)' = Event(w)
      BY <1>2, <2>2, Zenon DEF Steps
    <3>2. /\ failed'[Event(w)] = MaxRetryCount
          /\ \A e \in Events : e # Event(w) => failed'[e] = failed[e]
      BY <1>4, <2>2, Zenon DEF TypeOK
    <3>3. \A e \in Events : failed[e] <= MaxRetryCount
      BY AuditAssumption DEF TypeOK
    <3>4. \A e \in Events : failed[e] <= failed'[e]
      BY <1>5, <3>2, <3>3, Zenon
    <3>5. dlq' = dlq
      BY <1>8, Zenon DEF IncrementRetry
    <3> QED
      BY <1>1, <1>5, <2>2, <3>1, <3>2, <3>4, <3>5, RetriedKept, Zenon
  <2> QED
    BY <1>8, <2>1, <2>2, Zenon DEF IncrementRetry
<1>9. CASE ClearRetry(w) \/ Ack(w) \/ AckAfterDLQ(w) \/ ClearRetryAfterDLQ(w)
  <2>1. failed' = failed /\ dlq' = dlq /\ pc'[w] \notin {"retry", "dlq"}
    BY <1>2, <1>3, <1>9 DEF ClearRetry, Ack, AckAfterDLQ, ClearRetryAfterDLQ, Steps
  <2>2. retry' = retry \/ retry' = [retry EXCEPT ![Event(w)] = 0]
    BY <1>9, Zenon DEF ClearRetry, Ack, AckAfterDLQ, ClearRetryAfterDLQ
  <2>3. \A e \in Events : retry'[e] = retry[e] \/ retry'[e] = 0
    BY <1>4, <2>2, Zenon DEF TypeOK
  <2>4. \A e \in Events : failed[e] <= failed'[e] /\ retry'[e] <= retry[e]
    BY <1>5, <2>1, <2>3, Zenon
  <2> QED
    BY <1>1, <2>1, <2>4, RetriedKept, Zenon
<1>10. CASE AddToDLQ(w)
  <2>1. /\ failed' = failed /\ retry' = retry /\ pc'[w] \notin {"retry", "dlq"}
        /\ dlq' \subseteq dlq \cup {Event(w)}
    BY <1>2, <1>3, <1>10 DEF AddToDLQ, Steps
  <2>2. Event(w) \notin Malformed => failed'[Event(w)] = MaxRetryCount
    BY <1>10, <2>1, Zenon DEF AddToDLQ, RetriedInv
  <2> QED
    BY <1>1, <1>5, <2>1, <2>2, RetriedKept, Zenon
<1> QED
    BY <1>6, <1>7, <1>8, <1>9, <1>10, Zenon DEF ProcessStep

\* Every step keeps RetriedInv.
LEMMA RetriedNext ==
    ASSUME TypeOK, TypeOK', StoredInv, RetriedInv, [Next]_vars
    PROVE  RetriedInv'
<1>1. \A e \in Events : failed[e] <= failed[e] /\ retry[e] <= retry[e]
    BY AuditAssumption DEF TypeOK
<1>2. CASE UNCHANGED vars
    BY <1>2, Zenon DEF RetriedInv, RetryOK, Counting, Event, Current, vars, store
<1>3. ASSUME NEW a \in Events, Publish(a) \/ ReplayDLQ(a)
      PROVE  RetriedInv'
  <2>1. /\ stream' = Append(stream, a) /\ pc' = pc /\ batch' = batch
        /\ retry' = retry /\ dlq' = dlq /\ failed' = failed
    BY <1>3, Zenon DEF Publish, ReplayDLQ
  <2>2. \A v \in Loops : pc[v] # "idle" => Event(v)' = Event(v)
    BY <2>1, EventAppended, Zenon
  <2>3. \A e \in Events : Counting(e)' = Counting(e)
    BY <2>1, <2>2, Zenon DEF Counting
  <2> QED
    BY <2>1, <2>2, <2>3, Zenon DEF RetriedInv, RetryOK
<1>4. ASSUME NEW w \in Loops, XReadGroup(w) \/ XAutoClaim(w)
      PROVE  RetriedInv'
  <2>1. /\ Others(w) /\ pc'[w] \in {"idle", "create"} /\ stream' = stream
        /\ retry' = retry /\ failed' = failed /\ dlq' = dlq
    BY <1>4, ReadEffect, Zenon
  <2> QED
    BY <1>1, <2>1, RetriedKept, Zenon
<1>5. ASSUME NEW k \in Processes, Crash(k)
      PROVE  RetriedInv'
  <2>1. /\ pc' = [w \in Loops |-> IF w[1] = k THEN "idle" ELSE pc[w]]
        /\ batch' = [w \in Loops |-> IF w[1] = k THEN {} ELSE batch[w]]
        /\ UNCHANGED <<stream, retry, failed, dlq>>
    BY <1>5, Zenon DEF Crash, store
  <2>2. \A v \in Loops : pc'[v] = "idle" \/ (pc'[v] = pc[v] /\ batch'[v] = batch[v])
    BY <2>1, Zenon
  <2>3. \A v \in Loops : pc'[v] = "idle" \/ (pc'[v] = pc[v] /\ Event(v)' = Event(v))
    BY <2>1, <2>2, EventSame, Zenon
  <2>4. \A e \in Events : Counting(e)' \subseteq Counting(e)
    BY <2>3, Zenon DEF Counting
  <2>5. \A e \in Events : RetryOK(e)'
    BY <1>1, <2>1, <2>4, RetryKept, Zenon DEF RetriedInv
  <2> QED
    BY <2>1, <2>3, <2>5, Zenon DEF RetriedInv
<1> QED
    BY <1>2, <1>3, <1>4, <1>5, RetriedStep, Zenon DEF Next, LoopStep

-----------------------------------------------------------------------------
(* The theorems. *)

\* Nothing is published, counted or in hand at the start.
LEMMA AuditInit ==
    ASSUME Init
    PROVE  AuditInv
<1>1. TypeOK
    BY AuditAssumption DEF Init, TypeOK, Steps
<1>2. StoredInv /\ CoveredInv
    BY DEF Init, StoredInv, CoveredInv
<1>3. \A e \in Events : Counting(e) = {} /\ retry[e] = 0 /\ failed[e] = 0
    BY Zenon DEF Init, Counting
<1>4. \A e \in Events : RetryOK(e)
    BY <1>3, FS_EmptySet DEF RetryOK
<1> QED
    BY <1>1, <1>2, <1>4, Zenon DEF Init, AuditInv, RetriedInv

\* Every step of the stream keeps the invariant.
LEMMA AuditNext ==
    ASSUME AuditInv, [Next]_vars
    PROVE  AuditInv'
BY TypeNext, StoredNext, CoveredNext, RetriedNext, Zenon DEF AuditInv

\* The invariant holds throughout.
LEMMA AuditInvariant == Spec => []AuditInv
<1>1. Init => AuditInv
    BY AuditInit, Zenon
<1>2. AuditInv /\ [Next]_vars => AuditInv'
    BY AuditNext, Zenon
<1> QED
    BY <1>1, <1>2, PTL DEF Spec

\* The stream, the group's position, the pending list and the loops' batches
\* keep their types: a loop at work always holds a message that was delivered.
THEOREM AuditTypeCorrect == Spec => []TypeOK
<1>1. AuditInv => TypeOK
    BY Zenon DEF AuditInv
<1> QED
    BY <1>1, AuditInvariant, PTL

\* No event the producer added is lost, whatever fails and however many loops
\* work on the same message (auditstream's processMessage, moveToDLQ).
THEOREM NoEventIsLost == Spec => []NothingLost
<1>1. AuditInv => NothingLost
  <2> SUFFICES ASSUME AuditInv, NEW e \in published
               PROVE  e \in rows \cup dlq \/ \E i \in DOMAIN stream : stream[i] = e /\ Waiting(i)
    BY Zenon DEF NothingLost
  <2>1. PICK i \in 1..Len(stream) : stream[i] = e
    BY Zenon DEF AuditInv, CoveredInv
  <2>2. Waiting(i) \/ stream[i] \in rows \cup dlq
    BY Zenon DEF AuditInv, CoveredInv
  <2>3. i \in DOMAIN stream
    BY DEF AuditInv, TypeOK
  <2> QED
    BY <2>1, <2>2, <2>3, Zenon
<1> QED
    BY <1>1, AuditInvariant, PTL

\* A well-formed event is a dead letter only after its inserts failed
\* MaxRetryCount times or an INCR failed, although the loops share its counter
\* (incrementRetry, clearRetry).
THEOREM DeadLettersExhausted == Spec => []DeadLettersWereRetried
<1>1. AuditInv => DeadLettersWereRetried
    BY AuditAssumption DEF AuditInv, RetriedInv, DeadLettersWereRetried
<1> QED
    BY <1>1, AuditInvariant, PTL
=============================================================================
