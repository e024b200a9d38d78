----------------------------- MODULE WorkerPool -----------------------------
(***************************************************************************)
(* The two worker pools of application/authn: runWithPool hands a job to   *)
(* the queue of a pool and waits for its result; the workers of the IO     *)
(* pool run the jobs, and the job that checks a password waits in its turn *)
(* for a job of the CPU pool.  The context of a call may be cancelled at   *)
(* any moment; then neither the caller nor the IO worker waits on, and the *)
(* job they leave behind is finished by its worker.                        *)
(*                                                                         *)
(* What the jobs do is Login's subject.  The specification's names carry   *)
(* the prefix Pool.                                                        *)
(***************************************************************************)
EXTENDS Naturals, FiniteSets, Sequences

CONSTANTS
    Callers,                    \* requests in progress
    IOWorkers, CPUWorkers,      \* goroutines of each pool
    IOQueueSize, CPUQueueSize   \* capacity of each queue

\* newWorkerPool: at least one worker, and a queue no shorter than that.
ASSUME PoolAssumption ==
    /\ IOWorkers \in Nat /\ CPUWorkers \in Nat \ {0}
    /\ IOWorkers > 0 /\ IsFiniteSet(Callers)
    /\ IOQueueSize \in Nat /\ IOQueueSize >= IOWorkers
    /\ CPUQueueSize \in Nat /\ CPUQueueSize >= CPUWorkers

VARIABLES
    ioQueue, cpuQueue,  \* jobs that wait for a worker
    job,                \* callers: where the job is
    nested,             \* callers: whether the job needs the CPU pool
    waiting,            \* callers: the call has not returned
    detached,           \* callers: the IO worker has left the CPU job behind
    cancelled           \* callers: the context is over

poolVars == <<ioQueue, cpuQueue, job, nested, waiting, detached, cancelled>>

-----------------------------------------------------------------------------

Places == {"none", "submit", "queue", "io", "cpuqueue", "cpu", "iodone"}

PoolTypeOK ==
    /\ ioQueue \in Seq(Callers) /\ Len(ioQueue) <= IOQueueSize
    /\ cpuQueue \in Seq(Callers) /\ Len(cpuQueue) <= CPUQueueSize
    /\ job \in [Callers -> Places]
    /\ {nested, waiting, detached, cancelled} \subseteq [Callers -> BOOLEAN]

PoolInit ==
    /\ ioQueue = <<>> /\ cpuQueue = <<>>
    /\ job = [c \in Callers |-> "none"]
    /\ nested = [c \in Callers |-> FALSE]
    /\ waiting = [c \in Callers |-> FALSE]
    /\ detached = [c \in Callers |-> FALSE]
    /\ cancelled = [c \in Callers |-> FALSE]

\* An IO worker keeps its job while the CPU pool has a part of it.
IOBusy == {c \in Callers : job[c] \in {"io", "cpuqueue", "cpu", "iodone"} /\ ~detached[c]}
CPUBusy == {c \in Callers : job[c] = "cpu"}

Put(c, place) == job' = [job EXCEPT ![c] = place]

-----------------------------------------------------------------------------

\* A request calls runWithPool on the IO pool; what came before is forgotten.
Call(c, cpu) ==
    /\ job[c] = "none" /\ ~waiting[c]
    /\ Put(c, "submit")
    /\ nested' = [nested EXCEPT ![c] = cpu]
    /\ waiting' = [waiting EXCEPT ![c] = TRUE]
    /\ cancelled' = [cancelled EXCEPT ![c] = FALSE]
    /\ UNCHANGED <<ioQueue, cpuQueue, detached>>

Cancel(c) ==
    /\ waiting[c] /\ ~cancelled[c]
    /\ cancelled' = [cancelled EXCEPT ![c] = TRUE]
    /\ UNCHANGED <<ioQueue, cpuQueue, job, nested, waiting, detached>>

\* The queue has room for the job.
Submit(c) ==
    /\ job[c] = "submit" /\ Len(ioQueue) < IOQueueSize
    /\ ioQueue' = Append(ioQueue, c)
    /\ Put(c, "queue")
    /\ UNCHANGED <<cpuQueue, nested, waiting, detached, cancelled>>

\* Mutant: a job that nobody waits for is taken to be gone.
GiveUpJob(c) ==
    /\ waiting[c] /\ cancelled[c]
    /\ waiting' = [waiting EXCEPT ![c] = FALSE]
    /\ Put(c, "none")
    /\ UNCHANGED <<ioQueue, cpuQueue, nested, detached, cancelled>>

\* The context is over: the call returns, whatever becomes of its job.
GiveUp(c) ==
    /\ waiting[c] /\ cancelled[c]
    /\ waiting' = [waiting EXCEPT ![c] = FALSE]
    /\ Put(c, IF job[c] = "submit" THEN "none" ELSE job[c])
    /\ UNCHANGED <<ioQueue, cpuQueue, nested, detached, cancelled>>

\* runWorker: a job whose context is over is answered without running it.
RunWorker(c) ==
    /\ ioQueue # <<>> /\ Head(ioQueue) = c
    /\ Cardinality(IOBusy) < IOWorkers
    /\ ioQueue' = Tail(ioQueue)
    /\ Put(c, IF cancelled[c] THEN "iodone" ELSE "io")
    /\ UNCHANGED <<cpuQueue, nested, waiting, detached, cancelled>>

\* A job without CPU part comes to its end.
FinishJob(c) ==
    /\ job[c] = "io" /\ ~nested[c]
    /\ Put(c, "iodone")
    /\ UNCHANGED <<ioQueue, cpuQueue, nested, waiting, detached, cancelled>>

\* The IO worker calls runWithPool on the CPU pool.
SubmitCPU(c) ==
    /\ job[c] = "io" /\ nested[c] /\ Len(cpuQueue) < CPUQueueSize
    /\ cpuQueue' = Append(cpuQueue, c)
    /\ Put(c, "cpuqueue")
    /\ UNCHANGED <<ioQueue, nested, waiting, detached, cancelled>>

\* The context is over: the IO worker does not wait for the CPU pool.  Its own
\* result, the context's error, goes into the caller's channel at once.
GiveUpCPU(c) ==
    /\ cancelled[c] /\ nested[c] /\ ~detached[c]
    /\ \/ job[c] = "io" /\ Put(c, "iodone") /\ UNCHANGED <<detached, waiting>>
       \/ /\ job[c] \in {"cpuqueue", "cpu"}
          /\ detached' = [detached EXCEPT ![c] = TRUE]
          /\ waiting' = [waiting EXCEPT ![c] = FALSE]
          /\ UNCHANGED job
    /\ UNCHANGED <<ioQueue, cpuQueue, nested, cancelled>>

\* Where the result of a CPU job goes: to the IO worker, or nowhere.
AfterCPU(c) ==
    /\ Put(c, IF detached[c] THEN "none" ELSE "iodone")
    /\ detached' = [detached EXCEPT ![c] = FALSE]

RunCPUWorkerIf(c, free) ==
    /\ cpuQueue # <<>> /\ Head(cpuQueue) = c
    /\ free
    /\ cpuQueue' = Tail(cpuQueue)
    /\ IF cancelled[c] THEN AfterCPU(c) ELSE Put(c, "cpu") /\ UNCHANGED detached
    /\ UNCHANGED <<ioQueue, nested, waiting, cancelled>>

\* Mutant: the nested job goes to the IO pool too.
RunOnIOWorker(c) == RunCPUWorkerIf(c, Cardinality(IOBusy) + Cardinality(CPUBusy) < IOWorkers)

RunCPUWorker(c) == RunCPUWorkerIf(c, Cardinality(CPUBusy) < CPUWorkers)

FinishCPUJob(c) ==
    /\ job[c] = "cpu"
    /\ AfterCPU(c)
    /\ UNCHANGED <<ioQueue, cpuQueue, nested, waiting, cancelled>>

\* Mutant: the channel of the result has no buffer.
DeliverUnbuffered(c) ==
    /\ job[c] = "iodone" /\ waiting[c]
    /\ Put(c, "none")
    /\ waiting' = [waiting EXCEPT ![c] = FALSE]
    /\ UNCHANGED <<ioQueue, cpuQueue, nested, detached, cancelled>>

\* The IO worker puts the result into the channel, whose buffer of one takes it
\* even if the caller has left, and is free again.
Deliver(c) ==
    /\ job[c] = "iodone"
    /\ Put(c, "none")
    /\ waiting' = [waiting EXCEPT ![c] = FALSE]
    /\ UNCHANGED <<ioQueue, cpuQueue, nested, detached, cancelled>>

-----------------------------------------------------------------------------

PoolStep(c) ==
    \/ Submit(c) \/ GiveUp(c) \/ RunWorker(c) \/ FinishJob(c)
    \/ SubmitCPU(c) \/ GiveUpCPU(c) \/ RunCPUWorker(c) \/ FinishCPUJob(c)
    \/ Deliver(c)

PoolNext ==
    \E c \in Callers :
        \/ \E cpu \in BOOLEAN : Call(c, cpu)
        \/ Cancel(c)
        \/ PoolStep(c)

\* Goroutines run, jobs end, and senders that wait for room in a channel are
\* served in their order.
PoolFairness ==
    \A c \in Callers :
        /\ WF_poolVars(PoolStep(c))
        /\ SF_poolVars(Submit(c)) /\ SF_poolVars(SubmitCPU(c))

PoolSpec == PoolInit /\ [][PoolNext]_poolVars /\ PoolFairness

-----------------------------------------------------------------------------

\* A job is where its call says it is: the queues hold exactly the jobs handed
\* in and not taken, each once and no more than they have room for, and no pool
\* runs more jobs than it has workers, with calls given up and IO workers that
\* leave CPU jobs behind.
JobsInOnePlace ==
    /\ \A c \in Callers :
        /\ Cardinality({i \in DOMAIN ioQueue : ioQueue[i] = c}) = (IF job[c] = "queue" THEN 1 ELSE 0)
        /\ Cardinality({i \in DOMAIN cpuQueue : cpuQueue[i] = c}) = (IF job[c] = "cpuqueue" THEN 1 ELSE 0)
    /\ Len(ioQueue) <= IOQueueSize /\ Cardinality(IOBusy) <= IOWorkers
    /\ Len(cpuQueue) <= CPUQueueSize /\ Cardinality(CPUBusy) <= CPUWorkers

\* Every call of runWithPool returns, although IO workers wait for CPU workers
\* and the queues are shared with jobs that nobody waits for.
EveryCallReturns ==
    \A c \in Callers : waiting[c] ~> ~waiting[c]

\* A job that was left behind does not keep its worker.
EveryJobEnds ==
    \A c \in Callers : job[c] # "none" ~> job[c] = "none"
=============================================================================
