----------------------- MODULE MCThreadPoolLockfree -------------------------
(***************************************************************************)
(* Instances of ThreadPoolLockfree and of MPMCQueue for TLC.  The pool     *)
(* takes the calls of its queue as single steps and MPMCQueue shows that   *)
(* they are; a behaviour is one of the pool or one of the queue, as part   *)
(* says.                                                                   *)
(***************************************************************************)
EXTENDS ThreadPoolLockfree, TLC

CONSTANTS Consumers, LogCapacity, Width, Passed

VARIABLES part, enqueue_pos, dequeue_pos, cell_sequence, cell_payload, pc, pos, value,
          handed, returned

Q == INSTANCE MPMCQueue WITH
    m_enqueue_pos <- enqueue_pos, m_dequeue_pos <- dequeue_pos, sequence <- cell_sequence,
    payload <- cell_payload, submitted <- handed

ASSUME Q!QueueAssumption

mpmcVars == <<enqueue_pos, dequeue_pos, cell_sequence, cell_payload, pc, pos, value,
              handed, returned>>

LockfreeInit == Init /\ Q!Init /\ part \in {"pool", "queue"}

Pooled == part = "pool" /\ UNCHANGED <<mpmcVars, part>>
Queued == part = "queue" /\ UNCHANGED <<vars, part>>

PoolNext ==
    \/ \E p \in Producers :
        \/ \E t \in Tasks : Submit(p, t) /\ Pooled
        \/ ClaimCell(p) /\ Pooled
        \/ QueueFull(p) /\ Pooled
        \/ PublishCell(p) /\ Pooled
        \/ CountPending(p) /\ Pooled
        \/ LookPending(p) /\ Pooled
        \/ LookThreads(p) /\ Pooled
        \/ LookBusy(p) /\ Pooled
        \/ DecideGrow(p) /\ Pooled
        \/ SpawnWorker(p) /\ Pooled
        \/ SpawnFails(p) /\ Pooled
        \/ CountWorker(p) /\ Pooled
        \/ PostTask(p) /\ Pooled
    \/ \E w \in Workers :
        \/ TopOfLoop(w) /\ Pooled
        \/ ChooseWait(w) /\ Pooled
        \/ AcquirePermit(w) /\ Pooled
        \/ Interrupted(w) /\ Pooled
        \/ Timeout(w) /\ Pooled
        \/ CheckPending(w) /\ Pooled
        \/ CheckThreads(w) /\ Pooled
        \/ Leave(w) /\ Pooled
        \/ DequeueTask(w) /\ Pooled
        \/ DequeueNothing(w) /\ Pooled
        \/ AfterFailure(w) /\ Pooled
        \/ ReleaseCell(w) /\ Pooled
        \/ UncountPending(w) /\ Pooled
        \/ CountBusy(w) /\ Pooled
        \/ Execute(w) /\ Pooled
    \/ StopPool /\ Pooled
    \/ CountPosts /\ Pooled
    \/ PostStop /\ Pooled
    \/ JoinWorkers /\ Pooled
    \/ Destroyed /\ Pooled

QueueNext ==
    \/ \E x \in Producers \cup Consumers :
        \/ Q!Reload(x) /\ Queued
        \/ Q!LoadSequence(x) /\ Queued
        \/ Q!ExchangeFails(x) /\ Queued
    \/ \E x \in Producers :
        \/ \E t \in Tasks : Q!EnqueueCall(x, t) /\ Queued
        \/ Q!EnqueueExchange(x) /\ Queued
        \/ Q!WritePayload(x) /\ Queued
        \/ Q!PublishCell(x) /\ Queued
    \/ \E x \in Consumers :
        \/ Q!DequeueCall(x) /\ Queued
        \/ Q!DequeueExchange(x) /\ Queued
        \/ Q!ReadPayload(x) /\ Queued
        \/ Q!ReleaseCell(x) /\ Queued

LockfreeNext == PoolNext \/ QueueNext

LockfreeSpec == LockfreeInit /\ [][LockfreeNext]_<<vars, mpmcVars, part>>

\* Producers, workers and tasks are only compared; the run that uses it has
\* no liveness property.
Symmetry == Permutations(Producers) \cup Permutations(Workers) \cup Permutations(Tasks)
-----------------------------------------------------------------------------
\* What was loaded before the exchange of bounded_mpmc_queue is still true at an
\* exchange that succeeds, a call that returns false does so while its position
\* is the current one and its cell is not ready, and between exchange and store
\* a thread has the payload of its cell to itself: both loops act as one step.
ExchangeIsAtomic == Q!ExchangeIsAtomic /\ Q!PayloadNotShared

\* The pool implements TaskPool, and so does its queue, also across the wrap of
\* its positions: a task whose append returned true is started once, in order.
ImplementTaskPool == ImplementsTaskPool /\ Q!ImplementsTaskPool
=============================================================================
