------------------------- MODULE ThreadPoolLockfree -------------------------
(***************************************************************************)
(* threadpool<T> of infra/threadpool/threadpool.h in queue_mode_lockfree.  *)
(*                                                                         *)
(* Every access to a shared atomic is a step of its own, except that       *)
(* m_stop, which is only ever set, is read with the load that follows it.  *)
(* The compare and exchange loops of bounded_mpmc_queue are taken as one   *)
(* step each at the exchange that succeeds or at the load that makes them  *)
(* return false: MPMCQueue checks that they behave like that.              *)
(***************************************************************************)
EXTENDS Naturals, Integers, Sequences, FiniteSets

CONSTANTS
    Producers,   \* threads that call enqueue
    Workers,     \* identities of worker threads, reused after a thread ends
    Tasks,       \* each is submitted at most once
    None,        \* no task
    MinThreads,  \* m_min_thread_number
    MaxThreads,  \* m_max_thread_number
    Capacity     \* m_capacity of the queue, a power of two

ASSUME PoolAssumption ==
    /\ IsFiniteSet(Workers) /\ IsFiniteSet(Producers) /\ Producers # {}
    /\ MinThreads \in Nat \ {0}
    /\ MaxThreads \in Nat
    /\ MinThreads <= MaxThreads
    /\ Capacity \in Nat /\ Capacity >= 2  \* a ring of one cell would overwrite its task
    /\ None \notin Tasks

VARIABLES
    m_enqueue_pos,
    m_dequeue_pos,
    sequence,      \* of each cell
    payload,       \* of each cell
    m_queued_tasks,          \* value of the semaphore
    m_pending_task_number,
    m_current_thread_number,
    m_busy_thread_number,
    m_stop,
    threadlocker,  \* who holds m_threadlocker
    ppc, arg, ppos,         \* producers: control point, task, claimed position
    pending, idle,          \* producers: pending_tasks and idle_threads of maybe_grow_unlocked
    wpc, current, wpos,     \* workers: control point, current_task, claimed position
    dtor, posts,   \* ~threadpool: progress and posts left to do
    submitted, accepted, done

queueVars == <<m_enqueue_pos, m_dequeue_pos, sequence, payload>>
counterVars == <<m_pending_task_number, m_current_thread_number, m_busy_thread_number>>
growVars == <<pending, idle>>
producerVars == <<ppc, arg, ppos, growVars>>
workerVars == <<wpc, current, wpos>>
dtorVars == <<m_stop, dtor, posts>>
historyVars == <<submitted, accepted, done>>
vars == <<queueVars, m_queued_tasks, counterVars, threadlocker, producerVars, workerVars,
          dtorVars, historyVars>>

Live == {w \in Workers : wpc[w] # "gone"}
PAt(S) == {p \in Producers : ppc[p] \in S}
WAt(S) == {w \in Workers : wpc[w] \in S}
PGoto(p, s) == ppc' = [ppc EXCEPT ![p] = s]
WGoto(w, s) == wpc' = [wpc EXCEPT ![w] = s]
Cell(pos) == pos % Capacity

\* The constructors of the queue and of the pool.
Init ==
    /\ m_enqueue_pos = 0
    /\ m_dequeue_pos = 0
    /\ sequence = [i \in 0..(Capacity - 1) |-> i]
    /\ payload = [i \in 0..(Capacity - 1) |-> None]
    /\ m_queued_tasks = 0
    /\ m_pending_task_number = 0
    /\ m_current_thread_number = MinThreads
    /\ m_busy_thread_number = 0
    /\ m_stop = FALSE
    /\ threadlocker = None
    /\ ppc = [p \in Producers |-> "idle"]
    /\ arg = [p \in Producers |-> None]
    /\ ppos = [p \in Producers |-> 0]
    /\ pending = [p \in Producers |-> 0]
    /\ idle = [p \in Producers |-> 0]
    /\ \E first \in SUBSET Workers :
          /\ Cardinality(first) = MinThreads
          /\ wpc = [w \in Workers |-> IF w \in first THEN "top" ELSE "gone"]
    /\ current = [w \in Workers |-> None]
    /\ wpos = [w \in Workers |-> 0]
    /\ dtor = "no"
    /\ posts = 0
    /\ submitted = {}
    /\ accepted = {}
    /\ done = {}
-----------------------------------------------------------------------------
(***************************************************************************)
(* enqueue                                                                 *)
(***************************************************************************)

\* enqueue returns: its local variables are gone.
EndCall(p) ==
    /\ PGoto(p, "idle")
    /\ arg' = [arg EXCEPT ![p] = None]
    /\ ppos' = [ppos EXCEPT ![p] = 0]
    /\ pending' = [pending EXCEPT ![p] = 0]
    /\ idle' = [idle EXCEPT ![p] = 0]

\* append_p; ~WebServer has joined the reactors before the pool is destroyed,
\* so that m_stop is false here.
Submit(p, t) ==
    /\ ppc[p] = "idle"
    /\ ~m_stop
    /\ t \notin submitted
    /\ submitted' = submitted \cup {t}
    /\ arg' = [arg EXCEPT ![p] = t]
    /\ PGoto(p, "claim")
    /\ UNCHANGED <<queueVars, m_queued_tasks, counterVars, threadlocker, ppos, growVars, workerVars,
                   dtorVars, accepted, done>>

\* bounded_mpmc_queue::enqueue: the exchange of m_enqueue_pos ...
ClaimCell(p) ==
    /\ ppc[p] = "claim"
    /\ sequence[Cell(m_enqueue_pos)] = m_enqueue_pos
    /\ ppos' = [ppos EXCEPT ![p] = m_enqueue_pos]
    /\ m_enqueue_pos' = m_enqueue_pos + 1
    /\ accepted' = accepted \cup {arg[p]}
    /\ PGoto(p, "publish")
    /\ UNCHANGED <<m_dequeue_pos, sequence, payload, m_queued_tasks, counterVars, threadlocker,
                   arg, growVars, workerVars, dtorVars, submitted, done>>

\* ... or the cell is still in use: enqueue returns false and the caller
\* closes the connection.
QueueFull(p) ==
    /\ ppc[p] = "claim"
    /\ sequence[Cell(m_enqueue_pos)] < m_enqueue_pos
    /\ EndCall(p)
    /\ UNCHANGED <<queueVars, m_queued_tasks, counterVars, threadlocker, workerVars, dtorVars,
                   historyVars>>

\* The payload is written and the sequence number released.
PublishCell(p) ==
    /\ ppc[p] = "publish"
    /\ payload' = [payload EXCEPT ![Cell(ppos[p])] = arg[p]]
    /\ sequence' = [sequence EXCEPT ![Cell(ppos[p])] = ppos[p] + 1]
    /\ PGoto(p, "count")
    /\ UNCHANGED <<m_enqueue_pos, m_dequeue_pos, m_queued_tasks, counterVars, threadlocker,
                   arg, ppos, growVars, workerVars, dtorVars, historyVars>>

\* A plausible slip: the task is not counted when the queue was empty.
CountPendingSkipped(p) ==
    /\ ppc[p] = "count"
    /\ m_pending_task_number' = m_pending_task_number
                                + (IF m_enqueue_pos = m_dequeue_pos + 1 THEN 0 ELSE 1)
    /\ PGoto(p, "look")
    /\ UNCHANGED <<queueVars, m_queued_tasks, m_current_thread_number, m_busy_thread_number,
                   threadlocker, arg, ppos, growVars, workerVars, dtorVars, historyVars>>

CountPending(p) ==
    /\ ppc[p] = "count"
    /\ m_pending_task_number' = m_pending_task_number + 1
    /\ PGoto(p, "look")
    /\ UNCHANGED <<queueVars, m_queued_tasks, m_current_thread_number, m_busy_thread_number,
                   threadlocker, arg, ppos, growVars, workerVars, dtorVars, historyVars>>

\* maybe_grow_unlocked reads m_pending_task_number once ...
LookPending(p) ==
    /\ ppc[p] = "look"
    /\ pending' = [pending EXCEPT ![p] = m_pending_task_number]
    /\ PGoto(p, "threads")
    /\ UNCHANGED <<queueVars, m_queued_tasks, counterVars, threadlocker, arg, ppos, idle,
                   workerVars, dtorVars, historyVars>>

\* ... and, before each look at the maximum, first the number of threads ...
LookThreads(p) ==
    /\ ppc[p] = "threads"
    /\ idle' = [idle EXCEPT ![p] = m_current_thread_number]
    /\ PGoto(p, "idle_threads")
    /\ UNCHANGED <<queueVars, m_queued_tasks, counterVars, threadlocker, arg, ppos, pending,
                   workerVars, dtorVars, historyVars>>

\* ... then the number of busy ones.
LookBusy(p) ==
    /\ ppc[p] = "idle_threads"
    /\ idle' = [idle EXCEPT ![p] = @ - m_busy_thread_number]
    /\ PGoto(p, "decide")
    /\ UNCHANGED <<queueVars, m_queued_tasks, counterVars, threadlocker, arg, ppos, pending,
                   workerVars, dtorVars, historyVars>>

\* A plausible slip: the maximum is not looked at.
DecideWithoutMax(p) ==
    /\ ppc[p] = "decide"
    /\ PGoto(p, IF pending[p] > idle[p] THEN "spawn" ELSE "post")
    /\ UNCHANGED <<queueVars, m_queued_tasks, counterVars, threadlocker, arg, ppos, growVars,
                   workerVars, dtorVars, historyVars>>

\* The condition of the loop, which loads the number of threads again.
DecideGrow(p) ==
    /\ ppc[p] = "decide"
    /\ PGoto(p, IF pending[p] > idle[p] /\ m_current_thread_number < MaxThreads
                THEN "spawn" ELSE "post")
    /\ UNCHANGED <<queueVars, m_queued_tasks, counterVars, threadlocker, arg, ppos, growVars,
                   workerVars, dtorVars, historyVars>>

\* spawn_worker_unlocked: pthread_create under m_threadlocker ...
SpawnWorker(p) ==
    /\ ppc[p] = "spawn"
    /\ threadlocker = None
    /\ threadlocker' = p
    /\ \E w \in Workers \ Live : WGoto(w, "top")
    /\ PGoto(p, "counted")
    /\ UNCHANGED <<queueVars, m_queued_tasks, counterVars, arg, ppos, growVars, current, wpos,
                   dtorVars, historyVars>>

SpawnFails(p) ==
    /\ ppc[p] = "spawn"
    /\ threadlocker = None
    /\ PGoto(p, "post")
    /\ UNCHANGED <<queueVars, m_queued_tasks, counterVars, threadlocker, arg, ppos, growVars,
                   workerVars, dtorVars, historyVars>>

\* ... and the counter, which the new thread may already have read.
CountWorker(p) ==
    /\ ppc[p] = "counted"
    /\ threadlocker' = None
    /\ m_current_thread_number' = m_current_thread_number + 1
    /\ PGoto(p, "threads")
    /\ UNCHANGED <<queueVars, m_queued_tasks, m_pending_task_number, m_busy_thread_number,
                   arg, ppos, growVars, workerVars, dtorVars, historyVars>>

PostTask(p) ==
    /\ ppc[p] = "post"
    /\ m_queued_tasks' = m_queued_tasks + 1
    /\ EndCall(p)
    /\ UNCHANGED <<queueVars, counterVars, threadlocker, workerVars, dtorVars, historyVars>>
-----------------------------------------------------------------------------
(***************************************************************************)
(* run                                                                     *)
(***************************************************************************)

\* A step of worker w that only moves to s.
WorkerMoves(w, s) ==
    /\ WGoto(w, s)
    /\ UNCHANGED <<queueVars, m_queued_tasks, counterVars, threadlocker, producerVars, current,
                   wpos, dtorVars, historyVars>>

\* The top of the loop: is there nothing left to do for a stopping pool?
TopOfLoop(w) ==
    /\ wpc[w] = "top"
    /\ WorkerMoves(w, IF m_stop /\ m_pending_task_number = 0 THEN "leave" ELSE "choose")

ChooseWait(w) ==
    /\ wpc[w] = "choose"
    /\ WorkerMoves(w, IF m_current_thread_number > MinThreads THEN "timewait" ELSE "wait")

AcquirePermit(w) ==
    /\ wpc[w] \in {"wait", "timewait"}
    /\ m_queued_tasks > 0
    /\ m_queued_tasks' = m_queued_tasks - 1
    /\ WGoto(w, "dequeue")
    /\ UNCHANGED <<queueVars, counterVars, threadlocker, producerVars, current, wpos, dtorVars,
                   historyVars>>

\* EINTR: try again.
Interrupted(w) ==
    /\ wpc[w] \in {"wait", "timewait"}
    /\ m_queued_tasks = 0
    /\ WorkerMoves(w, "top")

\* ETIMEDOUT: look at the pending tasks, then at the size of the pool.
Timeout(w) ==
    /\ wpc[w] = "timewait"
    /\ m_queued_tasks = 0
    /\ WorkerMoves(w, "timedout")

CheckPending(w) ==
    /\ wpc[w] = "timedout"
    /\ WorkerMoves(w, IF m_pending_task_number = 0 THEN "shrink" ELSE "top")

CheckThreads(w) ==
    /\ wpc[w] = "shrink"
    /\ WorkerMoves(w, IF m_current_thread_number > MinThreads THEN "leave" ELSE "top")

Leave(w) ==
    /\ wpc[w] = "leave"
    /\ m_current_thread_number' = m_current_thread_number - 1
    /\ WGoto(w, "gone")
    /\ UNCHANGED <<queueVars, m_queued_tasks, m_pending_task_number, m_busy_thread_number,
                   threadlocker, producerVars, current, wpos, dtorVars, historyVars>>

\* A plausible slip: the sequence number of the cell is not checked.
DequeueUnchecked(w) ==
    /\ wpc[w] = "dequeue"
    /\ m_dequeue_pos < m_enqueue_pos
    /\ wpos' = [wpos EXCEPT ![w] = m_dequeue_pos]
    /\ m_dequeue_pos' = m_dequeue_pos + 1
    /\ current' = [current EXCEPT ![w] = payload[Cell(m_dequeue_pos)]]
    /\ WGoto(w, "release")
    /\ UNCHANGED <<m_enqueue_pos, sequence, payload, m_queued_tasks, counterVars, threadlocker,
                   producerVars, dtorVars, historyVars>>

\* bounded_mpmc_queue::dequeue: the exchange of m_dequeue_pos ...
DequeueTask(w) ==
    /\ wpc[w] = "dequeue"
    /\ sequence[Cell(m_dequeue_pos)] = m_dequeue_pos + 1
    /\ wpos' = [wpos EXCEPT ![w] = m_dequeue_pos]
    /\ m_dequeue_pos' = m_dequeue_pos + 1
    /\ current' = [current EXCEPT ![w] = payload[Cell(m_dequeue_pos)]]
    /\ WGoto(w, "release")
    /\ UNCHANGED <<m_enqueue_pos, sequence, payload, m_queued_tasks, counterVars, threadlocker,
                   producerVars, dtorVars, historyVars>>

\* ... or the first cell is empty, or claimed and not yet published.
DequeueNothing(w) ==
    /\ wpc[w] = "dequeue"
    /\ sequence[Cell(m_dequeue_pos)] < m_dequeue_pos + 1
    /\ WorkerMoves(w, "failed")

AfterFailure(w) ==
    /\ wpc[w] = "failed"
    /\ WorkerMoves(w, IF m_stop THEN "leave" ELSE "top")

\* The cell is handed to the producer one round later.
ReleaseCell(w) ==
    /\ wpc[w] = "release"
    /\ sequence' = [sequence EXCEPT ![Cell(wpos[w])] = wpos[w] + Capacity]
    /\ wpos' = [wpos EXCEPT ![w] = 0]
    /\ WGoto(w, "uncount")
    /\ UNCHANGED <<m_enqueue_pos, m_dequeue_pos, payload, m_queued_tasks, counterVars,
                   threadlocker, producerVars, current, dtorVars, historyVars>>

UncountPending(w) ==
    /\ wpc[w] = "uncount"
    /\ m_pending_task_number' = m_pending_task_number - 1
    /\ WGoto(w, "busy")
    /\ UNCHANGED <<queueVars, m_queued_tasks, m_current_thread_number, m_busy_thread_number,
                   threadlocker, producerVars, current, wpos, dtorVars, historyVars>>

CountBusy(w) ==
    /\ wpc[w] = "busy"
    /\ m_busy_thread_number' = m_busy_thread_number + 1
    /\ WGoto(w, "exec")
    /\ UNCHANGED <<queueVars, m_queued_tasks, m_pending_task_number, m_current_thread_number,
                   threadlocker, producerVars, current, wpos, dtorVars, historyVars>>

\* execute, and the decrement of m_busy_thread_number after it.
Execute(w) ==
    /\ wpc[w] = "exec"
    /\ done' = done \cup {current[w]}
    /\ current' = [current EXCEPT ![w] = None]
    /\ m_busy_thread_number' = m_busy_thread_number - 1
    /\ WGoto(w, "top")
    /\ UNCHANGED <<queueVars, m_queued_tasks, m_pending_task_number, m_current_thread_number,
                   threadlocker, producerVars, wpos, dtorVars, submitted, accepted>>
-----------------------------------------------------------------------------
(***************************************************************************)
(* ~threadpool                                                             *)
(***************************************************************************)

DestructorFrame ==
    UNCHANGED <<queueVars, counterVars, threadlocker, producerVars, workerVars, historyVars>>

StopPool ==
    /\ dtor = "no"
    /\ \A p \in Producers : ppc[p] = "idle"
    /\ m_stop' = TRUE
    /\ dtor' = "stopped"
    /\ UNCHANGED <<posts, m_queued_tasks>>
    /\ DestructorFrame

\* One post for each worker there is now ...
CountPosts ==
    /\ dtor = "stopped"
    /\ posts' = m_current_thread_number
    /\ dtor' = "posting"
    /\ UNCHANGED <<m_stop, m_queued_tasks>>
    /\ DestructorFrame

PostStop ==
    /\ dtor = "posting"
    /\ posts > 0
    /\ posts' = posts - 1
    /\ m_queued_tasks' = m_queued_tasks + 1
    /\ UNCHANGED <<m_stop, dtor>>
    /\ DestructorFrame

\* ... and join.
JoinWorkers ==
    /\ dtor = "posting"
    /\ posts = 0
    /\ Live = {}
    /\ dtor' = "joined"
    /\ UNCHANGED <<m_stop, posts, m_queued_tasks>>
    /\ DestructorFrame

Destroyed == dtor = "joined" /\ UNCHANGED vars
-----------------------------------------------------------------------------
ProducerStep(p) ==
    \/ ClaimCell(p) \/ QueueFull(p) \/ PublishCell(p) \/ CountPending(p) \/ LookPending(p)
    \/ LookThreads(p) \/ LookBusy(p) \/ DecideGrow(p) \/ SpawnWorker(p) \/ SpawnFails(p)
    \/ CountWorker(p) \/ PostTask(p)

WorkerStep(w) ==
    \/ TopOfLoop(w) \/ ChooseWait(w) \/ AcquirePermit(w) \/ CheckPending(w) \/ CheckThreads(w)
    \/ Leave(w) \/ DequeueTask(w) \/ DequeueNothing(w) \/ AfterFailure(w) \/ ReleaseCell(w)
    \/ UncountPending(w) \/ CountBusy(w) \/ Execute(w)

DestructorStep == CountPosts \/ PostStop \/ JoinWorkers

Next ==
    \/ \E p \in Producers : ProducerStep(p) \/ \E t \in Tasks : Submit(p, t)
    \/ \E w \in Workers : WorkerStep(w) \/ Interrupted(w) \/ Timeout(w)
    \/ StopPool
    \/ DestructorStep
    \/ Destroyed

Spec == Init /\ [][Next]_vars

\* Threads that can run do run; no fairness for timeouts, signals, new tasks or
\* the decision to stop.
FairSpec ==
    /\ Spec
    /\ \A w \in Workers : WF_vars(WorkerStep(w))
    /\ \A p \in Producers : WF_vars(ProducerStep(p))
    /\ WF_vars(DestructorStep)
-----------------------------------------------------------------------------
\* The three counters are exact up to the threads that are between the change
\* of the queue or of the thread and the change of the counter. They are what
\* growing, shrinking and stopping decide on.
CountersTrackQueue ==
    /\ m_pending_task_number + Cardinality(PAt({"publish", "count"}))
         = m_enqueue_pos - m_dequeue_pos + Cardinality(WAt({"release", "uncount"}))
    /\ m_current_thread_number + Cardinality(PAt({"counted"})) = Cardinality(Live)
    /\ m_busy_thread_number = Cardinality(WAt({"exec"}))

\* Growing is checked without a lock: with the threads that are about to be
\* created and counted, every producer but one may overshoot the maximum by one
\* thread, and by no more.
OvershootBounded ==
    m_current_thread_number + Cardinality(PAt({"spawn", "counted"}))
        < MaxThreads + Cardinality(Producers)

\* The pool implements TaskPool: a task is accepted by the exchange of
\* m_enqueue_pos and started by the exchange of m_dequeue_pos.
TaskAt(pos) ==
    IF \E p \in PAt({"publish"}) : ppos[p] = pos
    THEN arg[CHOOSE p \in PAt({"publish"}) : ppos[p] = pos]
    ELSE payload[Cell(pos)]
Abstract == INSTANCE TaskPool WITH
    waiting <- [i \in 1..(m_enqueue_pos - m_dequeue_pos) |-> TaskAt(m_dequeue_pos + i - 1)],
    running <- {current[w] : w \in WAt({"release", "uncount", "busy", "exec"})}
ImplementsTaskPool == Abstract!Spec

\* Every accepted task is executed.
AcceptedExecuted == \A t \in Tasks : t \in accepted ~> t \in done

\* infra/threadpool/README.md: the workers compete for the tasks and execute
\* them. As long as nobody stops the pool, every accepted task is executed.
AcceptedExecutedWhileRunning == []~m_stop => AcceptedExecuted

=============================================================================
