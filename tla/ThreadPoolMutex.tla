-------------------------- MODULE ThreadPoolMutex ---------------------------
(***************************************************************************)
(* threadpool<T> of infra/threadpool/threadpool.h in queue_mode_mutex.     *)
(*                                                                         *)
(* A critical section under m_queuelocker is one step; a worker inside     *)
(* m_queuecond.wait or timewait has released the lock.  The producers are  *)
(* the SubReactor threads, which call append_p (and append).               *)
(***************************************************************************)
EXTENDS Naturals, Integers, Sequences, FiniteSets

CONSTANTS
    Producers,      \* threads that call enqueue
    Workers,        \* identities of worker threads, reused after a thread ends
    Tasks,          \* each is submitted at most once
    None,           \* no task
    MinThreads,     \* m_min_thread_number
    MaxThreads,     \* m_max_thread_number
    MaxRequests,    \* m_max_requests
    LateProducers   \* TRUE: producers may still run when the pool is destroyed

\* Holds of the constants of every instance.
PoolAssumption ==
    /\ IsFiniteSet(Workers)
    /\ MinThreads \in Nat \ {0}
    /\ MaxThreads \in Nat
    /\ MinThreads <= MaxThreads
    /\ MaxThreads <= Cardinality(Workers)
    /\ MaxRequests \in Nat \ {0}
    /\ None \notin Tasks
    /\ LateProducers \in BOOLEAN

VARIABLES
    m_mutex_workqueue,
    m_current_thread_number,
    m_busy_thread_number,
    m_stop,
    wpc,        \* control point of each worker
    current,    \* current_task of each worker
    ppc,        \* control point of each producer
    arg,        \* the task each producer submits
    dtor,       \* progress of ~threadpool
    submitted,  \* tasks handed to enqueue so far
    accepted,   \* tasks for which enqueue returned true
    done        \* executed tasks

vars == <<m_mutex_workqueue, m_current_thread_number, m_busy_thread_number, m_stop,
          wpc, current, ppc, arg, dtor, submitted, accepted, done>>

WorkerPCs == {"gone", "lock", "wait", "timewait", "timedout", "exec"}

Live == {w \in Workers : wpc[w] # "gone"}
Sleeping == {w \in Workers : wpc[w] \in {"wait", "timewait"}}
Executing == {w \in Workers : wpc[w] = "exec"}

\* The constructor spawns m_min_thread_number workers.
Init ==
    /\ m_mutex_workqueue = <<>>
    /\ m_current_thread_number = MinThreads
    /\ m_busy_thread_number = 0
    /\ m_stop = FALSE
    /\ \E first \in SUBSET Workers :
          /\ Cardinality(first) = MinThreads
          /\ wpc = [w \in Workers |-> IF w \in first THEN "lock" ELSE "gone"]
    /\ current = [w \in Workers |-> None]
    /\ ppc = [p \in Producers |-> "idle"]
    /\ arg = [p \in Producers |-> None]
    /\ dtor = "no"
    /\ submitted = {}
    /\ accepted = {}
    /\ done = {}
-----------------------------------------------------------------------------
(***************************************************************************)
(* append / append_p: enqueue                                              *)
(***************************************************************************)

\* The first look at m_stop, without the lock.
Submit(p, t) ==
    /\ ppc[p] = "idle"
    /\ t \notin submitted
    /\ dtor = "no" \/ (LateProducers /\ dtor # "joined")
    /\ submitted' = submitted \cup {t}
    /\ IF m_stop THEN UNCHANGED <<ppc, arg>>
       ELSE ppc' = [ppc EXCEPT ![p] = "lock"] /\ arg' = [arg EXCEPT ![p] = t]
    /\ UNCHANGED <<m_mutex_workqueue, m_current_thread_number, m_busy_thread_number, m_stop,
                   wpc, current, dtor, accepted, done>>

\* How many workers maybe_grow_unlocked wants for a queue of this length.
Wanted(pending) ==
    LET missing == pending - (m_current_thread_number - m_busy_thread_number)
        room == MaxThreads - m_current_thread_number
    IN  IF missing <= 0 \/ room <= 0 THEN 0 ELSE IF missing < room THEN missing ELSE room

\* maybe_grow_unlocked: pthread_create may fail, which ends the loop early.
Grow(pending) ==
    {fresh \in SUBSET (Workers \ Live) : Cardinality(fresh) <= Wanted(pending)}

\* A plausible slip: the wakeup is only sent when a worker was spawned.
SignalWhenGrown(fresh) == IF fresh = {} \/ Sleeping = {} THEN {{}} ELSE {{w} : w \in Sleeping}

\* pthread_cond_signal wakes one sleeping worker, if there is one.
Signal(fresh) == IF Sleeping = {} THEN {{}} ELSE {{w} : w \in Sleeping}

\* Push the task, grow the pool, wake a worker.
Push(p) ==
    /\ ppc[p] = "lock"
    /\ ~m_stop
    /\ m_mutex_workqueue' = Append(m_mutex_workqueue, arg[p])
    /\ \E fresh \in Grow(Len(m_mutex_workqueue) + 1) : \E woken \in Signal(fresh) :
          /\ wpc' = [w \in Workers |-> IF w \in fresh \cup woken THEN "lock" ELSE wpc[w]]
          /\ m_current_thread_number' = m_current_thread_number + Cardinality(fresh)
    /\ accepted' = accepted \cup {arg[p]}
    /\ ppc' = [ppc EXCEPT ![p] = "idle"]
    /\ UNCHANGED <<m_busy_thread_number, m_stop, current, arg, dtor, submitted, done>>

\* A plausible slip: one task too many is let in.
PushOneTooMany(p) == Len(m_mutex_workqueue) <= MaxRequests /\ Push(p)

\* The critical section of enqueue ...
EnqueueAccept(p) == Len(m_mutex_workqueue) < MaxRequests /\ Push(p)

\* ... or return false: the caller closes the connection.
EnqueueReject(p) ==
    /\ ppc[p] = "lock"
    /\ m_stop \/ Len(m_mutex_workqueue) >= MaxRequests
    /\ ppc' = [ppc EXCEPT ![p] = "idle"]
    /\ UNCHANGED <<m_mutex_workqueue, m_current_thread_number, m_busy_thread_number, m_stop,
                   wpc, current, arg, dtor, submitted, accepted, done>>
-----------------------------------------------------------------------------
(***************************************************************************)
(* run                                                                     *)
(***************************************************************************)

queue == m_mutex_workqueue
AtLock(w) == wpc[w] \in {"lock", "timedout"}
MayShrink == m_current_thread_number > MinThreads
Leave(w) ==
    /\ m_current_thread_number' = m_current_thread_number - 1
    /\ wpc' = [wpc EXCEPT ![w] = "gone"]
    /\ UNCHANGED <<m_mutex_workqueue, m_busy_thread_number, m_stop, current, ppc, arg, dtor,
                   submitted, accepted, done>>

\* The queue is not empty: pop a task and leave the critical section with it.
TakeTask(w) ==
    /\ AtLock(w)
    /\ queue # <<>>
    /\ current' = [current EXCEPT ![w] = Head(queue)]
    /\ m_mutex_workqueue' = Tail(queue)
    /\ m_busy_thread_number' = m_busy_thread_number + 1
    /\ wpc' = [wpc EXCEPT ![w] = "exec"]
    /\ UNCHANGED <<m_current_thread_number, m_stop, ppc, arg, dtor, submitted, accepted, done>>

\* The queue is empty: sleep, with a timeout when the pool is larger than its
\* minimum.
Sleep(w) ==
    /\ AtLock(w)
    /\ queue = <<>>
    /\ ~m_stop
    /\ wpc[w] = "timedout" => ~MayShrink
    /\ wpc' = [wpc EXCEPT ![w] = IF MayShrink THEN "timewait" ELSE "wait"]
    /\ UNCHANGED <<m_mutex_workqueue, m_current_thread_number, m_busy_thread_number, m_stop,
                   current, ppc, arg, dtor, submitted, accepted, done>>

\* The timeout passed, there is still nothing to do and the pool is still
\* larger than its minimum: the worker ends.
Shrink(w) == wpc[w] = "timedout" /\ queue = <<>> /\ MayShrink /\ Leave(w)

\* The pool is being destroyed and everything was executed: the worker ends.
Quit(w) ==
    /\ AtLock(w)
    /\ m_stop
    /\ queue = <<>>
    /\ wpc[w] = "timedout" => ~MayShrink
    /\ Leave(w)

\* execute, and the decrement of m_busy_thread_number after it.
Execute(w) ==
    /\ wpc[w] = "exec"
    /\ done' = done \cup {current[w]}
    /\ current' = [current EXCEPT ![w] = None]
    /\ m_busy_thread_number' = m_busy_thread_number - 1
    /\ wpc' = [wpc EXCEPT ![w] = "lock"]
    /\ UNCHANGED <<m_mutex_workqueue, m_current_thread_number, m_stop, ppc, arg, dtor,
                   submitted, accepted>>

\* pthread_cond_timedwait returns ETIMEDOUT ...
Timeout(w) ==
    /\ wpc[w] = "timewait"
    /\ wpc' = [wpc EXCEPT ![w] = "timedout"]
    /\ UNCHANGED <<m_mutex_workqueue, m_current_thread_number, m_busy_thread_number, m_stop,
                   current, ppc, arg, dtor, submitted, accepted, done>>

\* ... and either wait may return without a signal.
SpuriousWakeup(w) ==
    /\ w \in Sleeping
    /\ wpc' = [wpc EXCEPT ![w] = "lock"]
    /\ UNCHANGED <<m_mutex_workqueue, m_current_thread_number, m_busy_thread_number, m_stop,
                   current, ppc, arg, dtor, submitted, accepted, done>>
-----------------------------------------------------------------------------
(***************************************************************************)
(* ~threadpool                                                             *)
(***************************************************************************)

\* m_stop is set without the lock; ~WebServer has ended the reactors before.
StopPool ==
    /\ dtor = "no"
    /\ LateProducers \/ \A p \in Producers : ppc[p] = "idle"
    /\ m_stop' = TRUE
    /\ dtor' = "stopped"
    /\ UNCHANGED <<m_mutex_workqueue, m_current_thread_number, m_busy_thread_number, wpc,
                   current, ppc, arg, submitted, accepted, done>>

\* A plausible slip: only one worker is told.
SignalStop ==
    /\ dtor = "stopped"
    /\ dtor' = "joining"
    /\ \E woken \in Signal({}) :
          wpc' = [w \in Workers |-> IF w \in woken THEN "lock" ELSE wpc[w]]
    /\ UNCHANGED <<m_mutex_workqueue, m_current_thread_number, m_busy_thread_number, m_stop,
                   current, ppc, arg, submitted, accepted, done>>

Broadcast ==
    /\ dtor = "stopped"
    /\ dtor' = "joining"
    /\ wpc' = [w \in Workers |-> IF w \in Sleeping THEN "lock" ELSE wpc[w]]
    /\ UNCHANGED <<m_mutex_workqueue, m_current_thread_number, m_busy_thread_number, m_stop,
                   current, ppc, arg, submitted, accepted, done>>

JoinWorkers ==
    /\ dtor = "joining"
    /\ Live = {}
    /\ dtor' = "joined"
    /\ UNCHANGED <<m_mutex_workqueue, m_current_thread_number, m_busy_thread_number, m_stop, wpc,
                   current, ppc, arg, submitted, accepted, done>>

Destroyed ==
    /\ dtor = "joined"
    /\ \A p \in Producers : ppc[p] = "idle"
    /\ UNCHANGED vars
-----------------------------------------------------------------------------
WorkerStep(w) == TakeTask(w) \/ Sleep(w) \/ Shrink(w) \/ Quit(w) \/ Execute(w)
ProducerStep(p) == EnqueueAccept(p) \/ EnqueueReject(p)
DestructorStep == Broadcast \/ JoinWorkers

Next ==
    \/ \E p \in Producers : ProducerStep(p) \/ \E t \in Tasks : Submit(p, t)
    \/ \E w \in Workers : WorkerStep(w) \/ Timeout(w) \/ SpuriousWakeup(w)
    \/ StopPool
    \/ DestructorStep
    \/ Destroyed

Spec == Init /\ [][Next]_vars

\* A thread that asks for m_queuelocker gets it in the end and a task in
\* execution ends.  No fairness for timeouts, spurious wakeups, new tasks or
\* the decision to stop.
FairSpec ==
    /\ Spec
    /\ \A w \in Workers : WF_vars(WorkerStep(w))
    /\ \A p \in Producers : WF_vars(ProducerStep(p))
    /\ WF_vars(DestructorStep)
-----------------------------------------------------------------------------
\* The pool implements TaskPool: accepted tasks are started once, in order,
\* and never lost.
Abstract == INSTANCE TaskPool WITH
    Capacity <- MaxRequests,
    waiting <- m_mutex_workqueue,
    running <- {current[w] : w \in Executing}
ImplementsTaskPool == Abstract!Spec

\* Every accepted task is executed: the tasks are finitely many, so the pool
\* catches up with the producers.
AcceptedExecuted == accepted # done ~> accepted = done

\* The destructor returns: no worker is left waiting for a signal that was
\* sent before it went to sleep.
DestructorReturns == dtor = "stopped" ~> dtor = "joined"
=============================================================================
