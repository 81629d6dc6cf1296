-------------------------- MODULE ThreadPoolProofs --------------------------
(***************************************************************************)
(* The thread pool in queue_mode_mutex implements TaskPool for any number  *)
(* of producers, workers and tasks: a task is in one place at a time, so   *)
(* an accepted task is started at most once and in order.                  *)
(***************************************************************************)
EXTENDS ThreadPoolMutex, TLAPS

\* Leaves go to the SMT solver, unless they name Zenon or PTL.
USE SMTT(60)

Types ==
    /\ PoolAssumption
    /\ m_mutex_workqueue \in Seq(Tasks)
    /\ wpc \in [Workers -> WorkerPCs]
    /\ current \in [Workers -> Tasks \cup {None}]
    /\ ppc \in [Producers -> {"idle", "lock"}]
    /\ arg \in [Producers -> Tasks \cup {None}]

\* The places a task can be in: at a producer that has not entered enqueue's
\* critical section, in the queue, at a worker, or executed.
Offered(p, t) == ppc[p] = "lock" /\ arg[p] = t
Queued(t) == \E i \in 1..Len(m_mutex_workqueue) : m_mutex_workqueue[i] = t
Running == {current[w] : w \in Executing}

\* A task is in at most one place, once, and only after it was submitted.
OnePlace ==
    /\ \A p \in Producers, t \in Tasks :
        Offered(p, t) => /\ t \in submitted /\ ~Queued(t) /\ t \notin Running \cup done
                         /\ \A q \in Producers : Offered(q, t) => p = q
    /\ \A t \in Tasks : Queued(t) => t \in submitted /\ t \notin Running \cup done
    /\ \A i, j \in 1..Len(m_mutex_workqueue) :
        m_mutex_workqueue[i] = m_mutex_workqueue[j] => i = j
    /\ \A w \in Executing :
        /\ current[w] \in submitted \cap Tasks /\ current[w] \notin done
        /\ \A v \in Executing : current[v] = current[w] => v = w
    /\ done \subseteq submitted
    /\ \A p \in Producers : ppc[p] = "lock" => arg[p] \in Tasks

PoolInv == Types /\ OnePlace
-----------------------------------------------------------------------------
\* A step that moves no task: the workers that execute stay the same, and so
\* do the queue, the producers and what is done.
LEMMA NothingMoves ==
    ASSUME PoolInv, wpc' \in [Workers -> WorkerPCs],
           \A w \in Workers : wpc'[w] = "exec" <=> wpc[w] = "exec",
           UNCHANGED <<m_mutex_workqueue, current, ppc, arg, submitted, done>>
    PROVE  PoolInv' /\ UNCHANGED Abstract!vars
<1>1. Executing' = Executing /\ Running' = Running
  BY DEF Executing, Running
<1>2. Types'
  BY DEF PoolInv, Types, PoolAssumption
<1>3. OnePlace'
  BY <1>1 DEF PoolInv, OnePlace, Offered, Queued
<1>4. QED  BY <1>1, <1>2, <1>3 DEF PoolInv, Abstract!vars, Running

\* The wakeups and threads of a push take no worker out of execution.
LEMMA PushKeepsExecuting ==
    ASSUME PoolInv, NEW p \in Producers, EnqueueAccept(p)
    PROVE  /\ wpc' \in [Workers -> WorkerPCs]
           /\ \A w \in Workers : wpc'[w] = "exec" <=> wpc[w] = "exec"
<1>1. PICK fresh \in Grow(Len(m_mutex_workqueue) + 1) : \E woken \in Signal(fresh) :
         wpc' = [w \in Workers |-> IF w \in fresh \cup woken THEN "lock" ELSE wpc[w]]
  BY DEF EnqueueAccept, Push
<1>2. PICK woken \in Signal(fresh) :
         wpc' = [w \in Workers |-> IF w \in fresh \cup woken THEN "lock" ELSE wpc[w]]
  BY <1>1
<1>3. \A w \in fresh : w \in Workers /\ wpc[w] = "gone"
  BY <1>1 DEF Grow, Live
<1>4. \A w \in woken : w \in Workers /\ wpc[w] \in {"wait", "timewait"}
  BY <1>2 DEF Signal, Sleeping
<1>5. QED  BY <1>2, <1>3, <1>4 DEF PoolInv, Types, WorkerPCs

\* Submit: a task that was never submitted is nowhere yet.
LEMMA SubmitStep ==
    ASSUME PoolInv, NEW p \in Producers, NEW t \in Tasks, Submit(p, t)
    PROVE  PoolInv' /\ UNCHANGED Abstract!vars
<1>1. /\ ppc[p] = "idle" /\ t \notin submitted /\ submitted' = submitted \cup {t}
      /\ UNCHANGED <<m_mutex_workqueue, wpc, current, done>>
      /\ \/ UNCHANGED <<ppc, arg>>
         \/ ppc' = [ppc EXCEPT ![p] = "lock"] /\ arg' = [arg EXCEPT ![p] = t]
  BY DEF Submit
<1>2. Executing' = Executing /\ Running' = Running
  BY <1>1 DEF Executing, Running
<1>3. Types'
  BY <1>1 DEF PoolInv, Types, PoolAssumption
<1>4. ~Queued(t) /\ t \notin Running \cup done
  BY <1>1 DEF PoolInv, OnePlace, Running
<1>5. \A q \in Producers, x \in Tasks : Offered(q, x)' => Offered(q, x) \/ (q = p /\ x = t)
  BY <1>1 DEF PoolInv, Types, Offered
<1>6. \A q \in Producers : ~Offered(q, t)
  BY <1>1 DEF PoolInv, OnePlace
<1>7. \A x \in Tasks : Queued(x)' <=> Queued(x)
  BY <1>1 DEF Queued
<1>8. \A q \in Producers : ppc'[q] = "lock" => arg'[q] \in Tasks
  BY <1>1 DEF PoolInv, Types, OnePlace
<1>9. OnePlace'
  BY <1>1, <1>2, <1>4, <1>5, <1>6, <1>7, <1>8 DEF PoolInv, OnePlace
<1>10. QED  BY <1>1, <1>2, <1>3, <1>9 DEF PoolInv, Abstract!vars, Running

\* EnqueueAccept is the abstract Accept: the task leaves its producer for the
\* end of the queue.
LEMMA AcceptStep ==
    ASSUME PoolInv, NEW p \in Producers, EnqueueAccept(p)
    PROVE  PoolInv' /\ Abstract!Accept(arg[p]) /\ arg[p] \in Tasks
<1> DEFINE t == arg[p]
           q == m_mutex_workqueue
<1>1. /\ ppc[p] = "lock" /\ Len(q) < MaxRequests /\ q' = Append(q, t)
      /\ ppc' = [ppc EXCEPT ![p] = "idle"]
      /\ UNCHANGED <<current, arg, submitted, done>>
  BY DEF EnqueueAccept, Push
<1>2. t \in Tasks /\ Offered(p, t) /\ t \in submitted /\ ~Queued(t) /\ t \notin Running \cup done
  BY <1>1 DEF PoolInv, OnePlace, Offered
<1>3. Executing' = Executing /\ Running' = Running
  BY <1>1, PushKeepsExecuting DEF Executing, Running
<1>4. Types'
  BY <1>1, <1>2, PushKeepsExecuting DEF PoolInv, Types, PoolAssumption
<1>5. /\ Len(q') = Len(q) + 1 /\ Len(q) \in Nat /\ q'[Len(q) + 1] = t
      /\ \A i \in 1..Len(q) : q'[i] = q[i]
  BY <1>1, <1>2 DEF PoolInv, Types
<1>6. \A x \in Tasks : Queued(x)' => Queued(x) \/ x = t
  BY <1>5 DEF Queued
<1>7. \A i, j \in 1..Len(q') : q'[i] = q'[j] => i = j
  BY <1>2, <1>5 DEF PoolInv, OnePlace, Queued
<1>8. \A o \in Producers, x \in Tasks : Offered(o, x)' => Offered(o, x) /\ o # p /\ x # t
  BY <1>1, <1>2 DEF PoolInv, Types, OnePlace, Offered
<1>9. \A o \in Producers : ppc'[o] = "lock" => arg'[o] \in Tasks
  BY <1>1 DEF PoolInv, Types, OnePlace
<1>10. OnePlace'
  BY <1>1, <1>2, <1>3, <1>6, <1>7, <1>8, <1>9 DEF PoolInv, OnePlace
<1>11. Abstract!Accept(arg[p])
  BY <1>1, <1>2, <1>3 DEF Abstract!Accept, Queued, Running
<1>12. QED  BY <1>2, <1>4, <1>10, <1>11 DEF PoolInv

\* TakeTask is the abstract Start.
LEMMA TakeStep ==
    ASSUME PoolInv, NEW w \in Workers, TakeTask(w)
    PROVE  PoolInv' /\ Abstract!Start
<1> DEFINE q == m_mutex_workqueue
           t == Head(q)
<1>1. /\ wpc[w] \in {"lock", "timedout"} /\ q # <<>> /\ q' = Tail(q)
      /\ current' = [current EXCEPT ![w] = t] /\ wpc' = [wpc EXCEPT ![w] = "exec"]
      /\ UNCHANGED <<ppc, arg, submitted, done>>
  BY DEF TakeTask, AtLock, queue
<1>2. /\ Len(q) \in Nat /\ Len(q) > 0 /\ t = q[1] /\ t \in Tasks /\ q' \in Seq(Tasks)
      /\ Len(q') = Len(q) - 1 /\ \A i \in 1..Len(q') : q'[i] = q[i + 1]
  BY <1>1 DEF PoolInv, Types
<1>3. Queued(t) /\ t \in submitted /\ t \notin Running \cup done
  BY <1>2 DEF PoolInv, OnePlace, Queued
<1>4. Executing' = Executing \cup {w} /\ w \notin Executing
  BY <1>1 DEF PoolInv, Types, Executing
<1>5. /\ current'[w] = t /\ \A v \in Executing : current'[v] = current[v]
      /\ Running' = Running \cup {t}
  BY <1>1, <1>4 DEF PoolInv, Types, Running, Executing
<1>6. Types'
  BY <1>1, <1>2 DEF PoolInv, Types, PoolAssumption, WorkerPCs
<1>7. \A i, j \in 1..Len(q) : q[i] = q[j] => i = j
  BY DEF PoolInv, OnePlace
<1>8. \A x \in Tasks : Queued(x)' => Queued(x) /\ x # t
  BY <1>2, <1>7 DEF Queued
<1>9. \A i, j \in 1..Len(q') : q'[i] = q'[j] => i = j
  BY <1>2, <1>7
<1>10. \A o \in Producers, x \in Tasks : Offered(o, x)' <=> Offered(o, x)
  BY <1>1 DEF Offered
<1>11. \A o \in Producers, x \in Tasks : Offered(o, x) => x # t
  BY <1>3 DEF PoolInv, OnePlace
<1>12. \A v \in Executing' :
         /\ current'[v] \in submitted \cap Tasks /\ current'[v] \notin done
         /\ \A x \in Executing' : current'[x] = current'[v] => x = v
  BY <1>2, <1>3, <1>4, <1>5 DEF PoolInv, OnePlace, Running
<1>13. OnePlace'
  BY <1>1, <1>3, <1>5, <1>8, <1>9, <1>10, <1>11, <1>12 DEF PoolInv, OnePlace
<1>14. Abstract!Start
  BY <1>1, <1>5, ZenonT(60) DEF Abstract!Start, Running
<1>15. QED  BY <1>6, <1>13, <1>14 DEF PoolInv

\* Execute is the abstract Finish of the task the worker holds.
LEMMA ExecuteStep ==
    ASSUME PoolInv, NEW w \in Workers, Execute(w)
    PROVE  PoolInv' /\ Abstract!Finish(current[w]) /\ current[w] \in Tasks
<1> DEFINE t == current[w]
<1>1. /\ wpc[w] = "exec" /\ wpc' = [wpc EXCEPT ![w] = "lock"]
      /\ current' = [current EXCEPT ![w] = None] /\ done' = done \cup {t}
      /\ UNCHANGED <<m_mutex_workqueue, ppc, arg, submitted>>
  BY DEF Execute
<1>2. w \in Executing /\ Executing' = Executing \ {w}
  BY <1>1 DEF PoolInv, Types, Executing
<1>3. t \in Tasks /\ t \in submitted /\ t \in Running /\ t \notin done
  BY <1>2 DEF PoolInv, OnePlace, Running
<1>4. \A v \in Executing' : current'[v] = current[v] /\ current[v] # t
  BY <1>1, <1>2 DEF PoolInv, Types, OnePlace, Executing
<1>5. Running' = Running \ {t}
  BY <1>2, <1>4 DEF Running
<1>6. Types'
  BY <1>1 DEF PoolInv, Types, PoolAssumption, WorkerPCs
<1>7. \A x \in Tasks : (Queued(x)' <=> Queued(x)) /\ \A o \in Producers : Offered(o, x)' <=> Offered(o, x)
  BY <1>1 DEF Queued, Offered
<1>8. \A v \in Executing' :
        /\ current'[v] \in submitted \cap Tasks /\ current'[v] \notin done'
        /\ \A x \in Executing' : current'[x] = current'[v] => x = v
  BY <1>1, <1>2, <1>4 DEF PoolInv, OnePlace
<1>9. Running' \cup done' \subseteq Running \cup done
  BY <1>1, <1>3, <1>5
<1>10. OnePlace'
  BY <1>1, <1>3, <1>7, <1>8, <1>9 DEF PoolInv, OnePlace
<1>11. Abstract!Finish(current[w])
  BY <1>1, <1>3, <1>5 DEF Abstract!Finish, Running
<1>12. QED  BY <1>3, <1>6, <1>10, <1>11 DEF PoolInv
-----------------------------------------------------------------------------
\* After the constructor no task is anywhere.
LEMMA PoolInit == PoolAssumption /\ Init => PoolInv /\ Abstract!Init
<1> SUFFICES ASSUME PoolAssumption, Init PROVE PoolInv /\ Abstract!Init
  OBVIOUS
<1>1. /\ m_mutex_workqueue = <<>> /\ done = {} /\ submitted = {}
      /\ \A p \in Producers : ppc[p] = "idle"
      /\ \A w \in Workers : wpc[w] # "exec"
  BY DEF Init
<1>2. Executing = {} /\ Running = {}
  BY <1>1 DEF Executing, Running
<1>3. Types
  BY DEF Init, Types, WorkerPCs
<1>4. OnePlace
  BY <1>1, <1>2 DEF OnePlace, Offered, Queued
<1>5. QED  BY <1>1, <1>2, <1>3, <1>4 DEF PoolInv, Abstract!Init, Running

\* Every step keeps the invariant and is a step of TaskPool or none.
LEMMA PoolNext == PoolInv /\ [Next]_vars => PoolInv' /\ [Abstract!Next]_Abstract!vars
<1> SUFFICES ASSUME PoolInv, [Next]_vars PROVE PoolInv' /\ [Abstract!Next]_Abstract!vars
  OBVIOUS
<1>1. ASSUME NEW p \in Producers, EnqueueAccept(p) PROVE PoolInv' /\ Abstract!Next
  BY <1>1, AcceptStep DEF Abstract!Next
<1>2. ASSUME NEW p \in Producers, EnqueueReject(p) PROVE PoolInv' /\ UNCHANGED Abstract!vars
  <2>1. Types' /\ Executing' = Executing /\ Running' = Running
    BY <1>2 DEF EnqueueReject, PoolInv, Types, PoolAssumption, Executing, Running
  <2>2. /\ \A o \in Producers, x \in Tasks : Offered(o, x)' => Offered(o, x)
        /\ \A x \in Tasks : Queued(x)' <=> Queued(x)
        /\ \A o \in Producers : ppc'[o] = "lock" => ppc[o] = "lock"
        /\ UNCHANGED <<m_mutex_workqueue, current, arg, submitted, done>>
    BY <1>2 DEF EnqueueReject, PoolInv, Types, Offered, Queued
  <2>3. OnePlace'
    BY <2>1, <2>2 DEF PoolInv, OnePlace
  <2>4. QED  BY <2>1, <2>2, <2>3 DEF PoolInv, Abstract!vars, Running
<1>3. ASSUME NEW w \in Workers, TakeTask(w) PROVE PoolInv' /\ Abstract!Next
  BY <1>3, TakeStep DEF Abstract!Next
<1>4. ASSUME NEW w \in Workers, Execute(w) PROVE PoolInv' /\ Abstract!Next
  <2>1. PoolInv' /\ Abstract!Finish(current[w]) /\ current[w] \in Tasks
    BY <1>4, ExecuteStep
  <2>2. PICK t \in Tasks : t = current[w]
    BY <2>1
  <2>3. Abstract!Finish(t)
    BY <2>1, <2>2 DEF Abstract!Finish
  <2>4. QED  BY <2>1, <2>3 DEF Abstract!Next
<1>5. ASSUME NEW w \in Workers,
             Sleep(w) \/ Shrink(w) \/ Quit(w) \/ Timeout(w) \/ SpuriousWakeup(w)
      PROVE  PoolInv' /\ UNCHANGED Abstract!vars
  <2>1. /\ wpc[w] # "exec"
        /\ \E pc \in WorkerPCs \ {"exec"} : wpc' = [wpc EXCEPT ![w] = pc]
        /\ UNCHANGED <<m_mutex_workqueue, current, ppc, arg, submitted, done>>
    BY <1>5 DEF Sleep, Shrink, Quit, Leave, Timeout, SpuriousWakeup, AtLock, Sleeping, WorkerPCs
  <2>2. wpc' \in [Workers -> WorkerPCs] /\ \A v \in Workers : wpc'[v] = "exec" <=> wpc[v] = "exec"
    BY <2>1 DEF PoolInv, Types
  <2>3. QED  BY <2>1, <2>2, NothingMoves
<1>6. CASE Broadcast
  <2>1. /\ wpc' = [w \in Workers |-> IF w \in Sleeping THEN "lock" ELSE wpc[w]]
        /\ UNCHANGED <<m_mutex_workqueue, current, ppc, arg, submitted, done>>
    BY <1>6 DEF Broadcast
  <2>2. wpc' \in [Workers -> WorkerPCs] /\ \A v \in Workers : wpc'[v] = "exec" <=> wpc[v] = "exec"
    BY <2>1 DEF PoolInv, Types, WorkerPCs, Sleeping
  <2>3. QED  BY <2>1, <2>2, NothingMoves
<1>7. CASE StopPool \/ JoinWorkers \/ Destroyed \/ UNCHANGED vars
  <2>1. UNCHANGED <<wpc, m_mutex_workqueue, current, ppc, arg, submitted, done>>
    BY <1>7 DEF StopPool, JoinWorkers, Destroyed, vars
  <2>2. wpc' \in [Workers -> WorkerPCs]
    BY <2>1 DEF PoolInv, Types
  <2>3. QED  BY <2>1, <2>2, NothingMoves
<1>8. QED
  BY <1>1, <1>2, <1>3, <1>4, <1>5, <1>6, <1>7, SubmitStep
     DEF Next, ProducerStep, WorkerStep, DestructorStep

\* threadpool<T> in queue_mode_mutex does what TaskPool promises: append and
\* append_p accept at most m_max_requests waiting tasks, and run starts each of
\* them once, in the order they were accepted.
THEOREM PoolImplementsTaskPool == PoolAssumption /\ Spec => ImplementsTaskPool
<1>1. QED
  BY PoolInit, PoolNext, PTL DEF Spec, ImplementsTaskPool, Abstract!Spec
=============================================================================
