------------------------------ MODULE MCPools -------------------------------
(***************************************************************************)
(* Instances for TLC of the two pools that hand out resources under a      *)
(* lock: the connection pool, and the thread pool in queue_mode_mutex.     *)
(* They share nothing: a behaviour is one of the first or one of the       *)
(* second, as part says.                                                   *)
(***************************************************************************)
EXTENDS ConnectionPool

CONSTANTS Producers, Workers, Tasks, MinThreads, MaxThreads, MaxQueue, LateProducers

VARIABLES part, m_mutex_workqueue, m_current_thread_number, m_busy_thread_number, m_stop, wpc,
          current, ppc, arg, dtor, submitted, accepted, done

T == INSTANCE ThreadPoolMutex WITH None <- NULL, MaxRequests <- MaxQueue

ASSUME T!PoolAssumption

threadVars == <<m_mutex_workqueue, m_current_thread_number, m_busy_thread_number, m_stop, wpc,
                current, ppc, arg, dtor, submitted, accepted, done>>
everything == <<vars, threadVars, part>>

Connections == part = "connections" /\ UNCHANGED <<threadVars, part>>
Threaded == part = "threads" /\ UNCHANGED <<vars, part>>

\* The part that does not run has one initial state.
PoolsInit ==
    /\ Init /\ T!Init
    /\ part \in {"connections", "threads"}
    /\ part = "connections" =>
          wpc = [w \in Workers |->
                   IF w \in CHOOSE S \in SUBSET Workers : Cardinality(S) = MinThreads
                   THEN "lock" ELSE "gone"]
    /\ part = "threads" =>
          connList = CHOOSE s \in [1..MaxConn -> Conns] : IsInjective(s)

ConnectionNext ==
    \/ \E t \in Threads :
        \/ GetConnection(t) /\ Connections
        \/ SemInterrupted(t) /\ Connections
        \/ SemWait(t) /\ Connections
        \/ TakeConnection(t) /\ Connections
        \/ TakeNothing(t) /\ Connections
        \/ StampConnection(t) /\ Connections
        \/ CheckConnection(t) /\ Connections
        \/ PingConnection(t) /\ Connections
        \/ TouchConnection(t) /\ Connections
        \/ EraseConnection(t) /\ Connections
        \/ CloseConnection(t) /\ Connections
        \/ CreateConnection(t) /\ Connections
        \/ CreateFails(t) /\ Connections
        \/ InsertConnection(t) /\ Connections
        \/ DropSlot(t) /\ Connections
        \/ ReleaseConnection(t) /\ Connections
        \/ GiveConnection(t) /\ Connections
        \/ SemPost(t) /\ Connections
    \/ DestroyPool /\ Connections
    \/ Exited /\ Connections
    \/ IdleTimeout /\ Connections
    \/ DatabaseChanges /\ Connections

ThreadNext ==
    \/ \E p \in Producers :
        \/ \E t \in Tasks : T!Submit(p, t) /\ Threaded
        \/ T!EnqueueAccept(p) /\ Threaded
        \/ T!EnqueueReject(p) /\ Threaded
    \/ \E w \in Workers :
        \/ T!TakeTask(w) /\ Threaded
        \/ T!Sleep(w) /\ Threaded
        \/ T!Shrink(w) /\ Threaded
        \/ T!Quit(w) /\ Threaded
        \/ T!Execute(w) /\ Threaded
        \/ T!Timeout(w) /\ Threaded
        \/ T!SpuriousWakeup(w) /\ Threaded
    \/ T!StopPool /\ Threaded
    \/ T!Broadcast /\ Threaded
    \/ T!JoinWorkers /\ Threaded
    \/ T!Destroyed /\ Threaded

\* The fairness of ConnectionPool and of ThreadPoolMutex.
PoolsSpec ==
    /\ PoolsInit
    /\ [][ConnectionNext \/ ThreadNext]_everything
    /\ \A t \in Threads : WF_everything(Connections /\ ThreadStep(t))
    /\ \A w \in Workers : WF_everything(Threaded /\ T!WorkerStep(w))
    /\ \A p \in Producers : WF_everything(Threaded /\ T!ProducerStep(p))
    /\ WF_everything(Threaded /\ T!DestructorStep)
-----------------------------------------------------------------------------
\* The thread pool implements TaskPool: accepted tasks are started once, in
\* order, and never lost.
ImplementsTaskPool == T!ImplementsTaskPool

\* Every task that enqueue accepted is executed: the workers catch up with the
\* producers.
AcceptedExecuted == T!AcceptedExecuted

\* ~threadpool returns: no worker is left waiting for a signal that was sent
\* before it went to sleep.
DestructorReturns == T!DestructorReturns
=============================================================================
