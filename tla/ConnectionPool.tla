--------------------------- MODULE ConnectionPool ---------------------------
(***************************************************************************)
(* The MySQL connection pool of infra/db/sql_connection_pool.cpp, as it is *)
(* used by the worker threads through connectionRAII.                      *)
(*                                                                         *)
(* Every critical section under `lock`, every operation on the semaphore   *)
(* `reserve` and every call into the MySQL client library is one step of   *)
(* one thread; between two steps of a thread any other thread may run.     *)
(* check_connection and reconnect_connection are shared by GetConnection   *)
(* and ReleaseConnection: phase[t] says on whose behalf they run.          *)
(***************************************************************************)
EXTENDS Naturals, Sequences, FiniteSets, Functions

CONSTANTS
    Threads,      \* threads that call GetConnection / ReleaseConnection
    Conns,        \* addresses of MYSQL handles; an address may be reused
    NULL,         \* the null MYSQL pointer
    MaxConn,      \* the pool size given to init (TWS_SQL_NUM)
    MaxRequests,  \* bound: requests each thread executes
    Outages,      \* TRUE: the database may become unreachable
    Signals       \* TRUE: a signal handler may interrupt sem_wait

ASSUME PoolAssumption ==
    /\ IsFiniteSet(Threads)
    /\ Threads # {}
    /\ IsFiniteSet(Conns)
    /\ MaxConn \in Nat \ {0}
    /\ MaxConn <= Cardinality(Conns)
    /\ MaxRequests \in Nat
    /\ NULL \notin Conns
    /\ Outages \in BOOLEAN
    /\ Signals \in BOOLEAN

VARIABLES
    connList,          \* idle connections, oldest first
    m_FreeConn,
    m_CurConn,
    m_MaxConn,
    m_connLastActive,  \* open connection -> "recent" or "idle" (past m_idleTimeout)
    reserve,           \* value of the semaphore
    open,              \* MYSQL handles that are connected and not closed
    dbUp,              \* is the database reachable
    pc,                \* where each thread is
    phase,             \* "get" or "release"
    con,               \* the connection each thread works on
    requests           \* requests each thread may still execute

vars == <<connList, m_FreeConn, m_CurConn, m_MaxConn, m_connLastActive, reserve,
          open, dbUp, pc, phase, con, requests>>

counters == <<m_FreeConn, m_CurConn, m_MaxConn>>
environment == <<dbUp, requests>>

PCs == {"idle", "wait", "permit", "nopermit", "check", "ping", "touch", "erase",
        "close", "create", "insert", "drop", "stamp", "use", "give", "post", "joined"}

\* The thread owns a connection slot: it popped a connection and has neither
\* pushed one back nor written the slot off.
HoldingPCs == {"check", "ping", "touch", "erase", "close", "create", "insert",
               "drop", "stamp", "use", "give"}

Holders == {t \in Threads : pc[t] \in HoldingPCs}
At(p) == {t \in Threads : pc[t] = p}
Goto(t, p) == pc' = [pc EXCEPT ![t] = p]

\* Drop one address from the domain of m_connLastActive.
Without(f, c) == [x \in DOMAIN f \ {c} |-> f[x]]
With(f, c, v) == [x \in DOMAIN f \cup {c} |-> IF x = c THEN v ELSE f[x]]
-----------------------------------------------------------------------------
\* The pool as init leaves it: MaxConn connections opened (the process exits
\* when one of them cannot be), all of them idle, one permit for each.
Init ==
    /\ connList \in {s \in [1..MaxConn -> Conns] : IsInjective(s)}
    /\ m_FreeConn = MaxConn
    /\ m_CurConn = 0
    /\ m_MaxConn = MaxConn
    /\ open = {connList[i] : i \in 1..MaxConn}
    /\ m_connLastActive = [c \in open |-> "recent"]
    /\ reserve = MaxConn
    /\ dbUp = TRUE
    /\ pc = [t \in Threads |-> "idle"]
    /\ phase = [t \in Threads |-> "get"]
    /\ con = [t \in Threads |-> NULL]
    /\ requests = [t \in Threads |-> MaxRequests]
-----------------------------------------------------------------------------
(***************************************************************************)
(* GetConnection                                                           *)
(***************************************************************************)

\* execute: connectionRAII calls GetConnection, which goes to reserve.wait.
GetConnection(t) ==
    /\ pc[t] = "idle"
    /\ requests[t] > 0
    /\ requests' = [requests EXCEPT ![t] = @ - 1]
    /\ phase' = [phase EXCEPT ![t] = "get"]
    /\ Goto(t, "wait")
    /\ UNCHANGED <<connList, counters, m_connLastActive, reserve, open, dbUp, con>>

SemWait(t) ==
    /\ pc[t] = "wait"
    /\ reserve > 0
    /\ reserve' = reserve - 1
    /\ Goto(t, "permit")
    /\ UNCHANGED <<connList, counters, m_connLastActive, open, phase, con, environment>>

\* sem_wait fails with EINTR; GetConnection does not look at the result and
\* goes on without a permit.
SemInterrupted(t) ==
    /\ Signals
    /\ pc[t] = "wait"
    /\ reserve = 0
    /\ Goto(t, "nopermit")
    /\ UNCHANGED <<connList, counters, m_connLastActive, reserve, open, phase, con, environment>>

\* A plausible slip: front() without pop_front().
TakeWithoutPop(t) ==
    /\ pc[t] \in {"permit", "nopermit"}
    /\ connList # <<>>
    /\ con' = [con EXCEPT ![t] = Head(connList)]
    /\ m_FreeConn' = m_FreeConn - 1
    /\ m_CurConn' = m_CurConn + 1
    /\ Goto(t, "check")
    /\ UNCHANGED <<connList, m_MaxConn, m_connLastActive, reserve, open, phase, environment>>

\* The first critical section of GetConnection: pop the front connection.
TakeConnection(t) ==
    /\ pc[t] \in {"permit", "nopermit"}
    /\ connList # <<>>
    /\ con' = [con EXCEPT ![t] = Head(connList)]
    /\ connList' = Tail(connList)
    /\ m_FreeConn' = m_FreeConn - 1
    /\ m_CurConn' = m_CurConn + 1
    /\ Goto(t, "check")
    /\ UNCHANGED <<m_MaxConn, m_connLastActive, reserve, open, phase, environment>>

\* ... or return NULL when the list is empty.
TakeNothing(t) ==
    /\ pc[t] \in {"permit", "nopermit"}
    /\ connList = <<>>
    /\ Goto(t, "idle")
    /\ UNCHANGED <<connList, counters, m_connLastActive, reserve, open, phase, con, environment>>

\* The last critical section of GetConnection; the caller has a connection.
StampConnection(t) ==
    /\ pc[t] = "stamp"
    /\ m_connLastActive' = With(m_connLastActive, con[t], "recent")
    /\ Goto(t, "use")
    /\ UNCHANGED <<connList, counters, reserve, open, phase, con, environment>>
-----------------------------------------------------------------------------
(***************************************************************************)
(* check_connection and reconnect_connection                               *)
(***************************************************************************)

Healthy(t) == IF phase[t] = "get" THEN "stamp" ELSE "give"

\* The critical section that looks the connection up: unknown and recently
\* used connections are taken to be healthy, the others are pinged.
CheckConnection(t) ==
    LET known == con[t] \in DOMAIN m_connLastActive
    IN  /\ pc[t] = "check"
        /\ m_connLastActive' = IF known THEN m_connLastActive
                               ELSE With(m_connLastActive, con[t], "recent")
        /\ Goto(t, IF known /\ m_connLastActive[con[t]] = "idle" THEN "ping" ELSE Healthy(t))
        /\ UNCHANGED <<connList, counters, reserve, open, phase, con, environment>>

\* mysql_ping, outside the lock.
PingConnection(t) ==
    /\ pc[t] = "ping"
    /\ Goto(t, IF dbUp THEN "touch" ELSE "erase")
    /\ UNCHANGED <<connList, counters, m_connLastActive, reserve, open, phase, con, environment>>

\* it->second = now, through the iterator found before the ping.
TouchConnection(t) ==
    /\ pc[t] = "touch"
    /\ m_connLastActive' = [m_connLastActive EXCEPT ![con[t]] = "recent"]
    /\ Goto(t, Healthy(t))
    /\ UNCHANGED <<connList, counters, reserve, open, phase, con, environment>>

\* reconnect_connection forgets the old handle under the lock ...
EraseConnection(t) ==
    /\ pc[t] = "erase"
    /\ m_connLastActive' = Without(m_connLastActive, con[t])
    /\ Goto(t, "close")
    /\ UNCHANGED <<connList, counters, reserve, open, phase, con, environment>>

\* A plausible slip: the old handle is not closed.
CloseForgotten(t) ==
    /\ pc[t] = "close"
    /\ con' = [con EXCEPT ![t] = NULL]
    /\ Goto(t, "create")
    /\ UNCHANGED <<connList, counters, m_connLastActive, reserve, open, phase, environment>>

\* ... closes it after the unlock ...
CloseConnection(t) ==
    /\ pc[t] = "close"
    /\ open' = open \ {con[t]}
    /\ con' = [con EXCEPT ![t] = NULL]
    /\ Goto(t, "create")
    /\ UNCHANGED <<connList, counters, m_connLastActive, reserve, phase, environment>>

\* ... opens a new one, at any address that is not in use ...
CreateConnection(t) ==
    /\ pc[t] = "create"
    /\ dbUp
    /\ \E c \in Conns \ open :
          /\ open' = open \cup {c}
          /\ con' = [con EXCEPT ![t] = c]
    /\ Goto(t, "insert")
    /\ UNCHANGED <<connList, counters, m_connLastActive, reserve, phase, environment>>

CreateFails(t) ==
    /\ pc[t] = "create"
    /\ ~dbUp
    /\ Goto(t, "drop")
    /\ UNCHANGED <<connList, counters, m_connLastActive, reserve, open, phase, con, environment>>

\* ... and records it.
InsertConnection(t) ==
    /\ pc[t] = "insert"
    /\ m_connLastActive' = With(m_connLastActive, con[t], "recent")
    /\ Goto(t, Healthy(t))
    /\ UNCHANGED <<connList, counters, reserve, open, phase, con, environment>>

\* Neither healthy nor reconnected: both GetConnection and ReleaseConnection
\* write the slot off and do not post.
DropSlot(t) ==
    /\ pc[t] = "drop"
    /\ m_CurConn' = m_CurConn - 1
    /\ m_MaxConn' = m_MaxConn - 1
    /\ Goto(t, "idle")
    /\ UNCHANGED <<connList, m_FreeConn, m_connLastActive, reserve, open, phase, con, environment>>
-----------------------------------------------------------------------------
(***************************************************************************)
(* ReleaseConnection, called by the destructor of connectionRAII           *)
(***************************************************************************)

ReleaseConnection(t) ==
    /\ pc[t] = "use"
    /\ phase' = [phase EXCEPT ![t] = "release"]
    /\ Goto(t, "check")
    /\ UNCHANGED <<connList, counters, m_connLastActive, reserve, open, con, environment>>

\* Push the connection back and account for it.
PushBack(t, next) ==
    /\ pc[t] = "give"
    /\ connList' = Append(connList, con[t])
    /\ m_connLastActive' = With(m_connLastActive, con[t], "recent")
    /\ m_FreeConn' = m_FreeConn + 1
    /\ m_CurConn' = m_CurConn - 1
    /\ con' = [con EXCEPT ![t] = NULL]
    /\ Goto(t, next)
    /\ UNCHANGED <<m_MaxConn, reserve, open, phase, environment>>

\* A plausible slip: the healthy path returns before reserve.post.
GiveWithoutPost(t) == PushBack(t, "idle")

\* The critical section that puts a healthy connection back.
GiveConnection(t) == PushBack(t, "post")

\* reserve.post, after the unlock.
SemPost(t) ==
    /\ pc[t] = "post"
    /\ reserve' = reserve + 1
    /\ Goto(t, "idle")
    /\ UNCHANGED <<connList, counters, m_connLastActive, open, phase, con, environment>>
-----------------------------------------------------------------------------
\* DestroyPool runs from the static destructor, after the worker threads were
\* joined: it closes the idle connections and zeroes the counters.
DestroyPool ==
    /\ \A t \in Threads : pc[t] = "idle"
    /\ pc' = [t \in Threads |-> "joined"]
    /\ open' = open \ Range(connList)
    /\ m_connLastActive' = [c \in DOMAIN m_connLastActive \ Range(connList) |-> m_connLastActive[c]]
    /\ connList' = <<>>
    /\ IF connList = <<>> THEN UNCHANGED counters
       ELSE m_FreeConn' = 0 /\ m_CurConn' = 0 /\ m_MaxConn' = 0
    /\ UNCHANGED <<reserve, phase, con, environment>>

\* The process has exited.
Exited ==
    /\ \A t \in Threads : pc[t] = "joined"
    /\ UNCHANGED vars

\* m_idleTimeout seconds pass since the last use of a connection.
IdleTimeout ==
    \E c \in DOMAIN m_connLastActive :
        /\ m_connLastActive[c] = "recent"
        /\ m_connLastActive' = [m_connLastActive EXCEPT ![c] = "idle"]
        /\ UNCHANGED <<connList, counters, reserve, open, pc, phase, con, environment>>

\* The database server goes away or comes back.
DatabaseChanges ==
    /\ Outages
    /\ dbUp' = ~dbUp
    /\ UNCHANGED <<connList, counters, m_connLastActive, reserve, open, pc, phase, con, requests>>

ThreadStep(t) ==
    \/ SemWait(t) \/ TakeConnection(t) \/ TakeNothing(t) \/ StampConnection(t)
    \/ CheckConnection(t) \/ PingConnection(t) \/ TouchConnection(t)
    \/ EraseConnection(t) \/ CloseConnection(t) \/ CreateConnection(t) \/ CreateFails(t)
    \/ InsertConnection(t) \/ DropSlot(t)
    \/ ReleaseConnection(t) \/ GiveConnection(t) \/ SemPost(t)

Next ==
    \/ \E t \in Threads : GetConnection(t) \/ SemInterrupted(t) \/ ThreadStep(t)
    \/ DestroyPool
    \/ Exited
    \/ IdleTimeout
    \/ DatabaseChanges

Spec == Init /\ [][Next]_vars

\* A thread that is inside the pool keeps running (the handler between
\* GetConnection and ReleaseConnection is synchronous code); nothing is
\* assumed of which waiter a post wakes, of signals or of the database.
FairSpec == Spec /\ \A t \in Threads : WF_vars(ThreadStep(t))
-----------------------------------------------------------------------------
(***************************************************************************)
(* Properties                                                              *)
(***************************************************************************)

\* The variables have their types; a handle is stamped at most once per address.
TypeOK ==
    /\ connList \in Seq(Conns)
    /\ m_FreeConn \in Nat
    /\ m_CurConn \in Nat
    /\ m_MaxConn \in Nat
    /\ DOMAIN m_connLastActive \subseteq Conns
    /\ m_connLastActive \in [DOMAIN m_connLastActive -> {"recent", "idle"}]
    /\ reserve \in Nat
    /\ open \subseteq Conns
    /\ dbUp \in BOOLEAN
    /\ pc \in [Threads -> PCs]
    /\ phase \in [Threads -> {"get", "release"}]
    /\ con \in [Threads -> Conns \cup {NULL}]
    /\ requests \in [Threads -> Nat]

\* No connection is ever shared: not idle twice, not idle while a thread works
\* on it, not worked on by two threads (GetConnection pops under the lock,
\* ReleaseConnection pushes once, a new handle gets an unused address).
ExclusiveOwnership ==
    /\ IsInjective(connList)
    /\ \A t \in Threads : con[t] # NULL => con[t] \notin Range(connList)
    /\ \A t, u \in Threads : t # u /\ con[t] # NULL => con[t] # con[u]

\* The three counters always agree with the list and with the threads that are
\* between a successful pop and the matching push or write-off.
CountersExact ==
    /\ m_FreeConn = Len(connList)
    /\ m_CurConn = Cardinality(Holders)
    /\ m_MaxConn = m_FreeConn + m_CurConn

\* Every idle connection has a permit that is free, in the hands of a thread
\* about to pop, or about to be posted: a waiter can never sleep on the
\* semaphore for ever beside an idle connection, interrupted waits or not.
NoStrandedConnection ==
    Len(connList) <= reserve + Cardinality(At("permit")) + Cardinality(At("post"))

\* Without interrupted waits permits and idle connections match exactly, so a
\* thread that got a permit finds a connection: the NULL return of an empty
\* list in GetConnection is never taken.
PermitFindsConnection ==
    ~Signals => \A t \in Threads : pc[t] = "permit" => connList # <<>>

\* Handles neither leak nor dangle: the open handles are exactly those in the
\* list and in the hands of threads, until the pool is destroyed ...
NoHandleLeak ==
    open = Range(connList) \cup {con[t] : t \in {u \in Threads : con[u] # NULL}}

\* ... and m_connLastActive has an entry for exactly the open handles that are
\* not in the middle of reconnect_connection. In particular the iterator that
\* check_connection keeps across mysql_ping still points to an element when it
\* is dereferenced, and a handle at a reused address never inherits a time.
EntriesMatchHandles ==
    DOMAIN m_connLastActive = open \ {con[t] : t \in At("close") \cup At("insert")}

\* A thread has a handle exactly while it owns a slot and reconnect_connection
\* has not taken the handle away.
HandlePCs == HoldingPCs \ {"create", "drop"}
HandleShape == \A t \in Threads : con[t] # NULL <=> pc[t] \in HandlePCs

\* The process exits once: DestroyPool finds every thread joined.
JoinedTogether == \A t, u \in Threads : pc[t] = "joined" => pc[u] = "joined"

\* Until then, and without interrupted waits, permits and idle connections are
\* in balance.
PermitBalance ==
    /\ Signals \/ At("nopermit") = {}
    /\ Signals \/ (\E t \in Threads : pc[t] = "joined")
       \/ Len(connList) = reserve + Cardinality(At("permit")) + Cardinality(At("post"))

\* The inductive invariant.
IndInv ==
    /\ TypeOK /\ HandleShape /\ JoinedTogether
    /\ ExclusiveOwnership /\ NoHandleLeak /\ EntriesMatchHandles
    /\ CountersExact /\ NoStrandedConnection /\ PermitBalance

\* As long as one slot of the pool is left, a thread that waits in
\* GetConnection gets its answer and finishes with the connection.
WaiterServed ==
    [](m_MaxConn > 0 \/ \A t \in Threads : pc[t] = "joined")
        => \A t \in Threads : pc[t] = "wait" ~> pc[t] = "idle"

\* infra/db/README.md promises reconnection of idle connections: once the
\* database is back for good, a waiting thread gets its answer.
RecoversAfterOutage ==
    <>[]dbUp => \A t \in Threads : pc[t] = "wait" ~> pc[t] = "idle"
=============================================================================
