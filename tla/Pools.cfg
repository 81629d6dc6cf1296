\* The connection pool with outages and signals, and the thread pool under its mutex.
SPECIFICATION PoolsSpec
CONSTANTS
    Threads = {t1, t2, t3}
    Conns = {c1, c2}
    NULL = NULL
    MaxConn = 2
    MaxRequests = 1
    Outages = TRUE
    Signals = TRUE
    Producers = {p1, p2}
    Workers = {w1, w2, w3}
    Tasks = {k1, k2, k3}
    MinThreads = 1
    MaxThreads = 3
    MaxQueue = 2
    LateProducers = TRUE
INVARIANTS
    ExclusiveOwnership
    NoStrandedConnection
    NoHandleLeak
PROPERTIES
    WaiterServed
    ImplementsTaskPool
    AcceptedExecuted
    DestructorReturns
