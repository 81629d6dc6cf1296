\* The lock-free thread pool with resizing, and its queue across the wrap.
SPECIFICATION LockfreeSpec
CONSTANTS
    Producers = {p1, p2}
    Workers = {w1, w2, w3}
    Tasks = {t1, t2, t3}
    None = None
    MinThreads = 1
    MaxThreads = 2
    Capacity = 2
    Consumers = {c1, c2}
    LogCapacity = 1
    Width = 4
    Passed = 14
SYMMETRY Symmetry
INVARIANTS
    CountersTrackQueue
    OvershootBounded
    ExchangeIsAtomic
PROPERTIES
    ImplementTaskPool
