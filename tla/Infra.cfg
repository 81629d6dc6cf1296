\* The timers of a sub reactor and the log.
SPECIFICATION InfraSpec
CONSTANTS
    Fds = {f1, f2, f3, f4, f5, f6}
    Shared = {f1}
    Timeout = 2
    MaxTime = 4
    Threads = {t1, t2}
    Lines = 2
    MaxQueue = 2
    MaxBatch = 2
    SplitLines = 2
    Days = 1
    OpenFailures = 1
SYMMETRY Symmetry
CHECK_DEADLOCK FALSE
INVARIANTS
    IdleClosedInTime
    FlushedIsDurable
    FiledByDay
    DrainEnds
PROPERTIES
    ImplementsTimerSet
