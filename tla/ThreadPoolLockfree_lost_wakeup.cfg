SPECIFICATION FairSpec
CONSTANTS
    Producers = {p1, p2}
    Workers = {w1}
    Tasks = {t1, t2}
    None = None
    MinThreads = 1
    MaxThreads = 1
    Capacity = 2
PROPERTIES
    AcceptedExecutedWhileRunning
