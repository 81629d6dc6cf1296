SPECIFICATION FairSpec
CONSTANTS
    Threads = {t1, t2}
    Conns = {c1, c2}
    NULL = NULL
    MaxConn = 1
    MaxRequests = 1
    Outages = TRUE
    Signals = FALSE
PROPERTIES
    RecoversAfterOutage
