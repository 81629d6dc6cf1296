\* Two clients, two sub reactors, one pool thread; two supervisors in turn.
SPECIFICATION ProcessesSpec
CONSTANTS
    Clients = {c1, c2}
    Reactors = {r1, r2}
    Workers = {w1}
    Fds = {1, 2}
    ActorModel = 0
    MaxTasks = 1
    Parts = 2
    Requests = 2
    Brief = {c2}
    MaxFaults = 1
    None = None
    Pids = {p1, p2}
    MaxTimes = 1
    Window = 2
    Delay = 1
    MaxTime = 3
    MaxCrashes = 3
    MaxSignals = 2
CHECK_DEADLOCK FALSE
INVARIANTS
    AnswersMatch
    TimerCovers
    PidFileNamesSupervisor
    NoOrphanWorker
    
PROPERTIES
    RequestServed
    
