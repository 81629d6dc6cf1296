CONSTANTS
    Clients = {c1, c2}
    Reactors = {r1, r2}
    Workers = {w1}
    Fds = {1, 2}
    ActorModel = 1
    MaxTasks = 1
    Parts = 2
    Requests = 2
    Brief = {}
    MaxFaults = 1
    None = None
SPECIFICATION Spec

PROPERTY RequestServed
CHECK_DEADLOCK FALSE
