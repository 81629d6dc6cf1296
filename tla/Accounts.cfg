\* One user, two tokens, two requests at a time.
SPECIFICATION Spec
CONSTANTS
    Workers = {w1, w2}
    Users = {u1}
    Tokens = {t1, t2}
    None = None
    Ttl = 2
    Threshold = 1
    MaxTime = 3
    MaxFaults = 1
    Ops = {"register", "login", "access", "logout", "logout_all"}
SYMMETRY Symmetry
CHECK_DEADLOCK FALSE
INVARIANTS
    
    OneSessionPerUser
    LoginUsable
    CacheNotAhead
