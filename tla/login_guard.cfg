SPECIFICATION Spec
CONSTANTS
    Ips = {i1}
    Requests = {r1, r2}
    Limit = 3
    Window = 2
    Delay = 1
    MaxClock = 5
    BanEnds = {3}
    MaxCount = 6
    Env = {"fault", "crash"}
SYMMETRY Symmetric
INVARIANTS
    TypeOK
    CountersExpire
    LockedAtLimit
    AttemptsBounded
PROPERTIES
    ReliableLock
    LiftsOnlyExpired
CHECK_DEADLOCK FALSE
