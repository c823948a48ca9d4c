SPECIFICATION Spec
CONSTANTS
    Sessions = {s1}
    Requests = {r1, r2}
    MaxClock = 3
    RefreshLife = 2
    MaxSync = 1
    Env = {"evict", "fault", "crash"}
SYMMETRY Symmetric
INVARIANTS
    TypeOK
    NoPhantomSession
PROPERTY
    NoRevival
CHECK_DEADLOCK FALSE
