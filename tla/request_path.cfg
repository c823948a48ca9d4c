SPECIFICATION Spec
CONSTANTS
    Requests = {r1, r2, r3}
    Limit = 1
    PoolSize = 2
    MaxCount = 2
    MaxTasks = 1
    Env = {"fault", "crash"}
INVARIANTS
    PathTypeOK
    AtMostLimit
    NoLeak
PROPERTIES
    WindowCloses
    EveryoneAnswered
