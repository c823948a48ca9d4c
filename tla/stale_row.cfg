SPECIFICATION Spec
CONSTANTS
    Sessions = {s1}
    Requests = {r1}
    MaxClock = 3
    RefreshLife = 4
    MaxSync = 1
    Env = {"evict"}
PROPERTY
    AcceptsLatest
CHECK_DEADLOCK FALSE
