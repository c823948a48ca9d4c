SPECIFICATION Spec
CONSTANTS
    Sessions = {s1}
    Requests = {r1, r2}
    MaxClock = 3
    RefreshLife = 4
    MaxSync = 1
    Env = {}
SYMMETRY Symmetric
PROPERTY
    AcceptsLatest
CHECK_DEADLOCK FALSE
