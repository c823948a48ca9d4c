SPECIFICATION Spec
CONSTANTS
    Ips = {i1}
    Requests = {r1, r2}
    Limit = 2
    Window = 2
    Delay = 1
    MaxClock = 4
    BanEnds = {2, 4}
    MaxCount = 4
    Env = {"admin"}
SYMMETRY Symmetric
PROPERTY
    LiftsOnlyExpired
CHECK_DEADLOCK FALSE
