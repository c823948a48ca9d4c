SPECIFICATION Spec
CONSTANTS
    Ips = {i1}
    Requests = {r1, r2}
    Limit = 2
    Window = 2
    Delay = 1
    MaxClock = 6
    BanEnds = {3}
    MaxCount = 4
    Env = {"fault"}
SYMMETRY Symmetric
PROPERTY
    LocksOnlyInWindow
CHECK_DEADLOCK FALSE
