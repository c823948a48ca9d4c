SPECIFICATION AccessSpec
CONSTANTS
    Sessions = {s1}
    Requests = {r1}
    Probes = {p1}
    MaxClock = 2
    RefreshLife = 2
    AccessLife = 2
    MaxSync = 1
    Env = {"evict", "fault", "crash", "loss"}
INVARIANTS
    AccessTypeOK
    NoUnearnedPass
PROPERTIES
    AdmitsCurrent
    ServesLatest
    StaleFlagEnds
CHECK_DEADLOCK FALSE
