SPECIFICATION Spec
CONSTANTS
    Sessions = {s1, s2}
    Requests = {r1}
    MaxClock = 3
    RefreshLife = 4
    MaxSync = 1
    Env = {"loss"}
SYMMETRY Symmetric
INVARIANTS
    IndexCovers
    RevokedEverywhere
PROPERTIES
    AcceptsLatest
    RevokedOnlyOnReuse
    ImplementsAuthority
CHECK_DEADLOCK FALSE
