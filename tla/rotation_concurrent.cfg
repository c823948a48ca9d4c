SPECIFICATION FairSpec
CONSTANTS
    Sessions = {s1}
    Requests = {r1, r2}
    MaxClock = 2
    RefreshLife = 2
    MaxSync = 2
    Env = {"loss"}
PROPERTIES
    RevokedBeforeDropped
    ReuseRevokes
    RequestsAnswered
CHECK_DEADLOCK FALSE
