SPECIFICATION FairSpec
CONSTANTS
    Guids = {g1, g2}
    Projects = {p1}
    NoEntry = NoEntry
    MaxPerProject = 2
    MaxBuffer = 1
    PipeSize = 1
    Ttl = 0
    HardTimeout = 1
    Requests = {r1, r2}
    NoScript = NoScript
    MaxWaits = 1
    MaxWork = 2
PROPERTIES Answered Released
CHECK_DEADLOCK FALSE
