SPECIFICATION FairSpec
CONSTANTS
    Workers = {w1, w2}
    Projects = {p1, p2}
    NoWorker = NoWorker
    MaxJobs = 2
    LeaseLen = 1
    MaxFaults = 2
    TimelyHeartbeat = FALSE
INVARIANTS OneActivePerProject
PROPERTIES JobsEnd
CHECK_DEADLOCK FALSE
