SPECIFICATION Spec
CONSTANTS
    Workers = {w1, w2}
    Projects = {p1, p2}
    NoWorker = NoWorker
    MaxJobs = 3
    LeaseLen = 1
    MaxFaults = 2
    TimelyHeartbeat = TRUE
INVARIANTS ProjectExclusion
PROPERTIES StatusLifecycle ImplementsSlots
SYMMETRY Symmetry
CHECK_DEADLOCK FALSE
