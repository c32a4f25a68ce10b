SPECIFICATION Spec
CONSTANTS
    c1 = c1
    c2 = c2
    c3 = c3
    Clients = {c1, c2}
    Callers = {c1, c2, c3}
    r1 = r1
    r2 = r2
    Repos = {r1, r2}
    m1 = m1
    m2 = m2
    Mirrors = {m1, m2}
    f1 = f1
    f2 = f2
    Files = {f1, f2}
    Temp = Temp
    None = None
    Off = Off
    ApplyTtl = 0
    LimitFiles = 2
    Tries = 2
    MaxJobs = 1
    MaxResults = 2
    PageSize = 1
    Retain = 0
    MaxHandles = 2
    PageTtl = 0
    TtlAfterComplete = 2
    MaxProcs = 1
    MaxBuff = 1
    Lengths = {1, 4}
    PageLines = {1, 2}
    Budgets = {2, 5}
    Width = 2
    Mark = 1
    Note = 1
    MaxCalls = 3
    MaxEdits = 1
    CommitNow = 1
    MaxFiles = 4
    MaxScans = 2
    MaxChanges = 2
    PanelChanges = 1
    MaxFaults = 1
    MaxMatches = 3
    MaxNow = 2
    MaxSnapshots = 3
    MaxRecords = 5
    MaxEntries = 3
    MaxRuns = 3
    MaxSecond = 2
    MaxCrashes = 1
    PerChat = 1
    MaxClicks = 3
    MaxLists = 1
    MaxLines = 5
    MaxSlices = 2
    MaxNamed = 2
    MaxPlace = 4
INVARIANTS CommitIsPreviewed ChunksCover HostJobsAreTrue   RecordIsTrue OriginalKept TabShowsItsChat RestIsSelected
PROPERTIES PartialScope
SYMMETRY Symmetry
CHECK_DEADLOCK FALSE
