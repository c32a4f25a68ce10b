SPECIFICATION Spec
CONSTANTS
    c1 = c1
    c2 = c2
    Clients = {c1, c2}
    None = None
    Off = Off
    Names = {"a", "b"}
    Longer = {"b"}
    TimeBack = 1
    Walks = {"scan"}
    LinkTtl = 2
    ByScan = TRUE
    TagLines = {"x", ""}
    TagStarts = {1, 2}
    Guids = {g1, g2}
    Projects = {p1}
    Requests = {r1, r2}
    NoEntry = NoEntry
    NoScript = NoScript
    MaxPerProject = 2
    MaxBuffer = 1
    PipeSize = 1
    Ttl = 0
    HardTimeout = 1
    MaxTexts = 2
    MaxBackups = 3
    MaxSecond = 3
    MaxFailures = 1
    MaxScans = 1
    MaxMarks = 3
    MaxFaults = 1
    LinkRows = 2
    LinkChanges = 2
    TagSize = 3
    MaxBody = 3
    MaxCode = 1
    MaxSpans = 1
    MaxWaits = 1
    MaxWork = 2
INVARIANTS BackupsKept  ScanStateIsTrue ProcessesAreKept
PROPERTIES PurgeNeedsLoss
SYMMETRY Symmetry
CHECK_DEADLOCK FALSE
