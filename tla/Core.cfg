SPECIFICATION Spec
CONSTANTS
    c1 = c1
    c2 = c2
    Clients = {c1, c2}
    None = None
    Off = Off
    CronJobs = {"dump", "nightly"}
    Restarting = {"nightly"}
    MissAfter = 1
    Subtrees = {"root", "mount"}
    Root = "root"
    ForceAfter = 3
    ForceDegraded = 2
    Poll = 2
    PollDegraded = 1
    Grace = 1
    StaleAfter = 1
    Names = {"a", "b"}
    Slots = 2
    Tables <- MCTables
    Keyed = {"posts"}
    Window = 2
    MaxTasks = 2
    MaxSessions = 1
    TaskTtl = 1
    Sizes = {1, 2}
    MaxRuns = 3
    MaxHour = 3
    MaxLost = 2
    MaxChanges = 2
    MaxFaults = 1
    ProcessFaults = 2
    MaxBoots = 2
    ContextPosts = 3
    MaxEdits = 1
    MaxTurns = 3
    MaxCreated = 4
    MaxUses = 5
    MaxNow = 2
    MaxCalls = 3
    CallSeconds = 1
    MaxProjects = 2
    ProjectPosts = 1
    MaxSelects = 2
    MaxPolls = 1
    MaxUpdates = 1
    ProjectStops = 1
    MaxRotations = 2
    MaxSets = 2
    MaxStops = 2
    MaxRow = 2
    MaxId = 4
    MaxInserts = 3
INVARIANTS TurnsAreTrue RunningExplained ChangeIsTried PostsKeepTheirProject SecretOpensAll MigrationIsWhole
PROPERTIES DeltaExtends OnlyOldestGo
SYMMETRY Symmetry
CHECK_DEADLOCK FALSE
