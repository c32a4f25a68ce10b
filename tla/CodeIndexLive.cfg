SPECIFICATION FairSpec
CONSTANTS
    f1 = f1
    f2 = f2
    Files = {f1, f2}
    Linked = {f1, f2}
    Worker = worker
    Builders = {worker}
    MaxStamp = 3
    MaxSecond = 3
    MaxRev = 2
    MaxCrashes = 0
    Missing = Missing
    Torn = Torn
PROPERTIES RebuildCatchesUp
CHECK_DEADLOCK FALSE
