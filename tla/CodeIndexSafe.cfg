SPECIFICATION Spec
CONSTANTS
    f1 = f1
    f2 = f2
    Files = {f1, f2}
    Linked = {f1}
    Worker = worker
    Builders = {worker, get}
    MaxStamp = 3
    MaxSecond = 2
    MaxRev = 1
    MaxCrashes = 1
    Missing = Missing
    Torn = Torn
INVARIANTS FingerprintSound
CHECK_DEADLOCK FALSE
