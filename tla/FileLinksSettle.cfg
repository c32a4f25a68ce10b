SPECIFICATION FairSpec
CONSTANTS
    f1 = f1
    f2 = f2
    Files = {f1, f2}
    NoFile = NoFile
    t1 = t1
    Ticks = {t1}
    Scanners = {}
    Api = api
    TtlMax = 2
    MaxRows = 6
    MaxChanges = 3
    ByScan = FALSE
PROPERTIES TicksSettle
CHECK_DEADLOCK FALSE
