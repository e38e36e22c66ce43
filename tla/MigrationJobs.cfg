\* Any kind of job, two executions of it, a check and a cancel, one failure, one stop.
CONSTANTS
    Worker = {w1, w2}
    Disk = {d1, d2}
    Kinds = {"live", "cross", "storage", "both"}
    Placed <- PlacedByKind
    SlotLimit = 2
    MaxFaults = 1
    MaxChecks = 1
    MaxStops = 1
SPECIFICATION FairSpec
INVARIANTS CompletedMeansMoved MigratingHasWorker
PROPERTIES SettledRowStays TaskRowsSettle WorkersEnd
CHECK_DEADLOCK FALSE
