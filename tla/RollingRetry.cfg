\* One node: any one call fails, or a manual job is cancelled, paused, skipped or followed
\* by a new one; everything that may go on does.
CONSTANTS
    Engine = {e1}
    Api = api
    Node = {1}
    Host = {1, 2}
    Guest = {g1, g2}
    Passthrough = {g1}
    Rule = {r1}
    Affects <- AffectsAll
    Options <- FailedOrCancelled
    MaxFaults = 1
    MaxCrashes = 0
    MaxMoves = 0
    MaxCancels = 1
    MaxRequests = 1
SPECIFICATION FairSpec
CONSTRAINT OneOrTheOther
PROPERTIES LifecycleSpec CleanupEnds JobSettles
