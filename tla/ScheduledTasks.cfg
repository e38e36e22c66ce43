\* One schedule, two processes, two tasks at a time; two failures, crashes or edits.
CONSTANTS
    Sched = {s1}
    Proc = {p1, p2}
    Upid = {1, 2}
    MaxTroubles = 2
SPECIFICATION FairSpec
INVARIANTS OverlapOnlyAfterStale OutcomeIsOwn
PROPERTIES RunsSettle BadScheduleStops
CHECK_DEADLOCK FALSE
