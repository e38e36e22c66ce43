\* Threshold three, four requests at a time, two lost answers of Redis.
CONSTANTS
    Req = {r1, r2, r3, r4}
    Threshold = 3
    MaxTroubles = 2
SPECIFICATION Spec
INVARIANTS GuessesBounded
PROPERTIES LockHolds
CHECK_DEADLOCK FALSE
