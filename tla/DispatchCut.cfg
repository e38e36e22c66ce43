\* One notice more than the bucket holds; every statement of the database succeeds.
CONSTANTS
    Notice = {n1, n2}
    Burst = 1
    Attempts = 3
    Operator = {o1}
    MaxTroubles = 0
SPECIFICATION Spec
INVARIANT NotificationNotLost
