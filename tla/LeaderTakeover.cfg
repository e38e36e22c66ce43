\* A heartbeat statement may hang for longer than the takeover time, so that a
\* leader can be displaced while it still runs.
CONSTANTS
    Process = {p1, p2}
    NoHolder = NoHolder
    HeartbeatInterval = 1
    TakeoverAfter = 2
    RetryInterval = 1
    HeartbeatGrace = 2
    ExecDelay = 3
    StopDelay = 1
    MaxErrors = 2
    MaxOrphans = 1
SPECIFICATION FairSpec
PROPERTIES LostRoleIsGivenUp RoleIsTakenUp
