\* Units of 2.5 s: heartbeat 5 s, takeover 30 s, retry 10 s.
CONSTANTS
    Process = {p1, p2}
    NoHolder = NoHolder
    HeartbeatInterval = 2
    TakeoverAfter = 12
    RetryInterval = 4
    HeartbeatGrace = 3
    ExecDelay = 1
    StopDelay = 3
    MaxErrors = 4
    MaxOrphans = 1
SPECIFICATION Spec
SYMMETRY Symmetry
INVARIANTS OneLeader AgeBound
