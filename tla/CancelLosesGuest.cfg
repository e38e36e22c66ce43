\* A cancel during the drain.
CONSTANTS
    Engine = {e1}
    Api = api
    Node = {1}
    Host = {1, 2}
    Guest = {g1, g2}
    Passthrough = {g1}
    Rule = {r1}
    Affects <- AffectsAll
    Options <- Drained
    MaxFaults = 0
    MaxCrashes = 0
    MaxMoves = 0
    MaxCancels = 1
    MaxRequests = 0
SPECIFICATION Spec
INVARIANTS GuestsRestarted
