\* Two nodes, in turn or (manually) at once, with a pause, a skip or a new job anywhere.
CONSTANTS
    Engine = {e1}
    Api = api
    Node = {1, 2}
    Host = {1, 2, 3}
    Guest = {g1, g2}
    Passthrough = {g1}
    Rule = {r1}
    Affects <- AffectsAll
    Options <- AnyPace
    MaxFaults = 0
    MaxCrashes = 0
    MaxMoves = 0
    MaxCancels = 0
    MaxRequests = 1
SPECIFICATION Spec
INVARIANTS OneByOneSparesGuests ParallelismKept
PROPERTIES RulesStayOff
