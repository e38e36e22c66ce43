\* One node: failed calls, a crash or a guest moved by somebody else, as Budget says.
CONSTANTS
    Engine = {e1}
    Api = api
    Node = {1}
    Host = {1, 2}
    Guest = {g1, g2}
    Passthrough = {g1}
    Rule = {r1}
    Affects <- AffectsAll
    Options <- AnyFault
    MaxFaults = 2
    MaxCrashes = 1
    MaxMoves = 1
    MaxCancels = 0
    MaxRequests = 0
SPECIFICATION Spec
CONSTRAINT Budget
INVARIANTS TypeOK RulesReleased GuestsRestarted CompletedMeansDone BalancersReleased RebootSparesGuests
