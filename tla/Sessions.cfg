\* One browser, two requests at a time, two sessions, one revocation of all of them.
CONSTANTS
    Browser = {b1}
    Req = {r1, r2}
    MaxSess = 2
    MaxGen = 2
    MaxEpoch = 1
    MaxTroubles = 1
SPECIFICATION Spec
SYMMETRY Symmetric
INVARIANTS NoSessionOnReplacedPassword SignOutEverywhereHolds DeactivatedHasNoSession SignOutWins BrowserKeepsUp
CHECK_DEADLOCK FALSE
