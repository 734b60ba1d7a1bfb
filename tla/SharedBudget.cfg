SPECIFICATION Spec
CONSTANTS
    c1 = c1
    c2 = c2
    r1 = r1
    r2 = r2
    a1 = a1
    a2 = a2
    CommandIds = {c1}
    Releases = {r1}
    Assessments = {a1}
    GatewayStates = {"APPLIED", "CLEARED"}
    Kept = 1
    Budget = 1
    Lifetime = 1
    RefreshSet = 1
    RefreshClear = 1
    Horizon = 1
    MaxSequence = 2
    MaxMishaps = 0
    Mishaps = {}
    StoreFails = TRUE
INVARIANTS SharedBudget
CHECK_DEADLOCK FALSE
