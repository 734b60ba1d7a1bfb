SPECIFICATION FairSpec
CONSTANTS
    c1 = c1
    r1 = r1
    r2 = r2
    a1 = a1
    CommandIds = {c1}
    Releases = {r1, r2}
    Assessments = {a1}
    GatewayStates = {"APPLIED", "CLEARED"}
    Kept = 1
    Budget = 1
    Lifetime = 1
    RefreshSet = 1
    RefreshClear = 1
    Horizon = 2
    MaxSequence = 2
    MaxMishaps = 1
    Mishaps = {"crash", "fault"}
    StoreFails = TRUE
INVARIANTS AdmittedKept OneRequestPerSequence SuccessIsReal OneAnswer
PROPERTIES ResetAnswered
CHECK_DEADLOCK FALSE
