SPECIFICATION FairSpec
CONSTANTS
    Profiles = {"V1"}
    Contracts = {c1, c2}
    Freshness = 1
    MaxTime = 2
    Mishaps = {"renew", "storage"}
    MaxMishaps = 1
    AfterRenewals <- AfterRenewal
PROPERTY StaleIsAlwaysWithdrawn
CHECK_DEADLOCK FALSE
