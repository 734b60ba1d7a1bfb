SPECIFICATION FairSpec
CONSTANTS
    Profiles = {"V1", "V3"}
    Contracts = {c1, c2}
    Freshness = 1
    MaxTime = 2
    Mishaps = {"renew", "remove", "publish", "stop", "reset", "gap", "storage", "transport", "denied", "closed", "incompatible"}
    MaxMishaps = 1
    AfterRenewals <- AfterRenewal
PROPERTIES RenewalKeepsCapture NewerInputKept EndsAfterChange StaleIsWithdrawn MetadataConverges
CHECK_DEADLOCK FALSE
