SPECIFICATION AllSpec
CONSTANTS
    MinGap = 1
    RetryGap = 2
    Heartbeat = 3
    RequestGap = 1
    Pause = 1
    MaxRequests = 1
    Mishaps = {"replace", "lose", "stop", "flip", "transport", "denied", "storage", "closed"}
    MaxMishaps = 2
    Modulus = 4
    MaxMessages = 1
    MaxArrivals = 2
    MaxAttempt = 1
    MaxDelay = 2
    ControlGap = 1
    DeliveryMishaps = {"observation", "retry", "refused", "storage", "stop"}
    MaxDeliveryMishaps = 1
    MaxTime = 7
    MaxLifetime = 4
    RenewMargin = 2
    MaxSessions = 2
    MaxIssueDelay = 3
    LeaseMishaps = {"clock", "error", "busy", "denied", "stop", "child", "kill"}
    MaxLeaseMishaps = 1
INVARIANTS FailureIsNoRenewal Rotation WithinLease
PROPERTIES SpacedWrites TransitionPublished NotGated Reissued
CHECK_DEADLOCK FALSE
