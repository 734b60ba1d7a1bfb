SPECIFICATION BothSpec
CONSTANTS
    MaxParted = 1
    BucketTicks = 2
    TriggerHold = 2
    ClearHold = 2
    PreDuration = 4
    PostDuration = 4
    ActiveLimit = 10
    EventLimit = 18
    MaxPre = 2
    MaxActive = 5
    MaxPost = 2
    MaxTotal = 9
    MaxGap = 6
    Steps <- SteadySteps
    Horizon = 18
INVARIANTS PostWithinSchema
CHECK_DEADLOCK FALSE
