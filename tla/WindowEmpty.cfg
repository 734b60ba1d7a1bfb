SPECIFICATION BothSpec
CONSTANTS
    MaxParted = 1
    BucketTicks = 2
    TriggerHold = 2
    ClearHold = 2
    PreDuration = 4
    PostDuration = 4
    ActiveLimit = 8
    EventLimit = 11
    MaxPre = 2
    MaxActive = 3
    MaxPost = 2
    MaxTotal = 7
    MaxGap = 5
    Steps <- AllSteps
    Horizon = 13
INVARIANTS SomeSample
CHECK_DEADLOCK FALSE
