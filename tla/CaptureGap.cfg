SPECIFICATION BothSpec
CONSTANTS
    MaxParted = 1
    BucketTicks = 2
    TriggerHold = 2
    ClearHold = 2
    PreDuration = 4
    PostDuration = 4
    ActiveLimit = 6
    EventLimit = 14
    MaxPre = 2
    MaxActive = 3
    MaxPost = 2
    MaxTotal = 7
    MaxGap = 6
    Steps <- SparseSteps
    Horizon = 24
INVARIANTS SameBoundary
CHECK_DEADLOCK FALSE
