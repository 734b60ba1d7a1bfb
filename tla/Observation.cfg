SPECIFICATION FairSpec
CONSTANTS
    c1 = c1
    c2 = c2
    Contents = {c1, c2}
    QueueLimit = 2
    MaxInteger = 2
    EmitGap = 1
    RepeatGap = 2
    Horizon = 4
    MaxMishaps = 2
INVARIANTS OneContentPerIdentity AttemptedKept Restartable
PROPERTIES Delivered
CHECK_DEADLOCK FALSE
