SPECIFICATION FairSpec
CONSTANTS
    Events = {1, 2}
    Contracts = {c1}
    c1 = c1
    ChunkSamples = 2
    MaxChunks = 3
    MaxPre = 0
    MaxTotal = 2
    MaxWindows = 2
    MaxBytes = 4
    MaxMishaps = 1
    Mishaps = {"stop", "crash", "refusal"}
INVARIANTS WithinCapacity
PROPERTIES Drained
CHECK_DEADLOCK FALSE
