CONSTANTS
    Events = {1}
    Contracts = {c1}
    c1 = c1
    ChunkSamples = 2
    MaxChunks = 3
    MaxPre = 1
    MaxTotal = 3
    MaxWindows = 2
    MaxBytes = 8
    MaxMishaps = 1
    Mishaps = {"crash"}
SPECIFICATION Spec
INVARIANTS ClosesIntact
CHECK_DEADLOCK FALSE
