CONSTANTS
    Events = {1}
    Contracts = {c1, c2}
    c1 = c1
    c2 = c2
    ChunkSamples = 2
    MaxChunks = 3
    MaxPre = 1
    MaxTotal = 4
    MaxWindows = 2
    MaxBytes = 8
    MaxMishaps = 2
    Mishaps = {"stop", "crash", "fault", "refusal"}
SPECIFICATION Spec
INVARIANTS NoMixedSet OneContentPerKey
PROPERTIES DeletedOnlyWhenStored
CHECK_DEADLOCK FALSE
