SPECIFICATION AllSpec
CONSTANTS
    Samples <- MCSamples
    MinActive = 2
    MaxActive = 3
    MaxSamples = 5
    ChunkSamples = 10
    MaxChunks = 15
    MaxPre = 30
    MaxActiveInWindow = 100
    MaxPost = 20
    MaxTotal = 150
    MaxExtra = 1
    DaysBefore = 1000
    DaysAfter = 150000
INVARIANTS IncrementRange OnlySoundSamples Encodable AgreesWithCalendar
PROPERTIES SealedStable
CHECK_DEADLOCK FALSE
