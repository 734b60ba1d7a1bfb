SPECIFICATION Spec
CONSTANTS
    e1 = e1
    e2 = e2
    c1 = c1
    r1 = r1
    SourceEvents = {e1, e2}
    Configs = {c1}
    CurrentConfig = c1
    Increments = {4, 10}
    MaxGeneration = 3
    RecentLimit = 2
    Commands = {r1}
    MaxMessages = 3
    OtherCounts = {0, 2}
    Faulty = {}
PROPERTIES OutboxRecovers
