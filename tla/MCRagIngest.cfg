SPECIFICATION FairSpec
CONSTANTS
    long = long
    short = short
    empty = empty
    broken = broken
    DocCount = 2
    Contents = {long, short, empty, broken}
    Chunks <- MCChunks
    Unreadable = {broken}
    BatchSize = 2
    MaxRuns = 2
    MaxChanges = 1
    RerankCandidates = 3
    Absent = Absent
    NoPoint = NoPoint
INVARIANT SearchIsCurrent
INVARIANT FinishedRunCovers
PROPERTY ReRunKeepsPassages
PROPERTY EveryRunEnds
CHECK_DEADLOCK FALSE
