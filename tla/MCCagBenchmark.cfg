SPECIFICATION BenchSpec
CONSTANTS
    v1 = v1
    v2 = v2
    other = other
    Versions = {v1, v2}
    Other = other
    Length <- MCLength
    Question = 1
    Common = 1
    ColdMisses = 2
    NWarm = 2
    Broken = Broken
    MaxPolls = 1
    MaxTraffic = 2
    MaxPods = 3
    MaxEvents = 1
INVARIANT VerdictIsEarned
INVARIANT ColdIsEarned
CHECK_DEADLOCK FALSE
