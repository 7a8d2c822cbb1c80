SPECIFICATION FairSpec
CONSTANTS
    short = short
    long = long
    FileCount = 2
    Contents = {short, long}
    Tokens <- MCTokens
    Questions <- MCQuestions
    TokenBudget = 5
    Context = 10
    Reserve = 1
    MaxOutput = 1
    Requests = {r1, r2}
    MaxEdits = 1
    MaxBuilds = 2
    Missing = Missing
    NoManifest = NoManifest
    Torn = Torn
INVARIANT SameVersionSamePrefix
INVARIANT SentFits
INVARIANT NoFalseAlarm
PROPERTY EveryRequestEnds
CHECK_DEADLOCK FALSE
