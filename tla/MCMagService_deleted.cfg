SPECIFICATION Spec
CONSTANTS
    fact = fact
    secret = secret
    blank = blank
    Users = {alice}
    Sessions = {s1}
    Texts = {fact}
    Secrets = {}
    Blank = blank
    Matches <- MCMatches
    KeepTurns = 4
    TurnLimit = 2
    SearchLimit = 1
    Ops = {"remember", "chat", "delete_memory"}
    PoolSize = 1
    MaxRequests = 3
    None = None
INVARIANT DeletedLeavesPrompts
