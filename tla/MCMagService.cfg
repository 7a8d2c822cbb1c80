SPECIFICATION Spec
CONSTANTS
    fact = fact
    secret = secret
    blank = blank
    Users = {alice, bob}
    Sessions = {s1, s2}
    Texts = {fact, secret}
    Secrets = {secret}
    Blank = blank
    Matches <- MCMatches
    KeepTurns = 2
    TurnLimit = 1
    SearchLimit = 1
    Ops = {"remember", "chat", "add_memory", "correct_memory", "delete_memory", "delete_all"}
    PoolSize = 2
    MaxRequests = 3
    None = None
SYMMETRY Symmetry
INVARIANT TypeOK
INVARIANT NoSecretMemory
INVARIANT RetiredOnce
INVARIANT ForgetsEveryVersion
INVARIANT PromptIsOwnAndFresh
INVARIANT ExchangesAreWhole
