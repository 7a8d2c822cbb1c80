SPECIFICATION FairSpec
CONSTANTS
    Threads = {t1, t2}
    Users = {alice, bob}
    fact = fact
    rumour = rumour
    hit = hit
    miss = miss
    Texts <- MCTexts
    Conversations = {c1, c2}
    Contents = {asked, answered}
    KeepTurns = 2
    Queries <- MCQueries
    Matches <- MCMatches
    SearchLimit = 1
    Methods = {"add_memory", "correct_memory", "delete_memory", "delete_all_memories",
               "search_memories", "append_turn", "healthcheck"}
    MaxCalls = 3
    Free = Free
INVARIANT Isolated
INVARIANT IndexMirrorsActive
INVARIANT ResultsAreCommitted
INVARIANT SearchIsSound
PROPERTY ImplementsMemory
PROPERTY ImplementsTurns
PROPERTY EveryCallEnds
