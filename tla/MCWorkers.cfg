SPECIFICATION FairSpec
CONSTANTS
    Threads = {g1}
    NvmlAvailable = TRUE
    IdsRepeat = TRUE
    MaxCalls = 4
    MaxIds = 3
    MaxBatches = 2
INVARIANTS RunsIffWanted NoNonceTwice
PROPERTIES StaleOnlyFromConsume TakesEffect
