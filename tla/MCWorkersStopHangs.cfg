SPECIFICATION FairSpec
CONSTANTS
    Threads = {g1}
    NvmlAvailable = TRUE
    IdsRepeat = FALSE
    MaxCalls = 3
    MaxIds = 1
    MaxBatches = 1
PROPERTIES StopExits
