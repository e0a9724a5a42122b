INIT MCInit
NEXT MCNext
CONSTANTS
    Groups = 2
    Rounds = 1
    Hashes = 2
    Rows = 4
    PreRounds = 2
    LaunchSize = 3
    MaxResults = 2
    Nonces = 4
    GpuGroups = 2
    GpuRounds = 2
    GpuPages = 5
    GpuThreads = 2
    m_threads = 2
    NonceSpace = 20
    FreeSpace = 10
    BatchSize <- MCBatch
    NonceJobs <- MCNonceJobs
    Heights = {1, 2}
CHECK_DEADLOCK FALSE
INVARIANTS LaunchLikeCpu CnGpuAlike OwnNonces CheckedByOwnLoop
PROPERTIES KernelsHashLikeCpu
