INIT MCInit
NEXT MCNext
CONSTANTS
    Names <- MCNames
    Options <- MCOptions
    Documents <- MCDocuments
    Params <- MCParams
    MaxOptions = 3
    Rigs <- MCRigs
    LaunchKinds <- MCLaunchKinds
    LaunchOptions <- MCLaunchOptions
    ThreadFiles <- MCThreadFiles
    MaxLaunchOptions = 2
    CardsHashing = 1
    kBucketSize = 4
    BatchSizes <- MCBatchSizes
    Windows = {1}
    MaxTime = 6
    LineSizes <- MCLineSizes
    InputBuffer = 5
    TlsBuffer = 3
    MaxConnections = 2
    HalfDigits = 4
CHECK_DEADLOCK FALSE
INVARIANTS  SavedIsSame CardsRun RateIsTrue HearsItsPool CountsDifficulty
