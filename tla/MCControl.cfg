SPECIFICATION FairSpec
CONSTANTS
    Token = "secret"
    NoToken = "none"
    Restricted = FALSE
    Capacity = 3
    Configs <- MCConfigs
    PoolsOf <- MCPoolsOf
    WatchOf <- MCWatchOf
    Broken = "broken"
    Absent = "absent"
    MaxEdits = 2
    Connections = {1, 2}
    Requests <- MCRequests
    MaxRequests = 2
CHECK_DEADLOCK FALSE
INVARIANTS BodiesOwned
PROPERTIES ChangesArrive OnlyWhatWasPut
