SPECIFICATION FairSpec
CONSTANTS
    N = 2
    Retries = 2
    BadHosts <- MCNone
    NoRoute <- MCNone
    Odd <- MCPrimary
    Overtake = FALSE
    KeepAlive = FALSE
INVARIANTS OnePoolServes HandlesSafe
PROPERTIES PrimaryReturns FailedPoolsAreLeft
