SPECIFICATION FairSpec
CONSTANTS
    t1 = t1
    t2 = t2
    Threads <- MCThreads
    Pools <- MCPools
    Logins <- MCLogins
    Diffs <- MCDiffs
    Best = 2
    MaxShares = 2
    MaxSequence <- MCSequence
INVARIANTS CountedOnce
PROPERTIES SentToItsLogin Handled
