SPECIFICATION FairSpec
CONSTANTS
    Retries = 2
    SinglePool = FALSE
INVARIANTS MinesForMain AlwaysScheduled
PROPERTIES OrderlyUntilDropped UserReturns
