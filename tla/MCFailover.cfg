SPECIFICATION Spec
CONSTANTS
    N = 2
    Retries = 2
    BadHosts <- MCNone
    NoRoute <- MCBoth
    Odd <- MCBoth
    Overtake = TRUE
    KeepAlive = TRUE
INVARIANTS NeverForgotten
PROPERTIES Prefers
