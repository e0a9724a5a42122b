SPECIFICATION MCSpec
CONSTANTS
    g1 = g1
    g2 = g2
    Threads <- MCThreads
    Arch <- MCArch
    Variants <- MCVariants
    CompileFails = TRUE
    Behind = FALSE
    MaxHeight = 3
    TOTAL_LATENCY = 7
    NUM_INSTRUCTIONS_MIN = 3
    NUM_INSTRUCTIONS_MAX = 5
    MaxRetries = 2
    MaxIterations = 3
    MaxGap = 3
    DataSize = 6
    Opcodes <- MCOpcodes
    Dsts <- MCDsts
    Srcs <- MCSrcs
CHECK_DEADLOCK FALSE
INVARIANTS MinesItsProgram OneMeaning
PROPERTIES CacheKept ProgramsArrive DrawsPrograms
