CONSTANTS
    t1 = t1
    t2 = t2
    t3 = t3
    b1 = b1
    b2 = b2
    NULL = NULL
    Threads <- ThreeThreads
    Blocks <- TwoBlocks
    Role <- Roles
    MAX_FAST_REFS = 2
SPECIFICATION FairSpec
INVARIANTS
    ReferencesConserved
    SlowBlockLives
    QuietAfterWait
PROPERTY
    WaitReturns
