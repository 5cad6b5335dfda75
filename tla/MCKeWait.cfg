CONSTANTS
    t1 = t1
    t2 = t2
    E = E
    N = N
    S = S
    M = M
    NULL = NULL
    Threads <- TwoThreads
    Objects <- FourObjects
    Type <- TypeOf
    Limit = 2
    MINLONG <- MinusOne
    BoostEvents <- OnlyE
    Waits <- WaitsOf
    Apcs <- ApcsOf
    Alerts <- AlertsOf
SPECIFICATION FairSpec
INVARIANTS
    NoStrandedWaiter
    StatusTruthful
    NoApcStranded
PROPERTY
    TimedWaitEnds
