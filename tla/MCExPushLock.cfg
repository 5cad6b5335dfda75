CONSTANTS
    t1 = t1
    t2 = t2
    t3 = t3
    NULL = NULL
    Threads <- ThreeThreads
    Ops <- MixedOps
SPECIFICATION FairSpec
INVARIANTS
    OwnersCounted
    ChainAccessSafe
    WakeProtocol
PROPERTIES
    ImplementsRWLock
    WaitersServed
