CONSTANTS
    t1 = t1
    t2 = t2
    t3 = t3
    Callers <- ThreeCallers
    KeNumberProcessors = 5
    EX_PUSH_LOCK_FANNED_COUNT = 4
SPECIFICATION FannedFairSpec
INVARIANTS
    SlotsAccounted
PROPERTY
    FannedImplementsRWLock
    AcquiresEnd
