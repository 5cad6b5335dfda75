CONSTANTS
    t1 = t1
    t2 = t2
    t3 = t3
    Threads <- MCThreads
    LOWLEVEL_COUNT = 2
    MaxPages = 2
    HANDLE_TABLE_LOCKS = 3
    FreeTarget = 2
    GrantedAccess = GrantedAccess
SPECIFICATION FairSpec
INVARIANTS
    HandlesConserved
    PopIsFresh
PROPERTY CallsEnd
