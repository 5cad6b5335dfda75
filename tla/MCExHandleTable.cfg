CONSTANTS
    t1 = t1
    t2 = t2
    Threads <- MCThreads
    Region <- MCRegion
    LOWLEVEL_COUNT = 2
    MIDLEVEL_COUNT = 2
    HIGHLEVEL_COUNT = 3
    NULL = NULL
SPECIFICATION TableSpec
SYMMETRY Perms
INVARIANTS
    LookupSound
    PoolAccounted
PROPERTY EntriesStay
