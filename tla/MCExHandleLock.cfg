CONSTANTS
    t1 = t1
    t2 = t2
    t3 = t3
    e1 = e1
    e2 = e2
    o1 = o1
    NULL = NULL
    Threads <- ThreeThreads
    Entries <- TwoEntries
    Objects <- OneObject
SPECIFICATION FairSpec
INVARIANTS
    EntryLock
    BlocksLive
PROPERTY WaitersWake
