CONSTANTS
    t1 = t1
    t2 = t2
    t3 = t3
    t4 = t4
    None = None
    Threads <- FourThreads
    Process <- ThreeInOne
    Keys = {k1, k2}
SPECIFICATION FairSpec
INVARIANTS
    NoMissedMatch
    WakeupOwed
PROPERTY
    AbsorbEnds
