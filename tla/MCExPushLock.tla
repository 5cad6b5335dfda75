---------------------------- MODULE MCExPushLock ----------------------------
EXTENDS ExPushLock, TLC

CONSTANTS t1, t2, t3

ThreeThreads == {t1, t2, t3}

SharedOps == {"AcquireShared", "ReleaseShared"}
ExclusiveOps == {"AcquireExclusive", "ReleaseExclusive"}
TryOps == {"TryAcquireExclusive", "TryAcquireShared"}
OtherReleases == {"ExfReleaseExclusive", "Release"}
Conversions == {"ConvertToShared", "TryConvertToExclusive"}

\* t1 calls every operation; t2 shares the lock by conversion only.
MixedOps ==
    t1 :> (SharedOps \cup ExclusiveOps \cup TryOps \cup OtherReleases \cup Conversions) @@
    t2 :> (ExclusiveOps \cup Conversions \cup {"ReleaseShared"}) @@
    t3 :> (SharedOps \cup ExclusiveOps)
=============================================================================
