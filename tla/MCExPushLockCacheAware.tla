----------------------- MODULE MCExPushLockCacheAware -----------------------
EXTENDS ExPushLockCacheAware

CONSTANTS t1, t2, t3

ThreeCallers == {t1, t2, t3}
=============================================================================
