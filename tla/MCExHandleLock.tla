--------------------------- MODULE MCExHandleLock ---------------------------
EXTENDS ExHandleLock

CONSTANTS t1, t2, t3, e1, e2, o1

ThreeThreads == {t1, t2, t3}
TwoEntries == {e1, e2}
OneObject == {o1}
=============================================================================
