--------------------------- MODULE MCExHandleFree ---------------------------
EXTENDS ExHandleFree

CONSTANTS t1, t2, t3

MCThreads == {t1, t2, t3}
=============================================================================
