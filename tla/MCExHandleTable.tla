--------------------------- MODULE MCExHandleTable ---------------------------
EXTENDS ExHandleTable, TLC

CONSTANTS t1, t2

MCThreads == {t1, t2}
MCRegion == [low |-> 1 .. 6, mid |-> 7 .. 9, high |-> 10 .. 10, info |-> 11 .. 12]
Perms == Permutations(MCThreads)
=============================================================================
