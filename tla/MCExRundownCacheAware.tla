------------------------ MODULE MCExRundownCacheAware ------------------------
EXTENDS ExRundownCacheAware, TLC

CONSTANTS a1, a2

MCAccessors == {a1, a2}
Perms == Permutations(MCAccessors)
=============================================================================
