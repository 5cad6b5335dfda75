---------------------------- MODULE MCExRundown ----------------------------
EXTENDS ExRundown

CONSTANTS a1, a2

TwoAccessors == {a1, a2}
=============================================================================
