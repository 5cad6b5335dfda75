---------------------------- MODULE MCExCallBack ----------------------------
EXTENDS ExCallBack, TLC

CONSTANTS t1, t2, t3, b1, b2

ThreeThreads == {t1, t2, t3}
TwoBlocks == {b1, b2}

\* Two removers that meet, two installers that meet, and callers throughout
Roles == t1 :> {"call", "install", "remove"} @@ t2 :> {"install", "remove"} @@ t3 :> {"call"}
=============================================================================
