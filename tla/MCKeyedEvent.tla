---------------------------- MODULE MCKeyedEvent ----------------------------
EXTENDS KeyedEvent

CONSTANTS t1, t2, t3, t4

FourThreads == {t1, t2, t3, t4}
ThreeInOne == [t \in Threads |-> IF t = t4 THEN "other" ELSE "one"]
=============================================================================
