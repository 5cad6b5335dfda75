------------------------------- MODULE RWLock -------------------------------
(***************************************************************************)
(* What a push lock promises: the abstract reader/writer lock that both the  *)
(* push lock word (ExPushLock) and the fanned-out cache-aware push lock      *)
(* (ExPushLockCacheAware) are shown to implement. A thread acquires when the *)
(* owners let it, and gives up or converts what it holds.                   *)
(***************************************************************************)
CONSTANT Threads

VARIABLE mode       \* how each thread holds the lock: none, X (exclusive), S (shared)

Init == mode = [t \in Threads |-> "none"]

AcquireExclusive(t) ==
    /\ \A u \in Threads : mode[u] = "none"
    /\ mode' = [mode EXCEPT ![t] = "X"]

AcquireShared(t) ==
    /\ mode[t] = "none"
    /\ \A u \in Threads : mode[u] # "X"
    /\ mode' = [mode EXCEPT ![t] = "S"]

Release(t) ==
    /\ mode[t] # "none"
    /\ mode' = [mode EXCEPT ![t] = "none"]

ConvertToShared(t) ==
    /\ mode[t] = "X"
    /\ mode' = [mode EXCEPT ![t] = "S"]

ConvertToExclusive(t) ==
    /\ mode[t] = "S"
    /\ \A u \in Threads \ {t} : mode[u] = "none"
    /\ mode' = [mode EXCEPT ![t] = "X"]

Next ==
    \E t \in Threads :
        \/ AcquireExclusive(t) \/ AcquireShared(t) \/ Release(t)
        \/ ConvertToShared(t) \/ ConvertToExclusive(t)

Spec == Init /\ [][Next]_mode

(***************************************************************************)
(* An exclusive owner owns alone.                                          *)
(***************************************************************************)
TypeOK == mode \in [Threads -> {"none", "X", "S"}]

Exclusion == \A t, u \in Threads : mode[t] = "X" /\ mode[u] # "none" => t = u
=============================================================================
