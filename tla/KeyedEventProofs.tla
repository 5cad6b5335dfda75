-------------------------- MODULE KeyedEventProofs --------------------------
(***************************************************************************)
(* Proofs about KeyedEvent, for any set of threads in any processes and    *)
(* any set of keys.                                                        *)
(***************************************************************************)
EXTENDS KeyedEvent, FiniteSetTheorems, WellFoundedInduction, TLAPS

Waiting == {"Wait", "Remove", "Absorb"}

\* The threads that are about to wake t
Wakers(t) == {u \in Threads : Target[u] = t}

Types ==
    /\ WaitQueue \in Seq(Threads)
    /\ KeyedWaitValue \in [Threads -> KeyValues \cup {None}]
    /\ Semaphore \in [Threads -> Nat]
    /\ pc \in [Threads -> {"idle", "Match", "Wake", "Wait", "Remove", "Absorb"}]
    /\ Value \in [Threads -> KeyValues \cup {None}]
    /\ Target \in [Threads -> Threads \cup {None}]

\* Where a thread is in its call
CallInv ==
    \A t \in Threads :
        /\ pc[t] # "idle" => Value[t] \in KeyValues
        /\ pc[t] = "Wake" <=> Target[t] # None

\* A thread is on the queue once, while it waits or gives up, with its value.
QueueInv ==
    /\ \A i, j \in DOMAIN WaitQueue : WaitQueue[i] = WaitQueue[j] => i = j
    /\ \A i \in DOMAIN WaitQueue :
          /\ pc[WaitQueue[i]] \in {"Wait", "Remove"}
          /\ KeyedWaitValue[WaitQueue[i]] \in KeyValues

\* Releasers come before waiters, so that a search that stops at the first
\* waiter has seen every releaser: the invariant that the comment on
\* InsertHeadList in NtReleaseKeyedEvent speaks of.
OrderInv ==
    \A i, j \in DOMAIN WaitQueue :
        i < j /\ KeyedWaitValue[WaitQueue[j]].release => KeyedWaitValue[WaitQueue[i]].release

\* NoMissedMatch, by position
PairInv ==
    \A i, j \in DOMAIN WaitQueue :
        KeyedWaitValue[WaitQueue[i]].release /\ ~KeyedWaitValue[WaitQueue[j]].release
        => \/ KeyedWaitValue[WaitQueue[i]].key # KeyedWaitValue[WaitQueue[j]].key
           \/ Process[WaitQueue[i]] # Process[WaitQueue[j]]

\* A thread that waits off the queue has its wakeup, or one thread that owes it;
\* any other has neither.
OwedInv ==
    \A t \in Threads :
        IF pc[t] \in Waiting /\ t \notin Queued
        THEN \/ Semaphore[t] = 1 /\ Wakers(t) = {}
             \/ Semaphore[t] = 0 /\ \E u \in Threads : Wakers(t) = {u}
        ELSE Semaphore[t] = 0 /\ Wakers(t) = {}

IInv == Types /\ CallInv /\ QueueInv /\ OrderInv /\ PairInv /\ OwedInv

----------------------------------------------------------------------------
\* What Without leaves of the queue when a thread that is on it once is removed.
LEMMA WithoutShape ==
    ASSUME Types, QueueInv, NEW n \in DOMAIN WaitQueue
    PROVE  Without(WaitQueue[n]) =
              [i \in 1..(Len(WaitQueue) - 1) |-> WaitQueue[IF i < n THEN i ELSE i + 1]]
  <1>1. (CHOOSE i \in DOMAIN WaitQueue : WaitQueue[i] = WaitQueue[n]) = n
    BY DEF QueueInv
  <1>2. QED
    BY <1>1 DEF Without

\* The removal keeps the order and every other thread.
LEMMA WithoutKeeps ==
    ASSUME Types, QueueInv, NEW n \in DOMAIN WaitQueue, NEW q, q = Without(WaitQueue[n])
    PROVE  /\ q \in Seq(Threads)
           /\ DOMAIN q = 1..(Len(WaitQueue) - 1)
           /\ \A i \in DOMAIN q :
                 /\ q[i] = WaitQueue[IF i < n THEN i ELSE i + 1]
                 /\ (IF i < n THEN i ELSE i + 1) \in DOMAIN WaitQueue \ {n}
           /\ {q[i] : i \in DOMAIN q} = Queued \ {WaitQueue[n]}
  <1>1. q = [i \in 1..(Len(WaitQueue) - 1) |-> WaitQueue[IF i < n THEN i ELSE i + 1]]
    BY WithoutShape
  <1>2. /\ WaitQueue \in Seq(Threads)
        /\ Len(WaitQueue) \in Nat
        /\ DOMAIN WaitQueue = 1..Len(WaitQueue)
        /\ Len(WaitQueue) - 1 \in Nat
    BY DEF Types
  <1>3. DOMAIN q = 1..(Len(WaitQueue) - 1)
    BY <1>1
  <1>4. ASSUME NEW i \in DOMAIN q
        PROVE  /\ q[i] = WaitQueue[IF i < n THEN i ELSE i + 1]
               /\ (IF i < n THEN i ELSE i + 1) \in DOMAIN WaitQueue \ {n}
    BY <1>1, <1>2, <1>3, <1>4
  <1>5. q \in Seq(Threads)
    <2>1. q \in [1..(Len(WaitQueue) - 1) -> Threads]
      BY <1>1, <1>2, <1>3, <1>4
    <2>2. QED
      BY <1>2, <2>1
  <1>6. {q[i] : i \in DOMAIN q} \subseteq Queued \ {WaitQueue[n]}
    BY <1>4 DEF Queued, QueueInv
  <1>7. Queued \ {WaitQueue[n]} \subseteq {q[i] : i \in DOMAIN q}
    <2>1. SUFFICES ASSUME NEW k \in DOMAIN WaitQueue, k # n
                   PROVE  \E i \in DOMAIN q : q[i] = WaitQueue[k]
      BY DEF Queued
    <2>2. CASE k < n
      <3>1. k \in DOMAIN q
        BY <1>2, <1>3, <2>1, <2>2
      <3>2. QED
        BY <1>4, <2>2, <3>1
    <2>3. CASE k > n
      <3>1. k - 1 \in DOMAIN q /\ ~(k - 1 < n) /\ (k - 1) + 1 = k
        BY <1>2, <1>3, <2>1, <2>3
      <3>2. QED
        BY <1>4, <3>1
    <2>4. QED
      BY <1>2, <2>1, <2>2, <2>3
  <1>8. QED
    BY <1>3, <1>4, <1>5, <1>6, <1>7

\* Queued threads are threads, and a thread whose call is elsewhere is not one.
LEMMA QueuedThreads ==
    ASSUME Types, QueueInv
    PROVE  /\ \A i \in DOMAIN WaitQueue : i \in Nat /\ WaitQueue[i] \in Threads /\ WaitQueue[i] \in Queued
           /\ \A t \in Queued : t \in Threads /\ pc[t] \in {"Wait", "Remove"}
  <1>1. WaitQueue \in Seq(Threads)
    BY DEF Types
  <1>2. \A i \in DOMAIN WaitQueue : i \in Nat /\ WaitQueue[i] \in Threads
    BY <1>1
  <1>3. QED
    BY <1>2 DEF Queued, QueueInv

\* The three invariants of the queue survive when the queue stays and those on
\* it keep their values.
LEMMA SameQueue ==
    ASSUME Types, QueueInv, OrderInv, PairInv, WaitQueue' = WaitQueue,
           \A i \in DOMAIN WaitQueue :
               /\ pc'[WaitQueue[i]] \in {"Wait", "Remove"}
               /\ KeyedWaitValue'[WaitQueue[i]] = KeyedWaitValue[WaitQueue[i]]
    PROVE  QueueInv' /\ OrderInv' /\ PairInv' /\ Queued' = Queued
  <1>1. QueueInv'
    BY DEF QueueInv
  <1>2. OrderInv'
    BY DEF OrderInv
  <1>3. PairInv'
    BY DEF PairInv
  <1>4. QED
    BY <1>1, <1>2, <1>3 DEF Queued

\* They survive the removal of a thread.
LEMMA RemovedFromQueue ==
    ASSUME Types, QueueInv, OrderInv, PairInv,
           NEW n \in DOMAIN WaitQueue, WaitQueue' = Without(WaitQueue[n]),
           \A i \in DOMAIN WaitQueue \ {n} :
               /\ pc'[WaitQueue[i]] \in {"Wait", "Remove"}
               /\ KeyedWaitValue'[WaitQueue[i]] = KeyedWaitValue[WaitQueue[i]]
    PROVE  /\ QueueInv' /\ OrderInv' /\ PairInv'
           /\ WaitQueue' \in Seq(Threads)
           /\ Queued' = Queued \ {WaitQueue[n]}
  <1> DEFINE old(i) == IF i < n THEN i ELSE i + 1
  <1>1. /\ WaitQueue' \in Seq(Threads)
        /\ DOMAIN WaitQueue' = 1..(Len(WaitQueue) - 1)
        /\ \A i \in DOMAIN WaitQueue' :
              /\ WaitQueue'[i] = WaitQueue[old(i)]
              /\ old(i) \in DOMAIN WaitQueue \ {n}
        /\ {WaitQueue'[i] : i \in DOMAIN WaitQueue'} = Queued \ {WaitQueue[n]}
    BY WithoutKeeps
  <1>2. n \in Nat /\ Len(WaitQueue) \in Nat
    BY DEF Types
  <1>3. \A i, j \in DOMAIN WaitQueue' : (old(i) = old(j) => i = j) /\ (i < j => old(i) < old(j))
    BY <1>1, <1>2
  <1>4. \A i \in DOMAIN WaitQueue' :
            /\ pc'[WaitQueue'[i]] \in {"Wait", "Remove"}
            /\ KeyedWaitValue'[WaitQueue'[i]] = KeyedWaitValue[WaitQueue[old(i)]]
    BY <1>1
  <1> HIDE DEF old
  <1>5. QueueInv'
    BY <1>1, <1>3, <1>4 DEF QueueInv
  <1>6. OrderInv'
    BY <1>1, <1>3, <1>4 DEF OrderInv
  <1>7. PairInv'
    BY <1>1, <1>3, <1>4 DEF PairInv
  <1>8. Queued' = Queued \ {WaitQueue[n]}
    BY <1>1 DEF Queued
  <1>9. QED
    BY <1>1, <1>5, <1>6, <1>7, <1>8

\* With the releasers in front, a search misses no counterpart.
LEMMA SearchIsComplete ==
    ASSUME Types, CallInv, QueueInv, OrderInv, NEW t \in Threads, pc[t] = "Match"
    PROVE  Matches(t) = Counterparts(t)
  <1>1. Value[t] \in [key : Keys, release : BOOLEAN]
    BY DEF CallInv, KeyValues
  <1>2. SUFFICES ASSUME NEW i \in Counterparts(t), ~Value[t].release, NEW j \in 1..i
                 PROVE  KeyedWaitValue[WaitQueue[j]].release
    BY DEF Matches
  <1>3. i \in DOMAIN WaitQueue /\ KeyedWaitValue[WaitQueue[i]] = [Value[t] EXCEPT !.release = ~@]
    BY DEF Counterparts
  <1>4. KeyedWaitValue[WaitQueue[i]].release
    BY <1>1, <1>2, <1>3
  <1>5. i \in Nat /\ j \in DOMAIN WaitQueue /\ j \in Nat
    BY <1>3 DEF Types
  <1>6. CASE j = i
    BY <1>4, <1>6
  <1>7. CASE j < i
    BY <1>3, <1>4, <1>5, <1>7 DEF OrderInv
  <1>8. QED
    BY <1>2, <1>5, <1>6, <1>7

\* The three invariants survive when a thread that found nobody queues itself.
LEMMA AddedToQueue ==
    ASSUME IInv, NEW t \in Threads, Enqueue(t)
    PROVE  /\ QueueInv' /\ OrderInv' /\ PairInv'
           /\ WaitQueue' \in Seq(Threads)
           /\ Queued' = Queued \cup {t}
  <1> DEFINE L == Len(WaitQueue)
             b == IF Value[t].release THEN 1 ELSE 0      \* where the others begin
             at == IF Value[t].release THEN 1 ELSE L + 1
  <1>1. /\ Types /\ CallInv /\ QueueInv /\ OrderInv /\ PairInv
        /\ L \in Nat /\ DOMAIN WaitQueue = 1..L /\ WaitQueue \in Seq(Threads)
    BY DEF IInv, Types
  <1>2. Value[t] \in [key : Keys, release : BOOLEAN] /\ Value[t] \in KeyValues
    BY <1>1 DEF CallInv, Enqueue, KeyValues
  <1>3. Counterparts(t) = {}
    BY <1>1, SearchIsComplete DEF Enqueue
  <1>4. /\ WaitQueue' \in Seq(Threads)
        /\ DOMAIN WaitQueue' = 1..(L + 1)
        /\ WaitQueue'[at] = t
        /\ \A i \in 1..L : WaitQueue'[i + b] = WaitQueue[i]
    BY <1>1 DEF Enqueue, Enqueued
  <1>5. /\ at \in DOMAIN WaitQueue'
        /\ \A i \in DOMAIN WaitQueue' : i # at => i - b \in 1..L /\ (i - b) + b = i
    BY <1>1, <1>4
  <1>6. \A i \in DOMAIN WaitQueue' : i # at => WaitQueue'[i] = WaitQueue[i - b] /\ i - b \in DOMAIN WaitQueue
    BY <1>1, <1>4, <1>5
  <1>7. \A i \in DOMAIN WaitQueue : WaitQueue[i] # t /\ WaitQueue[i] \in Threads
    BY <1>1 DEF QueueInv, Enqueue
  <1>8. /\ KeyedWaitValue'[t] = Value[t]
        /\ pc'[t] = "Wait"
        /\ \A u \in Threads : u # t => KeyedWaitValue'[u] = KeyedWaitValue[u] /\ pc'[u] = pc[u]
    BY <1>1 DEF Enqueue, Goto, Types
  <1>9. \A i \in DOMAIN WaitQueue' : i # at =>
            /\ KeyedWaitValue'[WaitQueue'[i]] = KeyedWaitValue[WaitQueue[i - b]]
            /\ pc'[WaitQueue'[i]] = pc[WaitQueue[i - b]]
    BY <1>6, <1>7, <1>8
  <1>10. QueueInv'
    <2>1. \A i, j \in DOMAIN WaitQueue' : WaitQueue'[i] = WaitQueue'[j] => i = j
      BY <1>1, <1>4, <1>5, <1>6, <1>7 DEF QueueInv
    <2>2. ASSUME NEW i \in DOMAIN WaitQueue'
          PROVE  /\ pc'[WaitQueue'[i]] \in {"Wait", "Remove"}
                 /\ KeyedWaitValue'[WaitQueue'[i]] \in KeyValues
      BY <1>1, <1>2, <1>4, <1>6, <1>8, <1>9 DEF QueueInv
    <2>3. QED
      BY <2>1, <2>2 DEF QueueInv
  <1>11. OrderInv'
    <2>1. SUFFICES ASSUME NEW i \in DOMAIN WaitQueue', NEW j \in DOMAIN WaitQueue', i < j,
                          KeyedWaitValue'[WaitQueue'[j]].release
                   PROVE  KeyedWaitValue'[WaitQueue'[i]].release
      BY DEF OrderInv
    <2>2. CASE i = at
      BY <1>1, <1>4, <1>8, <2>1, <2>2
    <2>3. CASE j = at
      BY <1>1, <1>4, <1>8, <2>1, <2>3
    <2>4. CASE i # at /\ j # at
      <3>1. i - b \in DOMAIN WaitQueue /\ j - b \in DOMAIN WaitQueue /\ i - b < j - b
        BY <1>4, <1>6, <2>1, <2>4
      <3>2. KeyedWaitValue[WaitQueue[j - b]].release
        BY <1>9, <2>1, <2>4
      <3>3. KeyedWaitValue[WaitQueue[i - b]].release
        BY <1>1, <3>1, <3>2 DEF OrderInv
      <3>4. QED
        BY <1>9, <2>4, <3>3
    <2>5. QED
      BY <2>2, <2>3, <2>4
  <1>12. PairInv'
    <2>1. SUFFICES ASSUME NEW i \in DOMAIN WaitQueue', NEW j \in DOMAIN WaitQueue',
                          KeyedWaitValue'[WaitQueue'[i]].release,
                          ~KeyedWaitValue'[WaitQueue'[j]].release,
                          KeyedWaitValue'[WaitQueue'[i]].key = KeyedWaitValue'[WaitQueue'[j]].key,
                          Process[WaitQueue'[i]] = Process[WaitQueue'[j]]
                   PROVE  FALSE
      BY DEF PairInv
    <2>2. ASSUME NEW k \in DOMAIN WaitQueue,
                 KeyedWaitValue[WaitQueue[k]].release # Value[t].release,
                 KeyedWaitValue[WaitQueue[k]].key = Value[t].key,
                 Process[WaitQueue[k]] = Process[t]
          PROVE  FALSE
      <3>1. KeyedWaitValue[WaitQueue[k]] \in [key : Keys, release : BOOLEAN]
        BY <1>1 DEF QueueInv, KeyValues
      <3>2. KeyedWaitValue[WaitQueue[k]] = [Value[t] EXCEPT !.release = ~@]
        BY <1>2, <2>2, <3>1
      <3>3. QED
        BY <1>3, <2>2, <3>2 DEF Counterparts
    <2>3. CASE i = at /\ j # at
      <3>1. Value[t].release /\ ~KeyedWaitValue[WaitQueue[j - b]].release
        BY <1>4, <1>8, <1>9, <2>1, <2>3
      <3>2. /\ j - b \in DOMAIN WaitQueue
            /\ KeyedWaitValue[WaitQueue[j - b]].key = Value[t].key
            /\ Process[WaitQueue[j - b]] = Process[t]
        BY <1>4, <1>6, <1>8, <1>9, <2>1, <2>3
      <3>3. KeyedWaitValue[WaitQueue[j - b]].release # Value[t].release
        BY <3>1
      <3>4. QED
        BY <2>2, <3>2, <3>3
    <2>4. CASE j = at /\ i # at
      BY <1>4, <1>6, <1>8, <1>9, <2>1, <2>2, <2>4
    <2>5. CASE i # at /\ j # at
      <3>1. i - b \in DOMAIN WaitQueue /\ j - b \in DOMAIN WaitQueue
        BY <1>6, <2>5
      <3>2. /\ KeyedWaitValue[WaitQueue[i - b]].release
            /\ ~KeyedWaitValue[WaitQueue[j - b]].release
            /\ KeyedWaitValue[WaitQueue[i - b]].key = KeyedWaitValue[WaitQueue[j - b]].key
            /\ Process[WaitQueue[i - b]] = Process[WaitQueue[j - b]]
        BY <1>6, <1>9, <2>1, <2>5
      <3>3. QED
        BY <1>1, <3>1, <3>2 DEF PairInv
    <2>6. QED
      BY <2>1, <2>3, <2>4, <2>5
  <1>13. Queued' = Queued \cup {t}
    <2>1. Queued' \subseteq Queued \cup {t}
      BY <1>4, <1>6 DEF Queued
    <2>2. \A k \in DOMAIN WaitQueue : k + b \in DOMAIN WaitQueue' /\ WaitQueue'[k + b] = WaitQueue[k]
      BY <1>1, <1>4
    <2>3. Queued \subseteq Queued'
      BY <2>2 DEF Queued
    <2>4. t \in Queued'
      BY <1>4, <1>5 DEF Queued
    <2>5. QED
      BY <2>1, <2>3, <2>4
  <1>14. QED
    BY <1>4, <1>10, <1>11, <1>12, <1>13
\* The entry a search takes is one it may take.
LEMMA FirstIsOne ==
    ASSUME NEW I \in SUBSET Nat, I # {}
    PROVE  FirstOf(I) \in I
  <1>1. PICK i \in I : \A j \in I : ~(<<j, i>> \in OpToRel(<, Nat))
    BY WFMin, NatLessThanWellFounded
  <1>2. ASSUME NEW j \in I
        PROVE  i <= j
    <2>1. <<j, i>> \in OpToRel(<, Nat) <=> j < i
      BY Zenon DEF OpToRel
    <2>2. ~(j < i)
      BY <1>1, <2>1, Zenon
    <2>3. QED
      BY <2>2
  <1>3. QED
    BY <1>2 DEF FirstOf

----------------------------------------------------------------------------
(* One lemma per action.                                                   *)

\* The invariant holds before the first call.
LEMMA InitIInv ==
    ASSUME Init
    PROVE  IInv
  <1>1. Types
    BY DEF Init, Types
  <1>2. CallInv
    BY DEF Init, CallInv
  <1>3. QueueInv /\ OrderInv /\ PairInv /\ Queued = {}
    BY DEF Init, QueueInv, OrderInv, PairInv, Queued
  <1>4. OwedInv
    BY <1>3, NoneIsNone DEF Init, OwedInv, Wakers, Waiting
  <1>5. QED
    BY <1>1, <1>2, <1>3, <1>4 DEF IInv

\* A call changes nothing of the rendezvous before it has the lock.
LEMMA CallStep ==
    ASSUME IInv, NEW t \in Threads, NEW value \in KeyValues, Call(t, value)
    PROVE  IInv'
  <1>1. Types /\ CallInv /\ QueueInv /\ OrderInv /\ PairInv /\ OwedInv
    BY DEF IInv
  <1>2. Types' /\ CallInv'
    BY <1>1 DEF Call, Goto, Types, CallInv
  <1>3. /\ WaitQueue' = WaitQueue /\ KeyedWaitValue' = KeyedWaitValue /\ Target' = Target
        /\ Semaphore' = Semaphore /\ pc[t] = "idle"
        /\ pc'[t] = "Match" /\ \A u \in Threads : u # t => pc'[u] = pc[u]
    BY <1>1 DEF Call, Goto, Types
  <1>4. \A i \in DOMAIN WaitQueue : WaitQueue[i] \in Threads /\ WaitQueue[i] # t
    BY <1>1, <1>3, QueuedThreads
  <1>5. QueueInv' /\ OrderInv' /\ PairInv' /\ Queued' = Queued
    <2>1. \A i \in DOMAIN WaitQueue :
              /\ pc'[WaitQueue[i]] \in {"Wait", "Remove"}
              /\ KeyedWaitValue'[WaitQueue[i]] = KeyedWaitValue[WaitQueue[i]]
      BY <1>1, <1>3, <1>4 DEF QueueInv
    <2>2. QED
      BY <1>1, <1>3, <2>1, SameQueue
  <1>6. OwedInv'
    BY <1>1, <1>3, <1>5 DEF OwedInv, Wakers, Waiting
  <1>7. QED
    BY <1>2, <1>5, <1>6 DEF IInv

\* Match: the thread taken off the queue is from now on owed a wakeup.
LEMMA MatchStep ==
    ASSUME IInv, NEW t \in Threads, Match(t)
    PROVE  IInv'
  <1>1. Types /\ CallInv /\ QueueInv /\ OrderInv /\ PairInv /\ OwedInv
    BY DEF IInv
  <1>2. FirstOf(Matches(t)) \in DOMAIN WaitQueue
    <2>1. Matches(t) \subseteq DOMAIN WaitQueue /\ Matches(t) # {}
      BY DEF Matches, Counterparts, Match
    <2>2. QED
      BY <1>1, <2>1, FirstIsOne, QueuedThreads
  <1>3. PICK n \in DOMAIN WaitQueue, u \in Threads : n = FirstOf(Matches(t)) /\ u = WaitQueue[n]
    BY <1>1, <1>2, QueuedThreads
  <1>4. /\ WaitQueue' = Without(u) /\ Target' = [Target EXCEPT ![t] = u]
        /\ pc[t] = "Match" /\ pc' = [pc EXCEPT ![t] = "Wake"]
        /\ KeyedWaitValue' = KeyedWaitValue /\ Semaphore' = Semaphore /\ Value' = Value
    BY <1>3 DEF Match, Goto
  <1>5. u \in Threads /\ u # t /\ u \in Queued /\ pc[u] \in {"Wait", "Remove"} /\ t \notin Queued
    BY <1>1, <1>3, <1>4, QueuedThreads
  <1>6. /\ QueueInv' /\ OrderInv' /\ PairInv'
        /\ WaitQueue' \in Seq(Threads) /\ Queued' = Queued \ {u}
    <2>1. \A i \in DOMAIN WaitQueue :
              /\ pc'[WaitQueue[i]] \in {"Wait", "Remove"}
              /\ KeyedWaitValue'[WaitQueue[i]] = KeyedWaitValue[WaitQueue[i]]
      BY <1>1, <1>4, QueuedThreads DEF Types
    <2>2. QED
      BY <1>1, <1>3, <1>4, <2>1, RemovedFromQueue
  <1>7. Types' /\ CallInv'
    BY <1>1, <1>4, <1>5, <1>6, NoneIsNone DEF Types, CallInv
  <1>8. OwedInv'
    <2>1. Target[t] = None
      BY <1>1, <1>4 DEF CallInv
    <2>2. \A v \in Threads : v # u => Wakers(v)' = Wakers(v)
      BY <1>1, <1>4, <2>1, NoneIsNone DEF Wakers, Types
    <2>3. Wakers(u) = {} /\ Semaphore[u] = 0
      BY <1>1, <1>5 DEF OwedInv
    <2>4. Wakers(u)' = {t}
      <3>1. Target'[t] = u /\ \A v \in Threads : v # t => Target'[v] = Target[v]
        BY <1>1, <1>4 DEF Types
      <3>2. QED
        BY <2>3, <3>1 DEF Wakers
    <2>5. ASSUME NEW v \in Threads
          PROVE  IF pc'[v] \in Waiting /\ v \notin Queued'
                 THEN \/ Semaphore'[v] = 1 /\ Wakers(v)' = {}
                      \/ Semaphore'[v] = 0 /\ \E w \in Threads : Wakers(v)' = {w}
                 ELSE Semaphore'[v] = 0 /\ Wakers(v)' = {}
      <3>1. CASE v = u
        <4>1. pc'[u] \in Waiting /\ u \notin Queued' /\ Semaphore'[u] = 0
          BY <1>1, <1>4, <1>5, <1>6, <2>3 DEF Waiting, Types
        <4>2. QED
          BY <2>4, <3>1, <4>1
      <3>2. CASE v # u
        <4>1. (pc'[v] \in Waiting /\ v \notin Queued') <=> (pc[v] \in Waiting /\ v \notin Queued)
          BY <1>1, <1>4, <1>6, <3>2 DEF Waiting, Types
        <4>2. QED
          BY <1>1, <1>4, <2>2, <3>2, <4>1 DEF OwedInv
      <3>3. QED
        BY <3>1, <3>2
    <2>6. QED
      BY <2>5 DEF OwedInv
  <1>9. QED
    BY <1>6, <1>7, <1>8 DEF IInv

\* Enqueue: the thread goes where the order wants it, with nothing owed to it.
LEMMA EnqueueStep ==
    ASSUME IInv, NEW t \in Threads, Enqueue(t)
    PROVE  IInv'
  <1>1. Types /\ CallInv /\ QueueInv /\ OrderInv /\ PairInv /\ OwedInv
    BY DEF IInv
  <1>2. /\ QueueInv' /\ OrderInv' /\ PairInv'
        /\ WaitQueue' \in Seq(Threads) /\ Queued' = Queued \cup {t}
    BY AddedToQueue
  <1>3. Types' /\ CallInv'
    BY <1>1, <1>2 DEF Enqueue, Goto, Types, CallInv
  <1>4. OwedInv'
    <2>1. /\ Semaphore' = Semaphore /\ Target' = Target /\ pc[t] = "Match"
          /\ \A v \in Threads : v # t => pc'[v] = pc[v]
      BY <1>1 DEF Enqueue, Goto, Types
    <2>2. \A v \in Threads : Wakers(v)' = Wakers(v)
      BY <2>1 DEF Wakers
    <2>3. QED
      BY <1>1, <1>2, <2>1, <2>2 DEF OwedInv, Waiting
  <1>5. QED
    BY <1>2, <1>3, <1>4 DEF IInv
\* Woken and Absorb: the thread's own count is taken, and it returns.
LEMMA ConsumeStep ==
    ASSUME IInv, NEW t \in Threads, Woken(t) \/ Absorb(t)
    PROVE  IInv'
  <1>1. Types /\ CallInv /\ QueueInv /\ OrderInv /\ PairInv /\ OwedInv
    BY DEF IInv
  <1>2. /\ pc[t] \in {"Wait", "Absorb"} /\ Semaphore[t] > 0
        /\ WaitQueue' = WaitQueue /\ Target' = Target
        /\ Semaphore' = [Semaphore EXCEPT ![t] = Semaphore[t] - 1]
        /\ pc' = [pc EXCEPT ![t] = "idle"]
        /\ KeyedWaitValue' = [KeyedWaitValue EXCEPT ![t] = None]
        /\ Value' = [Value EXCEPT ![t] = None]
    BY DEF Woken, Absorb, Return, Goto
  <1>3. t \notin Queued /\ Semaphore[t] = 1 /\ Wakers(t) = {}
    BY <1>1, <1>2 DEF OwedInv
  <1>4. QueueInv' /\ OrderInv' /\ PairInv' /\ Queued' = Queued
    <2>1. \A i \in DOMAIN WaitQueue :
              /\ pc'[WaitQueue[i]] \in {"Wait", "Remove"}
              /\ KeyedWaitValue'[WaitQueue[i]] = KeyedWaitValue[WaitQueue[i]]
      BY <1>1, <1>2, <1>3, QueuedThreads DEF Types
    <2>2. QED
      BY <1>1, <1>2, <2>1, SameQueue
  <1>5. Types' /\ CallInv'
    BY <1>1, <1>2, <1>3 DEF Types, CallInv
  <1>6. OwedInv'
    <2>1. \A v \in Threads : Wakers(v)' = Wakers(v)
      BY <1>2 DEF Wakers
    <2>2. /\ pc'[t] = "idle" /\ Semaphore'[t] = 0
          /\ \A v \in Threads : v # t => pc'[v] = pc[v] /\ Semaphore'[v] = Semaphore[v]
      BY <1>1, <1>2, <1>3 DEF Types
    <2>3. QED
      BY <1>1, <1>3, <1>4, <2>1, <2>2 DEF OwedInv, Waiting
  <1>7. QED
    BY <1>4, <1>5, <1>6 DEF IInv

\* Wake: the thread that is owed the count gets it.
LEMMA WakeStep ==
    ASSUME IInv, NEW t \in Threads, Wake(t)
    PROVE  IInv'
  <1>1. Types /\ CallInv /\ QueueInv /\ OrderInv /\ PairInv /\ OwedInv
    BY DEF IInv
  <1>2. PICK u \in Threads : u = Target[t]
    BY <1>1 DEF Wake, CallInv, Types
  <1>3. /\ pc[t] = "Wake" /\ WaitQueue' = WaitQueue
        /\ Semaphore' = [Semaphore EXCEPT ![u] = Semaphore[u] + 1]
        /\ Target' = [Target EXCEPT ![t] = None]
        /\ pc' = [pc EXCEPT ![t] = "idle"]
        /\ KeyedWaitValue' = [KeyedWaitValue EXCEPT ![t] = None]
        /\ Value' = [Value EXCEPT ![t] = None]
    BY <1>2 DEF Wake, Return, Goto
  <1>4. t \notin Queued /\ t \in Wakers(u)
    BY <1>1, <1>2, <1>3, QueuedThreads DEF Wakers
  <1>5. /\ pc[u] \in Waiting /\ u \notin Queued /\ Semaphore[u] = 0 /\ Wakers(u) = {t} /\ u # t
    BY <1>1, <1>3, <1>4 DEF OwedInv, Waiting
  <1>6. QueueInv' /\ OrderInv' /\ PairInv' /\ Queued' = Queued
    <2>1. \A i \in DOMAIN WaitQueue :
              /\ pc'[WaitQueue[i]] \in {"Wait", "Remove"}
              /\ KeyedWaitValue'[WaitQueue[i]] = KeyedWaitValue[WaitQueue[i]]
      BY <1>1, <1>3, <1>4, QueuedThreads DEF Types
    <2>2. QED
      BY <1>1, <1>3, <2>1, SameQueue
  <1>7. Types' /\ CallInv'
    BY <1>1, <1>3 DEF Types, CallInv
  <1>8. OwedInv'
    <2>1. Target'[t] = None /\ \A v \in Threads : v # t => Target'[v] = Target[v]
      BY <1>1, <1>3 DEF Types
    <2>2. Wakers(u)' = {}
      BY <1>5, <2>1, NoneIsNone DEF Wakers
    <2>3. \A v \in Threads : v # u => Wakers(v)' = Wakers(v)
      BY <1>2, <2>1, NoneIsNone DEF Wakers
    <2>4. /\ Semaphore'[u] = 1 /\ \A v \in Threads : v # u => Semaphore'[v] = Semaphore[v]
          /\ pc'[t] = "idle" /\ \A v \in Threads : v # t => pc'[v] = pc[v]
      BY <1>1, <1>3, <1>5 DEF Types
    <2>5. QED
      BY <1>1, <1>3, <1>5, <1>6, <2>2, <2>3, <2>4 DEF OwedInv, Waiting
  <1>9. QED
    BY <1>6, <1>7, <1>8 DEF IInv

\* GiveUp and MustAbsorb: the thread moves on in its wait.
LEMMA MoveStep ==
    ASSUME IInv, NEW t \in Threads, GiveUp(t) \/ MustAbsorb(t)
    PROVE  IInv'
  <1>1. Types /\ CallInv /\ QueueInv /\ OrderInv /\ PairInv /\ OwedInv
    BY DEF IInv
  <1>2. /\ pc[t] \in {"Wait", "Remove"}
        /\ WaitQueue' = WaitQueue /\ KeyedWaitValue' = KeyedWaitValue
        /\ Semaphore' = Semaphore /\ Value' = Value /\ Target' = Target
    BY DEF GiveUp, MustAbsorb
  <1>3. \/ pc' = [pc EXCEPT ![t] = "Remove"]
        \/ pc' = [pc EXCEPT ![t] = "Absorb"] /\ t \notin Queued
    BY DEF GiveUp, MustAbsorb, Goto
  <1>4. QueueInv' /\ OrderInv' /\ PairInv' /\ Queued' = Queued
    <2>1. \A i \in DOMAIN WaitQueue :
              /\ pc'[WaitQueue[i]] \in {"Wait", "Remove"}
              /\ KeyedWaitValue'[WaitQueue[i]] = KeyedWaitValue[WaitQueue[i]]
      BY <1>1, <1>2, <1>3, QueuedThreads DEF Types
    <2>2. QED
      BY <1>1, <1>2, <2>1, SameQueue
  <1>5. Types' /\ CallInv'
    BY <1>1, <1>2, <1>3 DEF Types, CallInv
  <1>6. OwedInv'
    <2>1. \A v \in Threads : Wakers(v)' = Wakers(v)
      BY <1>2 DEF Wakers
    <2>2. \A v \in Threads : pc'[v] \in Waiting <=> pc[v] \in Waiting
      BY <1>1, <1>2, <1>3 DEF Types, Waiting
    <2>3. QED
      BY <1>1, <1>2, <1>4, <2>1, <2>2 DEF OwedInv
  <1>7. QED
    BY <1>4, <1>5, <1>6 DEF IInv

\* Remove: nobody owes a thread anything that is still on the queue.
LEMMA RemoveStep ==
    ASSUME IInv, NEW t \in Threads, Remove(t)
    PROVE  IInv'
  <1>1. Types /\ CallInv /\ QueueInv /\ OrderInv /\ PairInv /\ OwedInv
    BY DEF IInv
  <1>2. PICK n \in DOMAIN WaitQueue : WaitQueue[n] = t
    BY DEF Remove, Queued
  <1>3. /\ pc[t] = "Remove" /\ t \in Queued /\ WaitQueue' = Without(t)
        /\ Semaphore' = Semaphore /\ Target' = Target
        /\ pc' = [pc EXCEPT ![t] = "idle"]
        /\ KeyedWaitValue' = [KeyedWaitValue EXCEPT ![t] = None]
        /\ Value' = [Value EXCEPT ![t] = None]
    BY DEF Remove, Return, Goto
  <1>4. /\ QueueInv' /\ OrderInv' /\ PairInv'
        /\ WaitQueue' \in Seq(Threads) /\ Queued' = Queued \ {t}
    <2>1. \A i \in DOMAIN WaitQueue \ {n} : WaitQueue[i] # t
      BY <1>1, <1>2 DEF QueueInv
    <2>2. \A i \in DOMAIN WaitQueue \ {n} :
              /\ pc'[WaitQueue[i]] \in {"Wait", "Remove"}
              /\ KeyedWaitValue'[WaitQueue[i]] = KeyedWaitValue[WaitQueue[i]]
      BY <1>1, <1>3, <2>1, QueuedThreads DEF Types
    <2>3. QED
      BY <1>1, <1>2, <1>3, <2>2, RemovedFromQueue
  <1>5. Types' /\ CallInv'
    BY <1>1, <1>3, <1>4 DEF Types, CallInv
  <1>6. OwedInv'
    <2>1. \A v \in Threads : Wakers(v)' = Wakers(v)
      BY <1>3 DEF Wakers
    <2>2. pc'[t] = "idle" /\ \A v \in Threads : v # t => pc'[v] = pc[v]
      BY <1>1, <1>3 DEF Types
    <2>3. QED
      BY <1>1, <1>3, <1>4, <2>1, <2>2 DEF OwedInv, Waiting
  <1>7. QED
    BY <1>4, <1>5, <1>6 DEF IInv

\* Every step keeps the invariant.
LEMMA NextIInv ==
    ASSUME IInv, [Next]_vars
    PROVE  IInv'
  <1>1. CASE UNCHANGED vars
    <2>1. Types /\ CallInv /\ QueueInv /\ OrderInv /\ PairInv /\ OwedInv
      BY DEF IInv
    <2>2. Types' /\ CallInv'
      BY <1>1, <2>1 DEF vars, Types, CallInv
    <2>3. QueueInv' /\ OrderInv' /\ PairInv' /\ Queued' = Queued
      BY <1>1, <2>1, SameQueue DEF vars, QueueInv
    <2>4. \A t \in Threads : Wakers(t)' = Wakers(t)
      BY <1>1 DEF vars, Wakers
    <2>5. OwedInv'
      BY <1>1, <2>1, <2>3, <2>4 DEF vars, OwedInv
    <2>6. QED
      BY <2>2, <2>3, <2>5 DEF IInv
  <1>2. CASE Next
    <2>1. PICK t \in Threads :
              \/ \E value \in KeyValues : Call(t, value)
              \/ Match(t) \/ Enqueue(t) \/ Wake(t)
              \/ Woken(t) \/ GiveUp(t) \/ Remove(t) \/ MustAbsorb(t) \/ Absorb(t)
      BY <1>2, Zenon DEF Next
    <2>2. CASE \E value \in KeyValues : Call(t, value)
      BY <2>2, CallStep
    <2>3. CASE Match(t)
      BY <2>3, MatchStep
    <2>4. CASE Enqueue(t)
      BY <2>4, EnqueueStep
    <2>5. CASE Wake(t)
      BY <2>5, WakeStep
    <2>6. CASE Woken(t) \/ Absorb(t)
      BY <2>6, ConsumeStep
    <2>7. CASE GiveUp(t) \/ MustAbsorb(t)
      BY <2>7, MoveStep
    <2>8. CASE Remove(t)
      BY <2>8, RemoveStep
    <2>9. QED
      BY <2>1, <2>2, <2>3, <2>4, <2>5, <2>6, <2>7, <2>8
  <1>3. QED
    BY <1>1, <1>2

----------------------------------------------------------------------------
\* IInv is an invariant of keyed events.
THEOREM Invariant == Spec => []IInv
  <1>1. Init => IInv
    BY InitIInv
  <1>2. IInv /\ [Next]_vars => IInv'
    BY NextIInv
  <1>3. QED
    BY <1>1, <1>2, PTL DEF Spec

\* A waiter and a releaser of one key and process are never both left on the
\* queue, although the waiter's search stops at the first waiter it meets
\* (NtWaitForKeyedEvent).
THEOREM NoMatchIsMissed == Spec => []NoMissedMatch
  <1>1. IInv => NoMissedMatch
    BY DEF IInv, PairInv, NoMissedMatch, Queued
  <1>2. QED
    BY <1>1, Invariant, PTL

\* A thread's semaphore has, or is about to be given, one count exactly while
\* the thread waits and has been taken off the queue: no wakeup is lost, doubled,
\* or left behind by a thread that was timed out (the second wait of
\* NtReleaseKeyedEvent and NtWaitForKeyedEvent).
THEOREM WakeupIsOwed == Spec => []WakeupOwed
  <1>1. IInv => WakeupOwed
    <2>1. SUFFICES ASSUME IInv, NEW t \in Threads
                   PROVE  Semaphore[t] + Cardinality(Wakers(t))
                          = IF pc[t] \in Waiting /\ t \notin Queued THEN 1 ELSE 0
      BY DEF WakeupOwed, Wakers, Waiting
    <2>2. Cardinality({}) = 0 /\ \A u \in Threads : Cardinality({u}) = 1
      BY FS_EmptySet, FS_Singleton
    <2>3. QED
      BY <2>1, <2>2 DEF IInv, OwedInv
  <1>2. QED
    BY <1>1, Invariant, PTL

\* Every variable of KeyedEvent has its type; in particular the semaphore never
\* passes its limit, at which KeReleaseSemaphore would raise an exception.
THEOREM TypeCorrect == Spec => []TypeOK
  <1>1. IInv => TypeOK
    <2>1. SUFFICES ASSUME IInv
                   PROVE  Semaphore \in [Threads -> 0..1]
      BY DEF IInv, Types, TypeOK, Limit
    <2>2. Semaphore \in [Threads -> Nat] /\ \A t \in Threads : Semaphore[t] \in 0..1
      BY <2>1 DEF IInv, Types, OwedInv
    <2>3. QED
      BY <2>2
  <1>2. QED
    BY <1>1, Invariant, PTL
=============================================================================
