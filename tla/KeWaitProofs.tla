---------------------------- MODULE KeWaitProofs ----------------------------
(***************************************************************************)
(* Proofs about the waits on dispatcher objects, for any number of threads *)
(* and objects, any waits they ask for and any APCs and alerts.            *)
(***************************************************************************)
EXTENDS KeWait, FiniteSetTheorems, NaturalsInduction, WellFoundedInduction, TLAPS

\* Of what is counted in an object: an event is 0 or 1, a semaphore is not below
\* zero, and a mutant that is owned is not signalled.
SignalInv ==
    \A o \in Objects :
        /\ Type[o] # "Mutant" => SignalState[o] >= 0
        /\ Type[o] = "Mutant" => SignalState[o] <= 1 /\ (OwnerThread[o] # NULL => SignalState[o] <= 0)
        /\ Abandoned[o] => Type[o] = "Mutant"

\* The threads that wait for an object are on its list, once, and nobody else is.
OnList(t, o) == \E i \in DOMAIN WaitList[o] : WaitList[o][i] = t

ListInv ==
    \A o \in Objects :
        /\ \A i, j \in DOMAIN WaitList[o] : WaitList[o][i] = WaitList[o][j] => i = j
        /\ \A t \in Threads : OnList(t, o) <=> State[t] = "Waiting" /\ o \in ObjectsOf(t)

\* Nothing is taken for a thread whose wait has not been ended.
TakenInv == \A t \in Threads : State[t] # "Ready" => taken[t] = {}

\* An APC that has been inserted is pending, or held back; a thread that waits
\* has none that should end its wait but the one that is being inserted.
ApcsInOrder(t) ==
    /\ "special" \in ApcList[t] => inserting[t] = "special" \/ KernelApcPending[t]
    /\ "normal" \in ApcList[t] => inserting[t] = "normal" \/ KernelApcPending[t] \/ KernelApcDisable[t]
    /\ "exit" \in ApcList[t] => UserApcPending[t]
    /\ State[t] = "Waiting" =>
          /\ "special" \in ApcList[t] => inserting[t] = "special"
          /\ "normal" \in ApcList[t] => inserting[t] = "normal" \/ KernelApcDisable[t]
          /\ UserApcFor(t) => inserting[t] \in UserApcs
          /\ ~AlertFor(t)

ApcInv == \A t \in Threads : ApcsInOrder(t)

\* The inductive invariant
IInv == TypeOK /\ SignalInv /\ ListInv /\ TakenInv /\ ApcInv /\ StatusTruthful /\ NoStrandedWaiter

----------------------------------------------------------------------------
(* Positions of a list *)

\* A set of positions has a first one,
LEMMA LeastPosition ==
    ASSUME NEW I \in SUBSET Nat, I # {}
    PROVE  \E i \in I : \A j \in I : i <= j
  <1>1. PICK i \in I : \A j \in I : ~(<<j, i>> \in OpToRel(<, Nat))
    BY WFMin, NatLessThanWellFounded
  <1>2. ASSUME NEW j \in I
        PROVE  i <= j
    <2>1. <<j, i>> \in OpToRel(<, Nat) <=> j < i
      BY Zenon DEF OpToRel
    <2>2. ~(j < i)
      BY <1>1, <2>1, Zenon
    <2> QED  BY <2>2
  <1> QED  BY <1>2

\* and a bounded one a last one.
LEMMA LastPosition ==
    ASSUME NEW n \in Nat, NEW I \in SUBSET (1..n), I # {}
    PROVE  \E i \in I : \A j \in I : j <= i
  <1> DEFINE D == {n - i : i \in I}
  <1>1. D \in SUBSET Nat /\ D # {}
    <2>1. ASSUME NEW i \in I PROVE n - i \in Nat
      <3>1. i \in 1..n
        OBVIOUS
      <3> QED  BY <3>1
    <2> QED  BY <2>1
  <1>2. PICK d \in D : \A e \in D : d <= e
    BY <1>1, LeastPosition
  <1>3. PICK i \in I : d = n - i
    OBVIOUS
  <1>4. ASSUME NEW j \in I
        PROVE  j <= i
    <2>1. n - j \in D
      OBVIOUS
    <2>2. n - i <= n - j
      BY <1>2, <1>3, <2>1
    <2>3. i \in 1..n /\ j \in 1..n
      OBVIOUS
    <2> QED  BY <2>2, <2>3
  <1> QED  BY <1>4

\* The positions up to i are finitely many; no two have as many up to them.
LEMMA RankOf ==
    ASSUME NEW n \in Nat, NEW I \in SUBSET (1..n)
    PROVE  /\ IsFiniteSet(I) /\ Cardinality(I) \in Nat
           /\ \A i \in I : Cardinality({j \in I : j <= i}) \in 1..Cardinality(I)
           /\ \A i, k \in I : i < k =>
                 Cardinality({j \in I : j <= i}) < Cardinality({j \in I : j <= k})
  <1>1. IsFiniteSet(I) /\ Cardinality(I) \in Nat
    <2>1. IsFiniteSet(1..n)
      BY FS_Interval
    <2> QED  BY <2>1, FS_Subset, FS_CardinalityType
  <1>2. ASSUME NEW J \in SUBSET I
        PROVE  IsFiniteSet(J) /\ Cardinality(J) \in Nat /\ Cardinality(J) <= Cardinality(I)
    BY <1>1, FS_Subset, FS_CardinalityType
  <1>3. ASSUME NEW i \in I
        PROVE  Cardinality({j \in I : j <= i}) \in 1..Cardinality(I)
    <2> DEFINE J == {j \in I : j <= i}
    <2>1. J \in SUBSET I /\ i \in J
      OBVIOUS
    <2>2. Cardinality(J) # 0
      BY <1>2, <2>1, FS_EmptySet
    <2> QED  BY <1>1, <1>2, <2>1, <2>2
  <1>4. ASSUME NEW i \in I, NEW k \in I, i < k
        PROVE  Cardinality({j \in I : j <= i}) < Cardinality({j \in I : j <= k})
    <2> DEFINE J == {j \in I : j <= i}
               K == {j \in I : j <= k}
    <2>1. J \in SUBSET K /\ k \in K /\ k \notin J
      <3>1. i \in Int /\ k \in Int /\ \A j \in I : j \in Int
        OBVIOUS
      <3>2. ~(k <= i) /\ k <= k /\ \A j \in I : j <= i => j <= k
        BY <1>4, <3>1
      <3> QED  BY <3>2
    <2>2. IsFiniteSet(K) /\ Cardinality(K) \in Nat /\ Cardinality(J) \in Nat
      BY <1>2
    <2>3. Cardinality(J) <= Cardinality(K) /\ Cardinality(J) # Cardinality(K)
      BY <2>1, <2>2, FS_Subset
    <2> QED  BY <2>2, <2>3
  <1> QED  BY <1>1, <1>3, <1>4

\* Some position is the k-th.
LEMMA KthPosition ==
    ASSUME NEW n \in Nat, NEW I \in SUBSET (1..n), NEW k \in 1..Cardinality(I)
    PROVE  \E i \in I : Cardinality({j \in I : j <= i}) = k
  <1> DEFINE R(i) == Cardinality({j \in I : j <= i})
             K == {i \in I : R(i) >= k}
  <1>1. IsFiniteSet(I) /\ Cardinality(I) \in Nat /\ \A i \in I : R(i) \in 1..Cardinality(I)
    BY RankOf
  <1>2. K # {}
    <2>1. I # {}
      BY <1>1, FS_EmptySet
    <2>2. PICK i \in I : \A j \in I : j <= i
      BY <2>1, LastPosition
    <2>3. {j \in I : j <= i} = I
      BY <2>2
    <2> QED  BY <1>1, <2>3
  <1>3. PICK i \in K : \A j \in K : i <= j
    <2>1. \A x \in I : x \in Nat
      OBVIOUS
    <2>2. K \in SUBSET Nat
      BY <2>1
    <2> QED  BY <1>2, <2>2, LeastPosition
  <1> DEFINE B == {j \in I : j < i}
  <1>a. i \in I /\ \A j \in I : j \in Nat
    OBVIOUS
  <1>4. \A j \in B : R(j) < k
    <2> SUFFICES ASSUME NEW j \in B PROVE R(j) < k
      OBVIOUS
    <2>1. j \notin K /\ j \in I
      BY <1>3
    <2> QED  BY <1>1, <2>1
  <1>5. R(i) <= k
    <2>1. CASE B = {}
      <3>1. {j \in I : j <= i} = {i}
        <4>1. i <= i /\ \A j \in I : j <= i => j = i
          BY <2>1, <1>a
        <4> QED  BY <4>1, <1>a
      <3> QED  BY <3>1, FS_Singleton
    <2>2. CASE B # {}
      <3>1. PICK m \in B : \A j \in B : j <= m
        <4>1. B \in SUBSET (1..n)
          OBVIOUS
        <4> QED  BY <2>2, <4>1, LastPosition
      <3>2. {j \in I : j <= i} = {j \in I : j <= m} \cup {i}
        <4>1. i <= i /\ m \in I /\ \A j \in I : j <= i <=> j <= m \/ j = i
          BY <3>1, <1>a
        <4> QED  BY <4>1, <1>a
      <3>3. i \notin {j \in I : j <= m} /\ IsFiniteSet({j \in I : j <= m})
        BY <1>1, FS_Subset
      <3>4. R(i) = R(m) + 1
        BY <3>2, <3>3, FS_AddElement
      <3>5. R(m) < k /\ R(m) \in Nat
        BY <1>1, <1>4, <3>1
      <3> QED  BY <3>4, <3>5
    <2> QED  BY <2>1, <2>2
  <1>6. R(i) = k
    BY <1>1, <1>3, <1>5
  <1> QED  BY <1>3, <1>6

\* Without keeps the members of a list that are not in T, and no other, and each
\* as often as it was there.
LEMMA WithoutKeeps ==
    ASSUME NEW S, NEW s \in Seq(S), NEW T
    PROVE  /\ Without(s, T) \in Seq(S)
           /\ \A x : (\E k \in DOMAIN Without(s, T) : Without(s, T)[k] = x)
                        <=> x \notin T /\ \E i \in DOMAIN s : s[i] = x
           /\ (\A i, j \in DOMAIN s : s[i] = s[j] => i = j) =>
                 \A i, j \in DOMAIN Without(s, T) : Without(s, T)[i] = Without(s, T)[j] => i = j
  <1> DEFINE n == Len(s)
             I == {i \in DOMAIN s : s[i] \notin T}
             R(i) == Cardinality({j \in I : j <= i})
             m == Cardinality(I)
             W == [k \in 1..m |-> s[CHOOSE i \in I : R(i) = k]]
  <1>1. n \in Nat /\ I \in SUBSET (1..n)
    OBVIOUS
  <1>2. Without(s, T) = W
    BY DEF Without
  <1>3. m \in Nat /\ (\A i \in I : R(i) \in 1..m) /\ (\A i, k \in I : i < k => R(i) < R(k))
    BY <1>1, RankOf
  <1>4. \A k \in 1..m : \E i \in I : R(i) = k
    BY <1>1, KthPosition
  <1>5. \A i, k \in I : R(i) = R(k) => i = k
    <2> SUFFICES ASSUME NEW i \in I, NEW k \in I, R(i) = R(k)  PROVE  i = k
      OBVIOUS
    <2> HIDE DEF R, m
    <2>1. i \in Int /\ k \in Int /\ R(i) \in Int
      BY <1>1, <1>3
    <2>2. ~(i < k) /\ ~(k < i)
      BY <1>3, <2>1
    <2> HIDE DEF I
    <2> QED  BY <2>1, <2>2
  <1> HIDE DEF R, m
  <1>6. \A i \in I : (CHOOSE j \in I : R(j) = R(i)) = i
    BY <1>5
  <1>7. \A k \in 1..m : (CHOOSE i \in I : R(i) = k) \in I /\ R(CHOOSE i \in I : R(i) = k) = k
    BY <1>4
  <1>8. W \in Seq(S)
    <2>1. \A i \in I : s[i] \in S
      OBVIOUS
    <2>2. W \in [1..m -> S]
      BY <1>7, <2>1
    <2> HIDE DEF W
    <2> QED  BY <1>3, <2>2
  <1>9. \A x : (\E k \in DOMAIN W : W[k] = x) <=> x \notin T /\ \E i \in DOMAIN s : s[i] = x
    <2>1. ASSUME NEW k \in DOMAIN W
          PROVE  W[k] \notin T /\ \E i \in DOMAIN s : s[i] = W[k]
      BY <1>7
    <2>2. ASSUME NEW i \in DOMAIN s, s[i] \notin T
          PROVE  \E k \in DOMAIN W : W[k] = s[i]
      <3>1. i \in I
        BY <2>2
      <3>2. R(i) \in 1..m
        BY <1>3, <3>1
      <3>3. W[R(i)] = s[i]
        BY <3>1, <3>2, <1>6
      <3> QED  BY <3>2, <3>3
    <2> HIDE DEF W, I
    <2> QED  BY <2>1, <2>2, Zenon
  <1>10. ASSUME \A i, j \in DOMAIN s : s[i] = s[j] => i = j
         PROVE  \A i, j \in DOMAIN W : W[i] = W[j] => i = j
    <2>1. DOMAIN W = 1..m
      OBVIOUS
    <2>2. \A k \in 1..m : \E i \in I : R(i) = k /\ W[k] = s[i]
      BY <1>7
    <2> SUFFICES ASSUME NEW k \in 1..m, NEW l \in 1..m, W[k] = W[l]  PROVE  k = l
      BY <2>1
    <2>3. PICK i \in I : R(i) = k /\ W[k] = s[i]
      BY <2>2
    <2>4. PICK j \in I : R(j) = l /\ W[l] = s[j]
      BY <2>2
    <2>5. i \in DOMAIN s /\ j \in DOMAIN s
      OBVIOUS
    <2> HIDE DEF W, I
    <2> QED  BY <1>10, <2>3, <2>4, <2>5
  <1> HIDE DEF W, I
  <1> QED  BY <1>2, <1>8, <1>9, <1>10, Zenon

\* P are the positions of A that fewer than n of A come before.  There are n of
\* them, or A has fewer and there is no position n of A come before.
LEMMA FirstOfMany ==
    ASSUME NEW l \in Nat, NEW A \in SUBSET (1..l), NEW n \in Nat \ {0}
    PROVE  LET P == {i \in A : Cardinality({j \in A : j < i}) < n}
           IN  /\ IsFiniteSet(P) /\ Cardinality(P) \in Nat /\ Cardinality(P) <= n
               /\ \A u \in 1..l : ~(Cardinality({j \in A : j < u}) < n) => Cardinality(P) = n
  <1> DEFINE B(i) == {j \in A : j < i}
             P == {i \in A : Cardinality(B(i)) < n}
  <1>1. IsFiniteSet(A)
    <2>1. IsFiniteSet(1..l)
      BY FS_Interval
    <2> QED  BY <2>1, FS_Subset
  <1>2. \A C \in SUBSET A : IsFiniteSet(C) /\ Cardinality(C) \in Nat
    BY <1>1, FS_Subset, FS_CardinalityType
  <1>3. \A i \in A : i \in Int
    OBVIOUS
  <1>4. IsFiniteSet(P) /\ Cardinality(P) \in Nat
    BY <1>2
  <1>5. Cardinality(P) <= n
    <2>1. CASE P = {}
      <3> HIDE DEF P
      <3>1. Cardinality(P) = 0
        BY <2>1, FS_EmptySet
      <3> QED  BY <3>1
    <2>2. CASE P # {}
      <3>1. PICK i \in P : \A j \in P : j <= i
        <4>1. P \in SUBSET (1..l)
          OBVIOUS
        <4> QED  BY <2>2, <4>1, LastPosition
      <3>2. P \subseteq B(i) \cup {i}
        <4>1. \A j \in P : j \in A /\ (j < i \/ j = i)
          BY <1>3, <3>1
        <4> QED  BY <4>1
      <3>3. i \notin B(i)
        BY <1>3
      <3>4. IsFiniteSet(B(i)) /\ Cardinality(B(i)) \in Nat /\ Cardinality(B(i)) < n
        BY <1>2, <3>1
      <3> HIDE DEF B, P
      <3>5. IsFiniteSet(B(i) \cup {i}) /\ Cardinality(B(i) \cup {i}) = Cardinality(B(i)) + 1
        BY <3>3, <3>4, FS_AddElement
      <3>6. Cardinality(P) <= Cardinality(B(i) \cup {i})
        BY <3>2, <3>5, FS_Subset
      <3> QED  BY <1>4, <3>4, <3>5, <3>6
    <2> QED  BY <2>1, <2>2
  <1>6. ASSUME NEW u \in 1..l, ~(Cardinality(B(u)) < n)
        PROVE  Cardinality(P) = n
    <2> DEFINE U == {i \in 1..l : ~(Cardinality(B(i)) < n)}
    <2>1. PICK i \in U : \A j \in U : i <= j
      <3>1. U \in SUBSET Nat
        OBVIOUS
      <3>2. u \in U
        BY <1>6
      <3> HIDE DEF U
      <3> QED  BY <3>1, <3>2, LeastPosition
    <2>2. B(i) \in SUBSET P
      <3> SUFFICES ASSUME NEW j \in B(i)  PROVE  j \in P
        OBVIOUS
      <3>1. j \in A /\ j < i /\ j \in 1..l /\ i \in 1..l
        OBVIOUS
      <3>2. j \notin U
        BY <2>1, <3>1
      <3> QED  BY <3>1, <3>2
    <2>3. B(i) \in SUBSET A
      OBVIOUS
    <2>4. ~(Cardinality(B(i)) < n)
      OBVIOUS
    <2> HIDE DEF B, P
    <2>5. Cardinality(B(i)) <= Cardinality(P) /\ Cardinality(B(i)) \in Nat
      BY <1>2, <1>4, <2>2, <2>3, FS_Subset
    <2> QED  BY <1>4, <1>5, <2>4, <2>5
  <1> QED  BY <1>4, <1>5, <1>6

\* The waits a signal ends: as many waits for any as its count allows, and if
\* some thread is left on the list, exactly so many, unless the event stays set.
LEMMA Counting ==
    ASSUME TypeOK, ListInv, NEW o \in Objects, NEW n \in Nat \ {0}
    PROVE  /\ \A t \in Woken(o, n) : t \in Threads /\ OnList(t, o)
           /\ IsFiniteSet(Takers(o, n)) /\ Cardinality(Takers(o, n)) \in Nat
           /\ Type[o] # "NotificationEvent" =>
                 /\ Cardinality(Takers(o, n)) <= n
                 /\ (\E t \in Threads : OnList(t, o) /\ t \notin Woken(o, n)) =>
                       Cardinality(Takers(o, n)) = n
           /\ Type[o] = "NotificationEvent" => \A t \in Threads : OnList(t, o) => t \in Woken(o, n)
  <1> DEFINE s == WaitList[o]
             l == Len(s)
             A == {i \in 1..l : WaitsForAny(s[i])}
             B(i) == {j \in A : j < i}
             P == {i \in A : Cardinality(B(i)) < n}
  <1>1. s \in Seq(Threads) /\ l \in Nat /\ DOMAIN s = 1..l /\ \A i \in 1..l : s[i] \in Threads
    BY DEF TypeOK
  <1>2. \A i, j \in 1..l : s[i] = s[j] => i = j
    BY <1>1 DEF ListInv
  <1>3. ASSUME NEW i \in 1..l
        PROVE  {j \in 1..(i - 1) : WaitsForAny(s[j])} = B(i)
    <2>1. \A j : j \in 1..(i - 1) <=> j \in 1..l /\ j < i
      BY <1>1
    <2> QED  BY <2>1
  <1> DEFINE Q == {i \in 1..l : Type[o] = "NotificationEvent" \/ Cardinality(B(i)) < n}
  <1>4. Woken(o, n) = {s[i] : i \in Q}
    <2>1. \A i \in 1..l : Cardinality({j \in 1..(i - 1) : WaitsForAny(s[j])}) = Cardinality(B(i))
      BY <1>3
    <2> HIDE DEF B, s, l
    <2> QED  BY <1>1, <2>1 DEF Woken, s
  <1> HIDE DEF s, l
  <1>5. \A t \in Woken(o, n) : t \in Threads /\ OnList(t, o)
    BY <1>1, <1>4 DEF OnList, s
  <1>6. ASSUME NEW t \in Threads, OnList(t, o)
        PROVE  \E i \in 1..l : s[i] = t
    BY <1>1, <1>6 DEF OnList, s
  <1>7. CASE Type[o] = "NotificationEvent"
    <2>1. Q = 1..l
      BY <1>7
    <2>2. \A t \in Threads : OnList(t, o) => t \in Woken(o, n)
      BY <1>4, <1>6, <2>1
    <2>3. Takers(o, n) = {s[i] : i \in A}
      BY <1>4, <2>1 DEF Takers
    <2>4. [i \in A |-> s[i]] \in Surjection(A, {s[i] : i \in A})
      BY DEF Surjection
    <2>5. IsFiniteSet(A)
      <3>1. IsFiniteSet(1..l)
        BY <1>1, FS_Interval
      <3>2. A \in SUBSET (1..l)
        OBVIOUS
      <3> QED  BY <3>1, <3>2, FS_Subset
    <2>6. IsFiniteSet(Takers(o, n))
      BY <2>3, <2>4, <2>5, FS_Surjection
    <2> QED  BY <1>5, <1>7, <2>2, <2>6, FS_CardinalityType
  <1>8. CASE Type[o] # "NotificationEvent"
    <2>1. Takers(o, n) = {s[i] : i \in P}
      BY <1>4, <1>8 DEF Takers
    <2>2. A \in SUBSET (1..l)
      OBVIOUS
    <2>3. /\ IsFiniteSet(P) /\ Cardinality(P) \in Nat /\ Cardinality(P) <= n
          /\ \A u \in 1..l : ~(Cardinality(B(u)) < n) => Cardinality(P) = n
      <3> HIDE DEF A
      <3> QED  BY <1>1, <2>2, FirstOfMany
    <2>4. [i \in P |-> s[i]] \in Bijection(P, {s[i] : i \in P})
      <3>1. \A i, j \in P : s[i] = s[j] => i = j
        BY <1>2
      <3> HIDE DEF P
      <3> DEFINE f == [i \in P |-> s[i]]
      <3>2. f \in Injection(P, {s[i] : i \in P})
        BY <3>1 DEF Injection, IsInjective
      <3>3. f \in Surjection(P, {s[i] : i \in P})
        BY DEF Surjection
      <3> QED  BY <3>2, <3>3 DEF Bijection
    <2>5. IsFiniteSet(Takers(o, n)) /\ Cardinality(Takers(o, n)) = Cardinality(P)
      <3>1. ExistsBijection(P, {s[i] : i \in P})
        BY <2>4 DEF ExistsBijection
      <3> HIDE DEF P
      <3> QED  BY <2>1, <2>3, <3>1, FS_Bijection
    <2>6. ASSUME NEW t \in Threads, OnList(t, o), t \notin Woken(o, n)
          PROVE  Cardinality(Takers(o, n)) = n
      <3>1. PICK u \in 1..l : s[u] = t
        BY <1>6, <2>6
      <3>2. u \notin Q
        BY <1>4, <2>6, <3>1
      <3>3. ~(Cardinality(B(u)) < n)
        BY <3>2
      <3> QED  BY <2>3, <2>5, <3>3
    <2> HIDE DEF P
    <2> QED  BY <1>5, <1>8, <2>3, <2>5, <2>6
  <1> QED  BY <1>7, <1>8

----------------------------------------------------------------------------
(* The steps: those that signal an object and those of one thread *)

Signal(o) ==
    \/ KeSetEvent(o) \/ KePulseEvent(o) \/ KeResetEvent(o) \/ KeSetEventBoostPriority(o)
    \/ \E n \in 1..Limit : KeReleaseSemaphore(o, n)
    \/ \E t \in Threads : KeReleaseMutant(t, o) \/ KeRundownThread(t, o)

ThreadStep(t) ==
    \/ \E w \in Waits[t] : BeginWait(t, w)
    \/ WaitStep(t)
    \/ Tick(t)
    \/ \E mode \in {KernelMode, UserMode} : KeAlertThread(t, mode)
    \/ \E apc \in KernelApcs \cup UserApcs : KeInsertQueueApc(t, apc)
    \/ InsertedApc(t) \/ ApcInterrupt(t) \/ DeliverUserApc(t)
    \/ KeEnterCriticalRegion(t) \/ KeLeaveCriticalRegion(t)

\* A step is a signal of an object or a step of one thread.
LEMMA Steps == Next <=> (\E o \in Objects : Signal(o)) \/ (\E t \in Threads : ThreadStep(t))
  BY DEF Next, Signal, ThreadStep

\* The step of one thread changes nothing of the others.
OthersStay(t) ==
    \A u \in Threads \ {t} :
        /\ State'[u] = State[u] /\ Wait'[u] = Wait[u] /\ WaitStatus'[u] = WaitStatus[u]
        /\ due'[u] = due[u] /\ taken'[u] = taken[u] /\ Alerted'[u] = Alerted[u]
        /\ ApcList'[u] = ApcList[u] /\ inserting'[u] = inserting[u]
        /\ KernelApcPending'[u] = KernelApcPending[u] /\ UserApcPending'[u] = UserApcPending[u]
        /\ KernelApcDisable'[u] = KernelApcDisable[u]

\* What a wait asks for has its type.
LEMMA Requests ==
    /\ NoWaitYet \in WaitRequest
    /\ \A w \in WaitRequest :
          /\ w.Object \in Seq(Objects) /\ w.WaitType \in {"Any", "All"}
          /\ w.Alertable \in BOOLEAN /\ w.WaitMode \in {KernelMode, UserMode}
  BY DEF NoWaitYet, WaitRequest

\* The statuses have their type.
LEMMA Statuses ==
    /\ \A code \in {"KEY", "KERNEL_APC", "USER_APC", "ALERTED", "TIMEOUT"} :
          /\ Status(code) \in StatusType
          /\ Status(code).code = code /\ Status(code).abandoned = FALSE
    /\ STATUS_SUCCESS \in StatusType
    /\ STATUS_SUCCESS.code = "KEY" /\ STATUS_SUCCESS.key = 0 /\ STATUS_SUCCESS.abandoned = FALSE
    /\ \A k \in Nat, a \in BOOLEAN : [code |-> "KEY", key |-> k, abandoned |-> a] \in StatusType
  BY DEF Status, STATUS_SUCCESS, StatusType

\* The objects of a wait and their keys.
LEMMA ObjectsWaitedFor ==
    ASSUME TypeOK, NEW t \in Threads
    PROVE  /\ Wait[t] \in WaitRequest /\ Wait[t].Object \in Seq(Objects)
           /\ DOMAIN Wait[t].Object \subseteq Nat \ {0}
           /\ \A i \in DOMAIN Wait[t].Object : Wait[t].Object[i] \in Objects
           /\ ObjectsOf(t) \subseteq Objects
           /\ \A o \in ObjectsOf(t) : /\ Key(t, o) \in Nat /\ Key(t, o) + 1 \in DOMAIN Wait[t].Object
                                     /\ Wait[t].Object[Key(t, o) + 1] = o
  <1>1. Wait[t] \in WaitRequest /\ Wait[t].Object \in Seq(Objects)
    BY Requests DEF TypeOK
  <1> DEFINE s == Wait[t].Object
  <1>2. DOMAIN s \subseteq Nat \ {0} /\ \A i \in DOMAIN s : s[i] \in Objects
    BY <1>1
  <1>3. ASSUME NEW o \in ObjectsOf(t)
        PROVE  Key(t, o) \in Nat /\ Key(t, o) + 1 \in DOMAIN s /\ s[Key(t, o) + 1] = o
    <2> DEFINE i == CHOOSE i \in DOMAIN s : s[i] = o
    <2>1. i \in DOMAIN s /\ s[i] = o
      BY <1>3 DEF ObjectsOf
    <2>2. Key(t, o) = i - 1
      BY DEF Key
    <2> HIDE DEF i
    <2>3. i \in Nat \ {0}
      BY <1>2, <2>1
    <2>4. i - 1 \in Nat /\ (i - 1) + 1 = i
      BY <2>3
    <2> QED  BY <2>1, <2>2, <2>4
  <1> HIDE DEF s
  <1>4. ObjectsOf(t) \subseteq Objects
    BY <1>2 DEF ObjectsOf, s
  <1> QED  BY <1>1, <1>2, <1>3, <1>4 DEF s

\* A wait that is satisfied at once takes objects it waits for and can take.
LEMMA TakesWhatItCan ==
    ASSUME TypeOK, NEW t \in Threads, CanBeSatisfied(t)
    PROVE  /\ ToTake(t) \subseteq ObjectsOf(t) /\ ObjectsOf(t) \subseteq Objects
           /\ \A o \in ToTake(t) : CanTake(t, o)
           /\ WaitsForAny(t) => /\ First(Takeable(t)) \in Nat \ {0}
                                /\ ToTake(t) = {Wait[t].Object[First(Takeable(t))]}
  <1>1. /\ DOMAIN Wait[t].Object \subseteq Nat \ {0}
        /\ \A i \in DOMAIN Wait[t].Object : Wait[t].Object[i] \in ObjectsOf(t)
        /\ ObjectsOf(t) \subseteq Objects
    BY ObjectsWaitedFor DEF ObjectsOf
  <1>2. CASE WaitsForAny(t)
    <2>1. Takeable(t) \in SUBSET Nat /\ Takeable(t) # {}
      BY <1>1, <1>2 DEF CanBeSatisfied, Takeable
    <2>2. \E i \in Takeable(t) : \A j \in Takeable(t) : i <= j
      BY <2>1, LeastPosition
    <2>3. First(Takeable(t)) \in Takeable(t)
      BY <2>2 DEF First
    <2> QED  BY <1>1, <1>2, <2>1, <2>3 DEF ToTake, Takeable
  <1>3. CASE ~WaitsForAny(t)
    <2>1. Takeable(t) = DOMAIN Wait[t].Object
      BY <1>3 DEF CanBeSatisfied
    <2>2. \A i \in DOMAIN Wait[t].Object : CanTake(t, Wait[t].Object[i])
      BY <2>1 DEF Takeable
    <2>3. \A o \in ObjectsOf(t) : CanTake(t, o)
      BY <2>2 DEF ObjectsOf
    <2> QED  BY <1>1, <1>3, <2>3 DEF ToTake
  <1> QED  BY <1>2, <1>3

\* The wait of the threads of T is ended.
LEMMA ListUnlinked ==
    ASSUME TypeOK, ListInv, NEW T \in SUBSET Threads,
           WaitList' = Unlinked(T), Wait' = Wait,
           \A t \in T : State'[t] # "Waiting",
           \A t \in Threads \ T : State'[t] = State[t]
    PROVE  WaitList' \in [Objects -> Seq(Threads)] /\ ListInv'
  <1>1. ASSUME NEW o \in Objects
        PROVE  /\ WaitList'[o] \in Seq(Threads)
               /\ \A x : (\E k \in DOMAIN WaitList'[o] : WaitList'[o][k] = x)
                            <=> x \notin T /\ \E i \in DOMAIN WaitList[o] : WaitList[o][i] = x
               /\ \A i, j \in DOMAIN WaitList'[o] : WaitList'[o][i] = WaitList'[o][j] => i = j
    <2>1. WaitList[o] \in Seq(Threads)
      BY DEF TypeOK
    <2>2. WaitList'[o] = Without(WaitList[o], T)
      BY DEF Unlinked
    <2>3. \A i, j \in DOMAIN WaitList[o] : WaitList[o][i] = WaitList[o][j] => i = j
      BY DEF ListInv
    <2> QED  BY <2>1, <2>2, <2>3, WithoutKeeps
  <1>2. WaitList' \in [Objects -> Seq(Threads)]
    <2>1. WaitList' = [o \in Objects |-> WaitList'[o]]
      BY DEF Unlinked
    <2> QED  BY <1>1, <2>1
  <1>3. ASSUME NEW o \in Objects, NEW t \in Threads
        PROVE  OnList(t, o)' <=> State'[t] = "Waiting" /\ o \in ObjectsOf(t)'
    <2>1. OnList(t, o)' <=> t \notin T /\ OnList(t, o)
      BY <1>1 DEF OnList
    <2>2. OnList(t, o) <=> State[t] = "Waiting" /\ o \in ObjectsOf(t)
      BY DEF ListInv
    <2>3. ObjectsOf(t)' = ObjectsOf(t)
      BY DEF ObjectsOf
    <2> QED  BY <2>1, <2>2, <2>3
  <1> QED  BY <1>1, <1>2, <1>3 DEF ListInv

\* The wait lists are right as long as nobody begins or ends a wait.
LEMMA ListKept ==
    ASSUME ListInv, WaitList' = WaitList,
           \A t \in Threads : State'[t] = "Waiting" <=> State[t] = "Waiting",
           \A t \in Threads : State[t] = "Waiting" => Wait'[t] = Wait[t]
    PROVE  ListInv'
  <1>1. ASSUME NEW o \in Objects, NEW t \in Threads
        PROVE  OnList(t, o)' <=> State'[t] = "Waiting" /\ o \in ObjectsOf(t)'
    <2>1. OnList(t, o)' <=> OnList(t, o)
      BY DEF OnList
    <2>2. OnList(t, o) <=> State[t] = "Waiting" /\ o \in ObjectsOf(t)
      BY DEF ListInv
    <2>3. State[t] = "Waiting" => ObjectsOf(t)' = ObjectsOf(t)
      BY DEF ObjectsOf
    <2> QED  BY <2>1, <2>2, <2>3
  <1> QED  BY <1>1 DEF ListInv

\* A thread whose objects can be taken no better than before stays where it is.
LEMMA StillWaits ==
    ASSUME TypeOK, NEW t \in Threads, ~CanBeSatisfied(t), Wait'[t] = Wait[t],
           \A o \in Objects : CanTake(t, o)' => CanTake(t, o)
    PROVE  ~CanBeSatisfied(t)'
  <1>1. \A i \in DOMAIN Wait[t].Object : Wait[t].Object[i] \in Objects
    BY ObjectsWaitedFor
  <1>2. Takeable(t)' \subseteq Takeable(t) /\ Takeable(t) \subseteq DOMAIN Wait[t].Object
    BY <1>1 DEF Takeable
  <1>3. WaitsForAny(t)' <=> WaitsForAny(t)
    BY DEF WaitsForAny
  <1> QED  BY <1>2, <1>3 DEF CanBeSatisfied

----------------------------------------------------------------------------
(* APCs and alerts *)

\* A signal wakes threads and leaves requests, timers and APCs alone.
LEMMA SignalFrame ==
    ASSUME TypeOK, NEW o \in Objects, Signal(o)
    PROVE  /\ UNCHANGED <<Wait, due, Alerted, apcs>>
           /\ \A t \in Threads : State'[t] = State[t] \/ State'[t] = "Ready"
  <1>1. ASSUME NEW n, NEW state, NEW abandoned, WaitTest(o, n, state, abandoned)
        PROVE  \A t \in Threads : State'[t] = State[t] \/ State'[t] = "Ready"
    BY <1>1 DEF WaitTest
  <1>2. ASSUME NEW t \in Threads, State' = [State EXCEPT ![t] = "Ready"]
        PROVE  \A u \in Threads : State'[u] = State[u] \/ State'[u] = "Ready"
    BY <1>2 DEF TypeOK
  <1>3. CASE KeSetEvent(o)
    BY <1>1, <1>3 DEF KeSetEvent
  <1>4. CASE KePulseEvent(o)
    BY <1>1, <1>4 DEF KePulseEvent
  <1>5. CASE KeResetEvent(o)
    BY <1>5 DEF KeResetEvent
  <1>6. CASE KeSetEventBoostPriority(o)
    <2>1. WaitList[o] # <<>> => Head(WaitList[o]) \in Threads
      BY DEF TypeOK
    <2> QED  BY <1>1, <1>2, <1>6, <2>1 DEF KeSetEventBoostPriority, Unwait
  <1>7. ASSUME NEW n \in 1..Limit, KeReleaseSemaphore(o, n)
        PROVE  /\ UNCHANGED <<Wait, due, Alerted, apcs>>
               /\ \A t \in Threads : State'[t] = State[t] \/ State'[t] = "Ready"
    BY <1>1, <1>7 DEF KeReleaseSemaphore
  <1>8. ASSUME NEW u \in Threads, KeReleaseMutant(u, o) \/ KeRundownThread(u, o)
        PROVE  /\ UNCHANGED <<Wait, due, Alerted, apcs>>
               /\ \A t \in Threads : State'[t] = State[t] \/ State'[t] = "Ready"
    BY <1>1, <1>8 DEF KeReleaseMutant, KeRundownThread, FreeMutant
  <1> QED  BY <1>3, <1>4, <1>5, <1>6, <1>7, <1>8 DEF Signal

\* A signal keeps what is known of the APCs.
LEMMA SignalApcs ==
    ASSUME TypeOK, ApcInv, NEW o \in Objects, Signal(o)
    PROVE  ApcInv'
  <1>1. /\ Wait' = Wait /\ Alerted' = Alerted /\ ApcList' = ApcList /\ inserting' = inserting
        /\ KernelApcPending' = KernelApcPending /\ UserApcPending' = UserApcPending
        /\ KernelApcDisable' = KernelApcDisable
        /\ \A t \in Threads : State'[t] = "Waiting" => State[t] = "Waiting"
    BY SignalFrame DEF apcs
  <1>2. ASSUME NEW t \in Threads
        PROVE  ApcsInOrder(t)'
    <2>1. ApcsInOrder(t)
      BY DEF ApcInv
    <2>2. (UserApcFor(t)' <=> UserApcFor(t)) /\ (AlertFor(t)' <=> AlertFor(t))
      BY <1>1 DEF UserApcFor, AlertFor
    <2> QED  BY <1>1, <2>1, <2>2 DEF ApcsInOrder
  <1> QED  BY <1>2 DEF ApcInv

\* A thread's step, or an APC or alert for it, leaves the others alone.
LEMMA ThreadFrame ==
    ASSUME TypeOK, NEW t \in Threads, ThreadStep(t)
    PROVE  OthersStay(t)
  <1> USE DEF TypeOK, OthersStay, apcs, objects
  <1>1. ASSUME NEW w \in Waits[t], BeginWait(t, w)
        PROVE  OthersStay(t)
    BY <1>1 DEF BeginWait
  <1>2. CASE WaitForApc(t) \/ MutantLimit(t) \/ NoWait(t)
    BY <1>2 DEF WaitForApc, MutantLimit, NoWait, DeliverKernelApcs, Return
  <1>3. ASSUME NEW mode \in {KernelMode, UserMode}, TakeAlert(t, mode)
        PROVE  OthersStay(t)
    BY <1>3 DEF TakeAlert
  <1>4. CASE TakeUserApc(t) \/ AlreadyExpired(t) \/ Block(t)
    BY <1>4 DEF TakeUserApc, AlreadyExpired, Block
  <1>5. CASE WaitDone(t) \/ WaitAgain(t) \/ TimerExpires(t)
    BY <1>5 DEF WaitDone, WaitAgain, TimerExpires, SwapThread, DeliverKernelApcs, Return, Unwait
  <1>6. CASE Tick(t)
    BY <1>6 DEF Tick
  <1>7. ASSUME NEW mode \in {KernelMode, UserMode}, KeAlertThread(t, mode)
        PROVE  OthersStay(t)
    BY <1>7 DEF KeAlertThread, Unwait
  <1>8. ASSUME NEW apc \in KernelApcs \cup UserApcs, KeInsertQueueApc(t, apc)
        PROVE  OthersStay(t)
    BY <1>8 DEF KeInsertQueueApc
  <1>9. CASE InsertedApc(t)
    BY <1>9 DEF InsertedApc, Unwait
  <1>10. CASE ApcInterrupt(t) \/ DeliverUserApc(t) \/ KeEnterCriticalRegion(t) \/ KeLeaveCriticalRegion(t)
    BY <1>10 DEF ApcInterrupt, DeliverUserApc, KeEnterCriticalRegion, KeLeaveCriticalRegion, DeliverKernelApcs
  <1> QED  BY <1>1, <1>2, <1>3, <1>4, <1>5, <1>6, <1>7, <1>8, <1>9, <1>10 DEF ThreadStep, WaitStep

\* The thread's own part, where it does not wait afterwards,
LEMMA ApcsAwake ==
    ASSUME TypeOK, ApcInv, NEW t \in Threads, ThreadStep(t), State'[t] # "Waiting"
    PROVE  ApcsInOrder(t)'
  <1>1. ApcsInOrder(t)
    BY DEF ApcInv
  <1> USE DEF ApcsInOrder, apcs, objects, TypeOK
  <1>2. ASSUME UNCHANGED apcs
        PROVE  ApcsInOrder(t)'
    BY <1>1, <1>2
  <1>3. ASSUME DeliverKernelApcs(t), UNCHANGED <<inserting, UserApcPending, KernelApcDisable>>
        PROVE  ApcsInOrder(t)'
    BY <1>1, <1>3 DEF DeliverKernelApcs, KernelApcs
  <1>4. ASSUME NEW w \in Waits[t], BeginWait(t, w)
        PROVE  ApcsInOrder(t)'
    BY <1>2, <1>4 DEF BeginWait
  <1>5. CASE WaitForApc(t) \/ MutantLimit(t) \/ NoWait(t) \/ AlreadyExpired(t) \/ Tick(t) \/ Block(t)
    BY <1>2, <1>3, <1>5 DEF WaitForApc, MutantLimit, NoWait, AlreadyExpired, Tick, Block
  <1>6. ASSUME NEW mode \in {KernelMode, UserMode}, TakeAlert(t, mode) \/ KeAlertThread(t, mode)
        PROVE  ApcsInOrder(t)'
    BY <1>2, <1>6 DEF TakeAlert, KeAlertThread
  <1>7. CASE TakeUserApc(t)
    BY <1>1, <1>7 DEF TakeUserApc
  <1>8. CASE WaitDone(t) \/ WaitAgain(t) \/ TimerExpires(t)
    BY <1>2, <1>3, <1>8 DEF WaitDone, WaitAgain, TimerExpires, SwapThread
  <1>9. ASSUME NEW apc \in KernelApcs \cup UserApcs, KeInsertQueueApc(t, apc)
        PROVE  ApcsInOrder(t)'
    BY <1>1, <1>9, NullAssumption DEF KeInsertQueueApc, KernelApcs, UserApcs
  <1>10. CASE InsertedApc(t)
    BY <1>1, <1>10, NullAssumption DEF InsertedApc, KernelApcs, UserApcs
  <1>11. CASE ApcInterrupt(t)
    BY <1>3, <1>11 DEF ApcInterrupt
  <1>12. CASE DeliverUserApc(t)
    BY <1>1, <1>12 DEF DeliverUserApc, UserApcs
  <1>13. CASE KeEnterCriticalRegion(t)
    BY <1>1, <1>13 DEF KeEnterCriticalRegion
  <1>14. CASE KeLeaveCriticalRegion(t)
    BY <1>1, <1>14 DEF KeLeaveCriticalRegion, KernelApcs
  <1> QED
    BY <1>4, <1>5, <1>6, <1>7, <1>8, <1>9, <1>10, <1>11, <1>12, <1>13, <1>14 DEF ThreadStep, WaitStep

\* and where it does: it has just blocked, or an alert or an APC came that does
\* not end its wait, or is about to.
LEMMA ApcsAsleep ==
    ASSUME TypeOK, ApcInv, NEW t \in Threads, ThreadStep(t), State'[t] = "Waiting"
    PROVE  ApcsInOrder(t)'
  <1>1. ApcsInOrder(t)
    BY DEF ApcInv
  <1>2. Wait[t].Alertable \in BOOLEAN /\ Wait[t].WaitMode \in {KernelMode, UserMode}
    BY Requests DEF TypeOK
  <1> USE DEF apcs, objects, TypeOK
  <1>3. CASE Block(t)
    <2>1. /\ ~KernelApcPending[t] /\ ~AlertFor(t) /\ ~UserApcFor(t) /\ State[t] = "WaitStart"
          /\ UNCHANGED <<Wait, Alerted, ApcList, inserting, KernelApcPending, UserApcPending, KernelApcDisable>>
      BY <1>3 DEF Block, MustWait, CannotTake, InWaitLoop
    <2>2. ~AlertFor(t)' /\ ~UserApcFor(t)'
      BY <2>1 DEF AlertFor, UserApcFor
    <2> QED  BY <1>1, <2>1, <2>2 DEF ApcsInOrder
  <1>4. CASE Tick(t)
    <2>1. UNCHANGED <<State, Wait, Alerted, ApcList, inserting, KernelApcPending, UserApcPending, KernelApcDisable>>
      BY <1>4 DEF Tick
    <2>2. (UserApcFor(t)' <=> UserApcFor(t)) /\ (AlertFor(t)' <=> AlertFor(t))
      BY <2>1 DEF UserApcFor, AlertFor
    <2> QED  BY <1>1, <2>1, <2>2 DEF ApcsInOrder
  <1>5. ASSUME NEW mode \in {KernelMode, UserMode}, KeAlertThread(t, mode)
        PROVE  ApcsInOrder(t)'
    <2>1. /\ State[t] = "Waiting" /\ ~(Wait[t].Alertable /\ mode <= Wait[t].WaitMode)
          /\ Alerted' = [Alerted EXCEPT ![t] = @ \cup {mode}]
          /\ UNCHANGED <<Wait, ApcList, inserting, KernelApcPending, UserApcPending, KernelApcDisable>>
      BY <1>5 DEF KeAlertThread, Unwait
    <2>2. (UserApcFor(t)' <=> UserApcFor(t))
      BY <2>1 DEF UserApcFor
    <2>3. ~AlertFor(t)
      BY <1>1, <2>1 DEF ApcsInOrder
    <2>4. ~AlertFor(t)'
      BY <2>1, <2>3 DEF AlertFor
    <2> QED  BY <1>1, <2>1, <2>2, <2>4 DEF ApcsInOrder
  <1>6. ASSUME NEW apc \in KernelApcs \cup UserApcs, KeInsertQueueApc(t, apc)
        PROVE  ApcsInOrder(t)'
    <2>1. /\ State[t] = "Waiting" /\ inserting[t] = NULL /\ inserting'[t] = apc
          /\ ApcList'[t] = ApcList[t] \cup {apc}
          /\ UserApcPending'[t] = (UserApcPending[t] \/ apc = "exit")
          /\ UNCHANGED <<State, Wait, Alerted, KernelApcPending, KernelApcDisable>>
      BY <1>6 DEF KeInsertQueueApc
    <2>2. ~AlertFor(t)' /\ ~UserApcFor(t)
      BY <1>1, <2>1, NullAssumption DEF ApcsInOrder, AlertFor
    <2>3. UserApcFor(t)' => apc \in UserApcs
      BY <2>1, <2>2 DEF UserApcFor, UserApcs, KernelApcs
    <2> QED  BY <1>1, <2>1, <2>2, <2>3, NullAssumption DEF ApcsInOrder, KernelApcs, UserApcs
  <1>7. CASE InsertedApc(t)
    <2>1. /\ State[t] = "Waiting" /\ ~ApcEndsWait(t) /\ inserting[t] # NULL /\ inserting'[t] = NULL
          /\ KernelApcPending'[t] = (KernelApcPending[t] \/ inserting[t] \in KernelApcs)
          /\ UserApcPending'[t] = UserApcPending[t]
          /\ UNCHANGED <<State, Wait, Alerted, ApcList, KernelApcDisable>>
      BY <1>7 DEF InsertedApc, Unwait
    <2>2. ~AlertFor(t)'
      BY <1>1, <2>1 DEF ApcsInOrder, AlertFor
    <2>3. inserting[t] \in UserApcs /\ inserting[t] \notin KernelApcs => ~UserApcFor(t)
      BY <1>2, <2>1 DEF ApcEndsWait, UserApcFor
    <2>4. ~UserApcFor(t)
      BY <1>1, <2>1, <2>3 DEF ApcsInOrder, KernelApcs, UserApcs
    <2>5. ~UserApcFor(t)'
      BY <2>1, <2>4 DEF UserApcFor
    <2> QED  BY <1>1, <2>1, <2>2, <2>5 DEF ApcsInOrder, ApcEndsWait, KernelApcs, UserApcs
  <1>8. \/ Block(t) \/ Tick(t) \/ InsertedApc(t)
        \/ \E mode \in {KernelMode, UserMode} : KeAlertThread(t, mode)
        \/ \E apc \in KernelApcs \cup UserApcs : KeInsertQueueApc(t, apc)
    BY DEF ThreadStep, WaitStep, BeginWait, WaitForApc, MutantLimit, NoWait, Return, TakeAlert, TakeUserApc,
           AlreadyExpired, WaitDone, WaitAgain, TimerExpires, Unwait, ApcInterrupt, DeliverUserApc,
           KeEnterCriticalRegion, KeLeaveCriticalRegion
  <1> QED  BY <1>3, <1>4, <1>5, <1>6, <1>7, <1>8

\* Such a step keeps what is known of the APCs.
LEMMA ThreadApcs ==
    ASSUME TypeOK, ApcInv, NEW t \in Threads, ThreadStep(t)
    PROVE  ApcInv'
  <1>1. OthersStay(t)
    BY ThreadFrame
  <1>2. ASSUME NEW u \in Threads \ {t}
        PROVE  ApcsInOrder(u)'
    <2>1. ApcsInOrder(u)
      BY DEF ApcInv
    <2>2. (UserApcFor(u)' <=> UserApcFor(u)) /\ (AlertFor(u)' <=> AlertFor(u))
      BY <1>1 DEF UserApcFor, AlertFor, OthersStay
    <2> QED  BY <1>1, <2>1, <2>2 DEF ApcsInOrder, OthersStay
  <1>3. ApcsInOrder(t)'
    BY ApcsAwake, ApcsAsleep
  <1> QED  BY <1>2, <1>3 DEF ApcInv

----------------------------------------------------------------------------
(* Objects are signalled *)

\* What a thread that was taken out of its wait has been given
Truthful(t) ==
    State[t] = "Ready" =>
        /\ WaitStatus[t].code = "KEY" =>
             IF BoostedFirst(t) THEN taken[t] = Reported(t)
             ELSE \E o \in ObjectsOf(t) : taken[t] = {o}
        /\ WaitStatus[t].code # "KEY" => taken[t] = {}
        /\ WaitStatus[t].abandoned => \E o \in taken[t] : Type[o] = "Mutant" /\ OwnerThread[o] = t

\* StatusTruthful, thread by thread.
LEMMA TruthfulIsStatusTruthful == StatusTruthful <=> \A t \in Threads : Truthful(t)
  BY DEF StatusTruthful, Truthful

\* What a satisfied wait is told depends on its request and its status alone.
LEMMA SameReport ==
    ASSUME NEW t, Wait'[t] = Wait[t]
    PROVE  /\ (WaitsForAny(t)' <=> WaitsForAny(t)) /\ ObjectsOf(t)' = ObjectsOf(t)
           /\ BoostedFirst(t)' <=> BoostedFirst(t)
           /\ WaitStatus'[t] = WaitStatus[t] => Reported(t)' = Reported(t)
  BY DEF WaitsForAny, ObjectsOf, BoostedFirst, Reported

Stuck(t) == State[t] = "Waiting" => ~CanBeSatisfied(t)

\* A signal that tests the waits
Tested(o, n, state, abandoned) ==
    /\ n \in Nat \ {0} /\ abandoned \in BOOLEAN
    /\ WaitTest(o, n, state, abandoned)
    /\ Wait' = Wait
    /\ state = Left(o, n) \/ (state = 0 /\ Type[o] # "Mutant")
    /\ \/ Type[o] # "Mutant" /\ ~abandoned /\ UNCHANGED <<OwnerThread, Abandoned>>
       \/ /\ Type[o] = "Mutant" /\ n = 1
          /\ OwnerThread' = [OwnerThread EXCEPT ![o] =
                IF Takers(o, 1) = {} THEN NULL ELSE CHOOSE t \in Takers(o, 1) : TRUE]
          /\ Abandoned' = [Abandoned EXCEPT ![o] = abandoned /\ Takers(o, 1) = {}]
          /\ OwnerThread[o] \in Threads /\ State[OwnerThread[o]] = "Running"

SafeInv == SignalInv /\ ListInv /\ TakenInv /\ StatusTruthful /\ NoStrandedWaiter

ObjectTypes ==
    /\ SignalState \in [Objects -> Int]
    /\ WaitList \in [Objects -> Seq(Threads)]
    /\ OwnerThread \in [Objects -> Threads \cup {NULL}]
    /\ Abandoned \in [Objects -> BOOLEAN]
    /\ State \in [Threads -> {"Running", "WaitStart", "Waiting", "Ready"}]
    /\ WaitStatus \in [Threads -> StatusType]
    /\ taken \in [Threads -> SUBSET Objects]

\* A mutant goes to the one thread it was taken for.
LEMMA OneTaker ==
    ASSUME TypeOK, ListInv, NEW o \in Objects, Type[o] # "NotificationEvent",
           NEW t \in Takers(o, 1)
    PROVE  Takers(o, 1) = {t} /\ (CHOOSE u \in Takers(o, 1) : TRUE) = t
  <1>1. IsFiniteSet(Takers(o, 1)) /\ Cardinality(Takers(o, 1)) \in Nat /\ Cardinality(Takers(o, 1)) <= 1
    BY Counting
  <1>2. Cardinality(Takers(o, 1)) # 0
    BY <1>1, FS_EmptySet
  <1>3. Cardinality(Takers(o, 1)) = 1
    BY <1>1, <1>2
  <1>4. \E x : Takers(o, 1) = {x}
    BY <1>1, <1>3, FS_Singleton
  <1> QED  BY <1>4

\* After a wait test the types, the lists and what was taken are right.
LEMMA TestedTypes ==
    ASSUME TypeOK, SafeInv, NEW o \in Objects, NEW n, NEW state, NEW abandoned, Tested(o, n, state, abandoned)
    PROVE  ObjectTypes' /\ ListInv' /\ TakenInv'
  <1> DEFINE woken == Woken(o, n)
             takers == Takers(o, n)
  <1>1. /\ SignalState' = [SignalState EXCEPT ![o] = state]
        /\ WaitList' = Unlinked(woken)
        /\ State' = [t \in Threads |-> IF t \in woken THEN "Ready" ELSE State[t]]
        /\ WaitStatus' = [t \in Threads |->
              IF t \in takers THEN WaitKey(t, o, abandoned)
              ELSE IF t \in woken THEN Status("KERNEL_APC") ELSE WaitStatus[t]]
        /\ taken' = [t \in Threads |-> IF t \in takers THEN {o} ELSE taken[t]]
        /\ n \in Nat \ {0} /\ abandoned \in BOOLEAN /\ Wait' = Wait
    BY DEF Tested, WaitTest
  <1>2. /\ \A t \in woken : t \in Threads /\ OnList(t, o)
        /\ Cardinality(takers) \in Nat
    BY <1>1, Counting DEF SafeInv
  <1>3. takers \subseteq woken
    BY DEF Takers
  <1>4. \A t \in takers : o \in ObjectsOf(t)
    BY <1>2, <1>3 DEF SafeInv, ListInv
  <1>5. \A t \in takers : WaitKey(t, o, abandoned) \in StatusType
    BY <1>1, <1>2, <1>3, <1>4, ObjectsWaitedFor, Statuses DEF WaitKey
  <1>6. state \in Int
    BY <1>1, <1>2 DEF Tested, Left
  <1>7. OwnerThread' \in [Objects -> Threads \cup {NULL}] /\ Abandoned' \in [Objects -> BOOLEAN]
    <2>1. CASE Type[o] # "Mutant"
      BY <2>1 DEF Tested, TypeOK
    <2>2. CASE Type[o] = "Mutant"
      <3>1. n = 1
        BY <2>2 DEF Tested
      <3>2. Takers(o, 1) # {} => (CHOOSE t \in Takers(o, 1) : TRUE) \in Threads
        BY <1>2, <1>3, <3>1
      <3>3. (IF Takers(o, 1) = {} THEN NULL ELSE CHOOSE t \in Takers(o, 1) : TRUE) \in Threads \cup {NULL}
        BY <3>2
      <3>4. OwnerThread' \in [Objects -> Threads \cup {NULL}]
        <4>1. PICK u \in Threads \cup {NULL} :
                 u = IF Takers(o, 1) = {} THEN NULL ELSE CHOOSE t \in Takers(o, 1) : TRUE
          BY <3>3
        <4>2. OwnerThread' = [OwnerThread EXCEPT ![o] =
                 IF Takers(o, 1) = {} THEN NULL ELSE CHOOSE t \in Takers(o, 1) : TRUE]
          BY <2>2 DEF Tested
        <4>3. OwnerThread' = [OwnerThread EXCEPT ![o] = u]
          BY <4>1, <4>2
        <4> QED  BY <4>3 DEF TypeOK
      <3> QED  BY <1>1, <2>2, <3>4 DEF Tested, TypeOK
    <2> QED  BY <2>1, <2>2
  <1> HIDE DEF woken, takers
  <1>8. WaitList' \in [Objects -> Seq(Threads)] /\ ListInv'
    <2>1. woken \in SUBSET Threads
      BY <1>2
    <2>2. (\A t \in woken : State'[t] # "Waiting") /\ (\A t \in Threads \ woken : State'[t] = State[t])
      BY <1>1, <2>1
    <2> QED  BY <1>1, <2>1, <2>2, ListUnlinked DEF SafeInv
  <1>9. WaitStatus' \in [Threads -> StatusType]
    <2>1. Status("KERNEL_APC") \in StatusType
      BY Statuses
    <2>2. \A t \in Threads : WaitStatus[t] \in StatusType
      BY DEF TypeOK
    <2> QED  BY <1>1, <1>5, <2>1, <2>2
  <1>10. /\ SignalState' \in [Objects -> Int]
         /\ State' \in [Threads -> {"Running", "WaitStart", "Waiting", "Ready"}]
         /\ taken' \in [Threads -> SUBSET Objects]
    BY <1>1, <1>6 DEF TypeOK
  <1>11. TakenInv'
    BY <1>1, <1>3 DEF SafeInv, TakenInv
  <1> QED  BY <1>7, <1>8, <1>9, <1>10, <1>11 DEF ObjectTypes

\* After a wait test the signal states are right.
LEMMA TestedSignals ==
    ASSUME TypeOK, SafeInv, NEW o \in Objects, NEW n, NEW state, NEW abandoned, Tested(o, n, state, abandoned)
    PROVE  SignalInv'
  <1> DEFINE takers == Takers(o, n)
  <1>1. n \in Nat \ {0} /\ SignalState' = [SignalState EXCEPT ![o] = state]
    BY DEF Tested, WaitTest
  <1>2. /\ IsFiniteSet(takers) /\ Cardinality(takers) \in Nat
        /\ Type[o] # "NotificationEvent" => Cardinality(takers) <= n
    BY <1>1, Counting DEF SafeInv
  <1>3. ASSUME NEW p \in Objects, p # o
        PROVE  SignalState'[p] = SignalState[p] /\ OwnerThread'[p] = OwnerThread[p] /\ Abandoned'[p] = Abandoned[p]
    BY <1>1, <1>3 DEF Tested, TypeOK
  <1>4. SignalState'[o] = state
    BY <1>1 DEF TypeOK
  <1>5. CASE Type[o] # "Mutant"
    <2>1. state >= 0
      BY <1>1, <1>2 DEF Tested, Left
    <2>2. Abandoned'[o] = Abandoned[o]
      BY <1>5 DEF Tested
    <2> QED  BY <1>3, <1>4, <1>5, <2>1, <2>2 DEF SafeInv, SignalInv
  <1>6. CASE Type[o] = "Mutant"
    <2>1. n = 1 /\ state = 1 - Cardinality(takers)
      BY <1>6 DEF Tested, Left
    <2>2. OwnerThread'[o] = (IF takers = {} THEN NULL ELSE CHOOSE t \in takers : TRUE)
      BY <1>6, <2>1 DEF Tested, TypeOK
    <2>3. takers # {} => Cardinality(takers) # 0
      BY <1>2, FS_EmptySet
    <2> HIDE DEF takers
    <2>4. state <= 1 /\ (OwnerThread'[o] # NULL => state <= 0)
      BY <1>2, <2>1, <2>2, <2>3
    <2> QED  BY <1>3, <1>4, <1>6, <2>4 DEF SafeInv, SignalInv
  <1> QED  BY <1>5, <1>6

\* After a wait test the statuses are true.
LEMMA TestedStatus ==
    ASSUME TypeOK, SafeInv, NEW o \in Objects, NEW n, NEW state, NEW abandoned, Tested(o, n, state, abandoned),
           NEW t \in Threads
    PROVE  Truthful(t)'
  <1> DEFINE woken == Woken(o, n)
             takers == Takers(o, n)
  <1>1. /\ State'[t] = IF t \in woken THEN "Ready" ELSE State[t]
        /\ WaitStatus'[t] = IF t \in takers THEN WaitKey(t, o, abandoned)
                            ELSE IF t \in woken THEN Status("KERNEL_APC") ELSE WaitStatus[t]
        /\ taken'[t] = IF t \in takers THEN {o} ELSE taken[t]
        /\ n \in Nat \ {0} /\ Wait' = Wait
    BY DEF Tested, WaitTest
  <1>2. takers \subseteq woken /\ (t \in takers => WaitsForAny(t))
    BY DEF Takers
  <1>3. t \in woken => State[t] = "Waiting" /\ o \in ObjectsOf(t)
    BY <1>1, Counting DEF SafeInv, ListInv
  <1>4. /\ (WaitsForAny(t)' <=> WaitsForAny(t)) /\ ObjectsOf(t)' = ObjectsOf(t)
        /\ BoostedFirst(t)' <=> BoostedFirst(t)
        /\ WaitStatus'[t] = WaitStatus[t] => Reported(t)' = Reported(t)
    BY <1>1, SameReport
  <1>5. CASE t \in takers
    <2>1. /\ WaitStatus'[t].code = "KEY" /\ WaitStatus'[t].key = Key(t, o)
          /\ WaitStatus'[t].abandoned = abandoned /\ taken'[t] = {o}
      BY <1>1, <1>5 DEF WaitKey
    <2>2. Wait'[t].Object[Key(t, o) + 1] = o
      BY <1>1, <1>2, <1>3, <1>5, ObjectsWaitedFor
    <2>3. Reported(t)' = {o} /\ o \in ObjectsOf(t)'
      BY <1>2, <1>3, <1>4, <1>5, <2>1, <2>2 DEF Reported
    <2>4. abandoned => Type[o] = "Mutant" /\ OwnerThread'[o] = t
      <3> SUFFICES ASSUME abandoned  PROVE  Type[o] = "Mutant" /\ OwnerThread'[o] = t
        OBVIOUS
      <3>1. /\ Type[o] = "Mutant" /\ n = 1
            /\ OwnerThread'[o] = IF Takers(o, 1) = {} THEN NULL ELSE CHOOSE u \in Takers(o, 1) : TRUE
        BY DEF Tested, TypeOK
      <3>2. (CHOOSE u \in Takers(o, 1) : TRUE) = t
        BY <1>5, <3>1, OneTaker DEF SafeInv
      <3> QED  BY <1>5, <3>1, <3>2
    <2> QED  BY <2>1, <2>3, <2>4 DEF Truthful
  <1>6. CASE t \in woken /\ t \notin takers
    <2>1. WaitStatus'[t].code = "KERNEL_APC" /\ WaitStatus'[t].abandoned = FALSE
      BY <1>1, <1>6, Statuses
    <2>2. taken'[t] = {}
      BY <1>1, <1>3, <1>6 DEF SafeInv, TakenInv
    <2> QED  BY <2>1, <2>2 DEF Truthful
  <1>7. CASE t \notin woken
    <2>1. State'[t] = State[t] /\ WaitStatus'[t] = WaitStatus[t] /\ taken'[t] = taken[t]
      BY <1>1, <1>2, <1>7
    <2>2. Truthful(t)
      BY TruthfulIsStatusTruthful DEF SafeInv
    <2>3. ASSUME State[t] = "Ready", NEW p \in taken[t], OwnerThread[p] = t
          PROVE  OwnerThread'[p] = t
      <3>1. p \in Objects
        BY DEF TypeOK
      <3> QED  BY <2>3, <3>1 DEF Tested, TypeOK
    <2> QED  BY <1>1, <1>4, <2>1, <2>2, <2>3 DEF Truthful
  <1> QED  BY <1>5, <1>6, <1>7

\* After a wait test nobody waits for what it could have.
LEMMA TestedStuck ==
    ASSUME TypeOK, SafeInv, NEW o \in Objects, NEW n, NEW state, NEW abandoned, Tested(o, n, state, abandoned),
           NEW t \in Threads
    PROVE  Stuck(t)'
  <1> SUFFICES ASSUME State'[t] = "Waiting"  PROVE  ~CanBeSatisfied(t)'
    BY DEF Stuck
  <1>1. /\ n \in Nat \ {0} /\ Wait' = Wait /\ SignalState' = [SignalState EXCEPT ![o] = state]
        /\ State[t] = "Waiting" /\ t \notin Woken(o, n)
    BY DEF Tested, WaitTest
  <1>2. ~CanBeSatisfied(t)
    BY <1>1 DEF SafeInv, NoStrandedWaiter
  <1>3. t \notin Takers(o, n)
    BY <1>1 DEF Takers
  <1>4. CASE o \in ObjectsOf(t)
    <2>1. OnList(t, o)
      BY <1>1, <1>4 DEF SafeInv, ListInv
    <2>2. Type[o] # "NotificationEvent" /\ Cardinality(Takers(o, n)) = n
      BY <1>1, <2>1, Counting DEF SafeInv
    <2>3. state = 0
      BY <1>1, <2>2 DEF Tested, Left
    <2>4. Type[o] = "Mutant" => OwnerThread'[o] # t
      <3> SUFFICES ASSUME Type[o] = "Mutant"  PROVE  OwnerThread'[o] # t
        OBVIOUS
      <3>1. /\ n = 1
            /\ OwnerThread'[o] = IF Takers(o, 1) = {} THEN NULL ELSE CHOOSE u \in Takers(o, 1) : TRUE
        BY DEF Tested, TypeOK
      <3>2. Takers(o, 1) # {} => (CHOOSE u \in Takers(o, 1) : TRUE) \in Takers(o, 1)
        OBVIOUS
      <3> QED  BY <1>3, <3>1, <3>2, NullAssumption
    <2>5. ~CanTake(t, o)'
      BY <1>1, <2>3, <2>4 DEF CanTake, TypeOK
    <2>6. \A p \in Objects : p # o => (CanTake(t, p)' <=> CanTake(t, p))
      BY <1>1 DEF CanTake, TypeOK, Tested
    <2> QED  BY <1>1, <1>2, <2>5, <2>6, StillWaits
  <1>5. CASE o \notin ObjectsOf(t)
    <2>1. \A i \in DOMAIN Wait[t].Object : Wait[t].Object[i] \in Objects /\ Wait[t].Object[i] # o
      BY <1>5, ObjectsWaitedFor DEF ObjectsOf
    <2>2. \A p \in Objects : p # o => (CanTake(t, p)' <=> CanTake(t, p))
      BY <1>1 DEF CanTake, TypeOK, Tested
    <2>3. Takeable(t)' = Takeable(t)
      BY <1>1, <2>1, <2>2 DEF Takeable
    <2> QED  BY <1>1, <1>2, <2>3 DEF CanBeSatisfied, WaitsForAny
  <1> QED  BY <1>4, <1>5

\* A signal that tests the waits is safe.
LEMMA TestedSafe ==
    ASSUME TypeOK, SafeInv, NEW o \in Objects, NEW n, NEW state, NEW abandoned, Tested(o, n, state, abandoned)
    PROVE  ObjectTypes' /\ SafeInv'
  <1>1. ObjectTypes' /\ ListInv' /\ TakenInv' /\ SignalInv'
    BY TestedTypes, TestedSignals
  <1>2. \A t \in Threads : Truthful(t)' /\ Stuck(t)'
    BY TestedStatus, TestedStuck
  <1>3. StatusTruthful'
    BY <1>2 DEF StatusTruthful, Truthful
  <1>4. NoStrandedWaiter'
    BY <1>2 DEF NoStrandedWaiter, Stuck
  <1> QED  BY <1>1, <1>3, <1>4 DEF SafeInv

\* The first waiter is handed the event.
LEMMA HandedSafe ==
    ASSUME TypeOK, SafeInv, NEW o \in Objects, KeSetEventBoostPriority(o),
           WaitList[o] # <<>>, WaitsForAny(Head(WaitList[o]))
    PROVE  ObjectTypes' /\ SafeInv'
  <1>1. PICK t : t = Head(WaitList[o])
    OBVIOUS
  <1>2. t \in Threads /\ OnList(t, o)
    <2>1. WaitList[o] \in Seq(Threads)
      BY DEF TypeOK
    <2>2. 1 \in DOMAIN WaitList[o] /\ WaitList[o][1] = t /\ t \in Threads
      BY <1>1, <2>1
    <2> QED  BY <2>2 DEF OnList
  <1>3. State[t] = "Waiting" /\ o \in ObjectsOf(t)
    BY <1>2 DEF SafeInv, ListInv
  <1>4. /\ WaitList' = Unlinked({t})
        /\ State' = [State EXCEPT ![t] = "Ready"]
        /\ WaitStatus' = [WaitStatus EXCEPT ![t] = STATUS_SUCCESS]
        /\ taken' = [taken EXCEPT ![t] = {o}]
        /\ UNCHANGED <<SignalState, OwnerThread, Abandoned, Wait>>
    BY <1>1 DEF KeSetEventBoostPriority, Unwait
  <1>5. WaitList' \in [Objects -> Seq(Threads)] /\ ListInv'
    <2>1. State'[t] # "Waiting" /\ \A u \in Threads \ {t} : State'[u] = State[u]
      BY <1>2, <1>4 DEF TypeOK
    <2>2. {t} \in SUBSET Threads /\ \A x \in {t} : State'[x] # "Waiting"
      BY <1>2, <2>1
    <2> QED  BY <1>4, <2>1, <2>2, ListUnlinked DEF SafeInv
  <1>6. ObjectTypes'
    <2>1. STATUS_SUCCESS \in StatusType
      BY Statuses
    <2> QED  BY <1>2, <1>4, <1>5, <2>1 DEF TypeOK, ObjectTypes
  <1>7. SignalInv' /\ TakenInv'
    BY <1>2, <1>4 DEF SafeInv, SignalInv, TakenInv, TypeOK
  <1>8. ASSUME NEW u \in Threads
        PROVE  Truthful(u)'
    <2>1. Truthful(u)
      BY TruthfulIsStatusTruthful DEF SafeInv
    <2>2. /\ (WaitsForAny(u)' <=> WaitsForAny(u)) /\ ObjectsOf(u)' = ObjectsOf(u) /\ Wait'[u] = Wait[u]
          /\ BoostedFirst(u)' <=> BoostedFirst(u)
          /\ WaitStatus'[u] = WaitStatus[u] => Reported(u)' = Reported(u)
      BY <1>4, SameReport
    <2>3. CASE u = t
      <3>1. /\ WaitStatus'[u].code = "KEY" /\ WaitStatus'[u].key = 0 /\ WaitStatus'[u].abandoned = FALSE
            /\ taken'[u] = {o}
        BY <1>2, <1>4, <2>3, Statuses DEF TypeOK
      <3>2. PICK i \in DOMAIN Wait[t].Object : Wait[t].Object[i] = o
        BY <1>3 DEF ObjectsOf
      <3>3. ASSUME BoostedFirst(t)
            PROVE  Reported(u)' = {o}
        <4>1. i = 1
          BY <1>1, <3>2, <3>3 DEF BoostedFirst, KeSetEventBoostPriority
        <4>2. Wait'[u].Object[1] = o
          BY <2>2, <2>3, <3>2, <4>1
        <4> QED  BY <1>1, <2>2, <2>3, <3>1, <4>2 DEF Reported
      <3> QED  BY <1>3, <2>2, <2>3, <3>1, <3>3 DEF Truthful
    <2>4. CASE u # t
      <3>1. State'[u] = State[u] /\ WaitStatus'[u] = WaitStatus[u] /\ taken'[u] = taken[u] /\ OwnerThread' = OwnerThread
        BY <1>4, <2>4 DEF TypeOK
      <3> QED  BY <2>1, <2>2, <3>1 DEF Truthful
    <2> QED  BY <2>3, <2>4
  <1>9. ASSUME NEW u \in Threads, State'[u] = "Waiting"
        PROVE  ~CanBeSatisfied(u)'
    <2>1. State[u] = "Waiting"
      BY <1>4, <1>9 DEF TypeOK
    <2>2. ~CanBeSatisfied(u)
      BY <2>1 DEF SafeInv, NoStrandedWaiter
    <2>3. \A p \in Objects : CanTake(u, p)' => CanTake(u, p)
      BY <1>4 DEF CanTake
    <2> QED  BY <1>4, <2>2, <2>3, StillWaits
  <1>10. StatusTruthful'
    BY <1>8 DEF StatusTruthful, Truthful
  <1>11. NoStrandedWaiter'
    BY <1>9 DEF NoStrandedWaiter
  <1> QED  BY <1>5, <1>6, <1>7, <1>10, <1>11 DEF SafeInv

\* The count of an object changes and no wait is looked at, because what could
\* be taken could be taken before.
LEMMA CountedSafe ==
    ASSUME TypeOK, SafeInv, NEW o \in Objects, NEW state \in Int,
           SignalState' = [SignalState EXCEPT ![o] = state],
           UNCHANGED <<WaitList, OwnerThread, Abandoned, State, WaitStatus, taken, Wait>>,
           state > 0 => SignalState[o] > 0,
           Type[o] # "Mutant" => state >= 0,
           Type[o] = "Mutant" => state <= 0
    PROVE  ObjectTypes' /\ SafeInv'
  <1>1. ObjectTypes'
    BY DEF TypeOK, ObjectTypes
  <1>2. SignalInv' /\ TakenInv'
    BY DEF SafeInv, SignalInv, TakenInv, TypeOK
  <1>3. ListInv'
    BY ListKept DEF SafeInv
  <1>4. StatusTruthful'
    <2>1. ASSUME NEW u \in Threads
          PROVE  Truthful(u)'
      <3>1. Truthful(u)
        BY TruthfulIsStatusTruthful DEF SafeInv
      <3>2. ObjectsOf(u)' = ObjectsOf(u) /\ (BoostedFirst(u)' <=> BoostedFirst(u)) /\ Reported(u)' = Reported(u)
        BY SameReport
      <3> QED  BY <3>1, <3>2 DEF Truthful
    <2> QED  BY <2>1 DEF StatusTruthful, Truthful
  <1>5. ASSUME NEW u \in Threads, State'[u] = "Waiting"
        PROVE  ~CanBeSatisfied(u)'
    <2>1. ~CanBeSatisfied(u)
      BY <1>5 DEF SafeInv, NoStrandedWaiter
    <2>2. \A p \in Objects : CanTake(u, p)' => CanTake(u, p)
      BY DEF CanTake, TypeOK
    <2> QED  BY <2>1, <2>2, StillWaits
  <1>6. NoStrandedWaiter'
    BY <1>5 DEF NoStrandedWaiter
  <1> QED  BY <1>1, <1>2, <1>3, <1>4, <1>6 DEF SafeInv

\* Every signal is safe.
LEMMA SignalSafe ==
    ASSUME TypeOK, SafeInv, NEW o \in Objects, Signal(o)
    PROVE  TypeOK' /\ SafeInv'
  <1>1. UNCHANGED <<Wait, due, Alerted, apcs>>
    BY SignalFrame
  <1>2. SUFFICES ObjectTypes' /\ SafeInv'
    BY <1>1 DEF ObjectTypes, TypeOK, apcs
  <1>a. 1 \in Nat \ {0}
    OBVIOUS
  <1>b. Type[o] \in EventTypes => Type[o] # "Mutant"
    BY DEF EventTypes
  <1>3. CASE KeSetEvent(o)
    <2>1. Tested(o, 1, Left(o, 1), FALSE)
      BY <1>1, <1>a, <1>b, <1>3, Zenon DEF KeSetEvent, Tested
    <2> QED  BY <2>1, TestedSafe
  <1>4. CASE KePulseEvent(o)
    <2>1. Tested(o, 1, 0, FALSE)
      BY <1>1, <1>a, <1>b, <1>4, Zenon DEF KePulseEvent, Tested
    <2> QED  BY <2>1, TestedSafe
  <1>5. CASE KeResetEvent(o)
    <2>1. /\ SignalState' = [SignalState EXCEPT ![o] = 0]
          /\ UNCHANGED <<WaitList, OwnerThread, Abandoned, State, WaitStatus, taken, Wait>>
          /\ Type[o] # "Mutant"
      BY <1>b, <1>5 DEF KeResetEvent
    <2>2. 0 \in Int /\ 0 >= 0 /\ ~(0 > 0)
      OBVIOUS
    <2> QED  BY <2>1, <2>2, CountedSafe
  <1>6. CASE KeSetEventBoostPriority(o)
    <2>1. CASE WaitList[o] # <<>> /\ WaitsForAny(Head(WaitList[o]))
      BY <1>6, <2>1, HandedSafe
    <2>2. CASE ~(WaitList[o] # <<>> /\ WaitsForAny(Head(WaitList[o])))
      <3>1. Tested(o, 1, Left(o, 1), FALSE)
        BY <1>1, <1>a, <1>6, <2>2, BoostsTyped DEF KeSetEventBoostPriority, Tested
      <3> QED  BY <3>1, TestedSafe
    <2> QED  BY <2>1, <2>2
  <1>7. ASSUME NEW n \in 1..Limit, KeReleaseSemaphore(o, n)
        PROVE  ObjectTypes' /\ SafeInv'
    <2>1. n \in Nat \ {0} /\ SignalState[o] \in Int /\ SignalState[o] >= 0 /\ Type[o] = "Semaphore"
      BY <1>7, BoundsTyped DEF KeReleaseSemaphore, TypeOK, SafeInv, SignalInv
    <2>2. CASE SignalState[o] = 0
      <3>1. SignalState[o] + n = n
        BY <2>1, <2>2
      <3>2. Tested(o, n, Left(o, n), FALSE)
        BY <1>1, <1>7, <2>1, <2>2, <3>1 DEF KeReleaseSemaphore, Tested
      <3> QED  BY <3>2, TestedSafe
    <2>3. CASE SignalState[o] # 0
      <3>1. SignalState[o] + n \in Int /\ SignalState[o] + n >= 0 /\ SignalState[o] > 0
        BY <2>1, <2>3
      <3>2. /\ SignalState' = [SignalState EXCEPT ![o] = SignalState[o] + n]
            /\ UNCHANGED <<WaitList, OwnerThread, Abandoned, State, WaitStatus, taken, Wait>>
        BY <1>7, <2>3 DEF KeReleaseSemaphore
      <3> QED  BY <2>1, <3>1, <3>2, CountedSafe
    <2> QED  BY <2>2, <2>3
  <1>8. ASSUME NEW t \in Threads, NEW abandoned \in BOOLEAN, FreeMutant(o, abandoned),
               Type[o] = "Mutant", OwnerThread[o] = t, State[t] = "Running"
        PROVE  ObjectTypes' /\ SafeInv'
    <2>1. Tested(o, 1, Left(o, 1), abandoned)
      BY <1>1, <1>8 DEF FreeMutant, Tested
    <2> QED  BY <2>1, TestedSafe
  <1>9. ASSUME NEW t \in Threads, KeReleaseMutant(t, o)
        PROVE  ObjectTypes' /\ SafeInv'
    <2>1. CASE SignalState[o] = 0
      BY <1>8, <1>9, <2>1 DEF KeReleaseMutant
    <2>2. CASE SignalState[o] # 0
      <3>1. OwnerThread[o] = t /\ Type[o] = "Mutant" /\ SignalState[o] \in Int /\ t # NULL
        BY <1>9, NullAssumption DEF KeReleaseMutant, TypeOK
      <3>2. SignalState[o] + 1 \in Int /\ SignalState[o] + 1 <= 0 /\ ~(SignalState[o] + 1 > 0)
        BY <2>2, <3>1 DEF SafeInv, SignalInv
      <3>3. /\ SignalState' = [SignalState EXCEPT ![o] = SignalState[o] + 1]
            /\ UNCHANGED <<WaitList, OwnerThread, Abandoned, State, WaitStatus, taken, Wait>>
        BY <1>9, <2>2 DEF KeReleaseMutant
      <3> QED  BY <3>1, <3>2, <3>3, CountedSafe
    <2> QED  BY <2>1, <2>2
  <1>10. ASSUME NEW t \in Threads, KeRundownThread(t, o)
         PROVE  ObjectTypes' /\ SafeInv'
    BY <1>8, <1>10 DEF KeRundownThread
  <1> QED  BY <1>3, <1>4, <1>5, <1>6, <1>7, <1>9, <1>10 DEF Signal

----------------------------------------------------------------------------
(* The steps of a thread *)

ThreadTypes ==
    /\ Wait \in [Threads -> WaitRequest]
    /\ due \in [Threads -> BOOLEAN]
    /\ Alerted \in [Threads -> SUBSET {KernelMode, UserMode}]
    /\ ApcList \in [Threads -> SUBSET (KernelApcs \cup UserApcs)]
    /\ inserting \in [Threads -> KernelApcs \cup UserApcs \cup {NULL}]
    /\ KernelApcPending \in [Threads -> BOOLEAN]
    /\ UserApcPending \in [Threads -> BOOLEAN]
    /\ KernelApcDisable \in [Threads -> BOOLEAN]

\* A thread's step keeps the types of what it changes.
LEMMA ThreadTyped ==
    ASSUME TypeOK, NEW t \in Threads, ThreadStep(t)
    PROVE  ThreadTypes'
  <1> USE DEF TypeOK, ThreadTypes, apcs, objects
  <1>1. ASSUME NEW w \in Waits[t], BeginWait(t, w)
        PROVE  ThreadTypes'
    BY <1>1, WaitsTyped DEF BeginWait
  <1>a. ASSUME DeliverKernelApcs(t)
        PROVE  /\ KernelApcPending' \in [Threads -> BOOLEAN]
               /\ ApcList' \in [Threads -> SUBSET (KernelApcs \cup UserApcs)]
    BY <1>a DEF DeliverKernelApcs
  <1>b. ASSUME Return(t)
        PROVE  Wait' \in [Threads -> WaitRequest] /\ due' \in [Threads -> BOOLEAN]
    BY <1>b, Requests DEF Return
  <1>c. ASSUME SwapThread(t)
        PROVE  /\ KernelApcPending' \in [Threads -> BOOLEAN]
               /\ ApcList' \in [Threads -> SUBSET (KernelApcs \cup UserApcs)]
               /\ UNCHANGED <<Alerted, inserting, UserApcPending, KernelApcDisable>>
    BY <1>a, <1>c DEF SwapThread
  <1>2. CASE WaitForApc(t) \/ MutantLimit(t) \/ NoWait(t)
    BY <1>a, <1>b, <1>2 DEF WaitForApc, MutantLimit, NoWait
  <1>3. ASSUME NEW mode \in {KernelMode, UserMode}, TakeAlert(t, mode)
        PROVE  ThreadTypes'
    BY <1>3 DEF TakeAlert
  <1>4. CASE TakeUserApc(t) \/ AlreadyExpired(t) \/ Block(t)
    BY <1>4 DEF TakeUserApc, AlreadyExpired, Block
  <1>5. CASE WaitDone(t) \/ WaitAgain(t) \/ TimerExpires(t)
    BY <1>b, <1>c, <1>5 DEF WaitDone, WaitAgain, TimerExpires
  <1>6. CASE Tick(t)
    BY <1>6 DEF Tick
  <1>7. ASSUME NEW mode \in {KernelMode, UserMode}, KeAlertThread(t, mode)
        PROVE  ThreadTypes'
    <2>1. Alerted' \in [Threads -> SUBSET {KernelMode, UserMode}]
      <3>1. Alerted' = Alerted \/ Alerted' = [Alerted EXCEPT ![t] = Alerted[t] \cup {mode}]
        BY <1>7 DEF KeAlertThread
      <3>2. Alerted[t] \cup {mode} \in SUBSET {KernelMode, UserMode}
        OBVIOUS
      <3> QED  BY <3>1, <3>2
    <2> QED  BY <1>7, <2>1 DEF KeAlertThread
  <1>8. ASSUME NEW apc \in KernelApcs \cup UserApcs, KeInsertQueueApc(t, apc)
        PROVE  ThreadTypes'
    BY <1>8 DEF KeInsertQueueApc
  <1>9. CASE InsertedApc(t)
    BY <1>9 DEF InsertedApc
  <1>10. CASE ApcInterrupt(t) \/ DeliverUserApc(t) \/ KeEnterCriticalRegion(t) \/ KeLeaveCriticalRegion(t)
    <2>1. CASE ApcInterrupt(t)
      BY <1>a, <2>1 DEF ApcInterrupt
    <2>2. CASE DeliverUserApc(t)
      BY <2>2 DEF DeliverUserApc
    <2>3. CASE KeEnterCriticalRegion(t)
      BY <2>3 DEF KeEnterCriticalRegion
    <2>4. CASE KeLeaveCriticalRegion(t)
      <3>1. ApcList' = ApcList \/ ApcList' = [ApcList EXCEPT ![t] = ApcList[t] \ KernelApcs]
        BY <2>4 DEF KeLeaveCriticalRegion
      <3>2. ApcList[t] \ KernelApcs \in SUBSET (KernelApcs \cup UserApcs)
        OBVIOUS
      <3>3. ApcList' \in [Threads -> SUBSET (KernelApcs \cup UserApcs)]
        BY <3>1, <3>2
      <3>4. /\ KernelApcPending' \in [Threads -> BOOLEAN] /\ KernelApcDisable' \in [Threads -> BOOLEAN]
            /\ UNCHANGED <<Wait, due, Alerted, inserting, UserApcPending>>
        BY <2>4 DEF KeLeaveCriticalRegion
      <3> QED  BY <3>3, <3>4
    <2> QED  BY <1>10, <2>1, <2>2, <2>3, <2>4
  <1> QED  BY <1>1, <1>2, <1>3, <1>4, <1>5, <1>6, <1>7, <1>8, <1>9, <1>10 DEF ThreadStep, WaitStep

\* The status of a thread whose own variables and mutants are left alone
LEMMA TruthfulStays ==
    ASSUME TypeOK, SafeInv, NEW t \in Threads, OthersStay(t), NEW u \in Threads \ {t},
           \A o \in Objects : OwnerThread[o] = u => OwnerThread'[o] = u
    PROVE  Truthful(u)'
  <1>1. Truthful(u)
    BY TruthfulIsStatusTruthful DEF SafeInv
  <1>2. ObjectsOf(u)' = ObjectsOf(u) /\ (BoostedFirst(u)' <=> BoostedFirst(u)) /\ Reported(u)' = Reported(u)
    BY SameReport DEF OthersStay
  <1>3. taken[u] \subseteq Objects
    BY DEF TypeOK
  <1> QED  BY <1>1, <1>2, <1>3 DEF Truthful, OthersStay

\* A thread does something that is not about objects.
LEMMA LocalSafe ==
    ASSUME TypeOK, SafeInv, NEW t \in Threads, OthersStay(t), UNCHANGED objects,
           State' \in [Threads -> {"Running", "WaitStart", "Waiting", "Ready"}],
           WaitStatus' \in [Threads -> StatusType],
           taken' \in [Threads -> SUBSET Objects],
           State'[t] = "Waiting" <=> State[t] = "Waiting",
           State[t] = "Waiting" => Wait'[t] = Wait[t],
           State'[t] # "Ready" => taken'[t] = {},
           Truthful(t)'
    PROVE  ObjectTypes' /\ SafeInv'
  <1> USE DEF objects
  <1>1. ObjectTypes'
    BY DEF TypeOK, ObjectTypes
  <1>2. SignalInv'
    BY DEF SafeInv, SignalInv
  <1>3. TakenInv'
    BY DEF SafeInv, TakenInv, OthersStay
  <1>4. \A u \in Threads : (State'[u] = "Waiting" <=> State[u] = "Waiting")
                           /\ (State[u] = "Waiting" => Wait'[u] = Wait[u])
    BY DEF OthersStay
  <1>5. ListInv'
    BY <1>4, ListKept DEF SafeInv
  <1>6. StatusTruthful'
    <2>1. \A u \in Threads \ {t} : Truthful(u)'
      BY TruthfulStays
    <2>2. \A u \in Threads : Truthful(u)'
      BY <2>1
    <2> QED  BY <2>2 DEF StatusTruthful, Truthful
  <1>7. ASSUME NEW u \in Threads, State'[u] = "Waiting"
        PROVE  ~CanBeSatisfied(u)'
    <2>1. State[u] = "Waiting" /\ Wait'[u] = Wait[u]
      BY <1>4, <1>7
    <2>2. ~CanBeSatisfied(u)
      BY <2>1 DEF SafeInv, NoStrandedWaiter
    <2>3. \A p \in Objects : CanTake(u, p)' => CanTake(u, p)
      BY DEF CanTake
    <2> QED  BY <2>1, <2>2, <2>3, StillWaits
  <1>8. NoStrandedWaiter'
    BY <1>7 DEF NoStrandedWaiter
  <1> QED  BY <1>1, <1>2, <1>3, <1>5, <1>6, <1>8 DEF SafeInv

\* A wait is ended and nothing was taken for it.
LEMMA UnwaitSafe ==
    ASSUME TypeOK, SafeInv, NEW t \in Threads, OthersStay(t), State[t] = "Waiting",
           NEW code \in {"KERNEL_APC", "USER_APC", "ALERTED", "TIMEOUT"}, Unwait(t, Status(code)),
           UNCHANGED <<SignalState, OwnerThread, Abandoned, Wait, taken>>
    PROVE  ObjectTypes' /\ SafeInv'
  <1>1. Status(code) \in StatusType /\ Status(code).code = code /\ Status(code).abandoned = FALSE
    BY Statuses
  <1>2. /\ WaitList' = Unlinked({t}) /\ State' = [State EXCEPT ![t] = "Ready"]
        /\ WaitStatus' = [WaitStatus EXCEPT ![t] = Status(code)]
    BY DEF Unwait
  <1>3. State'[t] = "Ready" /\ WaitStatus'[t] = Status(code)
    BY <1>2 DEF TypeOK
  <1>4. WaitList' \in [Objects -> Seq(Threads)] /\ ListInv'
    <2>1. /\ {t} \in SUBSET Threads /\ \A x \in {t} : State'[x] # "Waiting"
          /\ \A u \in Threads \ {t} : State'[u] = State[u]
      BY <1>3 DEF OthersStay
    <2> QED  BY <1>2, <2>1, ListUnlinked DEF SafeInv
  <1>5. ObjectTypes'
    BY <1>1, <1>2, <1>4 DEF TypeOK, ObjectTypes
  <1>6. SignalInv'
    BY DEF SafeInv, SignalInv
  <1>7. taken'[t] = {}
    BY DEF SafeInv, TakenInv
  <1>8. TakenInv'
    BY <1>7 DEF SafeInv, TakenInv, OthersStay
  <1>9. Truthful(t)'
    BY <1>1, <1>3, <1>7 DEF Truthful
  <1>10. StatusTruthful'
    <2>1. \A u \in Threads \ {t} : Truthful(u)'
      BY TruthfulStays
    <2>2. \A u \in Threads : Truthful(u)'
      BY <1>9, <2>1
    <2> QED  BY <2>2 DEF StatusTruthful, Truthful
  <1>11. ASSUME NEW u \in Threads, State'[u] = "Waiting"
         PROVE  ~CanBeSatisfied(u)'
    <2>1. State[u] = "Waiting"
      BY <1>3, <1>11 DEF OthersStay
    <2>2. ~CanBeSatisfied(u)
      BY <2>1 DEF SafeInv, NoStrandedWaiter
    <2>3. \A p \in Objects : CanTake(u, p)' => CanTake(u, p)
      BY DEF CanTake
    <2> QED  BY <2>2, <2>3, StillWaits
  <1>12. NoStrandedWaiter'
    BY <1>11 DEF NoStrandedWaiter
  <1> QED  BY <1>4, <1>5, <1>6, <1>8, <1>10, <1>12 DEF SafeInv

\* A thread takes what it can: what belongs to another is not among it.
LEMMA NoWaitSafe ==
    ASSUME TypeOK, SafeInv, NEW t \in Threads, OthersStay(t), NoWait(t)
    PROVE  ObjectTypes' /\ SafeInv'
  <1> DEFINE O == ToTake(t)
             key == IF WaitsForAny(t) THEN First(Takeable(t)) - 1 ELSE 0
             status == [code |-> "KEY", key |-> key, abandoned |-> \E o \in O : Abandoned[o]]
  <1>1. /\ State[t] = "WaitStart" /\ CanBeSatisfied(t)
        /\ SignalState' = [o \in Objects |-> IF o \in O THEN Satisfied(o) ELSE SignalState[o]]
        /\ OwnerThread' = [o \in Objects |-> IF o \in O /\ Type[o] = "Mutant" THEN t ELSE OwnerThread[o]]
        /\ Abandoned' = [o \in Objects |-> Abandoned[o] /\ o \notin O]
        /\ State' = [State EXCEPT ![t] = "Ready"]
        /\ WaitStatus' = [WaitStatus EXCEPT ![t] = status]
        /\ taken' = [taken EXCEPT ![t] = O]
        /\ WaitList' = WaitList /\ Wait' = Wait
    BY DEF NoWait, InWaitLoop
  <1>2. /\ O \subseteq Objects /\ (\A o \in O : CanTake(t, o))
        /\ O \subseteq ObjectsOf(t) /\ key \in Nat
        /\ WaitsForAny(t) => O = {Wait[t].Object[key + 1]}
    <2>1. WaitsForAny(t) => First(Takeable(t)) - 1 \in Nat /\ (First(Takeable(t)) - 1) + 1 = First(Takeable(t))
      BY <1>1, TakesWhatItCan
    <2> QED  BY <1>1, <2>1, TakesWhatItCan
  <1>3. status \in StatusType
    <2>1. (\E o \in O : Abandoned[o]) \in BOOLEAN
      OBVIOUS
    <2> HIDE DEF key, O
    <2> QED  BY <1>2, <2>1, Statuses
  <1>4. status.code = "KEY" /\ status.key = key /\ status.abandoned = \E o \in O : Abandoned[o]
    OBVIOUS
  <1> HIDE DEF O, key, status
  <1>5. ASSUME NEW o \in O
        PROVE  /\ o \in Objects /\ Satisfied(o) \in Int
               /\ Satisfied(o) <= SignalState[o]
               /\ Type[o] # "Mutant" => Satisfied(o) >= 0
               /\ Type[o] = "Mutant" => Satisfied(o) <= 0 /\ (OwnerThread[o] = NULL \/ OwnerThread[o] = t)
    <2>1. o \in Objects /\ CanTake(t, o)
      BY <1>2
    <2>2. SignalState[o] \in Int /\ Type[o] \in EventTypes \cup {"Semaphore", "Mutant"}
      BY <2>1, ObjectsTyped DEF TypeOK
    <2>3. /\ Type[o] # "Mutant" => SignalState[o] >= 0
          /\ Type[o] = "Mutant" => SignalState[o] <= 1 /\ (OwnerThread[o] # NULL => SignalState[o] <= 0)
      BY <2>1 DEF SafeInv, SignalInv
    <2>4. CASE Type[o] = "Mutant"
      <3>1. Satisfied(o) = SignalState[o] - 1
        BY <2>4 DEF Satisfied
      <3>2. OwnerThread[o] = NULL \/ OwnerThread[o] = t
        BY <2>1, <2>2, <2>3, <2>4 DEF CanTake
      <3> QED  BY <2>1, <2>2, <2>3, <2>4, <3>1, <3>2
    <2>5. CASE Type[o] = "NotificationEvent" \/ Type[o] = "SynchronizationEvent"
      <3>1. Satisfied(o) = SignalState[o] \/ Satisfied(o) = 0
        BY <2>5 DEF Satisfied
      <3> QED  BY <2>1, <2>2, <2>3, <2>5, <3>1
    <2>6. CASE Type[o] = "Semaphore"
      <3>1. Satisfied(o) = SignalState[o] - 1 /\ SignalState[o] > 0
        BY <2>1, <2>6 DEF Satisfied, CanTake
      <3> QED  BY <2>1, <2>2, <2>3, <2>6, <3>1
    <2> QED  BY <2>2, <2>4, <2>5, <2>6 DEF EventTypes
  <1>6. ObjectTypes'
    <2>1. SignalState' \in [Objects -> Int]
      BY <1>1, <1>5 DEF TypeOK
    <2>2. taken' \in [Threads -> SUBSET Objects] /\ WaitStatus' \in [Threads -> StatusType]
      BY <1>1, <1>2, <1>3 DEF TypeOK
    <2> QED  BY <1>1, <2>1, <2>2 DEF TypeOK, ObjectTypes
  <1>7. SignalInv'
    <2> SUFFICES ASSUME NEW o \in Objects
                 PROVE  /\ Type[o] # "Mutant" => SignalState'[o] >= 0
                        /\ Type[o] = "Mutant" => SignalState'[o] <= 1 /\ (OwnerThread'[o] # NULL => SignalState'[o] <= 0)
                        /\ Abandoned'[o] => Type[o] = "Mutant"
      BY DEF SignalInv
    <2>1. /\ Type[o] # "Mutant" => SignalState[o] >= 0
          /\ Type[o] = "Mutant" => SignalState[o] <= 1 /\ (OwnerThread[o] # NULL => SignalState[o] <= 0)
          /\ Abandoned[o] => Type[o] = "Mutant"
      BY DEF SafeInv, SignalInv
    <2>2. CASE o \in O
      <3>1. SignalState'[o] = Satisfied(o) /\ ~Abandoned'[o]
        BY <1>1, <2>2
      <3>2. /\ Satisfied(o) \in Int
            /\ Type[o] # "Mutant" => Satisfied(o) >= 0
            /\ Type[o] = "Mutant" => Satisfied(o) <= 0
        BY <1>5, <2>2
      <3> QED  BY <3>1, <3>2
    <2>3. CASE o \notin O
      BY <1>1, <2>1, <2>3
    <2> QED  BY <2>2, <2>3
  <1>8. ListInv'
    <2>1. \A u \in Threads : State'[u] = "Waiting" <=> State[u] = "Waiting"
      BY <1>1 DEF TypeOK
    <2> QED  BY <1>1, <2>1, ListKept DEF SafeInv
  <1>9. State'[t] = "Ready" /\ taken'[t] = O /\ WaitStatus'[t] = status
    BY <1>1 DEF TypeOK
  <1>10. TakenInv'
    BY <1>9 DEF SafeInv, TakenInv, OthersStay
  <1>11. Truthful(t)'
    <2>1. /\ (WaitsForAny(t)' <=> WaitsForAny(t)) /\ ObjectsOf(t)' = ObjectsOf(t) /\ Wait'[t] = Wait[t]
          /\ BoostedFirst(t)' <=> BoostedFirst(t)
      BY <1>1, SameReport
    <2>2. ~WaitsForAny(t) => O = ObjectsOf(t)
      BY DEF O, ToTake
    <2>3. Reported(t)' = O
      BY <1>2, <1>4, <1>9, <2>1, <2>2 DEF Reported
    <2>4. ~BoostedFirst(t) => \E o \in ObjectsOf(t) : O = {o}
      BY <1>2 DEF BoostedFirst
    <2>5. ASSUME NEW o \in O, Abandoned[o]
          PROVE  Type[o] = "Mutant" /\ OwnerThread'[o] = t
      <3>1. o \in Objects
        BY <1>2
      <3> QED  BY <1>1, <2>5, <3>1 DEF SafeInv, SignalInv
    <2> QED  BY <1>4, <1>9, <2>1, <2>3, <2>4, <2>5 DEF Truthful
  <1>12. StatusTruthful'
    <2>1. ASSUME NEW u \in Threads \ {t}
          PROVE  Truthful(u)'
      <3>1. \A o \in Objects : OwnerThread[o] = u => OwnerThread'[o] = u
        BY <1>1, <1>5, NullAssumption
      <3> QED  BY <3>1, TruthfulStays
    <2>2. \A u \in Threads : Truthful(u)'
      BY <1>11, <2>1
    <2> QED  BY <2>2 DEF StatusTruthful, Truthful
  <1>13. ASSUME NEW u \in Threads, State'[u] = "Waiting"
         PROVE  ~CanBeSatisfied(u)'
    <2>1. u # t /\ State[u] = "Waiting"
      BY <1>9, <1>13 DEF OthersStay
    <2>2. ~CanBeSatisfied(u)
      BY <2>1 DEF SafeInv, NoStrandedWaiter
    <2>3. ASSUME NEW p \in Objects, CanTake(u, p)'
          PROVE  CanTake(u, p)
      <3>1. SignalState[p] \in Int /\ SignalState'[p] \in Int /\ SignalState'[p] <= SignalState[p]
        BY <1>1, <1>5 DEF TypeOK
      <3>2. OwnerThread'[p] = u => OwnerThread[p] = u
        BY <1>1, <2>1
      <3> QED  BY <2>3, <3>1, <3>2 DEF CanTake
    <2> QED  BY <1>1, <2>2, <2>3, StillWaits
  <1>14. NoStrandedWaiter'
    BY <1>13 DEF NoStrandedWaiter
  <1> QED  BY <1>6, <1>7, <1>8, <1>10, <1>12, <1>14 DEF SafeInv

\* The thread goes to the end of the lists of its objects.
LEMMA BlockSafe ==
    ASSUME TypeOK, SafeInv, NEW t \in Threads, OthersStay(t), Block(t)
    PROVE  ObjectTypes' /\ SafeInv'
  <1>1. /\ State[t] = "WaitStart" /\ ~CanBeSatisfied(t)
        /\ WaitList' = [o \in Objects |-> IF o \in ObjectsOf(t) THEN Append(WaitList[o], t) ELSE WaitList[o]]
        /\ State' = [State EXCEPT ![t] = "Waiting"]
        /\ UNCHANGED <<SignalState, OwnerThread, Abandoned, Wait, WaitStatus, taken>>
    BY DEF Block, MustWait, CannotTake, InWaitLoop
  <1>2. State'[t] = "Waiting"
    BY <1>1 DEF TypeOK
  <1>3. ASSUME NEW o \in Objects
        PROVE  /\ WaitList'[o] \in Seq(Threads)
               /\ \A i, j \in DOMAIN WaitList'[o] : WaitList'[o][i] = WaitList'[o][j] => i = j
               /\ \A u \in Threads : OnList(u, o)' <=> OnList(u, o) \/ (u = t /\ o \in ObjectsOf(t))
    <2> DEFINE s == WaitList[o]
    <2>1. s \in Seq(Threads) /\ \A i, j \in DOMAIN s : s[i] = s[j] => i = j
      BY DEF TypeOK, SafeInv, ListInv
    <2>2. CASE o \notin ObjectsOf(t)
      <3>1. WaitList'[o] = s
        BY <1>1, <2>2
      <3> QED  BY <2>1, <2>2, <3>1 DEF OnList
    <2>3. CASE o \in ObjectsOf(t)
      <3> DEFINE r == WaitList'[o]
      <3>1. r = Append(s, t)
        BY <1>1, <2>3
      <3>2. \A i \in DOMAIN s : s[i] # t
        BY <1>1 DEF SafeInv, ListInv, OnList
      <3> HIDE DEF s, r
      <3>3. /\ r \in Seq(Threads) /\ Len(s) \in Nat /\ DOMAIN s = 1..Len(s) /\ DOMAIN r = 1..(Len(s) + 1)
            /\ r[Len(s) + 1] = t /\ \A i \in DOMAIN s : r[i] = s[i]
        BY <2>1, <3>1
      <3>4. \A i \in DOMAIN r : i \in DOMAIN s \/ i = Len(s) + 1
        BY <3>3
      <3>5. \A i, j \in DOMAIN r : r[i] = r[j] => i = j
        BY <2>1, <3>2, <3>3, <3>4
      <3>6. Len(s) + 1 \in DOMAIN r /\ \A i \in DOMAIN s : i \in DOMAIN r
        BY <3>3
      <3>7. \A u : (\E i \in DOMAIN r : r[i] = u) <=> (\E i \in DOMAIN s : s[i] = u) \/ u = t
        BY <3>3, <3>4, <3>6
      <3> QED  BY <2>3, <3>3, <3>5, <3>7 DEF OnList, s, r
    <2> QED  BY <2>2, <2>3
  <1>4. ListInv'
    <2>1. ASSUME NEW o \in Objects, NEW u \in Threads
          PROVE  OnList(u, o)' <=> State'[u] = "Waiting" /\ o \in ObjectsOf(u)'
      <3>1. OnList(u, o) <=> State[u] = "Waiting" /\ o \in ObjectsOf(u)
        BY DEF SafeInv, ListInv
      <3>2. ObjectsOf(u)' = ObjectsOf(u)
        BY <1>1 DEF ObjectsOf
      <3> QED  BY <1>1, <1>2, <1>3, <3>1, <3>2 DEF OthersStay
    <2> QED  BY <1>3, <2>1 DEF ListInv
  <1>5. ObjectTypes'
    <2>1. WaitList' \in [Objects -> Seq(Threads)]
      <3>1. WaitList' = [o \in Objects |-> WaitList'[o]]
        BY <1>1
      <3> QED  BY <1>3, <3>1
    <2> QED  BY <1>1, <2>1 DEF TypeOK, ObjectTypes
  <1>6. SignalInv'
    BY <1>1 DEF SafeInv, SignalInv
  <1>7. TakenInv'
    BY <1>1 DEF SafeInv, TakenInv, OthersStay
  <1>8. StatusTruthful'
    <2>1. \A u \in Threads \ {t} : Truthful(u)'
      BY <1>1, TruthfulStays
    <2>2. Truthful(t)'
      BY <1>2 DEF Truthful
    <2>3. \A u \in Threads : Truthful(u)'
      BY <2>1, <2>2
    <2> QED  BY <2>3 DEF StatusTruthful, Truthful
  <1>9. ASSUME NEW u \in Threads, State'[u] = "Waiting"
        PROVE  ~CanBeSatisfied(u)'
    <2>1. ~CanBeSatisfied(u)
      BY <1>1, <1>9 DEF SafeInv, NoStrandedWaiter, OthersStay
    <2>2. \A p \in Objects : CanTake(u, p)' => CanTake(u, p)
      BY <1>1 DEF CanTake
    <2> QED  BY <1>1, <2>1, <2>2, StillWaits
  <1>10. NoStrandedWaiter'
    BY <1>9 DEF NoStrandedWaiter
  <1> QED  BY <1>4, <1>5, <1>6, <1>7, <1>8, <1>10 DEF SafeInv

\* A thread's step is safe.
LEMMA ThreadSafe ==
    ASSUME TypeOK, SafeInv, NEW t \in Threads, ThreadStep(t)
    PROVE  TypeOK' /\ SafeInv'
  <1>1. OthersStay(t) /\ ThreadTypes'
    BY ThreadFrame, ThreadTyped
  <1>2. SUFFICES ObjectTypes' /\ SafeInv'
    BY <1>1 DEF ObjectTypes, ThreadTypes, TypeOK
  <1>3. Truthful(t)
    BY TruthfulIsStatusTruthful DEF SafeInv
  <1>4. State[t] # "Ready" => taken[t] = {}
    BY DEF SafeInv, TakenInv
  \* It is not about the wait,
  <1>5. ASSUME UNCHANGED <<objects, State, Wait, WaitStatus, taken>>
        PROVE  ObjectTypes' /\ SafeInv'
    <2>1. ObjectsOf(t)' = ObjectsOf(t) /\ (BoostedFirst(t)' <=> BoostedFirst(t)) /\ Reported(t)' = Reported(t)
      BY <1>5, SameReport
    <2>2. Truthful(t)'
      BY <1>3, <1>5, <2>1 DEF Truthful, objects
    <2>3. /\ State' \in [Threads -> {"Running", "WaitStart", "Waiting", "Ready"}]
          /\ WaitStatus' \in [Threads -> StatusType] /\ taken' \in [Threads -> SUBSET Objects]
      BY <1>5 DEF TypeOK
    <2> QED  BY <1>1, <1>4, <1>5, <2>2, <2>3, LocalSafe
  \* or it begins or ends one,
  <1>6. ASSUME NEW state \in {"Running", "WaitStart"}, State[t] # "Waiting",
               State' = [State EXCEPT ![t] = state],
               WaitStatus' = WaitStatus \/ WaitStatus' = [WaitStatus EXCEPT ![t] = STATUS_SUCCESS],
               taken' = [taken EXCEPT ![t] = {}], UNCHANGED objects
        PROVE  ObjectTypes' /\ SafeInv'
    <2>1. State'[t] = state /\ taken'[t] = {}
      BY <1>6 DEF TypeOK
    <2>2. Truthful(t)'
      BY <2>1 DEF Truthful
    <2>3. STATUS_SUCCESS \in StatusType
      BY Statuses
    <2>4. /\ State' \in [Threads -> {"Running", "WaitStart", "Waiting", "Ready"}]
          /\ WaitStatus' \in [Threads -> StatusType] /\ taken' \in [Threads -> SUBSET Objects]
      BY <1>6, <2>3 DEF TypeOK
    <2> QED  BY <1>1, <1>6, <2>1, <2>2, <2>4, LocalSafe
  \* or ends it without having blocked.
  <1>7. ASSUME NEW code \in {"USER_APC", "ALERTED", "TIMEOUT"}, State[t] = "WaitStart",
               State' = [State EXCEPT ![t] = "Ready"],
               WaitStatus' = [WaitStatus EXCEPT ![t] = Status(code)],
               UNCHANGED <<objects, Wait, taken>>
        PROVE  ObjectTypes' /\ SafeInv'
    <2>1. Status(code) \in StatusType /\ Status(code).code = code /\ Status(code).abandoned = FALSE
      BY Statuses
    <2>2. State'[t] = "Ready" /\ taken'[t] = {} /\ WaitStatus'[t] = Status(code)
      BY <1>4, <1>7 DEF TypeOK
    <2>3. Truthful(t)'
      BY <2>1, <2>2 DEF Truthful
    <2>4. /\ State' \in [Threads -> {"Running", "WaitStart", "Waiting", "Ready"}]
          /\ WaitStatus' \in [Threads -> StatusType] /\ taken' \in [Threads -> SUBSET Objects]
      BY <1>7, <2>1 DEF TypeOK
    <2> QED  BY <1>1, <1>7, <2>2, <2>3, <2>4, LocalSafe
  <1>8. State[t] # "Ready" => taken = [taken EXCEPT ![t] = {}]
    BY <1>4 DEF TypeOK
  <1>9. ASSUME NEW w \in Waits[t], BeginWait(t, w)
        PROVE  ObjectTypes' /\ SafeInv'
    BY <1>6, <1>8, <1>9 DEF BeginWait
  <1>10. CASE WaitForApc(t) \/ Tick(t) \/ ApcInterrupt(t) \/ DeliverUserApc(t)
              \/ KeEnterCriticalRegion(t) \/ KeLeaveCriticalRegion(t)
    BY <1>5, <1>10 DEF WaitForApc, Tick, ApcInterrupt, DeliverUserApc, KeEnterCriticalRegion, KeLeaveCriticalRegion
  <1>11. ASSUME NEW apc \in KernelApcs \cup UserApcs, KeInsertQueueApc(t, apc)
         PROVE  ObjectTypes' /\ SafeInv'
    BY <1>5, <1>11 DEF KeInsertQueueApc
  <1>12. CASE MutantLimit(t)
    BY <1>6, <1>12 DEF MutantLimit, InWaitLoop, Return
  <1>13. CASE WaitDone(t)
    BY <1>6, <1>13 DEF WaitDone, SwapThread, Return
  <1>14. CASE WaitAgain(t)
    <2>1. taken[t] = {}
      BY <1>3, <1>14 DEF WaitAgain, SwapThread, Truthful
    <2>2. taken = [taken EXCEPT ![t] = {}]
      BY <2>1 DEF TypeOK
    <2> QED  BY <1>6, <1>14, <2>2 DEF WaitAgain, SwapThread
  <1>15. CASE NoWait(t) \/ Block(t)
    BY <1>1, <1>15, NoWaitSafe, BlockSafe
  <1>16. ASSUME NEW mode \in {KernelMode, UserMode}, TakeAlert(t, mode)
         PROVE  ObjectTypes' /\ SafeInv'
    BY <1>7, <1>16 DEF TakeAlert, CannotTake, InWaitLoop
  <1>17. CASE TakeUserApc(t) \/ AlreadyExpired(t)
    BY <1>7, <1>17 DEF TakeUserApc, AlreadyExpired, MustWait, CannotTake, InWaitLoop
  <1>18. CASE TimerExpires(t)
    <2>1. /\ State[t] = "Waiting" /\ Unwait(t, Status("TIMEOUT"))
          /\ UNCHANGED <<SignalState, OwnerThread, Abandoned, Wait, taken>>
      BY <1>18 DEF TimerExpires
    <2> QED  BY <1>1, <2>1, UnwaitSafe
  <1>19. ASSUME NEW mode \in {KernelMode, UserMode}, KeAlertThread(t, mode)
         PROVE  ObjectTypes' /\ SafeInv'
    <2>1. UNCHANGED <<SignalState, OwnerThread, Abandoned, Wait, taken>>
      BY <1>19 DEF KeAlertThread
    <2>2. CASE State[t] = "Waiting" /\ Wait[t].Alertable /\ mode <= Wait[t].WaitMode
      <3>1. Unwait(t, Status("ALERTED"))
        BY <1>19, <2>2 DEF KeAlertThread
      <3> QED  BY <1>1, <2>1, <2>2, <3>1, UnwaitSafe
    <2>3. CASE ~(State[t] = "Waiting" /\ Wait[t].Alertable /\ mode <= Wait[t].WaitMode)
      <3>1. UNCHANGED <<WaitList, State, WaitStatus>>
        BY <1>19, <2>3 DEF KeAlertThread
      <3> QED  BY <1>5, <2>1, <3>1 DEF objects
    <2> QED  BY <2>2, <2>3
  <1>20. CASE InsertedApc(t)
    <2>1. UNCHANGED <<SignalState, OwnerThread, Abandoned, Wait, taken>>
      BY <1>20 DEF InsertedApc
    <2>2. CASE ApcEndsWait(t)
      <3>1. State[t] = "Waiting"
        BY <2>2 DEF ApcEndsWait
      <3>2. Unwait(t, Status("KERNEL_APC")) \/ Unwait(t, Status("USER_APC"))
        BY <1>20, <2>2 DEF InsertedApc
      <3> QED  BY <1>1, <2>1, <3>1, <3>2, UnwaitSafe
    <2>3. CASE ~ApcEndsWait(t)
      <3>1. UNCHANGED <<WaitList, State, WaitStatus>>
        BY <1>20, <2>3 DEF InsertedApc
      <3> QED  BY <1>5, <2>1, <3>1 DEF objects
    <2> QED  BY <2>2, <2>3
  <1> QED
    BY <1>9, <1>10, <1>11, <1>12, <1>13, <1>14, <1>15, <1>16, <1>17, <1>18, <1>19, <1>20 DEF ThreadStep, WaitStep

----------------------------------------------------------------------------
\* The invariant holds initially.
LEMMA InitIInv ==
    ASSUME Init
    PROVE  IInv
  <1>1. TypeOK
    <2>1. STATUS_SUCCESS \in StatusType /\ NoWaitYet \in WaitRequest
      BY Statuses, Requests
    <2>2. \A o \in Objects : WaitList[o] \in Seq(Threads)
      BY DEF Init
    <2> QED  BY <2>1, <2>2 DEF Init, TypeOK
  <1>2. SignalInv
    BY NullAssumption DEF Init, SignalInv
  <1>3. ListInv
    BY DEF Init, ListInv, OnList
  <1>4. TakenInv /\ StatusTruthful /\ NoStrandedWaiter
    BY DEF Init, TakenInv, StatusTruthful, NoStrandedWaiter
  <1>5. ApcInv
    BY DEF Init, ApcInv, ApcsInOrder
  <1> QED  BY <1>1, <1>2, <1>3, <1>4, <1>5 DEF IInv

\* Every step keeps the invariant.
LEMMA NextIInv ==
    ASSUME IInv, [Next]_vars
    PROVE  IInv'
  <1> USE DEF IInv
  <1>1. SafeInv
    BY DEF SafeInv
  <1>2. ASSUME NEW o \in Objects, Signal(o)
        PROVE  IInv'
    BY <1>1, <1>2, SignalSafe, SignalApcs DEF SafeInv
  <1>3. ASSUME NEW t \in Threads, ThreadStep(t)
        PROVE  IInv'
    BY <1>1, <1>3, ThreadSafe, ThreadApcs DEF SafeInv
  <1>4. CASE UNCHANGED vars
    <2>1. /\ UNCHANGED <<SignalState, WaitList, OwnerThread, Abandoned, State, Wait, WaitStatus, due, taken>>
          /\ UNCHANGED <<Alerted, ApcList, inserting, KernelApcPending, UserApcPending, KernelApcDisable>>
      BY <1>4 DEF vars, objects, apcs
    <2>2. TypeOK' /\ SignalInv' /\ TakenInv'
      BY <2>1 DEF TypeOK, SignalInv, TakenInv
    <2>3. ListInv'
      BY <2>1, ListKept
    <2>4. ApcInv'
      BY <2>1 DEF ApcInv, ApcsInOrder, UserApcFor, AlertFor
    <2>5. StatusTruthful'
      <3>1. ASSUME NEW u \in Threads
            PROVE  Truthful(u)'
        <4>1. Truthful(u)
          BY TruthfulIsStatusTruthful
        <4>2. ObjectsOf(u)' = ObjectsOf(u) /\ (BoostedFirst(u)' <=> BoostedFirst(u)) /\ Reported(u)' = Reported(u)
          BY <2>1, SameReport
        <4> QED  BY <2>1, <4>1, <4>2 DEF Truthful
      <3> QED  BY <3>1 DEF StatusTruthful, Truthful
    <2>6. NoStrandedWaiter'
      BY <2>1 DEF NoStrandedWaiter, CanBeSatisfied, Takeable, CanTake, WaitsForAny
    <2> QED  BY <2>2, <2>3, <2>4, <2>5, <2>6
  <1> QED  BY <1>2, <1>3, <1>4, Steps

\* The inductive invariant: lists, counts, statuses and APCs agree in every
\* reachable state.
THEOREM WaitInvariant == Spec => []IInv
  <1>1. Init => IInv
    BY InitIInv
  <1>2. IInv /\ [Next]_vars => IInv'
    BY NextIInv
  <1> QED  BY <1>1, <1>2, PTL DEF Spec

\* Every variable has its type.
THEOREM TypeCorrect == Spec => []TypeOK
  <1>1. IInv => TypeOK
    BY DEF IInv
  <1> QED  BY <1>1, WaitInvariant, PTL

\* No thread waits for what it could have, however signals, waits for any and
\* waits for all meet: KiWaitTest may stop where the count is used up, and a
\* release of a semaphore that is not at zero need not test at all.
THEOREM NobodyIsStranded == Spec => []NoStrandedWaiter
  <1>1. IInv => NoStrandedWaiter
    BY DEF IInv
  <1> QED  BY <1>1, WaitInvariant, PTL

\* A satisfied wait takes the object of its wait key, or all if it waits for all,
\* and one that ends otherwise takes nothing; abandonment is reported for a mutant
\* the thread owns now.  A wait for any that names an event of BoostEvents behind
\* the first place is excluded from the first part (of it, one object is taken).
THEOREM StatusIsTruthful == Spec => []StatusTruthful
  <1>1. IInv => StatusTruthful
    BY DEF IInv
  <1> QED  BY <1>1, WaitInvariant, PTL

\* No thread waits with an APC or an alert that should have ended its wait: the
\* test in the wait loop and the insertion that follows the dispatcher lock
\* miss none between them.
THEOREM NoApcIsStranded == Spec => []NoApcStranded
  <1>1. IInv => NoApcStranded
    <2> SUFFICES ASSUME IInv, NEW t \in Threads, State[t] = "Waiting", inserting[t] = NULL
                 PROVE  /\ "special" \notin ApcList[t]
                        /\ "normal" \in ApcList[t] => KernelApcDisable[t]
                        /\ Wait[t].WaitMode = UserMode => "exit" \notin ApcList[t]
                        /\ ~AlertFor(t)
                        /\ ~UserApcFor(t)
      BY DEF NoApcStranded
    <2>1. ApcsInOrder(t)
      BY DEF IInv, ApcInv
    <2>2. NULL \notin KernelApcs \cup UserApcs
      BY NullAssumption
    <2>3. ~UserApcFor(t)
      BY <2>1, <2>2 DEF ApcsInOrder
    <2>4. Wait[t].WaitMode = UserMode => "exit" \notin ApcList[t]
      BY <2>1, <2>3 DEF ApcsInOrder, UserApcFor, UserApcs
    <2> QED  BY <2>1, <2>2, <2>3, <2>4 DEF ApcsInOrder, KernelApcs
  <1> QED  BY <1>1, WaitInvariant, PTL
=============================================================================
