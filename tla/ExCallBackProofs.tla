-------------------------- MODULE ExCallBackProofs --------------------------
(***************************************************************************)
(* Proofs about rundown protection and about the executive callbacks whose *)
(* blocks it protects.                                                     *)
(*                                                                         *)
(* Rundown protection: for any finite set of accessors and any bound on the *)
(* references one of them holds. Callbacks: for any finite set of threads, *)
(* any blocks and any number of references a slot can cache.               *)
(***************************************************************************)
EXTENDS ExRundown, ExCallBack, TLAPS, FiniteSetTheorems

-----------------------------------------------------------------------------
(* Rundown protection: counting references. *)

\* The set of references is finite, and the bound covers each holder's share.
LEMMA GrantedFinite ==
    ASSUME NEW h \in [Accessors -> 0..MaxHold]
    PROVE  /\ IsFiniteSet(GrantedOf(h))
           /\ Cardinality(GrantedOf(h)) \in Nat
<1>1. IsFiniteSet(1..MaxHold)
    BY FS_Interval, MaxHoldPositive
<1>2. IsFiniteSet(Accessors \X (1..MaxHold))
    BY <1>1, FS_Product, AccessorsFinite
<1>3. GrantedOf(h) \in SUBSET (Accessors \X (1..MaxHold))
    BY DEF GrantedOf
<1>4. QED
    BY <1>2, <1>3, FS_Subset, FS_CardinalityType

\* The references number i..j of one accessor are as many as the interval.
LEMMA ReferenceShare ==
    ASSUME NEW a \in Accessors, NEW i \in Nat, NEW k \in Nat
    PROVE  /\ IsFiniteSet({a} \X (i+1 .. i+k))
           /\ Cardinality({a} \X (i+1 .. i+k)) = k
<1> DEFINE I == i+1 .. i+k
           S == {a} \X I
           f == [n \in I |-> <<a, n>>]
<1>1. IsFiniteSet(I) /\ Cardinality(I) = k
    BY FS_Interval
<1>2. f \in Bijection(I, S)
    <2>1. f \in [I -> S]
        OBVIOUS
    <2>2. \A x, y \in I : f[x] = f[y] => x = y
        OBVIOUS
    <2>3. \A t \in S : \E x \in I : f[x] = t
        OBVIOUS
    <2>4. QED
        BY <2>1, <2>2, <2>3 DEF Bijection, Injection, Surjection, IsInjective
<1>3. ExistsBijection(I, S)
    BY <1>2 DEF ExistsBijection
<1>4. QED
    BY <1>1, <1>3, FS_Bijection

\* Granting k more references to an accessor raises the count by k.
LEMMA GrantedAdd ==
    ASSUME NEW h \in [Accessors -> 0..MaxHold], NEW g \in [Accessors -> 0..MaxHold],
           NEW a \in Accessors, NEW k \in Nat,
           g[a] = h[a] + k, \A b \in Accessors : b # a => g[b] = h[b]
    PROVE  Cardinality(GrantedOf(g)) = Cardinality(GrantedOf(h)) + k
<1>1. PICK n \in Nat : n = h[a]
    BY MaxHoldPositive
<1> DEFINE S == {a} \X (n+1 .. n+k)
<1>2. IsFiniteSet(S) /\ Cardinality(S) = k
    BY ONLY ReferenceShare, n \in Nat, k \in Nat, a \in Accessors, SMTT(30)
<1>3. GrantedOf(g) = GrantedOf(h) \cup S
    <2>1. \A b \in Accessors : g[b] = IF b = a THEN n + k ELSE h[b]
        BY <1>1
    <2>2. n + k <= MaxHold /\ MaxHold \in Nat /\ \A b \in Accessors : h[b] \in Nat
        BY <1>1, MaxHoldPositive
    <2>3. QED
        BY <1>1, <2>1, <2>2 DEF GrantedOf
<1>4. GrantedOf(h) \cap S = {}
    BY <1>1 DEF GrantedOf
<1> HIDE DEF S
<1>5. Cardinality(GrantedOf(h) \cup S)
        = Cardinality(GrantedOf(h)) + Cardinality(S) - Cardinality(GrantedOf(h) \cap S)
    BY <1>2, GrantedFinite, FS_Union
<1>6. Cardinality(GrantedOf(h)) \in Nat /\ Cardinality(GrantedOf(h) \cap S) = 0
    BY <1>4, GrantedFinite, FS_EmptySet
<1>7. QED
    BY <1>2, <1>3, <1>5, <1>6

\* Dropping k references of an accessor that holds them lowers it by k.
LEMMA GrantedSub ==
    ASSUME NEW h \in [Accessors -> 0..MaxHold], NEW g \in [Accessors -> 0..MaxHold],
           NEW a \in Accessors, NEW k \in Nat,
           g[a] = h[a] - k, \A b \in Accessors : b # a => g[b] = h[b]
    PROVE  Cardinality(GrantedOf(g)) = Cardinality(GrantedOf(h)) - k
<1>1. h[a] = g[a] + k /\ \A b \in Accessors : b # a => h[b] = g[b]
    BY MaxHoldPositive
<1>2. Cardinality(GrantedOf(h)) = Cardinality(GrantedOf(g)) + k
    BY <1>1, GrantedAdd
<1>3. Cardinality(GrantedOf(g)) \in Nat
    BY GrantedFinite
<1>4. QED
    BY <1>2, <1>3

\* No holder has more references than there are.
LEMMA GrantedShare ==
    ASSUME NEW h \in [Accessors -> 0..MaxHold], NEW a \in Accessors
    PROVE  h[a] \in Nat /\ h[a] <= Cardinality(GrantedOf(h))
<1>1. PICK n \in Nat : n = h[a]
    BY MaxHoldPositive
<1>2. PICK g \in [Accessors -> 0..MaxHold] :
            g[a] = 0 /\ \A b \in Accessors : b # a => g[b] = h[b]
    <2>1. [h EXCEPT ![a] = 0] \in [Accessors -> 0..MaxHold]
        BY MaxHoldPositive
    <2>2. QED
        BY <2>1
<1>3. Cardinality(GrantedOf(g)) = Cardinality(GrantedOf(h)) - n
    BY <1>1, <1>2, GrantedSub
<1>4. Cardinality(GrantedOf(g)) \in Nat /\ Cardinality(GrantedOf(h)) \in Nat
    BY GrantedFinite
<1>5. QED
    BY <1>1, <1>3, <1>4

\* Nobody holds a reference just when the count is zero.
LEMMA GrantedZero ==
    ASSUME NEW h \in [Accessors -> 0..MaxHold]
    PROVE  Cardinality(GrantedOf(h)) = 0 <=> GrantedOf(h) = {}
BY GrantedFinite, FS_EmptySet

-----------------------------------------------------------------------------
(* Rundown protection: the inductive invariant. *)

Outstanding == Cardinality(GrantedOf(held))

\* Where each form of the word can be met, and that it counts right.
WordInv ==
    /\ ~Active(RunRef) => RunRef.rest = Outstanding
    /\ Active(RunRef) => RunRef \in {EX_RUNDOWN_ACTIVE, BlockWord}
    /\ RunRef = BlockWord => tpc \in {"KeWait", "returned"}
    /\ RunRef = EX_RUNDOWN_ACTIVE => Outstanding = 0

\* What the rundown thread knows at each place of its code.
OwnerInv ==
    /\ tpc \in {"Exf", "ExfLoop"} => ~Active(RunRef)
    /\ tpc = "ExfLoop" =>
         /\ ~Active(tValue)
         /\ tValue.rest \in Nat
         /\ WaitBlock.WakeEvent # "set"
    /\ tpc = "KeWait" =>
         /\ RunRef = BlockWord
         /\ WaitBlock.Count = Outstanding
         /\ WaitBlock.WakeEvent # "none"
         /\ WaitBlock.WakeEvent = "set" => WaitBlock.Count = 0
         /\ WaitBlock.Count = 0 /\ WaitBlock.WakeEvent # "set" =>
              \E a \in Accessors : apc[a] = "KeSetEvent"
    /\ tpc = "returned" => Active(RunRef) /\ Outstanding = 0

\* What an accessor knows at each place of its code.
AccessorInv(a) ==
    /\ apc[a] \in AcquirePCs => held[a] + Count[a] <= MaxHold
    /\ apc[a] \in ReleasePCs => Count[a] <= held[a]
    /\ apc[a] \in {"AcquireInlineCas", "ReleaseInlineCas"} => ~Active(Value[a]) /\ Count[a] = 1
    /\ apc[a] = "ReleaseLoop" /\ Active(Value[a]) => Value[a] = BlockWord /\ tpc = "KeWait"
    /\ apc[a] = "KeSetEvent" =>
         /\ tpc = "KeWait"
         /\ WaitBlock.Count = 0
         /\ WaitBlock.WakeEvent = "reset"
         /\ \A b \in Accessors : apc[b] = "KeSetEvent" => b = a

ProtectionInv ==
    /\ RundownTypeOK
    /\ WordInv
    /\ OwnerInv
    /\ \A a \in Accessors : AccessorInv(a)

\* A word just initialised satisfies the invariant.
LEMMA RundownInitInv == RundownInit => ProtectionInv
<1> SUFFICES ASSUME RundownInit PROVE ProtectionInv
    OBVIOUS
<1>1. RundownTypeOK
    BY MaxHoldPositive DEF RundownInit, RundownTypeOK, Word, CountWord
<1>2. GrantedOf(held) = {}
    BY MaxHoldPositive DEF RundownInit, GrantedOf
<1>3. Outstanding = 0
    BY <1>2, FS_EmptySet DEF Outstanding
<1>4. WordInv
    BY <1>3 DEF RundownInit, WordInv, CountWord, Active, EX_RUNDOWN_ACTIVE, BlockWord
<1>5. OwnerInv
    BY DEF RundownInit, OwnerInv
<1>6. \A a \in Accessors : AccessorInv(a)
    BY DEF RundownInit, AccessorInv, AcquirePCs, ReleasePCs
<1>7. QED
    BY <1>1, <1>4, <1>5, <1>6 DEF ProtectionInv

\* The count of references is a number, and no holder has more than it.
LEMMA OutstandingBound ==
    ASSUME RundownTypeOK
    PROVE  /\ Outstanding \in Nat
           /\ \A a \in Accessors : held[a] \in Nat /\ held[a] <= Outstanding
<1>1. held \in [Accessors -> 0..MaxHold]
    BY DEF RundownTypeOK
<1>2. QED
    BY <1>1, GrantedFinite, GrantedShare DEF Outstanding

\* A step that grants k references to a raises the count by k.
LEMMA OutstandingGrant ==
    ASSUME RundownTypeOK, NEW a \in Accessors, NEW k \in 1..MaxHold, held[a] + k <= MaxHold,
           held' = [held EXCEPT ![a] = @ + k]
    PROVE  held' \in [Accessors -> 0..MaxHold] /\ Outstanding' = Outstanding + k
<1>1. held \in [Accessors -> 0..MaxHold] /\ held' \in [Accessors -> 0..MaxHold] /\ k \in Nat
    BY MaxHoldPositive DEF RundownTypeOK
<1>2. held'[a] = held[a] + k /\ \A b \in Accessors : b # a => held'[b] = held[b]
    BY <1>1
<1>3. \A h, g \in [Accessors -> 0..MaxHold] :
         g[a] = h[a] + k /\ (\A b \in Accessors : b # a => g[b] = h[b])
         => Cardinality(GrantedOf(g)) = Cardinality(GrantedOf(h)) + k
    BY <1>1, GrantedAdd
<1>4. Cardinality(GrantedOf(held')) = Cardinality(GrantedOf(held)) + k
    BY <1>1, <1>2, <1>3, Zenon
<1>5. QED
    BY <1>1, <1>4 DEF Outstanding, GrantedOf

\* A step that takes k references back from a lowers the count by k.
LEMMA OutstandingDrop ==
    ASSUME RundownTypeOK, NEW a \in Accessors, NEW k \in 1..MaxHold, k <= held[a],
           held' = [held EXCEPT ![a] = @ - k]
    PROVE  held' \in [Accessors -> 0..MaxHold] /\ Outstanding' = Outstanding - k
<1>1. held \in [Accessors -> 0..MaxHold] /\ held' \in [Accessors -> 0..MaxHold] /\ k \in Nat
    BY MaxHoldPositive DEF RundownTypeOK
<1>2. held'[a] = held[a] - k /\ \A b \in Accessors : b # a => held'[b] = held[b]
    BY <1>1
<1>3. \A h, g \in [Accessors -> 0..MaxHold] :
         g[a] = h[a] - k /\ (\A b \in Accessors : b # a => g[b] = h[b])
         => Cardinality(GrantedOf(g)) = Cardinality(GrantedOf(h)) - k
    BY <1>1, GrantedSub
<1>4. Cardinality(GrantedOf(held')) = Cardinality(GrantedOf(held)) - k
    BY <1>1, <1>2, <1>3, Zenon
<1>5. QED
    BY <1>1, <1>4 DEF Outstanding, GrantedOf

\* The two forms of word the actions write.
LEMMA Words ==
    /\ \A n \in Nat : CountWord(n) \in Word /\ ~Active(CountWord(n)) /\ CountWord(n).rest = n
    /\ BlockWord \in Word /\ Active(BlockWord)
    /\ EX_RUNDOWN_ACTIVE \in Word /\ Active(EX_RUNDOWN_ACTIVE)
    /\ BlockWord # EX_RUNDOWN_ACTIVE
    /\ \A w \in Word : Masked(w) \in Word /\ ~Active(Masked(w))
BY PtrIsNoCount DEF CountWord, BlockWord, EX_RUNDOWN_ACTIVE, Masked, Word, Active

\* A step of an accessor that writes nothing shared keeps the invariant when
\* it keeps the accessor's own part.
LEMMA LocalStep ==
    ASSUME ProtectionInv, NEW a \in Accessors, apc[a] # "KeSetEvent",
           NEW label \in {"idle"} \cup AcquirePCs \cup ReleasePCs,
           NEW v \in Word, NEW k \in 1..MaxHold,
           apc' = [apc EXCEPT ![a] = label],
           Value' = [Value EXCEPT ![a] = v],
           Count' = [Count EXCEPT ![a] = k],
           UNCHANGED <<RunRef, WaitBlock, held, tpc, tValue>>,
           AccessorInv(a)'
    PROVE  ProtectionInv'
<1> USE DEF ProtectionInv
<1>1. RundownTypeOK'
    BY DEF RundownTypeOK
<1>2. Outstanding' = Outstanding
    BY DEF Outstanding, GrantedOf
<1>3. WordInv'
    BY <1>2 DEF WordInv, Active, EX_RUNDOWN_ACTIVE, BlockWord
<1>4. \A b \in Accessors : b # a => apc'[b] = apc[b] /\ Value'[b] = Value[b] /\ Count'[b] = Count[b]
    BY DEF RundownTypeOK
<1>5. apc'[a] # "KeSetEvent"
    BY DEF RundownTypeOK, AcquirePCs, ReleasePCs
<1>6. OwnerInv'
    BY <1>2, <1>4 DEF OwnerInv, Active, BlockWord
<1>7. ASSUME NEW b \in Accessors, b # a PROVE AccessorInv(b)'
    BY <1>4, <1>5, <1>7 DEF AccessorInv, Active, BlockWord
<1>8. QED
    BY <1>1, <1>3, <1>6, <1>7

\* A compare-exchange that adds k references to the count keeps it.
LEMMA GrantStep ==
    ASSUME ProtectionInv, NEW a \in Accessors, apc[a] # "KeSetEvent", ~Active(RunRef),
           NEW k \in 1..MaxHold, held[a] + k <= MaxHold,
           RunRef' = CountWord(RunRef.rest + k),
           held' = [held EXCEPT ![a] = @ + k],
           Return(a), UNCHANGED <<WaitBlock, tpc, tValue>>
    PROVE  ProtectionInv'
<1> USE DEF ProtectionInv
<1>1. Outstanding \in Nat /\ k \in Nat /\ RunRef.rest = Outstanding
    BY OutstandingBound, MaxHoldPositive DEF WordInv
<1>2. held' \in [Accessors -> 0..MaxHold] /\ Outstanding' = Outstanding + k
    BY OutstandingGrant
<1>3. RunRef' = CountWord(Outstanding') /\ Outstanding' \in Nat
    BY <1>1, <1>2
<1>4. RundownTypeOK'
    BY <1>2, <1>3, Words, MaxHoldPositive DEF RundownTypeOK, Return, GotoAccessor
<1>5. WordInv'
    BY <1>3, Words DEF WordInv
<1>6. tpc # "KeWait" /\ tpc # "returned"
    BY Words DEF OwnerInv
<1>7. OwnerInv'
    BY <1>3, <1>6, Words DEF OwnerInv
<1>8. \A b \in Accessors : AccessorInv(b)'
    BY <1>6 DEF AccessorInv, Return, GotoAccessor, RundownTypeOK, AcquirePCs, ReleasePCs
<1>9. QED
    BY <1>4, <1>5, <1>7, <1>8

\* A compare-exchange that takes k references off the count keeps it.
LEMMA DropStep ==
    ASSUME ProtectionInv, NEW a \in Accessors, apc[a] # "KeSetEvent", ~Active(RunRef),
           NEW k \in 1..MaxHold, k <= held[a],
           RunRef' = CountWord(RunRef.rest - k),
           held' = [held EXCEPT ![a] = @ - k],
           Return(a), UNCHANGED <<WaitBlock, tpc, tValue>>
    PROVE  ProtectionInv'
<1> USE DEF ProtectionInv
<1>1. Outstanding \in Nat /\ k \in Nat /\ RunRef.rest = Outstanding /\ k <= Outstanding
    BY OutstandingBound, MaxHoldPositive DEF WordInv
<1>2. held' \in [Accessors -> 0..MaxHold] /\ Outstanding' = Outstanding - k
    BY OutstandingDrop
<1>3. RunRef' = CountWord(Outstanding') /\ Outstanding' \in Nat
    BY <1>1, <1>2
<1>4. RundownTypeOK'
    BY <1>2, <1>3, Words, MaxHoldPositive DEF RundownTypeOK, Return, GotoAccessor
<1>5. WordInv'
    BY <1>3, Words DEF WordInv
<1>6. tpc # "KeWait" /\ tpc # "returned"
    BY Words DEF OwnerInv
<1>7. OwnerInv'
    BY <1>3, <1>6, Words DEF OwnerInv
<1>8. \A b \in Accessors : AccessorInv(b)'
    BY <1>6 DEF AccessorInv, Return, GotoAccessor, RundownTypeOK, AcquirePCs, ReleasePCs
<1>9. QED
    BY <1>4, <1>5, <1>7, <1>8

\* Every step keeps the invariant.
LEMMA RundownNextInv == ProtectionInv /\ [RundownNext]_rundownVars => ProtectionInv'
<1> SUFFICES ASSUME ProtectionInv, [RundownNext]_rundownVars PROVE ProtectionInv'
    OBVIOUS
<1> USE DEF ProtectionInv
<1>a. /\ Outstanding \in Nat
      /\ \A a \in Accessors : held[a] \in Nat /\ held[a] <= Outstanding
      /\ \A a \in Accessors : Count[a] \in 1..MaxHold /\ Count[a] \in Nat /\ 1 <= Count[a]
      /\ 1 \in 1..MaxHold
    BY OutstandingBound, MaxHoldPositive DEF RundownTypeOK
<1>b. ASSUME NEW a \in Accessors, held[a] > 0, Active(RunRef)
      PROVE  RunRef = BlockWord /\ tpc = "KeWait"
    BY <1>a, <1>b, Words DEF WordInv, OwnerInv
<1>c. \A a \in Accessors : /\ Count = [Count EXCEPT ![a] = Count[a]]
                           /\ Value = [Value EXCEPT ![a] = Value[a]]
                           /\ apc = [apc EXCEPT ![a] = apc[a]]
    BY DEF RundownTypeOK
<1>1. ASSUME NEW a \in Accessors, AcquireInline(a) PROVE ProtectionInv'
    <2>1. AccessorInv(a)'
        BY <1>1, <1>a, <1>b, MaxHoldPositive, Words
        DEF AcquireInline, GotoAccessor, RundownTypeOK, AccessorInv, AcquirePCs, ReleasePCs
    <2>2. QED
        BY <1>1, <2>1, <1>a, LocalStep, Words, MaxHoldPositive
        DEF AcquireInline, GotoAccessor, RundownTypeOK, AcquirePCs, ReleasePCs
<1>2. ASSUME NEW a \in Accessors, ExfAcquireRead(a) PROVE ProtectionInv'
    <2>1. AccessorInv(a)'
        BY <1>2, <1>a, <1>b, MaxHoldPositive, Words
        DEF ExfAcquireRead, GotoAccessor, RundownTypeOK, AccessorInv, AcquirePCs, ReleasePCs
    <2>2. QED
        BY <1>2, <2>1, <1>a, <1>c, LocalStep, Words, MaxHoldPositive
        DEF ExfAcquireRead, GotoAccessor, RundownTypeOK, AcquirePCs, ReleasePCs
<1>3. ASSUME NEW a \in Accessors, NEW k \in 1..MaxHold, AcquireEx(a, k) PROVE ProtectionInv'
    <2>1. AccessorInv(a)'
        BY <1>3, <1>a, <1>b, MaxHoldPositive, Words
        DEF AcquireEx, GotoAccessor, RundownTypeOK, AccessorInv, AcquirePCs, ReleasePCs
    <2>2. QED
        BY <1>3, <2>1, <1>a, LocalStep, Words, MaxHoldPositive
        DEF AcquireEx, GotoAccessor, RundownTypeOK, AcquirePCs, ReleasePCs
<1>4. ASSUME NEW a \in Accessors, ReleaseInline(a) PROVE ProtectionInv'
    <2>1. AccessorInv(a)'
        BY <1>4, <1>a, <1>b, MaxHoldPositive, Words
        DEF ReleaseInline, GotoAccessor, RundownTypeOK, AccessorInv, AcquirePCs, ReleasePCs
    <2>2. QED
        BY <1>4, <2>1, <1>a, LocalStep, Words, MaxHoldPositive
        DEF ReleaseInline, GotoAccessor, RundownTypeOK, AcquirePCs, ReleasePCs
<1>5. ASSUME NEW a \in Accessors, ExfReleaseRead(a) PROVE ProtectionInv'
    <2>1. AccessorInv(a)'
        BY <1>5, <1>a, <1>b, MaxHoldPositive, Words
        DEF ExfReleaseRead, GotoAccessor, RundownTypeOK, AccessorInv, AcquirePCs, ReleasePCs
    <2>2. QED
        BY <1>5, <2>1, <1>a, <1>c, LocalStep, Words, MaxHoldPositive
        DEF ExfReleaseRead, GotoAccessor, RundownTypeOK, AcquirePCs, ReleasePCs
<1>6. ASSUME NEW a \in Accessors, NEW k \in 1..MaxHold, ReleaseEx(a, k) PROVE ProtectionInv'
    <2>1. AccessorInv(a)'
        BY <1>6, <1>a, <1>b, MaxHoldPositive, Words
        DEF ReleaseEx, GotoAccessor, RundownTypeOK, AccessorInv, AcquirePCs, ReleasePCs
    <2>2. QED
        BY <1>6, <2>1, <1>a, LocalStep, Words, MaxHoldPositive
        DEF ReleaseEx, GotoAccessor, RundownTypeOK, AcquirePCs, ReleasePCs
<1>7. ASSUME NEW a \in Accessors, AcquireInlineCas(a) PROVE ProtectionInv'
    <2>1. ~Active(Value[a]) /\ Count[a] = 1 /\ held[a] + 1 <= MaxHold /\ apc[a] # "KeSetEvent"
        BY <1>7, <1>a DEF AcquireInlineCas, AccessorInv, AcquirePCs, ReleasePCs
    <2>2. CASE RunRef = Value[a]
        BY <1>7, <1>a, <2>1, <2>2, GrantStep DEF AcquireInlineCas
    <2>3. CASE RunRef # Value[a]
        <3>1. /\ apc' = [apc EXCEPT ![a] = "ExfAcquire"]
              /\ UNCHANGED <<RunRef, WaitBlock, held, Value, Count, tpc, tValue>>
            BY <1>7, <2>3 DEF AcquireInlineCas, GotoAccessor
        <3>2. AccessorInv(a)'
            BY <1>7, <2>1, <3>1 DEF AcquireInlineCas, RundownTypeOK, AccessorInv, AcquirePCs, ReleasePCs
        <3>3. QED
            BY <1>a, <1>c, <2>1, <3>1, <3>2, LocalStep DEF RundownTypeOK, AcquirePCs, ReleasePCs
    <2>4. QED
        BY <2>2, <2>3
<1>8. ASSUME NEW a \in Accessors, ReleaseInlineCas(a) PROVE ProtectionInv'
    <2>1. ~Active(Value[a]) /\ Count[a] = 1 /\ 1 <= held[a] /\ apc[a] # "KeSetEvent"
        BY <1>8, <1>a DEF ReleaseInlineCas, AccessorInv, AcquirePCs, ReleasePCs
    <2>2. CASE RunRef = Value[a]
        BY <1>8, <1>a, <2>1, <2>2, DropStep DEF ReleaseInlineCas
    <2>3. CASE RunRef # Value[a]
        <3>1. /\ apc' = [apc EXCEPT ![a] = "ExfRelease"]
              /\ UNCHANGED <<RunRef, WaitBlock, held, Value, Count, tpc, tValue>>
            BY <1>8, <2>3 DEF ReleaseInlineCas, GotoAccessor
        <3>2. AccessorInv(a)'
            BY <1>8, <2>1, <3>1 DEF ReleaseInlineCas, RundownTypeOK, AccessorInv, AcquirePCs, ReleasePCs
        <3>3. QED
            BY <1>a, <1>c, <2>1, <3>1, <3>2, LocalStep DEF RundownTypeOK, AcquirePCs, ReleasePCs
    <2>4. QED
        BY <2>2, <2>3
<1>9. ASSUME NEW a \in Accessors, AcquireLoop(a) PROVE ProtectionInv'
    <2>1. held[a] + Count[a] <= MaxHold /\ apc[a] = "AcquireLoop" /\ apc[a] # "KeSetEvent"
        BY <1>9, <1>a DEF AcquireLoop, AccessorInv, AcquirePCs, ReleasePCs
    <2>2. CASE ~Active(Value[a]) /\ RunRef = Value[a]
        BY <1>9, <1>a, <2>1, <2>2, GrantStep DEF AcquireLoop
    <2>3. CASE ~Active(Value[a]) /\ RunRef # Value[a]
        <3>1. /\ Value' = [Value EXCEPT ![a] = RunRef]
              /\ UNCHANGED <<RunRef, WaitBlock, held, apc, Count, tpc, tValue>>
            BY <1>9, <2>3 DEF AcquireLoop
        <3>2. AccessorInv(a)'
            BY <1>a, <1>b, <2>1, <3>1 DEF RundownTypeOK, AccessorInv, AcquirePCs, ReleasePCs
        <3>3. QED
            BY <1>a, <1>c, <2>1, <3>1, <3>2, LocalStep DEF RundownTypeOK, AcquirePCs, ReleasePCs
    <2>4. CASE Active(Value[a])
        <3>1. AccessorInv(a)'
            BY <1>9, <2>4, <1>a DEF AcquireLoop, Return, GotoAccessor, RundownTypeOK, AccessorInv, AcquirePCs, ReleasePCs
        <3>2. QED
            BY <1>9, <1>a, <2>1, <2>4, <3>1, LocalStep, Words
            DEF AcquireLoop, Return, GotoAccessor, AcquirePCs, ReleasePCs
    <2>5. QED
        BY <2>2, <2>3, <2>4
<1>10. ASSUME NEW a \in Accessors, ReleaseLoop(a) PROVE ProtectionInv'
    <2>1. Count[a] <= held[a] /\ apc[a] = "ReleaseLoop" /\ apc[a] # "KeSetEvent"
        BY <1>10, <1>a DEF ReleaseLoop, AccessorInv, AcquirePCs, ReleasePCs
    <2>2. CASE ~Active(Value[a]) /\ RunRef = Value[a]
        BY <1>10, <1>a, <2>1, <2>2, DropStep DEF ReleaseLoop
    <2>3. CASE ~Active(Value[a]) /\ RunRef # Value[a]
        <3>1. /\ Value' = [Value EXCEPT ![a] = RunRef]
              /\ UNCHANGED <<RunRef, WaitBlock, held, apc, Count, tpc, tValue>>
            BY <1>10, <2>3 DEF ReleaseLoop
        <3>2. AccessorInv(a)'
            BY <1>a, <1>b, <2>1, <3>1 DEF RundownTypeOK, AccessorInv, AcquirePCs, ReleasePCs
        <3>3. QED
            BY <1>a, <1>c, <2>1, <3>1, <3>2, LocalStep DEF RundownTypeOK, AcquirePCs, ReleasePCs
    <2>4. QED
        BY <1>10, <2>2, <2>3 DEF ReleaseLoop
<1>11. ASSUME NEW a \in Accessors, ReleaseToBlock(a) PROVE ProtectionInv'
    <2>1. /\ Count[a] <= held[a] /\ tpc = "KeWait" /\ RunRef = BlockWord
          /\ WaitBlock.Count = Outstanding /\ WaitBlock.WakeEvent # "none"
        BY <1>11, <1>a, Words DEF ReleaseToBlock, AccessorInv, ReleasePCs, OwnerInv
    <2>2. held' \in [Accessors -> 0..MaxHold] /\ Outstanding' = Outstanding - Count[a]
        BY <1>11, <1>a, <2>1, OutstandingDrop DEF ReleaseToBlock
    <2>3. Outstanding' \in Nat
        BY <1>a, <2>1, <2>2
    <2>4. WaitBlock.WakeEvent = "reset" /\ \A b \in Accessors : apc[b] # "KeSetEvent"
        BY <1>a, <2>1 DEF OwnerInv, AccessorInv, RundownTypeOK
    <2>5. WaitBlock' = [Count |-> Outstanding', WakeEvent |-> "reset"]
        BY <1>11, <2>1, <2>2, <2>4 DEF ReleaseToBlock, RundownTypeOK
    <2>6. RundownTypeOK'
        BY <1>11, <1>a, <2>2, <2>3, <2>5, Words DEF ReleaseToBlock, RundownTypeOK, Return, GotoAccessor
    <2>7. WordInv'
        BY <1>11, <2>1, Words DEF ReleaseToBlock, WordInv
    <2>8. apc'[a] = (IF Outstanding' = 0 THEN "KeSetEvent" ELSE "idle")
        BY <1>11, <1>a, <2>1, <2>2 DEF ReleaseToBlock, Return, GotoAccessor, RundownTypeOK
    <2>9. \A b \in Accessors : b # a => apc'[b] = apc[b] /\ Value'[b] = Value[b] /\ Count'[b] = Count[b]
        BY <1>11 DEF ReleaseToBlock, Return, GotoAccessor, RundownTypeOK
    <2>10. OwnerInv'
        BY <1>11, <2>1, <2>5, <2>8, Words DEF ReleaseToBlock, OwnerInv
    <2>11. AccessorInv(a)'
        BY <1>11, <2>1, <2>4, <2>5, <2>8, <2>9 DEF ReleaseToBlock, AccessorInv, AcquirePCs, ReleasePCs
    <2>12. ASSUME NEW b \in Accessors, b # a PROVE AccessorInv(b)'
        BY <1>11, <2>1, <2>4, <2>9, <2>12 DEF ReleaseToBlock, AccessorInv, RundownTypeOK, BlockWord
    <2>13. QED
        BY <2>6, <2>7, <2>10, <2>11, <2>12
<1>12. ASSUME NEW a \in Accessors, ReleaseSetEvent(a) PROVE ProtectionInv'
    <2>1. tpc = "KeWait" /\ WaitBlock.Count = 0
        BY <1>12 DEF ReleaseSetEvent, AccessorInv
    <2>2. Outstanding' = Outstanding
        BY <1>12 DEF ReleaseSetEvent, Outstanding, GrantedOf
    <2>3. WaitBlock' = [Count |-> 0, WakeEvent |-> "set"]
        BY <1>12, <2>1 DEF ReleaseSetEvent, RundownTypeOK
    <2>4. RundownTypeOK'
        BY <1>12, <1>a, <2>3, Words DEF ReleaseSetEvent, RundownTypeOK, Return, GotoAccessor
    <2>5. WordInv' /\ OwnerInv'
        BY <1>12, <2>1, <2>2, <2>3, Words DEF ReleaseSetEvent, WordInv, OwnerInv
    <2>6. \A b \in Accessors : AccessorInv(b)'
        BY <1>12, <2>1, <2>3 DEF ReleaseSetEvent, Return, GotoAccessor, RundownTypeOK, AccessorInv, AcquirePCs, ReleasePCs, BlockWord
    <2>7. QED
        BY <2>4, <2>5, <2>6
<1>d. ASSUME UNCHANGED <<apc, Value, Count, held>>
      PROVE  /\ Outstanding' = Outstanding
             /\ \A a \in Accessors : AccessorInv(a)' <=>
                  /\ apc[a] \in AcquirePCs => held[a] + Count[a] <= MaxHold
                  /\ apc[a] \in ReleasePCs => Count[a] <= held[a]
                  /\ apc[a] \in {"AcquireInlineCas", "ReleaseInlineCas"} => ~Active(Value[a]) /\ Count[a] = 1
                  /\ apc[a] = "ReleaseLoop" /\ Active(Value[a]) => Value[a] = BlockWord /\ tpc' = "KeWait"
                  /\ apc[a] = "KeSetEvent" =>
                       /\ tpc' = "KeWait"
                       /\ WaitBlock'.Count = 0
                       /\ WaitBlock'.WakeEvent = "reset"
                       /\ \A b \in Accessors : apc[b] = "KeSetEvent" => b = a
    BY <1>d DEF Outstanding, GrantedOf, AccessorInv, Active, BlockWord
<1>13. ASSUME NEW from \in {"running", "Exf"}, NEW to \in {"Exf", "ExfLoop"},
              RundownFastCas(from, to), to = "ExfLoop" => WaitBlock'.WakeEvent = "none",
              WaitBlock' \in [Count : Nat, WakeEvent : {"none", "reset", "set"}]
       PROVE  ProtectionInv'
    <2>1. tpc = from /\ tpc' \in {to, "returned"}
        BY <1>13 DEF RundownFastCas
    <2>2. RunRef # BlockWord
        BY <1>13, <2>1 DEF WordInv
    <2>3. CASE RunRef \in {CountWord(0), EX_RUNDOWN_ACTIVE}
        <3>1. RunRef' = EX_RUNDOWN_ACTIVE /\ tpc' = "returned" /\ tValue' = CountWord(0)
            BY <1>13, <2>3 DEF RundownFastCas
        <3>2. Outstanding = 0
            BY <2>3, Words DEF WordInv
        <3>3. QED
            BY <1>13, <1>d, <2>1, <3>1, <3>2, Words
            DEF RundownFastCas, RundownTypeOK, WordInv, OwnerInv, AccessorInv
    <2>4. CASE RunRef \notin {CountWord(0), EX_RUNDOWN_ACTIVE}
        <3>1. RunRef' = RunRef /\ tpc' = to /\ tValue' = RunRef
            BY <1>13, <2>4 DEF RundownFastCas
        <3>2. ~Active(RunRef) /\ RunRef.rest = Outstanding
            BY <2>2, <2>4 DEF WordInv
        <3>3. QED
            BY <1>13, <1>a, <1>d, <2>1, <2>2, <3>1, <3>2, Words
            DEF RundownFastCas, RundownTypeOK, WordInv, OwnerInv, AccessorInv, Active, BlockWord
    <2>5. QED
        BY <2>3, <2>4
<1>14. CASE WaitForRundown
    BY <1>13, <1>14 DEF WaitForRundown, RundownTypeOK
<1>15. CASE ExfWaitForRundown
    BY <1>13, <1>15 DEF ExfWaitForRundown
<1>16. CASE WaitLoop
    <2>1. /\ tpc = "ExfLoop" /\ ~Active(RunRef) /\ RunRef.rest = Outstanding
          /\ ~Active(tValue) /\ tValue.rest \in Nat /\ WaitBlock.WakeEvent \in {"none", "reset"}
        BY <1>16 DEF WaitLoop, OwnerInv, WordInv, RundownTypeOK
    <2>2. UNCHANGED <<apc, Value, Count, held>>
        BY <1>16 DEF WaitLoop
    <2>3. /\ WaitBlock' \in [Count : Nat, WakeEvent : {"none", "reset"}]
          /\ WaitBlock'.Count = tValue.rest
          /\ tValue.rest > 0 => WaitBlock'.WakeEvent = "reset"
        BY <1>16, <2>1 DEF WaitLoop
    <2>4. \A b \in Accessors : apc[b] # "KeSetEvent" /\ ~(apc[b] = "ReleaseLoop" /\ Active(Value[b]))
        BY <2>1 DEF AccessorInv
    <2>5. \A b \in Accessors : AccessorInv(b)'
        BY <1>d, <2>2, <2>4 DEF AccessorInv
    <2>6. CASE RunRef = tValue
        <3>1. /\ RunRef' = BlockWord /\ tValue' = CountWord(0)
              /\ tpc' = IF tValue.rest > 0 THEN "KeWait" ELSE "returned"
            BY <1>16, <2>6 DEF WaitLoop
        <3>2. RundownTypeOK'
            BY <2>2, <2>3, <3>1, Words DEF RundownTypeOK
        <3>3. WordInv'
            BY <3>1, Words DEF WordInv
        <3>4. OwnerInv'
            BY <1>d, <2>1, <2>2, <2>3, <2>6, <3>1, Words DEF OwnerInv
        <3>5. QED
            BY <2>5, <3>2, <3>3, <3>4
    <2>7. CASE RunRef # tValue
        <3>1. tValue' = RunRef /\ UNCHANGED <<RunRef, tpc>>
            BY <1>16, <2>7 DEF WaitLoop
        <3>2. RundownTypeOK'
            BY <2>2, <2>3, <3>1 DEF RundownTypeOK
        <3>3. WordInv'
            BY <1>d, <2>1, <2>2, <3>1 DEF WordInv, Active, BlockWord, EX_RUNDOWN_ACTIVE
        <3>4. OwnerInv'
            BY <1>a, <1>d, <2>1, <2>2, <2>3, <3>1 DEF OwnerInv, Active
        <3>5. QED
            BY <2>5, <3>2, <3>3, <3>4
    <2>8. QED
        BY <2>6, <2>7
<1>17. CASE WaitReturn
    <2>1. tpc = "KeWait" /\ RunRef = BlockWord /\ Outstanding = 0
        BY <1>17 DEF WaitReturn, OwnerInv
    <2>2. \A b \in Accessors : apc[b] # "KeSetEvent" /\ ~(apc[b] = "ReleaseLoop" /\ Active(Value[b]))
        BY <1>17, <1>a, <2>1 DEF WaitReturn, AccessorInv, ReleasePCs
    <2>3. \A b \in Accessors : AccessorInv(b)'
        BY <1>17, <1>d, <2>2 DEF WaitReturn, AccessorInv
    <2>4. RundownTypeOK'
        BY <1>17 DEF WaitReturn, RundownTypeOK
    <2>5. WordInv' /\ OwnerInv'
        BY <1>17, <1>d, <2>1, Words DEF WaitReturn, WordInv, OwnerInv
    <2>6. QED
        BY <2>3, <2>4, <2>5
<1>18. CASE RundownCompleted \/ ReInitialize
    <2>1. /\ tpc = "returned" /\ tpc' = "running" /\ RunRef' \in {EX_RUNDOWN_ACTIVE, CountWord(0)}
          /\ UNCHANGED <<WaitBlock, apc, Value, Count, held, tValue>>
        BY <1>18 DEF RundownCompleted, ReInitialize
    <2>2. Outstanding = 0
        BY <2>1 DEF OwnerInv
    <2>3. \A b \in Accessors : apc[b] # "KeSetEvent" /\ ~(apc[b] = "ReleaseLoop" /\ Active(Value[b]))
        BY <2>1 DEF AccessorInv
    <2>4. \A b \in Accessors : AccessorInv(b)'
        BY <1>d, <2>1, <2>3 DEF AccessorInv
    <2>5. RundownTypeOK'
        BY <2>1, Words DEF RundownTypeOK
    <2>6. WordInv' /\ OwnerInv'
        BY <1>d, <2>1, <2>2, Words DEF WordInv, OwnerInv
    <2>7. QED
        BY <2>4, <2>5, <2>6
<1>19. CASE UNCHANGED rundownVars
    BY <1>19, <1>d DEF rundownVars, RundownTypeOK, WordInv, OwnerInv, AccessorInv, Active, BlockWord, EX_RUNDOWN_ACTIVE
<1>20. QED
    BY <1>1, <1>2, <1>3, <1>4, <1>5, <1>6, <1>7, <1>8, <1>9, <1>10, <1>11, <1>12,
       <1>14, <1>15, <1>16, <1>17, <1>18, <1>19
    DEF RundownNext, Owner, Accessor, StartRelease, InCall

-----------------------------------------------------------------------------
(* Rundown protection: the theorems. *)

\* The invariant holds in every reachable state.
LEMMA RundownInvariance == RundownSpec => []ProtectionInv
BY RundownInitInv, RundownNextInv, PTL DEF RundownSpec

\* The state of rundown protection keeps its type; neither the word nor the
\* block is ever taken below zero.
THEOREM RundownTypeCorrect == RundownSpec => []RundownTypeOK
<1>1. ProtectionInv => RundownTypeOK
    BY DEF ProtectionInv
<1>2. QED
    BY <1>1, RundownInvariance, PTL

\* When ExWaitForRundownProtectionRelease has returned, no reference is held.
THEOREM RundownIsSafe == RundownSpec => []RundownSafe
<1>1. ASSUME ProtectionInv PROVE RundownSafe
    <2>1. tpc = "returned" \/ RunRef = EX_RUNDOWN_ACTIVE => Outstanding = 0
        BY <1>1 DEF ProtectionInv, WordInv, OwnerInv
    <2>2. held \in [Accessors -> 0..MaxHold]
        BY <1>1 DEF ProtectionInv, RundownTypeOK
    <2>3. QED
        BY <2>1, <2>2, GrantedZero DEF RundownSafe, Granted, Outstanding
<1>2. QED
    BY <1>1, RundownInvariance, PTL

\* References are counted exactly once, in the word or in the wait block.
THEOREM CountsAlwaysAgree == RundownSpec => []CountsAgree
<1>1. ASSUME ProtectionInv PROVE CountsAgree
    BY <1>1 DEF ProtectionInv, WordInv, OwnerInv, CountsAgree, Granted, Outstanding
<1>2. QED
    BY <1>1, RundownInvariance, PTL

\* No accessor touches the wait block of a rundown that has returned.
THEOREM BlockAccessIsSafe == RundownSpec => []BlockAccessSafe
<1>1. ASSUME ProtectionInv PROVE BlockAccessSafe
    <2>1. \A a \in Accessors : Outstanding \in Nat /\ held[a] \in Nat /\ held[a] <= Outstanding
        BY <1>1, OutstandingBound DEF ProtectionInv
    <2>2. \A a \in Accessors : Count[a] \in Nat
        BY <1>1, MaxHoldPositive DEF ProtectionInv, RundownTypeOK
    <2>3. QED
        BY <1>1, <2>1, <2>2 DEF ProtectionInv, AccessorInv, OwnerInv, BlockAccessSafe, ReleasePCs
<1>2. QED
    BY <1>1, RundownInvariance, PTL

\* The wakeup of the rundown thread is neither lost nor doubled.
THEOREM WakeupIsUnique == RundownSpec => []OneWakeup
<1>1. ASSUME ProtectionInv PROVE OneWakeup
    <2> DEFINE setters == {a \in Accessors : apc[a] = "KeSetEvent"}
    <2>1. SUFFICES ASSUME tpc = "KeWait"
                   PROVE  /\ WaitBlock.WakeEvent = "set" => WaitBlock.Count = 0 /\ setters = {}
                          /\ WaitBlock.Count = 0 /\ WaitBlock.WakeEvent # "set" => Cardinality(setters) = 1
                          /\ WaitBlock.Count > 0 => setters = {}
        BY DEF OneWakeup
    <2>2. WaitBlock.WakeEvent = "set" => WaitBlock.Count = 0 /\ setters = {}
        BY <1>1, <2>1 DEF ProtectionInv, OwnerInv, AccessorInv
    <2>3. WaitBlock.Count > 0 => setters = {}
        BY <1>1, <2>1 DEF ProtectionInv, OwnerInv, AccessorInv, RundownTypeOK
    <2>4. ASSUME WaitBlock.Count = 0, WaitBlock.WakeEvent # "set" PROVE Cardinality(setters) = 1
        <3>1. PICK a \in Accessors : apc[a] = "KeSetEvent"
            BY <1>1, <2>1, <2>4 DEF ProtectionInv, OwnerInv
        <3>2. setters = {a}
            BY <1>1, <3>1 DEF ProtectionInv, AccessorInv
        <3>3. QED
            BY <3>2, FS_Singleton
    <2>5. QED
        BY <2>2, <2>3, <2>4
<1>2. QED
    BY <1>1, RundownInvariance, PTL

\* The assertions of the owner's routines hold.
THEOREM OwnerAssertsHold == RundownSpec => []OwnerAsserts
<1>1. ASSUME ProtectionInv PROVE OwnerAsserts
    BY <1>1 DEF ProtectionInv, OwnerInv, OwnerAsserts
<1>2. QED
    BY <1>1, RundownInvariance, PTL

\* While rundown is active no step grants a reference.
THEOREM NoGrantOnceActive == RundownSpec => NoGrantWhileActive
<1>1. ASSUME ProtectionInv, RundownNext, Active(RunRef), NEW a \in Accessors
      PROVE  held'[a] <= held[a]
    <2>1. /\ \A b \in Accessors : held[b] \in Nat /\ Count[b] \in Nat
          /\ held \in [Accessors -> 0..MaxHold]
        BY <1>1, MaxHoldPositive DEF ProtectionInv, RundownTypeOK
    <2>2. CASE Owner
        BY <2>1, <2>2 DEF Owner, WaitForRundown, ExfWaitForRundown, RundownFastCas, WaitLoop,
                          WaitReturn, RundownCompleted, ReInitialize
    <2>3. ASSUME NEW b \in Accessors, Accessor(b) PROVE held'[a] <= held[a]
        <3>1. CASE UNCHANGED held
            BY <2>1, <3>1
        <3>2. CASE AcquireInlineCas(b) \/ AcquireLoop(b)
            BY <1>1, <2>1, <3>2 DEF ProtectionInv, AccessorInv, AcquireInlineCas, AcquireLoop
        <3>3. CASE ReleaseInlineCas(b) \/ ReleaseLoop(b) \/ ReleaseToBlock(b)
            BY <2>1, <3>3 DEF ReleaseInlineCas, ReleaseLoop, ReleaseToBlock
        <3>4. QED
            BY <2>3, <3>1, <3>2, <3>3
            DEF Accessor, StartRelease, InCall, AcquireInline, AcquireEx, ReleaseInline, ReleaseEx,
                ExfAcquireRead, ExfReleaseRead, ReleaseSetEvent
    <2>4. QED
        BY <1>1, <2>2, <2>3 DEF RundownNext
<1>2. ASSUME ProtectionInv, [RundownNext]_rundownVars
      PROVE  [Active(RunRef) => \A a \in Accessors : held'[a] <= held[a]]_rundownVars
    BY <1>1, <1>2
<1>3. QED
    BY <1>2, RundownInvariance, PTL DEF RundownSpec, NoGrantWhileActive

-----------------------------------------------------------------------------
(* Callbacks: the inductive invariant *)

\* Where a thread has no block, is after a reference, or holds the lock
NoBlock == {"idle", "Reference", "FastReferenceCas", "SlowLock", "SlowRead"}
Referencing == {"Reference", "FastReferenceCas", "SlowLock", "SlowRead", "SlowAcquire",
                "SlowUnlock", "Refill", "RefillRead", "RefillCas", "RefillUndo", "held"}
LockPCs == {"SlowRead", "SlowAcquire", "SlowUnlock", "FlushUnlock"}

\* What a thread knows at each place of its code
CallInv(t) ==
    /\ pc[t] \in NoBlock => block[t] = NULL
    /\ pc[t] \notin NoBlock \cup {"SlowAcquire", "SlowUnlock"} => block[t] \in Blocks
    /\ pc[t] \in Referencing \cup {"DereferenceCas"} => op[t] \in {"call", "remove"}
    /\ pc[t] \in {"Dereference", "DereferenceBlock"} => op[t] # "install"
    /\ pc[t] \in {"Bias", "Unbias"} => op[t] = "install"
    /\ pc[t] \in {"Swap", "SwapCas"} => op[t] \in {"install", "remove"}
    /\ pc[t] \in FlushRefs => op[t] = "remove"
    /\ pc[t] \in {"WaitForCallBacks", "Waiting"} => op[t] = "removed"
    /\ pc[t] = "FastReferenceCas" => OldRef[t].RefCnt # 0
    /\ pc[t] = "RefillCas" => OldRef[t].Object = block[t] /\ OldRef[t].RefCnt = 0
    /\ pc[t] = "DereferenceCas" =>
         OldRef[t].Object = block[t] /\ OldRef[t].RefCnt # MAX_FAST_REFS
    /\ pc[t] = "SwapCas" => OldRef[t].Object = OldBlock(t)

\* The thread has a new block that is not yet in the slot.
Installing(t) ==
    \/ pc[t] \in {"Bias", "Unbias"}
    \/ pc[t] \in {"Swap", "SwapCas"} /\ op[t] = "install"

\* Nobody else has the block of a thread that installs.
FreshInv ==
    \A t \in Threads : Installing(t) => \A u \in Threads \ {t} : block[u] # block[t]

\* The thread a block belongs to while it is not in the slot
Owns(t) ==
    \/ Installing(t)
    \/ pc[t] \in FlushRefs \cup {"WaitForCallBacks", "Waiting", "Free"}
    \/ pc[t] \in {"Dereference", "DereferenceBlock"} /\ op[t] = "removed"

\* An owned block is allocated and out of the slot, and has one owner.
OwnInv ==
    /\ \A t \in Threads : Owns(t) =>
         block[t] \in allocated /\ RoutineBlock.Object # block[t]
    /\ \A t, u \in Threads : Owns(t) /\ Owns(u) /\ block[t] = block[u] => t = u

\* Only the block of a thread that waits, or has waited, is closed.
RundownInv ==
    \A b \in rundown :
        \E t \in Threads : pc[t] \in {"Waiting", "Free"} /\ block[t] = b

\* Who holds the push lock is where the code holds it.
LockInv == \A t \in Threads : pc[t] \in LockPCs <=> ExpCallBackFlush = t

\* The block a slow referencer found is in the slot, or its remover has not
\* passed the flush.
OutForFlush(b) == \E u \in Threads : pc[u] \in {"Flush", "FlushLock"} /\ block[u] = b
SlowInv ==
    \A t \in Threads : pc[t] = "SlowAcquire" /\ block[t] # NULL =>
        RoutineBlock.Object = block[t] \/ OutForFlush(block[t])

\* A block that is about to be freed has no reference.
FreeInv == \A t \in Threads : pc[t] = "Free" => RundownProtect[block[t]] = 0

\* A block's count is its references, and a block in the pool has none.
CountInv == \A b \in Blocks : RundownProtect[b] = References(b)

PoolInv == \A b \in Blocks \ allocated : RundownProtect[b] = 0

\* The inductive invariant
IInv ==
    /\ TypeOK
    /\ \A t \in Threads : CallInv(t)
    /\ FreshInv
    /\ OwnInv
    /\ RundownInv
    /\ LockInv
    /\ SlowInv
    /\ FreeInv
    /\ CountInv
    /\ PoolInv

-----------------------------------------------------------------------------
(* Counting references *)

\* The most references a thread has, and what each may have
MaxShare == MAX_FAST_REFS + 2
Shares == [Threads -> 0 .. MaxShare]

\* The set of the threads' references is finite.
LEMMA SharesFinite ==
    ASSUME NEW h \in Shares
    PROVE  /\ IsFiniteSet(SharesOf(h))
           /\ Cardinality(SharesOf(h)) \in Nat
<1>1. 1 \in Int /\ MaxShare \in Int
    BY MaxFastRefsPositive DEF MaxShare
<1>2. IsFiniteSet(1 .. MaxShare)
    BY <1>1, FS_Interval
<1>3. IsFiniteSet(Threads \X (1 .. MaxShare))
    BY <1>2, FS_Product, ThreadsFinite
<1>4. SharesOf(h) \in SUBSET (Threads \X (1 .. MaxShare))
    BY DEF SharesOf, MaxShare
<1>5. QED
    BY <1>3, <1>4, FS_Subset, FS_CardinalityType

\* The references number i + 1 to i + k of one thread are k.
LEMMA ShareCardinality ==
    ASSUME NEW t \in Threads, NEW i \in Nat, NEW k \in Nat
    PROVE  /\ IsFiniteSet({t} \X (i + 1 .. i + k))
           /\ Cardinality({t} \X (i + 1 .. i + k)) = k
<1> DEFINE I == i + 1 .. i + k
           S == {t} \X I
           f == [n \in I |-> <<t, n>>]
<1>1. IsFiniteSet(I) /\ Cardinality(I) = k
    BY FS_Interval
<1>2. f \in [I -> S]
    OBVIOUS
<1>3. \A x, y \in I : f[x] = f[y] => x = y
    OBVIOUS
<1>4. \A s \in S : \E x \in I : f[x] = s
    OBVIOUS
<1>5. f \in Bijection(I, S)
    BY <1>2, <1>3, <1>4 DEF Bijection, Injection, Surjection, IsInjective
<1>6. ExistsBijection(I, S)
    BY <1>5 DEF ExistsBijection
<1>7. QED
    BY <1>1, <1>6, FS_Bijection

\* One thread with k more references makes k more of them.
LEMMA ShareMore ==
    ASSUME NEW h \in Shares, NEW g \in Shares, NEW t \in Threads, NEW k \in Nat,
           g[t] = h[t] + k, \A u \in Threads \ {t} : g[u] = h[u]
    PROVE  Cardinality(SharesOf(g)) = Cardinality(SharesOf(h)) + k
<1>1. MaxShare \in Nat /\ MaxShare = MAX_FAST_REFS + 2
    BY MaxFastRefsPositive DEF MaxShare
<1>2. \A u \in Threads : h[u] \in Nat /\ g[u] \in Nat /\ g[u] <= MaxShare
    BY <1>1 DEF Shares
<1>3. PICK n \in Nat : n = h[t]
    BY <1>2
<1> DEFINE S == {t} \X (n + 1 .. n + k)
<1>4. IsFiniteSet(S) /\ Cardinality(S) = k
    BY ONLY ShareCardinality, n \in Nat, k \in Nat, t \in Threads, SMTT(30)
<1>5. SharesOf(g) = SharesOf(h) \cup S
    <2>1. \A u \in Threads : g[u] = IF u = t THEN n + k ELSE h[u]
        BY <1>3
    <2>2. n + k <= MaxShare
        BY <1>2, <2>1
    <2>3. QED
        BY <1>1, <1>2, <1>3, <2>1, <2>2 DEF SharesOf
<1>6. SharesOf(h) \cap S = {}
    BY <1>3 DEF SharesOf
<1> HIDE DEF S
<1>7. Cardinality(SharesOf(h) \cup S)
        = Cardinality(SharesOf(h)) + Cardinality(S) - Cardinality(SharesOf(h) \cap S)
    BY <1>4, SharesFinite, FS_Union
<1>8. Cardinality(SharesOf(h)) \in Nat /\ Cardinality(SharesOf(h) \cap S) = 0
    BY <1>6, SharesFinite, FS_EmptySet
<1>9. QED
    BY <1>4, <1>5, <1>7, <1>8

\* The number of references follows the share of the one thread that changes.
LEMMA ShareChange ==
    ASSUME NEW h \in Shares, NEW g \in Shares, NEW t \in Threads,
           \A u \in Threads \ {t} : g[u] = h[u]
    PROVE  /\ h[t] \in Nat /\ g[t] \in Nat
           /\ Cardinality(SharesOf(h)) \in Nat
           /\ Cardinality(SharesOf(g)) = Cardinality(SharesOf(h)) + (g[t] - h[t])
<1>1. MaxShare \in Nat
    BY MaxFastRefsPositive DEF MaxShare
<1>2. h[t] \in Nat /\ g[t] \in Nat
    BY <1>1 DEF Shares
<1>3. Cardinality(SharesOf(h)) \in Nat /\ Cardinality(SharesOf(g)) \in Nat
    BY SharesFinite
<1>4. CASE h[t] <= g[t]
    <2>1. PICK k \in Nat : k = g[t] - h[t]
        BY <1>2, <1>4
    <2>2. g[t] = h[t] + k
        BY <1>2, <2>1
    <2>3. Cardinality(SharesOf(g)) = Cardinality(SharesOf(h)) + k
        BY <2>2, ShareMore
    <2>4. QED
        BY <1>2, <1>3, <2>1, <2>3
<1>5. CASE ~(h[t] <= g[t])
    <2>1. PICK k \in Nat : k = h[t] - g[t]
        BY <1>2, <1>5
    <2>2. h[t] = g[t] + k /\ \A u \in Threads \ {t} : h[u] = g[u]
        BY <1>2, <2>1
    <2>3. Cardinality(SharesOf(h)) = Cardinality(SharesOf(g)) + k
        BY <2>2, ShareMore
    <2>4. QED
        BY <1>2, <1>3, <2>1, <2>3
<1>6. QED
    BY <1>4, <1>5

\* No thread has more references than there are.
LEMMA ShareBound ==
    ASSUME NEW h \in Shares, NEW t \in Threads
    PROVE  /\ h[t] \in Nat
           /\ Cardinality(SharesOf(h)) \in Nat
           /\ h[t] <= Cardinality(SharesOf(h))
<1>1. MaxShare \in Nat
    BY MaxFastRefsPositive DEF MaxShare
<1>2. PICK g \in Shares : g[t] = 0 /\ \A u \in Threads \ {t} : g[u] = h[u]
    <2>1. [h EXCEPT ![t] = 0] \in Shares
        BY <1>1 DEF Shares
    <2>2. QED
        BY <2>1 DEF Shares
<1>3. /\ h[t] \in Nat
      /\ Cardinality(SharesOf(h)) \in Nat
      /\ Cardinality(SharesOf(g)) = Cardinality(SharesOf(h)) + (0 - h[t])
    BY <1>2, ShareChange
<1>4. Cardinality(SharesOf(g)) \in Nat
    BY SharesFinite
<1>5. QED
    BY <1>3, <1>4

\* What a thread holds, place by place
HeldFacts(t) ==
    /\ pc[t] \in OwnRefs => Held(t) = 1
    /\ pc[t] = "SlowUnlock" => Held(t) = IF block[t] # NULL THEN 1 ELSE 0
    /\ pc[t] \in RefillRefs => Held(t) = 1 + MAX_FAST_REFS
    /\ pc[t] \in FlushRefs => Held(t) = 1 + OldRef[t].RefCnt + 1
    /\ pc[t] \in {"Swap", "SwapCas"} =>
         Held(t) = IF op[t] = "install" THEN MAX_FAST_REFS + 1 ELSE 1
    /\ pc[t] = "Unbias" => Held(t) = MAX_FAST_REFS + 1
    /\ pc[t] \in NoBlock \cup {"SlowAcquire", "Bias", "WaitForCallBacks", "Waiting", "Free"}
         => Held(t) = 0

\* The places of a thread decide what it holds, and that is within the bound.
LEMMA HeldAt ==
    ASSUME TypeOK, NEW t \in Threads, CallInv(t)
    PROVE  HeldFacts(t) /\ Held(t) \in 0 .. MaxShare
<1>1. HeldFacts(t)
    BY DEF HeldFacts, Held, CallInv, OwnRefs, RefillRefs, FlushRefs, NoBlock
<1>2. MAX_FAST_REFS \in Nat /\ MAX_FAST_REFS >= 1 /\ OldRef[t].RefCnt \in 0 .. MAX_FAST_REFS
    BY MaxFastRefsPositive DEF TypeOK, FastRef
<1>3. pc[t] \in Labels
    BY DEF TypeOK
<1>4. QED
    BY <1>1, <1>2, <1>3 DEF HeldFacts, Labels, OwnRefs, RefillRefs, FlushRefs, NoBlock, MaxShare

\* The same of the state after a step
LEMMA HeldAtNext ==
    ASSUME TypeOK', NEW t \in Threads, CallInv(t)'
    PROVE  HeldFacts(t)' /\ Held(t)' \in 0 .. MaxShare
<1>1. HeldFacts(t)'
    BY DEF HeldFacts, Held, CallInv, OwnRefs, RefillRefs, FlushRefs, NoBlock
<1>2. /\ MAX_FAST_REFS \in Nat
      /\ MAX_FAST_REFS >= 1
      /\ OldRef'[t].RefCnt \in 0 .. MAX_FAST_REFS
    BY MaxFastRefsPositive DEF TypeOK, FastRef
<1>3. pc'[t] \in Labels
    BY DEF TypeOK
<1>4. QED
    BY <1>1, <1>2, <1>3 DEF HeldFacts, Labels, OwnRefs, RefillRefs, FlushRefs, NoBlock, MaxShare

-----------------------------------------------------------------------------
(* What the steps have in common *)

\* Only thread t's own variables change.
Only(t) ==
    \A u \in Threads \ {t} :
        /\ pc'[u] = pc[u]
        /\ op'[u] = op[u]
        /\ block'[u] = block[u]
        /\ OldRef'[u] = OldRef[u]

\* The references to b that t has
MyShare(b, t) == IF block[t] = b THEN Held(t) ELSE 0

\* What a step adds to a block's count it adds to the references to the block.
Balanced(t) ==
    \A b \in Blocks :
        RundownProtect'[b] - RundownProtect[b]
            = (SlotShare(b)' - SlotShare(b)) + (MyShare(b, t)' - MyShare(b, t))

\* The values of a fast reference
LEMMA FastRefs ==
    /\ MAX_FAST_REFS \in Nat /\ MAX_FAST_REFS >= 1
    /\ EmptyRef \in FastRef /\ EmptyRef.Object = NULL /\ EmptyRef.RefCnt = 0
    /\ \A b \in Blocks : /\ b # NULL
                         /\ FullRef(b) \in FastRef
                         /\ FullRef(b).Object = b
                         /\ FullRef(b).RefCnt = MAX_FAST_REFS
    /\ \A r \in FastRef : /\ r.Object \in Blocks \cup {NULL}
                          /\ r.RefCnt \in Nat
                          /\ r.RefCnt <= MAX_FAST_REFS
                          /\ r.Object = NULL => r.RefCnt = 0
                          /\ r = [Object |-> r.Object, RefCnt |-> r.RefCnt]
    /\ \A r \in FastRef : \A n \in 0 .. MAX_FAST_REFS :
         r.Object # NULL => /\ [r EXCEPT !.RefCnt = n] \in FastRef
                            /\ [r EXCEPT !.RefCnt = n].Object = r.Object
                            /\ [r EXCEPT !.RefCnt = n].RefCnt = n
<1>1. MAX_FAST_REFS \in Nat /\ MAX_FAST_REFS >= 1
    BY MaxFastRefsPositive
<1>2. \A b \in Blocks : b # NULL
    BY NullIsNone
<1>3. EmptyRef \in FastRef /\ EmptyRef.Object = NULL /\ EmptyRef.RefCnt = 0
    BY <1>1 DEF EmptyRef, FastRef
<1>4. \A b \in Blocks : /\ FullRef(b) \in FastRef
                        /\ FullRef(b).Object = b
                        /\ FullRef(b).RefCnt = MAX_FAST_REFS
    BY <1>1, <1>2 DEF FullRef, FastRef
<1>5. \A r \in FastRef : /\ r.Object \in Blocks \cup {NULL}
                         /\ r.RefCnt \in Nat
                         /\ r.RefCnt <= MAX_FAST_REFS
                         /\ r.Object = NULL => r.RefCnt = 0
                         /\ r = [Object |-> r.Object, RefCnt |-> r.RefCnt]
    BY <1>1 DEF FastRef
<1>6. \A r \in FastRef : \A n \in 0 .. MAX_FAST_REFS :
         r.Object # NULL => /\ [r EXCEPT !.RefCnt = n] \in FastRef
                            /\ [r EXCEPT !.RefCnt = n].Object = r.Object
                            /\ [r EXCEPT !.RefCnt = n].RefCnt = n
    BY <1>1 DEF FastRef
<1>7. QED
    BY <1>1, <1>2, <1>3, <1>4, <1>5, <1>6

\* What a thread knows does not depend on the others.
LEMMA CallKept ==
    ASSUME \A u \in Threads : CallInv(u), NEW t \in Threads, Only(t), CallInv(t)'
    PROVE  \A u \in Threads : CallInv(u)'
<1> SUFFICES ASSUME NEW u \in Threads, u # t PROVE CallInv(u)'
    OBVIOUS
<1>1. pc'[u] = pc[u] /\ op'[u] = op[u] /\ block'[u] = block[u] /\ OldRef'[u] = OldRef[u]
    BY DEF Only
<1>2. QED
    BY <1>1 DEF CallInv, OldBlock

\* A balanced step keeps the counts equal to the references.
LEMMA CountKept ==
    ASSUME TypeOK, TypeOK', \A u \in Threads : CallInv(u), NEW t \in Threads, Only(t),
           CallInv(t)', Balanced(t), CountInv
    PROVE  CountInv'
<1> SUFFICES ASSUME NEW b \in Blocks PROVE RundownProtect'[b] = References(b)'
    BY DEF CountInv
<1>1. \A u \in Threads : CallInv(u)'
    BY CallKept
<1>2. MaxShare \in Nat
    BY MaxFastRefsPositive DEF MaxShare
<1>3. \A u \in Threads : Held(u) \in 0 .. MaxShare
    BY HeldAt
<1>4. \A u \in Threads : Held(u)' \in 0 .. MaxShare
    BY <1>1, HeldAtNext
<1>5. PICK h \in Shares : h = Share(b)
    <2>1. \A u \in Threads : (IF block[u] = b THEN Held(u) ELSE 0) \in 0 .. MaxShare
        BY <1>2, <1>3
    <2>2. Share(b) \in Shares
        BY <2>1, Zenon DEF Share, Shares
    <2>3. QED
        BY <2>2, Zenon
<1>6. PICK g \in Shares : g = Share(b)'
    <2>1. \A u \in Threads : (IF block'[u] = b THEN Held(u)' ELSE 0) \in 0 .. MaxShare
        BY <1>2, <1>4
    <2>2. Share(b)' \in Shares
        BY <2>1, Zenon DEF Share, Shares
    <2>3. QED
        BY <2>2, Zenon
<1>7. \A u \in Threads : h[u] = MyShare(b, u) /\ g[u] = MyShare(b, u)'
    BY <1>5, <1>6 DEF Share, MyShare
<1>8. \A u \in Threads \ {t} : g[u] = h[u]
    <2> SUFFICES ASSUME NEW u \in Threads \ {t} PROVE MyShare(b, u)' = MyShare(b, u)
        BY <1>7
    <2>1. pc'[u] = pc[u] /\ op'[u] = op[u] /\ block'[u] = block[u] /\ OldRef'[u] = OldRef[u]
        BY DEF Only
    <2>2. Held(u)' = Held(u)
        BY <2>1 DEF Held
    <2>3. QED
        BY <2>1, <2>2 DEF MyShare
<1>9. /\ h[t] \in Nat /\ g[t] \in Nat
      /\ Cardinality(SharesOf(h)) \in Nat
      /\ Cardinality(SharesOf(g)) = Cardinality(SharesOf(h)) + (g[t] - h[t])
    BY <1>8, ShareChange
<1>10. References(b) = SlotShare(b) + Cardinality(SharesOf(h))
    BY <1>5 DEF References
<1>11. References(b)' = SlotShare(b)' + Cardinality(SharesOf(g))
    BY <1>6 DEF References, SharesOf
<1>12. /\ SlotShare(b) \in Nat /\ SlotShare(b)' \in Nat
       /\ RundownProtect[b] \in Nat /\ RundownProtect'[b] \in Nat
    BY FastRefs DEF TypeOK, SlotShare
<1>13. RundownProtect[b] = References(b)
    BY DEF CountInv
<1>14. RundownProtect'[b] - RundownProtect[b]
            = (SlotShare(b)' - SlotShare(b)) + (g[t] - h[t])
    BY <1>7 DEF Balanced
<1>15. QED
    BY <1>9, <1>10, <1>11, <1>12, <1>13, <1>14

\* A block's count covers what each thread and the slot have.
LEMMA CountBound ==
    ASSUME TypeOK, \A u \in Threads : CallInv(u), CountInv, NEW b \in Blocks
    PROVE  /\ RundownProtect[b] \in Nat
           /\ \A t \in Threads : block[t] = b =>
                Held(t) \in Nat /\ Held(t) <= RundownProtect[b]
           /\ RoutineBlock.Object = b => RundownProtect[b] > 0
<1>1. MaxShare \in Nat
    BY MaxFastRefsPositive DEF MaxShare
<1>2. \A u \in Threads : Held(u) \in 0 .. MaxShare
    BY HeldAt
<1>3. PICK h \in Shares : h = Share(b)
    <2>1. \A u \in Threads : (IF block[u] = b THEN Held(u) ELSE 0) \in 0 .. MaxShare
        BY <1>1, <1>2
    <2>2. Share(b) \in Shares
        BY <2>1, Zenon DEF Share, Shares
    <2>3. QED
        BY <2>2, Zenon
<1>4. References(b) = SlotShare(b) + Cardinality(SharesOf(h))
    BY <1>3 DEF References
<1>5. \A u \in Threads : h[u] \in Nat /\ h[u] <= Cardinality(SharesOf(h))
    BY ShareBound
<1>6. Cardinality(SharesOf(h)) \in Nat
    BY SharesFinite
<1>7. SlotShare(b) \in Nat /\ (RoutineBlock.Object = b => SlotShare(b) > 0)
    BY FastRefs DEF TypeOK, SlotShare
<1>8. RundownProtect[b] = References(b)
    BY DEF CountInv
<1>9. ASSUME NEW t \in Threads, block[t] = b
      PROVE  Held(t) \in Nat /\ Held(t) <= RundownProtect[b]
    <2>1. h[t] = Held(t)
        BY <1>3, <1>9 DEF Share
    <2>2. QED
        BY <1>4, <1>5, <1>6, <1>7, <1>8, <2>1
<1>10. QED
    BY <1>4, <1>6, <1>7, <1>8, <1>9
\* A thread owns no block but the one it owned: the owners stay apart.
LEMMA OwnKept ==
    ASSUME OwnInv, NEW t \in Threads, Only(t), allocated' = allocated,
           RoutineBlock'.Object = RoutineBlock.Object,
           Owns(t)' => Owns(t) /\ block'[t] = block[t]
    PROVE  OwnInv'
<1>1. \A u \in Threads : Owns(u)' => Owns(u) /\ block'[u] = block[u]
    BY DEF Only, Owns, Installing
<1>2. QED
    BY <1>1 DEF OwnInv

\* Nobody comes to a new block: what a thread finds is in the slot.
LEMMA FreshKept ==
    ASSUME FreshInv, OwnInv, \A u \in Threads : CallInv(u), NEW t \in Threads, Only(t),
           Installing(t)' => Installing(t) /\ block'[t] = block[t],
           block'[t] \in {block[t], NULL, RoutineBlock.Object}
    PROVE  FreshInv'
<1> SUFFICES ASSUME NEW u \in Threads, Installing(u)', NEW v \in Threads \ {u}
             PROVE  block'[v] # block'[u]
    BY DEF FreshInv
<1>1. Installing(u) /\ block'[u] = block[u]
    BY DEF Only, Installing
<1>2. block[v] # block[u]
    BY <1>1 DEF FreshInv
<1>3. block[u] \in Blocks /\ RoutineBlock.Object # block[u] /\ block[u] # NULL
    BY <1>1, FastRefs DEF OwnInv, Owns, Installing, CallInv, NoBlock
<1>4. QED
    BY <1>1, <1>2, <1>3 DEF Only

\* A closed block still has its waiter.
LEMMA RundownKept ==
    ASSUME RundownInv, NEW t \in Threads, Only(t), rundown' = rundown,
           pc[t] \in {"Waiting", "Free"} =>
             pc'[t] \in {"Waiting", "Free"} /\ block'[t] = block[t]
    PROVE  RundownInv'
<1>1. \A u \in Threads : pc[u] \in {"Waiting", "Free"} =>
         pc'[u] \in {"Waiting", "Free"} /\ block'[u] = block[u]
    BY DEF Only
<1>2. QED
    BY <1>1 DEF RundownInv

\* A step that neither takes nor gives the lock
LEMMA LockKept ==
    ASSUME LockInv, NEW t \in Threads, Only(t), ExpCallBackFlush' = ExpCallBackFlush,
           pc'[t] \in LockPCs <=> pc[t] \in LockPCs
    PROVE  LockInv'
BY DEF LockInv, Only

\* A slow referencer's block stays where it was found, or is out for the flush.
LEMMA SlowKept ==
    ASSUME SlowInv, NEW t \in Threads, Only(t),
           RoutineBlock'.Object = RoutineBlock.Object,
           pc[t] \in {"Flush", "FlushLock"} =>
             pc'[t] \in {"Flush", "FlushLock"} /\ block'[t] = block[t],
           pc'[t] # "SlowAcquire"
    PROVE  SlowInv'
<1> SUFFICES ASSUME NEW u \in Threads, pc'[u] = "SlowAcquire", block'[u] # NULL
             PROVE  RoutineBlock'.Object = block'[u] \/ OutForFlush(block[u])'
    BY DEF SlowInv, OutForFlush
<1>1. pc[u] = "SlowAcquire" /\ block'[u] = block[u]
    BY DEF Only
<1>2. RoutineBlock.Object = block[u] \/ OutForFlush(block[u])
    BY <1>1 DEF SlowInv
<1>3. \A v \in Threads : pc[v] \in {"Flush", "FlushLock"} =>
         pc'[v] \in {"Flush", "FlushLock"} /\ block'[v] = block[v]
    BY DEF Only
<1>4. QED
    BY <1>1, <1>2, <1>3 DEF OutForFlush

\* A thread that is about to free its block is the only one that has it.
LEMMA FreeIsAlone ==
    ASSUME IInv, NEW t \in Threads, pc[t] = "Free", NEW u \in Threads \ {t},
           block[u] = block[t]
    PROVE  FALSE
<1>1. block[t] \in Blocks
    BY DEF IInv, CallInv, NoBlock
<1> DEFINE b == block[t]
<1>2. RundownProtect[b] = 0 /\ RoutineBlock.Object # b /\ Owns(t)
    BY DEF IInv, FreeInv, OwnInv, Owns
<1>3. Held(u) = 0
    <2>1. Held(u) \in Nat /\ Held(u) <= RundownProtect[b]
        BY <1>1, CountBound DEF IInv
    <2>2. QED
        BY <1>2, <2>1
<1>4. HeldFacts(u) /\ CallInv(u) /\ pc[u] \in Labels
    BY HeldAt DEF IInv, TypeOK
<1>5. ~Owns(u)
    BY <1>2 DEF IInv, OwnInv
<1>6. OldRef[u].RefCnt \in Nat /\ MAX_FAST_REFS \in Nat /\ b # NULL
    BY <1>1, FastRefs DEF IInv, TypeOK
<1>7. pc[u] = "SlowAcquire"
    BY <1>1, <1>3, <1>4, <1>5, <1>6
       DEF HeldFacts, CallInv, Owns, Installing, Labels, OwnRefs, RefillRefs, FlushRefs, NoBlock
<1>8. OutForFlush(b)
    BY <1>2, <1>6, <1>7 DEF IInv, SlowInv
<1>9. PICK v \in Threads : pc[v] \in {"Flush", "FlushLock"} /\ block[v] = b
    BY <1>8 DEF OutForFlush
<1>10. Owns(v) /\ v # t
    BY <1>9 DEF Owns, FlushRefs
<1>11. QED
    BY <1>2, <1>9, <1>10 DEF IInv, OwnInv

\* A step that counts only at its own block leaves a freed block's count alone.
LEMMA FreeKept ==
    ASSUME IInv, NEW t \in Threads, Only(t),
           \A b \in Blocks : RundownProtect'[b] # RundownProtect[b] => b = block[t],
           pc'[t] = "Free" => RundownProtect'[block'[t]] = 0
    PROVE  FreeInv'
<1> SUFFICES ASSUME NEW u \in Threads, u # t, pc'[u] = "Free"
             PROVE  RundownProtect'[block'[u]] = 0
    BY DEF FreeInv
<1>1. pc[u] = "Free" /\ block'[u] = block[u]
    BY DEF Only
<1>2. RundownProtect[block[u]] = 0 /\ block[u] \in Blocks
    BY <1>1 DEF IInv, FreeInv, CallInv, NoBlock
<1>3. block[t] # block[u]
    BY <1>1, FreeIsAlone
<1>4. QED
    BY <1>1, <1>2, <1>3

\* A thread's block is allocated when the thread has a reference to it, owns it
\* or has found it under the lock.
LEMMA BlockAllocated ==
    ASSUME IInv, NEW t \in Threads, block[t] \in Blocks
    PROVE  /\ block[t] \in allocated
           /\ ~Owns(t) => RundownProtect[block[t]] > 0
<1> DEFINE b == block[t]
<1>1. \A c \in Blocks : RundownProtect[c] \in Nat /\ (RundownProtect[c] > 0 => c \in allocated)
    BY DEF IInv, TypeOK, PoolInv
<1>2. CASE Owns(t)
    BY <1>2 DEF IInv, OwnInv
<1>3. CASE ~Owns(t)
    <2>1. HeldFacts(t) /\ CallInv(t) /\ pc[t] \in Labels
        BY HeldAt DEF IInv, TypeOK
    <2>2. b # NULL /\ MAX_FAST_REFS \in Nat /\ OldRef[t].RefCnt \in Nat
        BY FastRefs DEF IInv, TypeOK
    <2>3. Held(t) > 0 \/ pc[t] = "SlowAcquire"
        BY <1>3, <2>1, <2>2
           DEF HeldFacts, CallInv, Owns, Installing, Labels, OwnRefs, RefillRefs, FlushRefs, NoBlock
    <2>4. CASE Held(t) > 0
        <3>1. Held(t) \in Nat /\ Held(t) <= RundownProtect[b]
            BY CountBound DEF IInv
        <3>2. RundownProtect[b] > 0
            BY <1>1, <2>4, <3>1
        <3>3. QED
            BY <1>1, <3>2
    <2>5. CASE pc[t] = "SlowAcquire"
        <3>1. RoutineBlock.Object = b \/ OutForFlush(b)
            BY <2>2, <2>5 DEF IInv, SlowInv
        <3>2. CASE RoutineBlock.Object = b
            <4>1. RundownProtect[b] > 0
                BY <3>2, CountBound DEF IInv
            <4>2. QED
                BY <1>1, <4>1
        <3>3. CASE OutForFlush(b)
            <4>1. PICK v \in Threads : pc[v] \in {"Flush", "FlushLock"} /\ block[v] = b
                BY <3>3 DEF OutForFlush
            <4>2. Held(v) \in Nat /\ Held(v) <= RundownProtect[b]
                BY <4>1, CountBound DEF IInv
            <4>3. Held(v) = 1 + OldRef[v].RefCnt + 1 /\ OldRef[v].RefCnt \in Nat
                BY <4>1, HeldAt, FastRefs DEF IInv, TypeOK, HeldFacts, FlushRefs
            <4>4. RundownProtect[b] > 0
                BY <1>1, <4>2, <4>3
            <4>5. QED
                BY <1>1, <4>4
        <3>4. QED
            BY <3>1, <3>2, <3>3
    <2>6. QED
        BY <2>3, <2>4, <2>5
<1>4. QED
    BY <1>2, <1>3

\* Only blocks that are allocated are counted at.
LEMMA PoolKept ==
    ASSUME IInv, NEW t \in Threads, allocated' = allocated,
           \A b \in Blocks : RundownProtect'[b] # RundownProtect[b] => b = block[t]
    PROVE  PoolInv'
<1> SUFFICES ASSUME NEW b \in Blocks, b \notin allocated PROVE RundownProtect'[b] = 0
    BY DEF PoolInv
<1>1. RundownProtect[b] = 0
    BY DEF IInv, PoolInv
<1>2. b # block[t]
    BY BlockAllocated
<1>3. QED
    BY <1>1, <1>2

\* A step within a call: the slot's object, the lock, the pool and the owners
\* stay, and what is counted is what is taken or given.
LEMMA CallStep ==
    ASSUME IInv, NEW t \in Threads, Only(t), TypeOK', CallInv(t)', Balanced(t),
           RoutineBlock'.Object = RoutineBlock.Object,
           UNCHANGED <<ExpCallBackFlush, allocated, rundown>>,
           pc'[t] \in LockPCs <=> pc[t] \in LockPCs,
           Owns(t)' => Owns(t) /\ block'[t] = block[t],
           Installing(t)' => Installing(t),
           block'[t] \in {block[t], NULL, RoutineBlock.Object},
           pc[t] \notin {"Free", "Flush", "FlushLock"},
           pc[t] = "Waiting" => pc'[t] = "Free" /\ block'[t] = block[t],
           pc'[t] # "SlowAcquire",
           \A b \in Blocks : RundownProtect'[b] # RundownProtect[b] => b = block[t],
           pc'[t] = "Free" => RundownProtect'[block'[t]] = 0
    PROVE  IInv'
<1>1. \A u \in Threads : CallInv(u)'
    BY CallKept DEF IInv
<1>2. OwnInv'
    BY OwnKept DEF IInv
<1>3. RundownInv'
    BY RundownKept DEF IInv
<1>4. LockInv'
    BY LockKept DEF IInv
<1>5. SlowInv'
    BY SlowKept DEF IInv
<1>6. FreeInv'
    BY FreeKept
<1>7. CountInv'
    BY CountKept DEF IInv
<1>8. PoolInv'
    BY PoolKept
<1>9. FreshInv'
    BY FreshKept DEF IInv, Owns
<1>10. QED
    BY <1>1, <1>2, <1>3, <1>4, <1>5, <1>6, <1>7, <1>8, <1>9 DEF IInv

-----------------------------------------------------------------------------
(* The steps *)

\* A step that moves no reference keeps the balance.
LEMMA QuietStep ==
    ASSUME IInv, NEW t \in Threads, Only(t), TypeOK', CallInv(t)',
           UNCHANGED <<slot, pool>>,
           (block'[t] = block[t] /\ Held(t)' = Held(t)) \/ (block[t] = NULL /\ block'[t] = NULL),
           pc'[t] \in LockPCs <=> pc[t] \in LockPCs,
           Owns(t)' => Owns(t) /\ block'[t] = block[t],
           Installing(t)' => Installing(t),
           pc[t] \notin {"Free", "Flush", "FlushLock"},
           pc[t] = "Waiting" => pc'[t] = "Free" /\ block'[t] = block[t],
           pc'[t] # "SlowAcquire",
           pc'[t] = "Free" => RundownProtect[block'[t]] = 0
    PROVE  IInv'
<1>1. UNCHANGED <<RoutineBlock, RundownProtect>>
    BY DEF slot, pool
<1>2. Balanced(t)
    <2> SUFFICES ASSUME NEW b \in Blocks
                 PROVE  RundownProtect'[b] - RundownProtect[b]
                   = (SlotShare(b)' - SlotShare(b)) + (MyShare(b, t)' - MyShare(b, t))
        BY DEF Balanced
    <2>1. SlotShare(b)' = SlotShare(b) /\ SlotShare(b) \in Nat /\ RundownProtect[b] \in Nat
        BY <1>1, FastRefs DEF SlotShare, IInv, TypeOK
    <2>2. Held(t) \in 0 .. MaxShare /\ Held(t)' \in 0 .. MaxShare /\ MaxShare \in Nat
        BY HeldAt, HeldAtNext, MaxFastRefsPositive DEF IInv, MaxShare
    <2>3. MyShare(b, t)' = MyShare(b, t) /\ MyShare(b, t) \in Nat
        BY <2>2, FastRefs DEF MyShare
    <2>4. QED
        BY <1>1, <2>1, <2>3
<1>3. UNCHANGED <<ExpCallBackFlush, allocated, rundown>>
    BY DEF slot, pool
<1>4. QED
    BY <1>1, <1>2, <1>3, CallStep

\* A step that counts n references at its block and has n more of them
LEMMA CountStep ==
    ASSUME IInv, NEW t \in Threads, Only(t), TypeOK', CallInv(t)', NEW n \in Int,
           UNCHANGED <<slot, allocated, rundown>>, block[t] \in Blocks,
           RundownProtect' = [RundownProtect EXCEPT ![block[t]] = @ + n],
           \/ block'[t] = block[t] /\ Held(t)' = Held(t) + n
           \/ block'[t] = NULL /\ Held(t) + n = 0,
           pc'[t] \in LockPCs <=> pc[t] \in LockPCs,
           Owns(t)' => Owns(t) /\ block'[t] = block[t],
           Installing(t)' => Installing(t),
           pc[t] \notin {"Free", "Flush", "FlushLock", "Waiting"},
           pc'[t] # "SlowAcquire",
           pc'[t] = "Free" => RundownProtect'[block'[t]] = 0
    PROVE  IInv'
<1>1. UNCHANGED <<RoutineBlock, ExpCallBackFlush, allocated, rundown>>
    BY DEF slot
<1>2. /\ RundownProtect'[block[t]] = RundownProtect[block[t]] + n
      /\ \A b \in Blocks : b # block[t] => RundownProtect'[b] = RundownProtect[b]
    BY DEF IInv, TypeOK
<1>3. Balanced(t)
    <2> SUFFICES ASSUME NEW b \in Blocks
                 PROVE  RundownProtect'[b] - RundownProtect[b]
                   = (SlotShare(b)' - SlotShare(b)) + (MyShare(b, t)' - MyShare(b, t))
        BY DEF Balanced
    <2>1. SlotShare(b)' = SlotShare(b) /\ SlotShare(b) \in Nat /\ RundownProtect[b] \in Nat
        BY <1>1, FastRefs DEF SlotShare, IInv, TypeOK
    <2>2. Held(t) \in 0 .. MaxShare /\ Held(t)' \in 0 .. MaxShare /\ MaxShare \in Nat
        BY HeldAt, HeldAtNext, MaxFastRefsPositive DEF IInv, MaxShare
    <2>3. CASE b = block[t]
        <3>1. MyShare(b, t) = Held(t) /\ MyShare(b, t)' = Held(t) + n
            BY <2>2, <2>3, FastRefs DEF MyShare
        <3>2. QED
            BY <1>2, <2>1, <2>2, <2>3, <3>1
    <2>4. CASE b # block[t]
        <3>1. MyShare(b, t) = 0 /\ MyShare(b, t)' = 0
            BY <2>4, FastRefs DEF MyShare
        <3>2. QED
            BY <1>2, <2>1, <2>4, <3>1
    <2>5. QED
        BY <2>3, <2>4
<1>4. QED
    BY <1>1, <1>2, <1>3, CallStep

\* A call begins without a block.
LEMMA StartStep ==
    ASSUME IInv, NEW t \in Threads, NEW what \in {"call", "remove"}, Start(t, what)
    PROVE  IInv'
<1>1. UNCHANGED <<slot, pool>> /\ TypeOK /\ CallInv(t)
    BY DEF Start, IInv
<1>2. TypeOK'
    BY <1>1, FastRefs DEF Start, TypeOK, Labels, Goto, slot, pool
<1>3. Only(t)
    BY <1>1 DEF Start, TypeOK, Goto, Only
<1>4. CallInv(t)'
    BY <1>1, FastRefs
       DEF Start, TypeOK, Goto, CallInv, OldBlock, NoBlock, Referencing, OwnRefs,
           RefillRefs, FlushRefs
<1>5. HeldFacts(t) /\ HeldFacts(t)'
    BY <1>1, <1>2, <1>4, HeldAt, HeldAtNext
<1>6. (block'[t] = block[t] /\ Held(t)' = Held(t)) \/ (block[t] = NULL /\ block'[t] = NULL)
    BY <1>1, <1>5
       DEF Start, TypeOK, Goto, HeldFacts, CallInv, OldBlock, NoBlock, Referencing, OwnRefs,
           RefillRefs, FlushRefs
<1>7. (Owns(t)' => Owns(t) /\ block'[t] = block[t]) /\ (Installing(t)' => Installing(t))
    BY <1>1
       DEF Start, TypeOK, Goto, Owns, Installing, CallInv, OldBlock, NoBlock, Referencing,
           OwnRefs, RefillRefs, FlushRefs
<1>8. /\ pc'[t] \in LockPCs <=> pc[t] \in LockPCs
      /\ pc[t] \notin {"Free", "Flush", "FlushLock", "Waiting"}
      /\ pc'[t] \notin {"SlowAcquire", "Free"}
    BY <1>1 DEF Start, TypeOK, Goto, LockPCs
<1>9. QED
    BY <1>1, <1>2, <1>3, <1>4, <1>6, <1>7, <1>8, QuietStep

\* The slot is read for a reference.
LEMMA FastReferenceStep ==
    ASSUME IInv, NEW t \in Threads, FastReference(t)
    PROVE  IInv'
<1>1. UNCHANGED <<slot, pool>> /\ TypeOK /\ CallInv(t)
    BY DEF FastReference, IInv
<1>2. TypeOK'
    BY <1>1, FastRefs DEF FastReference, TypeOK, Labels, Goto, ReadThen, slot, pool
<1>3. Only(t)
    BY <1>1 DEF FastReference, TypeOK, Goto, ReadThen, Only
<1>4. CallInv(t)'
    BY <1>1, FastRefs
       DEF FastReference, TypeOK, Goto, ReadThen, CallInv, OldBlock, NoBlock, Referencing,
           OwnRefs, RefillRefs, FlushRefs
<1>5. HeldFacts(t) /\ HeldFacts(t)'
    BY <1>1, <1>2, <1>4, HeldAt, HeldAtNext
<1>6. (block'[t] = block[t] /\ Held(t)' = Held(t)) \/ (block[t] = NULL /\ block'[t] = NULL)
    BY <1>1, <1>5
       DEF FastReference, TypeOK, Goto, ReadThen, HeldFacts, CallInv, OldBlock, NoBlock,
           Referencing, OwnRefs, RefillRefs, FlushRefs
<1>7. (Owns(t)' => Owns(t) /\ block'[t] = block[t]) /\ (Installing(t)' => Installing(t))
    BY <1>1
       DEF FastReference, TypeOK, Goto, ReadThen, Owns, Installing, CallInv, OldBlock,
           NoBlock, Referencing, OwnRefs, RefillRefs, FlushRefs
<1>8. /\ pc'[t] \in LockPCs <=> pc[t] \in LockPCs
      /\ pc[t] \notin {"Free", "Flush", "FlushLock", "Waiting"}
      /\ pc'[t] \notin {"SlowAcquire", "Free"}
    BY <1>1 DEF FastReference, TypeOK, Goto, ReadThen, LockPCs
<1>9. QED
    BY <1>1, <1>2, <1>3, <1>4, <1>6, <1>7, <1>8, QuietStep

\* The slot is read for the refill.
LEMMA RefillReadStep ==
    ASSUME IInv, NEW t \in Threads, RefillRead(t)
    PROVE  IInv'
<1>1. UNCHANGED <<slot, pool>> /\ TypeOK /\ CallInv(t)
    BY DEF RefillRead, IInv
<1>2. TypeOK'
    BY <1>1, FastRefs DEF RefillRead, TypeOK, Labels, Goto, ReadThen, slot, pool
<1>3. Only(t)
    BY <1>1 DEF RefillRead, TypeOK, Goto, ReadThen, Only
<1>4. CallInv(t)'
    BY <1>1, FastRefs
       DEF RefillRead, TypeOK, Goto, ReadThen, CallInv, OldBlock, NoBlock, Referencing,
           OwnRefs, RefillRefs, FlushRefs
<1>5. HeldFacts(t) /\ HeldFacts(t)'
    BY <1>1, <1>2, <1>4, HeldAt, HeldAtNext
<1>6. (block'[t] = block[t] /\ Held(t)' = Held(t)) \/ (block[t] = NULL /\ block'[t] = NULL)
    BY <1>1, <1>5
       DEF RefillRead, TypeOK, Goto, ReadThen, HeldFacts, CallInv, OldBlock, NoBlock,
           Referencing, OwnRefs, RefillRefs, FlushRefs
<1>7. (Owns(t)' => Owns(t) /\ block'[t] = block[t]) /\ (Installing(t)' => Installing(t))
    BY <1>1
       DEF RefillRead, TypeOK, Goto, ReadThen, Owns, Installing, CallInv, OldBlock, NoBlock,
           Referencing, OwnRefs, RefillRefs, FlushRefs
<1>8. /\ pc'[t] \in LockPCs <=> pc[t] \in LockPCs
      /\ pc[t] \notin {"Free", "Flush", "FlushLock", "Waiting"}
      /\ pc'[t] \notin {"SlowAcquire", "Free"}
    BY <1>1 DEF RefillRead, TypeOK, Goto, ReadThen, LockPCs
<1>9. QED
    BY <1>1, <1>2, <1>3, <1>4, <1>6, <1>7, <1>8, QuietStep

\* A caller leaves the routine.
LEMMA CallDoneStep ==
    ASSUME IInv, NEW t \in Threads, CallDone(t)
    PROVE  IInv'
<1>1. UNCHANGED <<slot, pool>> /\ TypeOK /\ CallInv(t)
    BY DEF CallDone, IInv
<1>2. TypeOK'
    BY <1>1, FastRefs DEF CallDone, TypeOK, Labels, Goto, slot, pool
<1>3. Only(t)
    BY <1>1 DEF CallDone, TypeOK, Goto, Only
<1>4. CallInv(t)'
    BY <1>1, FastRefs
       DEF CallDone, TypeOK, Goto, CallInv, OldBlock, NoBlock, Referencing, OwnRefs,
           RefillRefs, FlushRefs
<1>5. HeldFacts(t) /\ HeldFacts(t)'
    BY <1>1, <1>2, <1>4, HeldAt, HeldAtNext
<1>6. (block'[t] = block[t] /\ Held(t)' = Held(t)) \/ (block[t] = NULL /\ block'[t] = NULL)
    BY <1>1, <1>5
       DEF CallDone, TypeOK, Goto, HeldFacts, CallInv, OldBlock, NoBlock, Referencing,
           OwnRefs, RefillRefs, FlushRefs
<1>7. (Owns(t)' => Owns(t) /\ block'[t] = block[t]) /\ (Installing(t)' => Installing(t))
    BY <1>1
       DEF CallDone, TypeOK, Goto, Owns, Installing, CallInv, OldBlock, NoBlock,
           Referencing, OwnRefs, RefillRefs, FlushRefs
<1>8. /\ pc'[t] \in LockPCs <=> pc[t] \in LockPCs
      /\ pc[t] \notin {"Free", "Flush", "FlushLock", "Waiting"}
      /\ pc'[t] \notin {"SlowAcquire", "Free"}
    BY <1>1 DEF CallDone, TypeOK, Goto, LockPCs
<1>9. QED
    BY <1>1, <1>2, <1>3, <1>4, <1>6, <1>7, <1>8, QuietStep

\* The slot is read to give a reference back to it: not by the owner of a block.
LEMMA FastDereferenceStep ==
    ASSUME IInv, NEW t \in Threads, FastDereference(t)
    PROVE  IInv'
<1>1. UNCHANGED <<slot, pool>> /\ TypeOK /\ CallInv(t)
    BY DEF FastDereference, IInv
<1>0. op[t] = "removed" => RoutineBlock.Object # block[t]
    BY DEF FastDereference, Owns, IInv, OwnInv
<1>2. TypeOK'
    BY <1>1, FastRefs DEF FastDereference, TypeOK, Labels, Goto, ReadThen, slot, pool
<1>3. Only(t)
    BY <1>1 DEF FastDereference, TypeOK, Goto, ReadThen, Only
<1>4. CallInv(t)'
    BY <1>1, FastRefs, <1>0
       DEF FastDereference, TypeOK, Goto, ReadThen, CallInv, OldBlock, NoBlock, Referencing,
           OwnRefs, RefillRefs, FlushRefs
<1>5. HeldFacts(t) /\ HeldFacts(t)'
    BY <1>1, <1>2, <1>4, HeldAt, HeldAtNext
<1>6. (block'[t] = block[t] /\ Held(t)' = Held(t)) \/ (block[t] = NULL /\ block'[t] = NULL)
    BY <1>1, <1>5
       DEF FastDereference, TypeOK, Goto, ReadThen, HeldFacts, CallInv, OldBlock, NoBlock,
           Referencing, OwnRefs, RefillRefs, FlushRefs
<1>7. (Owns(t)' => Owns(t) /\ block'[t] = block[t]) /\ (Installing(t)' => Installing(t))
    BY <1>1
       DEF FastDereference, TypeOK, Goto, ReadThen, Owns, Installing, CallInv, OldBlock,
           NoBlock, Referencing, OwnRefs, RefillRefs, FlushRefs
<1>8. /\ pc'[t] \in LockPCs <=> pc[t] \in LockPCs
      /\ pc[t] \notin {"Free", "Flush", "FlushLock", "Waiting"}
      /\ pc'[t] \notin {"SlowAcquire", "Free"}
    BY <1>1 DEF FastDereference, TypeOK, Goto, ReadThen, LockPCs
<1>9. QED
    BY <1>1, <1>2, <1>3, <1>4, <1>6, <1>7, <1>8, QuietStep

\* A remover goes for the slot with the reference it has.
LEMMA UnhookStep ==
    ASSUME IInv, NEW t \in Threads, Unhook(t)
    PROVE  IInv'
<1>1. UNCHANGED <<slot, pool>> /\ TypeOK /\ CallInv(t)
    BY DEF Unhook, IInv
<1>2. TypeOK'
    BY <1>1, FastRefs DEF Unhook, TypeOK, Labels, Goto, slot, pool
<1>3. Only(t)
    BY <1>1 DEF Unhook, TypeOK, Goto, Only
<1>4. CallInv(t)'
    BY <1>1, FastRefs
       DEF Unhook, TypeOK, Goto, CallInv, OldBlock, NoBlock, Referencing, OwnRefs,
           RefillRefs, FlushRefs
<1>5. HeldFacts(t) /\ HeldFacts(t)'
    BY <1>1, <1>2, <1>4, HeldAt, HeldAtNext
<1>6. (block'[t] = block[t] /\ Held(t)' = Held(t)) \/ (block[t] = NULL /\ block'[t] = NULL)
    BY <1>1, <1>5
       DEF Unhook, TypeOK, Goto, HeldFacts, CallInv, OldBlock, NoBlock, Referencing,
           OwnRefs, RefillRefs, FlushRefs
<1>7. (Owns(t)' => Owns(t) /\ block'[t] = block[t]) /\ (Installing(t)' => Installing(t))
    BY <1>1
       DEF Unhook, TypeOK, Goto, Owns, Installing, CallInv, OldBlock, NoBlock, Referencing,
           OwnRefs, RefillRefs, FlushRefs
<1>8. /\ pc'[t] \in LockPCs <=> pc[t] \in LockPCs
      /\ pc[t] \notin {"Free", "Flush", "FlushLock", "Waiting"}
      /\ pc'[t] \notin {"SlowAcquire", "Free"}
    BY <1>1 DEF Unhook, TypeOK, Goto, LockPCs
<1>9. QED
    BY <1>1, <1>2, <1>3, <1>4, <1>6, <1>7, <1>8, QuietStep

\* The slot is read for the exchange of its block.
LEMMA SwapStep ==
    ASSUME IInv, NEW t \in Threads, Swap(t)
    PROVE  IInv'
<1>1. UNCHANGED <<slot, pool>> /\ TypeOK /\ CallInv(t)
    BY DEF Swap, IInv
<1>2. TypeOK'
    BY <1>1, FastRefs DEF Swap, TypeOK, Labels, Goto, ReadThen, slot, pool
<1>3. Only(t)
    BY <1>1 DEF Swap, TypeOK, Goto, ReadThen, Only
<1>4. CallInv(t)'
    BY <1>1, FastRefs
       DEF Swap, TypeOK, Goto, ReadThen, CallInv, OldBlock, NoBlock, Referencing, OwnRefs,
           RefillRefs, FlushRefs
<1>5. HeldFacts(t) /\ HeldFacts(t)'
    BY <1>1, <1>2, <1>4, HeldAt, HeldAtNext
<1>6. (block'[t] = block[t] /\ Held(t)' = Held(t)) \/ (block[t] = NULL /\ block'[t] = NULL)
    BY <1>1, <1>5
       DEF Swap, TypeOK, Goto, ReadThen, HeldFacts, CallInv, OldBlock, NoBlock, Referencing,
           OwnRefs, RefillRefs, FlushRefs
<1>7. (Owns(t)' => Owns(t) /\ block'[t] = block[t]) /\ (Installing(t)' => Installing(t))
    BY <1>1
       DEF Swap, TypeOK, Goto, ReadThen, Owns, Installing, CallInv, OldBlock, NoBlock,
           Referencing, OwnRefs, RefillRefs, FlushRefs
<1>8. /\ pc'[t] \in LockPCs <=> pc[t] \in LockPCs
      /\ pc[t] \notin {"Free", "Flush", "FlushLock", "Waiting"}
      /\ pc'[t] \notin {"SlowAcquire", "Free"}
    BY <1>1 DEF Swap, TypeOK, Goto, ReadThen, LockPCs
<1>9. QED
    BY <1>1, <1>2, <1>3, <1>4, <1>6, <1>7, <1>8, QuietStep

\* The references that could not be cached are given back.
LEMMA RefillUndoStep ==
    ASSUME IInv, NEW t \in Threads, RefillUndo(t)
    PROVE  IInv'
<1>1. UNCHANGED <<slot, allocated, rundown>> /\ TypeOK /\ CallInv(t)
    BY DEF RefillUndo, IInv
<1>2. block[t] \in Blocks
    BY <1>1 DEF RefillUndo, CallInv, NoBlock
<1>3. HeldFacts(t) /\ Held(t) \in Nat /\ Held(t) <= RundownProtect[block[t]]
    BY <1>1, <1>2, HeldAt, CountBound DEF IInv
<1>4. PICK n \in Int : n = 0 - MAX_FAST_REFS
    BY <1>1, FastRefs DEF TypeOK
<1>5. RundownProtect' = [RundownProtect EXCEPT ![block[t]] = @ + n]
    <2>1. RundownProtect' = [RundownProtect EXCEPT ![block[t]] =
                                 RundownProtect[block[t]] - MAX_FAST_REFS]
        BY DEF RefillUndo, Release
    <2>2. RundownProtect[block[t]] \in Nat /\ MAX_FAST_REFS \in Nat
        BY <1>1, <1>2, FastRefs DEF TypeOK
    <2>3. RundownProtect[block[t]] - MAX_FAST_REFS = RundownProtect[block[t]] + n
        BY <1>4, <2>2
    <2>4. QED
        BY <2>1, <2>3
<1>6. RundownProtect[block[t]] \in Nat /\ RundownProtect[block[t]] + n \in Nat
    BY <1>1, <1>2, <1>3, <1>4, FastRefs
       DEF RefillUndo, HeldFacts, CallInv, OldBlock, NoBlock, Referencing, OwnRefs,
           RefillRefs, FlushRefs, TypeOK
<1>7. RundownProtect' \in [Blocks -> Nat]
    BY <1>1, <1>2, <1>5, <1>6 DEF TypeOK
<1>8. TypeOK'
    BY <1>1, <1>7, FastRefs DEF RefillUndo, TypeOK, Labels, Goto, slot, pool
<1>9. Only(t)
    BY <1>1 DEF RefillUndo, TypeOK, Goto, Only
<1>10. CallInv(t)'
    BY <1>1, <1>2, FastRefs
       DEF RefillUndo, TypeOK, Goto, CallInv, OldBlock, NoBlock, Referencing, OwnRefs,
           RefillRefs, FlushRefs
<1>11. HeldFacts(t)'
    BY <1>8, <1>10, HeldAtNext
<1>12. (block'[t] = block[t] /\ Held(t)' = Held(t) + n) \/ (block'[t] = NULL /\ Held(t) + n = 0)
    BY <1>1, <1>2, <1>3, <1>4, <1>11, FastRefs
       DEF RefillUndo, TypeOK, Goto, HeldFacts, CallInv, OldBlock, NoBlock, Referencing,
           OwnRefs, RefillRefs, FlushRefs
<1>13. (Owns(t)' => Owns(t) /\ block'[t] = block[t]) /\ (Installing(t)' => Installing(t))
    BY <1>1
       DEF RefillUndo, TypeOK, Goto, Owns, Installing, CallInv, OldBlock, NoBlock,
           Referencing, OwnRefs, RefillRefs, FlushRefs
<1>14. /\ pc'[t] \in LockPCs <=> pc[t] \in LockPCs
      /\ pc[t] \notin {"Free", "Flush", "FlushLock", "Waiting"}
      /\ pc'[t] # "SlowAcquire"
    BY <1>1 DEF RefillUndo, TypeOK, Goto, LockPCs
<1>15. pc'[t] = "Free" => RundownProtect'[block'[t]] = 0
    BY <1>1 DEF RefillUndo, TypeOK, Labels, Goto, slot, pool
<1>16. QED
    BY <1>1, <1>2, <1>5, <1>8, <1>9, <1>10, <1>12, <1>13, <1>14, <1>15, CountStep

\* The last of the thread's references goes to the block's count.
LEMMA DereferenceBlockStep ==
    ASSUME IInv, NEW t \in Threads, DereferenceBlock(t)
    PROVE  IInv'
<1>1. UNCHANGED <<slot, allocated, rundown>> /\ TypeOK /\ CallInv(t)
    BY DEF DereferenceBlock, IInv
<1>2. block[t] \in Blocks
    BY <1>1 DEF DereferenceBlock, CallInv, NoBlock
<1>3. HeldFacts(t) /\ Held(t) \in Nat /\ Held(t) <= RundownProtect[block[t]]
    BY <1>1, <1>2, HeldAt, CountBound DEF IInv
<1>4. PICK n \in Int : n = 0 - 1
    BY <1>1, FastRefs DEF TypeOK
<1>5. RundownProtect' = [RundownProtect EXCEPT ![block[t]] = @ + n]
    <2>1. RundownProtect' = [RundownProtect EXCEPT ![block[t]] = RundownProtect[block[t]] - 1]
        BY DEF DereferenceBlock, Release
    <2>2. RundownProtect[block[t]] \in Nat /\ 1 \in Nat
        BY <1>1, <1>2, FastRefs DEF TypeOK
    <2>3. RundownProtect[block[t]] - 1 = RundownProtect[block[t]] + n
        BY <1>4, <2>2
    <2>4. QED
        BY <2>1, <2>3
<1>6. RundownProtect[block[t]] \in Nat /\ RundownProtect[block[t]] + n \in Nat
    BY <1>1, <1>2, <1>3, <1>4, FastRefs
       DEF DereferenceBlock, HeldFacts, CallInv, OldBlock, NoBlock, Referencing, OwnRefs,
           RefillRefs, FlushRefs, TypeOK
<1>7. RundownProtect' \in [Blocks -> Nat]
    BY <1>1, <1>2, <1>5, <1>6 DEF TypeOK
<1>8. TypeOK'
    <2>1. pc' \in [Threads -> Labels]
        BY <1>1 DEF DereferenceBlock, TypeOK, Labels, Goto
    <2>2. block' \in [Threads -> Blocks \cup {NULL}]
        BY <1>1 DEF DereferenceBlock, TypeOK
    <2>3. UNCHANGED <<RoutineBlock, ExpCallBackFlush, op, OldRef>>
        BY DEF DereferenceBlock, slot
    <2>4. QED
        BY <1>1, <1>7, <2>1, <2>2, <2>3 DEF TypeOK
<1>9. Only(t)
    BY <1>1 DEF DereferenceBlock, TypeOK, Goto, Only
<1>10. CallInv(t)'
    BY <1>1, <1>2, FastRefs
       DEF DereferenceBlock, TypeOK, Goto, CallInv, OldBlock, NoBlock, Referencing, OwnRefs,
           RefillRefs, FlushRefs
<1>11. HeldFacts(t)'
    BY <1>8, <1>10, HeldAtNext
<1>12. (block'[t] = block[t] /\ Held(t)' = Held(t) + n) \/ (block'[t] = NULL /\ Held(t) + n = 0)
    BY <1>1, <1>2, <1>3, <1>4, <1>11, FastRefs
       DEF DereferenceBlock, TypeOK, Goto, HeldFacts, CallInv, OldBlock, NoBlock,
           Referencing, OwnRefs, RefillRefs, FlushRefs
<1>13. (Owns(t)' => Owns(t) /\ block'[t] = block[t]) /\ (Installing(t)' => Installing(t))
    BY <1>1
       DEF DereferenceBlock, TypeOK, Goto, Owns, Installing, CallInv, OldBlock, NoBlock,
           Referencing, OwnRefs, RefillRefs, FlushRefs
<1>14. /\ pc'[t] \in LockPCs <=> pc[t] \in LockPCs
      /\ pc[t] \notin {"Free", "Flush", "FlushLock", "Waiting"}
      /\ pc'[t] # "SlowAcquire"
    BY <1>1 DEF DereferenceBlock, TypeOK, Goto, LockPCs
<1>15. pc'[t] = "Free" => RundownProtect'[block'[t]] = 0
    BY <1>1 DEF DereferenceBlock, TypeOK, Labels, Goto, slot, pool
<1>16. QED
    BY <1>1, <1>2, <1>5, <1>8, <1>9, <1>10, <1>12, <1>13, <1>14, <1>15, CountStep

\* The new block's count is raised for the slot.
LEMMA BiasStep ==
    ASSUME IInv, NEW t \in Threads, Bias(t)
    PROVE  IInv'
<1>1. UNCHANGED <<slot, allocated, rundown>> /\ TypeOK /\ CallInv(t)
    BY DEF Bias, IInv
<1>2. block[t] \in Blocks
    BY <1>1 DEF Bias, CallInv, NoBlock
<1>3. HeldFacts(t) /\ Held(t) \in Nat /\ Held(t) <= RundownProtect[block[t]]
    BY <1>1, <1>2, HeldAt, CountBound DEF IInv
<1>4. PICK n \in Int : n = MAX_FAST_REFS + 1
    BY <1>1, FastRefs DEF TypeOK
<1>5. RundownProtect' = [RundownProtect EXCEPT ![block[t]] = @ + n]
    BY <1>1, <1>2, <1>4, FastRefs DEF Bias, Acquire, TypeOK
<1>6. RundownProtect[block[t]] \in Nat /\ RundownProtect[block[t]] + n \in Nat
    BY <1>1, <1>2, <1>3, <1>4, FastRefs
       DEF Bias, HeldFacts, CallInv, OldBlock, NoBlock, Referencing, OwnRefs, RefillRefs,
           FlushRefs, TypeOK
<1>7. RundownProtect' \in [Blocks -> Nat]
    BY <1>1, <1>2, <1>5, <1>6 DEF TypeOK
<1>8. TypeOK'
    BY <1>1, <1>7, FastRefs DEF Bias, TypeOK, Labels, Goto, slot, pool
<1>9. Only(t)
    BY <1>1 DEF Bias, TypeOK, Goto, Only
<1>10. CallInv(t)'
    BY <1>1, <1>2, FastRefs
       DEF Bias, TypeOK, Goto, CallInv, OldBlock, NoBlock, Referencing, OwnRefs, RefillRefs,
           FlushRefs
<1>11. HeldFacts(t)'
    BY <1>8, <1>10, HeldAtNext
<1>12. (block'[t] = block[t] /\ Held(t)' = Held(t) + n) \/ (block'[t] = NULL /\ Held(t) + n = 0)
    BY <1>1, <1>2, <1>3, <1>4, <1>11, FastRefs
       DEF Bias, TypeOK, Goto, HeldFacts, CallInv, OldBlock, NoBlock, Referencing, OwnRefs,
           RefillRefs, FlushRefs
<1>13. (Owns(t)' => Owns(t) /\ block'[t] = block[t]) /\ (Installing(t)' => Installing(t))
    BY <1>1
       DEF Bias, TypeOK, Goto, Owns, Installing, CallInv, OldBlock, NoBlock, Referencing,
           OwnRefs, RefillRefs, FlushRefs
<1>14. /\ pc'[t] \in LockPCs <=> pc[t] \in LockPCs
      /\ pc[t] \notin {"Free", "Flush", "FlushLock", "Waiting"}
      /\ pc'[t] # "SlowAcquire"
    BY <1>1 DEF Bias, TypeOK, Goto, LockPCs
<1>15. pc'[t] = "Free" => RundownProtect'[block'[t]] = 0
    BY <1>1 DEF Bias, TypeOK, Labels, Goto, slot, pool
<1>16. QED
    BY <1>1, <1>2, <1>5, <1>8, <1>9, <1>10, <1>12, <1>13, <1>14, <1>15, CountStep

\* The references the slot had go; the remover's own stays.
LEMMA ReleaseUnusedStep ==
    ASSUME IInv, NEW t \in Threads, ReleaseUnused(t)
    PROVE  IInv'
<1>1. UNCHANGED <<slot, allocated, rundown>> /\ TypeOK /\ CallInv(t)
    BY DEF ReleaseUnused, IInv
<1>2. block[t] \in Blocks
    BY <1>1 DEF ReleaseUnused, CallInv, NoBlock
<1>3. HeldFacts(t) /\ Held(t) \in Nat /\ Held(t) <= RundownProtect[block[t]]
    BY <1>1, <1>2, HeldAt, CountBound DEF IInv
<1>4. PICK n \in Int : n = 0 - (OldRef[t].RefCnt + 1)
    BY <1>1, FastRefs DEF TypeOK
<1>5. RundownProtect' = [RundownProtect EXCEPT ![block[t]] = @ + n]
    <2>1. RundownProtect' = [RundownProtect EXCEPT ![block[t]] =
                                 RundownProtect[block[t]] - (OldRef[t].RefCnt + 1)]
        BY DEF ReleaseUnused, Release
    <2>2. RundownProtect[block[t]] \in Nat /\ (OldRef[t].RefCnt + 1) \in Nat
        BY <1>1, <1>2, FastRefs DEF TypeOK
    <2>3. RundownProtect[block[t]] - (OldRef[t].RefCnt + 1) = RundownProtect[block[t]] + n
        BY <1>4, <2>2
    <2>4. QED
        BY <2>1, <2>3
<1>6. RundownProtect[block[t]] \in Nat /\ RundownProtect[block[t]] + n \in Nat
    BY <1>1, <1>2, <1>3, <1>4, FastRefs
       DEF ReleaseUnused, HeldFacts, CallInv, OldBlock, NoBlock, Referencing, OwnRefs,
           RefillRefs, FlushRefs, TypeOK
<1>7. RundownProtect' \in [Blocks -> Nat]
    BY <1>1, <1>2, <1>5, <1>6 DEF TypeOK
<1>8. TypeOK'
    BY <1>1, <1>7, FastRefs DEF ReleaseUnused, TypeOK, Labels, Goto, Forget, slot, pool
<1>9. Only(t)
    BY <1>1 DEF ReleaseUnused, TypeOK, Goto, Forget, Only
<1>10. CallInv(t)'
    BY <1>1, <1>2, FastRefs
       DEF ReleaseUnused, TypeOK, Goto, Forget, CallInv, OldBlock, NoBlock, Referencing,
           OwnRefs, RefillRefs, FlushRefs
<1>11. HeldFacts(t)'
    BY <1>8, <1>10, HeldAtNext
<1>12. (block'[t] = block[t] /\ Held(t)' = Held(t) + n) \/ (block'[t] = NULL /\ Held(t) + n = 0)
    BY <1>1, <1>2, <1>3, <1>4, <1>11, FastRefs
       DEF ReleaseUnused, TypeOK, Goto, Forget, HeldFacts, CallInv, OldBlock, NoBlock,
           Referencing, OwnRefs, RefillRefs, FlushRefs
<1>13. (Owns(t)' => Owns(t) /\ block'[t] = block[t]) /\ (Installing(t)' => Installing(t))
    BY <1>1
       DEF ReleaseUnused, TypeOK, Goto, Forget, Owns, Installing, CallInv, OldBlock,
           NoBlock, Referencing, OwnRefs, RefillRefs, FlushRefs
<1>14. /\ pc'[t] \in LockPCs <=> pc[t] \in LockPCs
      /\ pc[t] \notin {"Free", "Flush", "FlushLock", "Waiting"}
      /\ pc'[t] # "SlowAcquire"
    BY <1>1 DEF ReleaseUnused, TypeOK, Goto, Forget, LockPCs
<1>15. pc'[t] = "Free" => RundownProtect'[block'[t]] = 0
    BY <1>1 DEF ReleaseUnused, TypeOK, Labels, Goto, Forget, slot, pool
<1>16. QED
    BY <1>1, <1>2, <1>5, <1>8, <1>9, <1>10, <1>12, <1>13, <1>14, <1>15, CountStep
\* The thread with a new block has all the references to it.
LEMMA SoleHolder ==
    ASSUME IInv, NEW t \in Threads, Installing(t)
    PROVE  RundownProtect[block[t]] = Held(t)
<1>1. PICK b \in Blocks : b = block[t]
    BY DEF IInv, Installing, CallInv, NoBlock
<1>2. MaxShare \in Nat
    BY MaxFastRefsPositive DEF MaxShare
<1>3. \A u \in Threads : Held(u) \in 0 .. MaxShare
    BY HeldAt DEF IInv
<1>4. PICK h \in Shares : h = Share(b)
    <2>1. \A u \in Threads : (IF block[u] = b THEN Held(u) ELSE 0) \in 0 .. MaxShare
        BY <1>2, <1>3
    <2>2. Share(b) \in Shares
        BY <2>1, Zenon DEF Share, Shares
    <2>3. QED
        BY <2>2, Zenon
<1>5. h[t] = Held(t) /\ \A u \in Threads \ {t} : h[u] = 0
    BY <1>1, <1>4 DEF Share, IInv, FreshInv
<1>6. PICK g \in Shares : \A u \in Threads : g[u] = 0
    <2>1. [u \in Threads |-> 0] \in Shares
        BY <1>2 DEF Shares
    <2>2. QED
        BY <2>1
<1>7. /\ h[t] \in Nat /\ Cardinality(SharesOf(g)) \in Nat
      /\ Cardinality(SharesOf(h)) = Cardinality(SharesOf(g)) + (h[t] - 0)
    <2>1. g[t] = 0 /\ \A u \in Threads \ {t} : h[u] = g[u]
        BY <1>5, <1>6
    <2>2. QED
        BY <2>1, ShareChange
<1>8. SharesOf(g) = {}
    BY <1>2, <1>6 DEF SharesOf, MaxShare
<1>9. Cardinality(SharesOf(g)) = 0
    BY <1>8, FS_EmptySet
<1>10. SlotShare(b) = 0
    BY <1>1 DEF SlotShare, IInv, OwnInv, Owns
<1>11. RundownProtect[b] = References(b) /\ References(b) = SlotShare(b) + Cardinality(SharesOf(h))
    BY <1>4 DEF IInv, CountInv, References
<1>12. QED
    BY <1>1, <1>5, <1>7, <1>9, <1>10, <1>11

\* The bias is all there is to give back, and the block is free to go.
LEMMA UnbiasStep ==
    ASSUME IInv, NEW t \in Threads, Unbias(t)
    PROVE  IInv'
<1>1. UNCHANGED <<slot, allocated, rundown>> /\ TypeOK /\ CallInv(t)
    BY DEF Unbias, IInv
<1>2. block[t] \in Blocks /\ Installing(t)
    BY <1>1 DEF Unbias, CallInv, NoBlock, Installing
<1>3. Held(t) = MAX_FAST_REFS + 1 /\ RundownProtect[block[t]] = MAX_FAST_REFS + 1
    BY <1>1, <1>2, HeldAt, SoleHolder DEF Unbias, HeldFacts
<1>4. PICK n \in Int : n = 0 - (MAX_FAST_REFS + 1)
    BY FastRefs
<1>5. RundownProtect' = [RundownProtect EXCEPT ![block[t]] = @ + n]
    <2>1. RundownProtect' = [RundownProtect EXCEPT ![block[t]] =
                                 RundownProtect[block[t]] - (MAX_FAST_REFS + 1)]
        BY DEF Unbias, Release
    <2>2. RundownProtect[block[t]] - (MAX_FAST_REFS + 1) = RundownProtect[block[t]] + n
        BY <1>3, <1>4, FastRefs
    <2>3. QED
        BY <2>1, <2>2
<1>6. RundownProtect[block[t]] + n = 0
    BY <1>3, <1>4, FastRefs
<1>7. RundownProtect' \in [Blocks -> Nat] /\ RundownProtect'[block[t]] = 0
    BY <1>1, <1>2, <1>5, <1>6 DEF TypeOK
<1>8. TypeOK'
    BY <1>1, <1>7 DEF Unbias, TypeOK, Labels, Goto, slot, pool
<1>9. Only(t)
    BY <1>1 DEF Unbias, TypeOK, Goto, Only
<1>10. CallInv(t)'
    BY <1>1, <1>2
       DEF Unbias, TypeOK, Goto, CallInv, OldBlock, NoBlock, Referencing, OwnRefs,
           RefillRefs, FlushRefs
<1>11. pc[t] = "Unbias" /\ pc'[t] = "Free" /\ block'[t] = block[t]
    BY <1>1 DEF Unbias, TypeOK, Labels, Goto, slot, pool
<1>12. Held(t)' = 0
    BY <1>8, <1>10, <1>11, HeldAtNext DEF HeldFacts
<1>13. Held(t)' = Held(t) + n
    BY <1>3, <1>4, <1>12, FastRefs
<1>14. QED
    BY <1>1, <1>2, <1>5, <1>7, <1>8, <1>9, <1>10, <1>11, <1>13, CountStep
       DEF Owns, Installing, LockPCs

\* The references for the refill are counted, unless the block is closed.
LEMMA RefillStep ==
    ASSUME IInv, NEW t \in Threads, Refill(t)
    PROVE  IInv'
<1>1. UNCHANGED <<slot, allocated, rundown, op, block, OldRef>> /\ TypeOK /\ CallInv(t)
    BY DEF Refill, IInv
<1>2. pc[t] = "Refill" /\ block[t] \in Blocks
    BY <1>1 DEF Refill, CallInv, NoBlock
<1>3. Held(t) = 1
    BY <1>1, <1>2, HeldAt DEF HeldFacts, OwnRefs
<1>4. Only(t)
    BY <1>1 DEF Refill, TypeOK, Goto, Only
<1>5. CallInv(t)'
    BY <1>1, <1>2
       DEF Refill, TypeOK, Goto, CallInv, OldBlock, NoBlock, Referencing, OwnRefs,
           RefillRefs, FlushRefs
<1>6. CASE block[t] \notin rundown
    <2>1. RundownProtect' = [RundownProtect EXCEPT ![block[t]] = @ + MAX_FAST_REFS]
        BY <1>6 DEF Refill, Acquire
    <2>2. RundownProtect' \in [Blocks -> Nat]
        BY <1>1, <1>2, <2>1, FastRefs DEF TypeOK
    <2>3. pc' = [pc EXCEPT ![t] = "RefillRead"] /\ pc'[t] = "RefillRead"
        BY <1>1, <1>6 DEF Refill, Goto, TypeOK
    <2>4. TypeOK'
        BY <1>1, <2>2, <2>3 DEF TypeOK, Labels, Goto, ReadThen, Forget, slot, pool
    <2>5. Held(t)' = 1 + MAX_FAST_REFS
        BY <1>5, <2>3, <2>4, HeldAtNext DEF HeldFacts, RefillRefs
    <2>6. MAX_FAST_REFS \in Int /\ Held(t)' = Held(t) + MAX_FAST_REFS
        BY <1>3, <2>5, FastRefs
    <2>7. QED
        BY <1>1, <1>2, <1>4, <1>5, <2>1, <2>3, <2>4, <2>6, CountStep
           DEF Owns, Installing, LockPCs, FlushRefs
<1>7. CASE block[t] \in rundown
    <2>1. RundownProtect' = RundownProtect
        BY <1>7 DEF Refill
    <2>2. pc' = [pc EXCEPT ![t] = "held"] /\ pc'[t] = "held"
        BY <1>1, <1>7 DEF Refill, Goto, TypeOK
    <2>3. TypeOK'
        BY <1>1, <2>1, <2>2 DEF TypeOK, Labels, Goto, ReadThen, Forget, slot, pool
    <2>4. Held(t)' = Held(t)
        BY <1>3, <1>5, <2>2, <2>3, HeldAtNext DEF HeldFacts, OwnRefs
    <2>5. UNCHANGED <<slot, pool>>
        BY <1>1, <2>1 DEF pool
    <2>6. QED
        BY <1>1, <1>2, <1>4, <1>5, <2>2, <2>3, <2>4, <2>5, QuietStep
           DEF Owns, Installing, LockPCs, FlushRefs
<1>8. QED
    BY <1>6, <1>7

\* What a slow referencer finds under the lock is there and open.
LEMMA SlowIsOpen ==
    ASSUME IInv, NEW t \in Threads, pc[t] = "SlowAcquire", block[t] # NULL
    PROVE  /\ block[t] \in Blocks
           /\ block[t] \in allocated \ rundown
           /\ RundownProtect[block[t]] > 0
<1>1. block[t] \in Blocks
    BY DEF IInv, TypeOK
<1>2. block[t] \in allocated /\ RundownProtect[block[t]] > 0
    BY <1>1, BlockAllocated DEF Owns, Installing, FlushRefs
<1>3. ASSUME block[t] \in rundown PROVE FALSE
    <2>1. PICK u \in Threads : pc[u] \in {"Waiting", "Free"} /\ block[u] = block[t]
        BY <1>3 DEF IInv, RundownInv
    <2>2. Owns(u) /\ RoutineBlock.Object # block[t]
        BY <2>1 DEF Owns, IInv, OwnInv
    <2>3. OutForFlush(block[t])
        BY <2>2 DEF IInv, SlowInv
    <2>4. PICK v \in Threads : pc[v] \in {"Flush", "FlushLock"} /\ block[v] = block[t]
        BY <2>3 DEF OutForFlush
    <2>5. Owns(v) /\ v # u
        BY <2>1, <2>4 DEF Owns, FlushRefs
    <2>6. QED
        BY <2>1, <2>2, <2>4, <2>5 DEF IInv, OwnInv
<1>4. QED
    BY <1>1, <1>2, <1>3

\* The slow referencer counts its reference.
LEMMA SlowAcquireStep ==
    ASSUME IInv, NEW t \in Threads, SlowAcquire(t)
    PROVE  IInv'
<1>1. UNCHANGED <<slot, allocated, rundown, op, OldRef>> /\ TypeOK /\ CallInv(t)
    BY DEF SlowAcquire, IInv
<1>2. /\ pc[t] = "SlowAcquire" /\ pc' = [pc EXCEPT ![t] = "SlowUnlock"]
      /\ pc'[t] = "SlowUnlock"
    BY <1>1 DEF SlowAcquire, Goto, TypeOK
<1>3. Held(t) = 0
    BY <1>1, <1>2, HeldAt DEF HeldFacts
<1>4. block' = block
    <2>1. CASE block[t] = NULL
        BY <1>1, <2>1 DEF SlowAcquire, TypeOK
    <2>2. CASE block[t] # NULL
        BY <1>2, <2>2, SlowIsOpen DEF SlowAcquire
    <2>3. QED
        BY <2>1, <2>2
<1>5. Only(t)
    BY <1>1, <1>2, <1>4 DEF TypeOK, Only
<1>6. CallInv(t)'
    BY <1>1, <1>2, <1>4
       DEF CallInv, OldBlock, NoBlock, Referencing, OwnRefs, RefillRefs, FlushRefs
<1>7. CASE block[t] = NULL
    <2>1. RundownProtect' = RundownProtect
        BY <1>7 DEF SlowAcquire
    <2>2. TypeOK'
        BY <1>1, <1>2, <1>4, <2>1 DEF TypeOK, Labels, slot
    <2>3. UNCHANGED <<slot, pool>>
        BY <1>1, <2>1 DEF pool
    <2>4. QED
        BY <1>2, <1>4, <1>5, <1>6, <1>7, <2>2, <2>3, QuietStep
           DEF Owns, Installing, LockPCs, FlushRefs
<1>8. CASE block[t] # NULL
    <2>1. block[t] \in Blocks /\ block[t] \notin rundown
        BY <1>2, <1>8, SlowIsOpen
    <2>2. RundownProtect' = [RundownProtect EXCEPT ![block[t]] = @ + 1]
        BY <1>8, <2>1 DEF SlowAcquire, Acquire
    <2>3. RundownProtect' \in [Blocks -> Nat]
        BY <1>1, <2>1, <2>2 DEF TypeOK
    <2>4. TypeOK'
        BY <1>1, <1>2, <1>4, <2>3 DEF TypeOK, Labels, slot
    <2>5. Held(t)' = 1
        BY <1>2, <1>4, <1>6, <1>8, <2>4, HeldAtNext DEF HeldFacts
    <2>6. 1 \in Int /\ Held(t)' = Held(t) + 1
        BY <1>3, <2>5
    <2>7. QED
        BY <1>1, <1>2, <1>4, <1>5, <1>6, <2>1, <2>2, <2>4, <2>6, CountStep
           DEF Owns, Installing, LockPCs, FlushRefs
<1>9. QED
    BY <1>7, <1>8

\* The wait is over when nobody has a reference.
LEMMA WaitedStep ==
    ASSUME IInv, NEW t \in Threads, Waited(t)
    PROVE  IInv'
<1>1. UNCHANGED <<slot, pool, op, block, OldRef>> /\ TypeOK /\ CallInv(t)
    BY DEF Waited, IInv
<1>2. /\ pc[t] = "Waiting" /\ pc'[t] = "Free" /\ pc' = [pc EXCEPT ![t] = "Free"]
      /\ RundownProtect[block[t]] = 0
    BY <1>1 DEF Waited, Goto, TypeOK
<1>3. TypeOK'
    BY <1>1, <1>2 DEF TypeOK, Labels, slot, pool
<1>4. Only(t)
    BY <1>1, <1>2 DEF TypeOK, Only
<1>5. CallInv(t)'
    BY <1>1, <1>2 DEF CallInv, OldBlock, NoBlock, Referencing, OwnRefs, RefillRefs, FlushRefs
<1>6. Held(t) = 0 /\ Held(t)' = 0
    BY <1>1, <1>2, <1>3, <1>5, HeldAt, HeldAtNext DEF HeldFacts
<1>7. QED
    BY <1>1, <1>2, <1>3, <1>4, <1>5, <1>6, QuietStep DEF Owns, Installing, LockPCs, FlushRefs

\* A reference that goes between the slot and a thread
LEMMA SlotStep ==
    ASSUME IInv, NEW t \in Threads, Only(t), TypeOK', CallInv(t)', NEW k \in Int,
           UNCHANGED <<ExpCallBackFlush, pool>>,
           RoutineBlock'.Object = RoutineBlock.Object,
           RoutineBlock'.RefCnt = RoutineBlock.RefCnt + k,
           block[t] \in {NULL, RoutineBlock.Object}, block'[t] \in {NULL, RoutineBlock.Object},
           block[t] = NULL => Held(t) = 0, block'[t] = NULL => Held(t)' = 0,
           RoutineBlock.Object # NULL, Held(t)' = Held(t) - k,
           pc[t] \notin LockPCs \cup {"Free", "Waiting", "Flush", "FlushLock"},
           pc'[t] \notin LockPCs \cup {"Free"}, ~Owns(t)'
    PROVE  IInv'
<1>1. UNCHANGED <<allocated, RundownProtect, rundown>>
    BY DEF pool
<1>2. Balanced(t)
    <2> SUFFICES ASSUME NEW b \in Blocks
                 PROVE  RundownProtect'[b] - RundownProtect[b]
                   = (SlotShare(b)' - SlotShare(b)) + (MyShare(b, t)' - MyShare(b, t))
        BY DEF Balanced
    <2>1. RundownProtect[b] \in Nat /\ RoutineBlock.RefCnt \in Nat
        BY FastRefs DEF IInv, TypeOK
    <2>2. Held(t) \in 0 .. MaxShare /\ Held(t)' \in 0 .. MaxShare /\ MaxShare \in Nat
        BY HeldAt, HeldAtNext, MaxFastRefsPositive DEF IInv, MaxShare
    <2>3. CASE b = RoutineBlock.Object
        <3>1. SlotShare(b) = RoutineBlock.RefCnt + 1 /\ SlotShare(b)' = RoutineBlock.RefCnt + k + 1
            BY <2>3 DEF SlotShare
        <3>2. MyShare(b, t) = Held(t) /\ MyShare(b, t)' = Held(t)'
            BY <2>3 DEF MyShare
        <3>3. QED
            BY <1>1, <2>1, <2>2, <3>1, <3>2
    <2>4. CASE b # RoutineBlock.Object
        <3>1. SlotShare(b) = 0 /\ SlotShare(b)' = 0
            BY <2>4 DEF SlotShare
        <3>2. MyShare(b, t) = 0 /\ MyShare(b, t)' = 0
            BY <2>4, FastRefs DEF MyShare
        <3>3. QED
            BY <1>1, <2>1, <3>1, <3>2
    <2>5. QED
        BY <2>3, <2>4
<1>3. ~Installing(t)'
    BY DEF Owns
<1>4. QED
    BY <1>1, <1>2, <1>3, CallStep DEF LockPCs

\* A cached reference is taken.
LEMMA FastReferenceCasStep ==
    ASSUME IInv, NEW t \in Threads, FastReferenceCas(t)
    PROVE  IInv'
<1>1. /\ UNCHANGED <<ExpCallBackFlush, pool, op>> /\ TypeOK /\ CallInv(t)
      /\ pc[t] = "FastReferenceCas" /\ OldRef' = [OldRef EXCEPT ![t] = EmptyRef]
    BY DEF FastReferenceCas, IInv, Forget
<1>2. OldRef[t] \in FastRef /\ OldRef[t].RefCnt # 0 /\ block[t] = NULL
    BY <1>1 DEF TypeOK, CallInv, NoBlock
<1>3. OldRef[t].RefCnt - 1 \in 0 .. MAX_FAST_REFS /\ OldRef[t].Object \in Blocks
    BY <1>2, FastRefs
<1>4. Held(t) = 0
    BY <1>1, HeldAt DEF HeldFacts, NoBlock
<1>5. CASE RoutineBlock = OldRef[t]
    <2>1. PICK l \in {"Refill", "held"} : pc' = [pc EXCEPT ![t] = l]
        BY <1>5 DEF FastReferenceCas, CompareExchange
    <2>2. RoutineBlock' = [OldRef[t] EXCEPT !.RefCnt = OldRef[t].RefCnt - 1]
        BY <1>5 DEF FastReferenceCas, CompareExchange
    <2>3. /\ RoutineBlock' \in FastRef
          /\ RoutineBlock'.Object = RoutineBlock.Object
          /\ RoutineBlock'.RefCnt = RoutineBlock.RefCnt - 1
        BY <1>2, <1>3, <1>5, <2>2, FastRefs
    <2>4. block' = [block EXCEPT ![t] = OldRef[t].Object]
        BY <1>5 DEF FastReferenceCas
    <2>5. pc'[t] = l /\ block'[t] = RoutineBlock.Object /\ block'[t] \in Blocks
        BY <1>1, <1>3, <1>5, <2>1, <2>4 DEF TypeOK
    <2>6. TypeOK'
        BY <1>1, <1>3, <2>1, <2>3, <2>4, FastRefs DEF TypeOK, Labels, pool
    <2>7. Only(t)
        BY <1>1, <2>1, <2>4 DEF TypeOK, Only
    <2>8. CallInv(t)'
        BY <1>1, <2>1, <2>5
           DEF CallInv, OldBlock, NoBlock, Referencing, OwnRefs, RefillRefs, FlushRefs
    <2>9. Held(t)' = 1
        BY <2>5, <2>6, <2>8, HeldAtNext DEF HeldFacts, OwnRefs
    <2>10. ~Owns(t)'
        BY <2>5 DEF Owns, Installing, FlushRefs
    <2>11. /\ 0 - 1 \in Int /\ Held(t)' = Held(t) - (0 - 1)
           /\ RoutineBlock'.RefCnt = RoutineBlock.RefCnt + (0 - 1)
        BY <1>2, <1>4, <1>5, <2>3, <2>9, FastRefs
    <2>12. block'[t] # NULL /\ RoutineBlock.Object # NULL
        BY <2>5, FastRefs
    <2>13. QED
        BY <1>1, <1>2, <1>4, <2>3, <2>5, <2>6, <2>7, <2>8, <2>10, <2>11, <2>12, SlotStep
           DEF LockPCs
<1>6. CASE RoutineBlock # OldRef[t]
    <2>1. pc' = [pc EXCEPT ![t] = "Reference"] /\ UNCHANGED RoutineBlock
        BY <1>6 DEF FastReferenceCas, CompareExchange
    <2>2. block' = block
        BY <1>1, <1>6 DEF FastReferenceCas, TypeOK
    <2>3. pc'[t] = "Reference"
        BY <1>1, <2>1 DEF TypeOK
    <2>4. TypeOK'
        BY <1>1, <2>1, <2>2, FastRefs DEF TypeOK, Labels, pool
    <2>5. Only(t)
        BY <1>1, <2>1, <2>2 DEF TypeOK, Only
    <2>6. CallInv(t)'
        BY <1>1, <2>2, <2>3
           DEF CallInv, OldBlock, NoBlock, Referencing, OwnRefs, RefillRefs, FlushRefs
    <2>7. UNCHANGED <<slot, pool>>
        BY <1>1, <2>1 DEF slot
    <2>8. QED
        BY <1>1, <1>2, <2>2, <2>3, <2>4, <2>5, <2>6, <2>7, QuietStep
           DEF Owns, Installing, LockPCs, FlushRefs
<1>7. QED
    BY <1>5, <1>6

\* The references taken for the refill are put into the slot.
LEMMA RefillCasStep ==
    ASSUME IInv, NEW t \in Threads, RefillCas(t)
    PROVE  IInv'
<1>1. /\ UNCHANGED <<ExpCallBackFlush, pool, op, block>> /\ TypeOK /\ CallInv(t)
      /\ pc[t] = "RefillCas" /\ OldRef' = [OldRef EXCEPT ![t] = EmptyRef]
    BY DEF RefillCas, IInv, Forget
<1>2. /\ OldRef[t] \in FastRef /\ OldRef[t].RefCnt = 0
      /\ OldRef[t].Object = block[t] /\ block[t] \in Blocks
    BY <1>1 DEF TypeOK, CallInv, NoBlock
<1>3. block[t] # NULL /\ MAX_FAST_REFS \in 0 .. MAX_FAST_REFS
    BY <1>2, FastRefs
<1>4. Held(t) = 1 + MAX_FAST_REFS
    BY <1>1, HeldAt DEF HeldFacts, RefillRefs
<1>5. CASE RoutineBlock = OldRef[t]
    <2>1. pc' = [pc EXCEPT ![t] = "held"]
        BY <1>5 DEF RefillCas, CompareExchange
    <2>2. RoutineBlock' = [OldRef[t] EXCEPT !.RefCnt = MAX_FAST_REFS]
        <3>1. RoutineBlock' = [OldRef[t] EXCEPT !.RefCnt = OldRef[t].RefCnt + MAX_FAST_REFS]
            BY <1>5 DEF RefillCas, CompareExchange
        <3>2. OldRef[t].RefCnt + MAX_FAST_REFS = MAX_FAST_REFS
            BY <1>2, FastRefs
        <3>3. QED
            BY <3>1, <3>2
    <2>3. /\ RoutineBlock' \in FastRef
          /\ RoutineBlock'.Object = RoutineBlock.Object
          /\ RoutineBlock'.RefCnt = RoutineBlock.RefCnt + MAX_FAST_REFS
        BY <1>2, <1>3, <1>5, <2>2, FastRefs
    <2>4. pc'[t] = "held"
        BY <1>1, <2>1 DEF TypeOK
    <2>5. TypeOK'
        BY <1>1, <2>1, <2>3, FastRefs DEF TypeOK, Labels, pool
    <2>6. Only(t)
        BY <1>1, <2>1 DEF TypeOK, Only
    <2>7. CallInv(t)'
        BY <1>1, <1>2, <2>4
           DEF CallInv, OldBlock, NoBlock, Referencing, OwnRefs, RefillRefs, FlushRefs
    <2>8. Held(t)' = 1
        BY <2>4, <2>5, <2>7, HeldAtNext DEF HeldFacts, OwnRefs
    <2>9. ~Owns(t)'
        BY <2>4 DEF Owns, Installing, FlushRefs
    <2>10. MAX_FAST_REFS \in Int /\ Held(t)' = Held(t) - MAX_FAST_REFS
        BY <1>4, <2>8, FastRefs
    <2>11. QED
        BY <1>1, <1>2, <1>3, <1>5, <2>3, <2>4, <2>5, <2>6, <2>7, <2>9, <2>10, SlotStep
           DEF LockPCs
<1>6. CASE RoutineBlock # OldRef[t]
    <2>1. pc' = [pc EXCEPT ![t] = "RefillRead"] /\ UNCHANGED RoutineBlock
        BY <1>6 DEF RefillCas, CompareExchange
    <2>2. pc'[t] = "RefillRead"
        BY <1>1, <2>1 DEF TypeOK
    <2>3. TypeOK'
        BY <1>1, <2>1, FastRefs DEF TypeOK, Labels, pool
    <2>4. Only(t)
        BY <1>1, <2>1 DEF TypeOK, Only
    <2>5. CallInv(t)'
        BY <1>1, <2>2
           DEF CallInv, OldBlock, NoBlock, Referencing, OwnRefs, RefillRefs, FlushRefs
    <2>6. Held(t)' = Held(t)
        BY <1>4, <2>2, <2>3, <2>5, HeldAtNext DEF HeldFacts, RefillRefs
    <2>7. UNCHANGED <<slot, pool>>
        BY <1>1, <2>1 DEF slot
    <2>8. QED
        BY <1>1, <2>2, <2>3, <2>4, <2>5, <2>6, <2>7, QuietStep
           DEF Owns, Installing, LockPCs, FlushRefs
<1>7. QED
    BY <1>5, <1>6

\* A reference is given back to the slot.
LEMMA DereferenceCasStep ==
    ASSUME IInv, NEW t \in Threads, DereferenceCas(t)
    PROVE  IInv'
<1>1. /\ UNCHANGED <<ExpCallBackFlush, pool, op>> /\ TypeOK /\ CallInv(t)
      /\ pc[t] = "DereferenceCas" /\ OldRef' = [OldRef EXCEPT ![t] = EmptyRef]
    BY DEF DereferenceCas, IInv, Forget
<1>2. /\ OldRef[t] \in FastRef /\ OldRef[t].RefCnt # MAX_FAST_REFS
      /\ OldRef[t].Object = block[t] /\ block[t] \in Blocks
    BY <1>1 DEF TypeOK, CallInv, NoBlock
<1>3. block[t] # NULL /\ OldRef[t].RefCnt + 1 \in 0 .. MAX_FAST_REFS
    BY <1>2, FastRefs
<1>4. Held(t) = 1
    BY <1>1, HeldAt DEF HeldFacts, OwnRefs
<1>5. CASE RoutineBlock = OldRef[t]
    <2>1. pc' = [pc EXCEPT ![t] = "idle"]
        BY <1>5 DEF DereferenceCas, CompareExchange
    <2>2. RoutineBlock' = [OldRef[t] EXCEPT !.RefCnt = OldRef[t].RefCnt + 1]
        BY <1>5 DEF DereferenceCas, CompareExchange
    <2>3. /\ RoutineBlock' \in FastRef
          /\ RoutineBlock'.Object = RoutineBlock.Object
          /\ RoutineBlock'.RefCnt = RoutineBlock.RefCnt + 1
        BY <1>2, <1>3, <1>5, <2>2, FastRefs
    <2>4. block' = [block EXCEPT ![t] = NULL]
        BY <1>5 DEF DereferenceCas
    <2>5. pc'[t] = "idle" /\ block'[t] = NULL
        BY <1>1, <2>1, <2>4 DEF TypeOK
    <2>6. TypeOK'
        BY <1>1, <2>1, <2>3, <2>4, FastRefs DEF TypeOK, Labels, pool
    <2>7. Only(t)
        BY <1>1, <2>1, <2>4 DEF TypeOK, Only
    <2>8. CallInv(t)'
        BY <1>1, <2>5
           DEF CallInv, OldBlock, NoBlock, Referencing, OwnRefs, RefillRefs, FlushRefs
    <2>9. Held(t)' = 0
        BY <2>5, <2>6, <2>8, HeldAtNext DEF HeldFacts, NoBlock
    <2>10. ~Owns(t)'
        BY <2>5 DEF Owns, Installing, FlushRefs
    <2>11. 1 \in Int /\ Held(t)' = Held(t) - 1
        BY <1>4, <2>9
    <2>12. QED
        BY <1>1, <1>2, <1>3, <1>5, <2>3, <2>5, <2>6, <2>7, <2>8, <2>9, <2>10, <2>11, SlotStep
           DEF LockPCs
<1>6. CASE RoutineBlock # OldRef[t]
    <2>1. pc' = [pc EXCEPT ![t] = "Dereference"] /\ UNCHANGED RoutineBlock
        BY <1>6 DEF DereferenceCas, CompareExchange
    <2>2. block' = block
        BY <1>1, <1>6 DEF DereferenceCas, TypeOK
    <2>3. pc'[t] = "Dereference" /\ op'[t] \in {"call", "remove"}
        BY <1>1, <2>1 DEF TypeOK, CallInv
    <2>4. TypeOK'
        BY <1>1, <2>1, <2>2, FastRefs DEF TypeOK, Labels, pool
    <2>5. Only(t)
        BY <1>1, <2>1, <2>2 DEF TypeOK, Only
    <2>6. CallInv(t)'
        BY <1>1, <1>2, <2>2, <2>3
           DEF CallInv, OldBlock, NoBlock, Referencing, OwnRefs, RefillRefs, FlushRefs
    <2>7. Held(t)' = Held(t)
        BY <1>4, <2>3, <2>4, <2>6, HeldAtNext DEF HeldFacts, OwnRefs
    <2>8. UNCHANGED <<slot, pool>>
        BY <1>1, <2>1 DEF slot
    <2>9. QED
        BY <1>1, <2>2, <2>3, <2>4, <2>5, <2>6, <2>7, <2>8, QuietStep
           DEF Owns, Installing, LockPCs, FlushRefs
<1>7. QED
    BY <1>5, <1>6

\* A step that leaves the slot and the pool alone, with the lock and the slow
\* referencers dealt with
LEMMA LockStep ==
    ASSUME IInv, NEW t \in Threads, Only(t), TypeOK', CallInv(t)',
           UNCHANGED <<RoutineBlock, pool>>,
           (block'[t] = block[t] /\ Held(t)' = Held(t)) \/ (Held(t) = 0 /\ Held(t)' = 0),
           Owns(t)' => Owns(t) /\ block'[t] = block[t],
           Installing(t)' => Installing(t),
           block'[t] \in {block[t], NULL, RoutineBlock.Object},
           pc[t] \notin {"Free", "Waiting"}, pc'[t] # "Free",
           LockInv', SlowInv'
    PROVE  IInv'
<1>1. UNCHANGED <<allocated, RundownProtect, rundown>>
    BY DEF pool
<1>2. Balanced(t)
    <2> SUFFICES ASSUME NEW b \in Blocks
                 PROVE  RundownProtect'[b] - RundownProtect[b]
                   = (SlotShare(b)' - SlotShare(b)) + (MyShare(b, t)' - MyShare(b, t))
        BY DEF Balanced
    <2>1. SlotShare(b)' = SlotShare(b) /\ SlotShare(b) \in Nat /\ RundownProtect[b] \in Nat
        BY FastRefs DEF SlotShare, IInv, TypeOK
    <2>2. Held(t) \in 0 .. MaxShare /\ Held(t)' \in 0 .. MaxShare /\ MaxShare \in Nat
        BY HeldAt, HeldAtNext, MaxFastRefsPositive DEF IInv, MaxShare
    <2>3. MyShare(b, t)' = MyShare(b, t) /\ MyShare(b, t) \in Nat
        BY <2>2 DEF MyShare
    <2>4. QED
        BY <1>1, <2>1, <2>3
<1>3. \A u \in Threads : CallInv(u)'
    BY CallKept DEF IInv
<1>4. FreshInv'
    BY FreshKept DEF IInv, Owns
<1>5. OwnInv'
    BY <1>1, OwnKept DEF IInv
<1>6. RundownInv'
    BY <1>1, RundownKept DEF IInv
<1>7. FreeInv'
    BY <1>1, FreeKept
<1>8. CountInv'
    BY <1>2, CountKept DEF IInv
<1>9. PoolInv'
    BY <1>1, PoolKept
<1>10. QED
    BY <1>3, <1>4, <1>5, <1>6, <1>7, <1>8, <1>9 DEF IInv

\* With the lock free nobody is on the slow path.
LEMMA LockIsFree ==
    ASSUME IInv, ExpCallBackFlush = NULL, NEW t \in Threads
    PROVE  pc[t] \notin LockPCs
BY NullIsNone DEF IInv, LockInv

\* The lock is taken for the slow path.
LEMMA SlowLockStep ==
    ASSUME IInv, NEW t \in Threads, SlowLock(t)
    PROVE  IInv'
<1>1. /\ UNCHANGED <<RoutineBlock, pool, op, block, OldRef>> /\ TypeOK /\ CallInv(t)
      /\ pc[t] = "SlowLock" /\ ExpCallBackFlush = NULL /\ ExpCallBackFlush' = t
      /\ pc' = [pc EXCEPT ![t] = "SlowRead"]
    BY DEF SlowLock, LockFlush, Goto, IInv
<1>2. pc'[t] = "SlowRead"
    BY <1>1 DEF TypeOK
<1>3. TypeOK'
    BY <1>1 DEF TypeOK, Labels, pool
<1>4. Only(t)
    BY <1>1 DEF TypeOK, Only
<1>5. CallInv(t)'
    BY <1>1, <1>2 DEF CallInv, OldBlock, NoBlock, Referencing, OwnRefs, RefillRefs, FlushRefs
<1>6. Held(t) = 0 /\ Held(t)' = 0
    BY <1>1, <1>2, <1>3, <1>5, HeldAt, HeldAtNext DEF HeldFacts, NoBlock
<1>7. LockInv'
    BY <1>1, <1>2, <1>4, LockIsFree DEF LockInv, LockPCs, Only
<1>8. SlowInv'
    BY <1>1, <1>2, <1>4, SlowKept DEF IInv
<1>9. QED
    BY <1>1, <1>2, <1>3, <1>4, <1>5, <1>6, <1>7, <1>8, LockStep DEF Owns, Installing, FlushRefs

\* The slot is read under the lock.
LEMMA SlowReadStep ==
    ASSUME IInv, NEW t \in Threads, SlowRead(t)
    PROVE  IInv'
<1>1. /\ UNCHANGED <<slot, RoutineBlock, ExpCallBackFlush, pool, op, OldRef>>
      /\ TypeOK /\ CallInv(t) /\ pc[t] = "SlowRead"
      /\ pc' = [pc EXCEPT ![t] = "SlowAcquire"]
      /\ block' = [block EXCEPT ![t] = RoutineBlock.Object]
    BY DEF SlowRead, Goto, IInv, slot
<1>2. pc'[t] = "SlowAcquire" /\ block'[t] = RoutineBlock.Object
    BY <1>1 DEF TypeOK
<1>3. TypeOK'
    BY <1>1, FastRefs DEF TypeOK, Labels, pool
<1>4. Only(t)
    BY <1>1 DEF TypeOK, Only
<1>5. CallInv(t)'
    BY <1>1, <1>2 DEF CallInv, OldBlock, NoBlock, Referencing, OwnRefs, RefillRefs, FlushRefs
<1>6. Held(t) = 0 /\ Held(t)' = 0
    BY <1>1, <1>2, <1>3, <1>5, HeldAt, HeldAtNext DEF HeldFacts, NoBlock
<1>7. LockInv'
    BY <1>1, <1>2, <1>4, LockKept DEF IInv, LockPCs
<1>8. \A u \in Threads \ {t} : pc'[u] # "SlowAcquire"
    BY <1>1, <1>4 DEF IInv, LockInv, LockPCs, Only
<1>9. SlowInv'
    BY <1>1, <1>2, <1>8 DEF SlowInv
<1>10. QED
    BY <1>1, <1>2, <1>3, <1>4, <1>5, <1>6, <1>7, <1>9, LockStep DEF Owns, Installing, FlushRefs

\* The lock is released after the slow path.
LEMMA SlowUnlockStep ==
    ASSUME IInv, NEW t \in Threads, SlowUnlock(t)
    PROVE  IInv'
<1>1. /\ UNCHANGED <<RoutineBlock, pool, op, block, OldRef>> /\ TypeOK /\ CallInv(t)
      /\ pc[t] = "SlowUnlock" /\ ExpCallBackFlush' = NULL
      /\ pc' = [pc EXCEPT ![t] = IF block[t] = NULL THEN "idle" ELSE "held"]
    BY DEF SlowUnlock, Goto, IInv
<1>2. pc'[t] = IF block[t] = NULL THEN "idle" ELSE "held"
    BY <1>1 DEF TypeOK
<1>3. TypeOK'
    BY <1>1 DEF TypeOK, Labels, pool
<1>4. Only(t)
    BY <1>1 DEF TypeOK, Only
<1>5. CallInv(t)'
    BY <1>1, <1>2
       DEF TypeOK, CallInv, OldBlock, NoBlock, Referencing, OwnRefs, RefillRefs, FlushRefs
<1>6. Held(t)' = Held(t)
    <2>1. HeldFacts(t) /\ HeldFacts(t)'
        BY <1>1, <1>3, <1>5, HeldAt, HeldAtNext
    <2>2. CASE block[t] = NULL
        BY <1>1, <1>2, <2>1, <2>2 DEF HeldFacts, NoBlock
    <2>3. CASE block[t] # NULL
        BY <1>1, <1>2, <2>1, <2>3 DEF HeldFacts, OwnRefs
    <2>4. QED
        BY <2>2, <2>3
<1>7. LockInv'
    BY <1>1, <1>2, <1>4, NullIsNone DEF IInv, LockInv, LockPCs, Only
<1>8. SlowInv'
    BY <1>1, <1>2, <1>4, SlowKept DEF IInv
<1>9. QED
    BY <1>1, <1>2, <1>3, <1>4, <1>5, <1>6, <1>7, <1>8, LockStep DEF Owns, Installing, FlushRefs

\* The lock is looked at: when it is free no slow referencer is at work.
LEMMA FlushFreeStep ==
    ASSUME IInv, NEW t \in Threads, FlushFree(t)
    PROVE  IInv'
<1>1. /\ UNCHANGED <<RoutineBlock, ExpCallBackFlush, pool, op, block, OldRef>>
      /\ TypeOK /\ CallInv(t) /\ pc[t] = "Flush"
      /\ pc' = [pc EXCEPT ![t] = IF ExpCallBackFlush = NULL THEN "ReleaseUnused" ELSE "FlushLock"]
    BY DEF FlushFree, Goto, IInv, slot
<1>2. pc'[t] = IF ExpCallBackFlush = NULL THEN "ReleaseUnused" ELSE "FlushLock"
    BY <1>1 DEF TypeOK
<1>3. TypeOK'
    BY <1>1 DEF TypeOK, Labels, pool
<1>4. Only(t)
    BY <1>1 DEF TypeOK, Only
<1>5. CallInv(t)'
    BY <1>1, <1>2 DEF CallInv, OldBlock, NoBlock, Referencing, OwnRefs, RefillRefs, FlushRefs
<1>6. Held(t)' = Held(t)
    BY <1>1, <1>2, <1>3, <1>5, HeldAt, HeldAtNext DEF HeldFacts, FlushRefs
<1>7. LockInv'
    BY <1>1, <1>2, <1>4, LockKept DEF IInv, LockPCs
<1>8. SlowInv'
    <2>1. CASE ExpCallBackFlush = NULL
        <3>1. \A u \in Threads : pc[u] # "SlowAcquire"
            BY <2>1, LockIsFree DEF LockPCs
        <3>2. \A u \in Threads : pc'[u] # "SlowAcquire"
            BY <1>2, <1>4, <3>1 DEF Only
        <3>3. QED
            BY <3>2 DEF SlowInv
    <2>2. CASE ExpCallBackFlush # NULL
        BY <1>1, <1>2, <1>4, <2>2, SlowKept DEF IInv
    <2>3. QED
        BY <2>1, <2>2
<1>9. QED
    BY <1>1, <1>2, <1>3, <1>4, <1>5, <1>6, <1>7, <1>8, LockStep DEF Owns, Installing, FlushRefs

\* The flush gets the lock: no slow referencer is at work.
LEMMA FlushLockStep ==
    ASSUME IInv, NEW t \in Threads, FlushLock(t)
    PROVE  IInv'
<1>1. /\ UNCHANGED <<RoutineBlock, pool, op, block, OldRef>> /\ TypeOK /\ CallInv(t)
      /\ pc[t] = "FlushLock" /\ ExpCallBackFlush = NULL /\ ExpCallBackFlush' = t
      /\ pc' = [pc EXCEPT ![t] = "FlushUnlock"]
    BY DEF FlushLock, LockFlush, Goto, IInv
<1>2. pc'[t] = "FlushUnlock"
    BY <1>1 DEF TypeOK
<1>3. TypeOK'
    BY <1>1 DEF TypeOK, Labels, pool
<1>4. Only(t)
    BY <1>1 DEF TypeOK, Only
<1>5. CallInv(t)'
    BY <1>1, <1>2 DEF CallInv, OldBlock, NoBlock, Referencing, OwnRefs, RefillRefs, FlushRefs
<1>6. Held(t)' = Held(t)
    BY <1>1, <1>2, <1>3, <1>5, HeldAt, HeldAtNext DEF HeldFacts, FlushRefs
<1>7. LockInv'
    BY <1>1, <1>2, <1>4, LockIsFree DEF LockInv, LockPCs, Only
<1>8. SlowInv'
    <2>1. \A u \in Threads : pc[u] # "SlowAcquire"
        BY <1>1, LockIsFree DEF LockPCs
    <2>2. \A u \in Threads : pc'[u] # "SlowAcquire"
        BY <1>2, <1>4, <2>1 DEF Only
    <2>3. QED
        BY <2>2 DEF SlowInv
<1>9. QED
    BY <1>1, <1>2, <1>3, <1>4, <1>5, <1>6, <1>7, <1>8, LockStep DEF Owns, Installing, FlushRefs

\* The flush lets the lock go.
LEMMA FlushUnlockStep ==
    ASSUME IInv, NEW t \in Threads, FlushUnlock(t)
    PROVE  IInv'
<1>1. /\ UNCHANGED <<RoutineBlock, pool, op, block, OldRef>> /\ TypeOK /\ CallInv(t)
      /\ pc[t] = "FlushUnlock" /\ ExpCallBackFlush' = NULL
      /\ pc' = [pc EXCEPT ![t] = "ReleaseUnused"]
    BY DEF FlushUnlock, Goto, IInv
<1>2. pc'[t] = "ReleaseUnused"
    BY <1>1 DEF TypeOK
<1>3. TypeOK'
    BY <1>1 DEF TypeOK, Labels, pool
<1>4. Only(t)
    BY <1>1 DEF TypeOK, Only
<1>5. CallInv(t)'
    BY <1>1, <1>2 DEF CallInv, OldBlock, NoBlock, Referencing, OwnRefs, RefillRefs, FlushRefs
<1>6. Held(t)' = Held(t)
    BY <1>1, <1>2, <1>3, <1>5, HeldAt, HeldAtNext DEF HeldFacts, FlushRefs
<1>7. LockInv'
    BY <1>1, <1>2, <1>4, NullIsNone DEF IInv, LockInv, LockPCs, Only
<1>8. SlowInv'
    BY <1>1, <1>2, <1>4, SlowKept DEF IInv
<1>9. QED
    BY <1>1, <1>2, <1>3, <1>4, <1>5, <1>6, <1>7, <1>8, LockStep DEF Owns, Installing, FlushRefs

\* The parts that a step on the slot or the pool leaves as they are
LEMMA PoolStep ==
    ASSUME IInv, NEW t \in Threads, Only(t), TypeOK', CallInv(t)', Balanced(t),
           UNCHANGED <<ExpCallBackFlush, RundownProtect>>,
           pc'[t] \in LockPCs <=> pc[t] \in LockPCs, pc'[t] # "Free",
           FreshInv', OwnInv', RundownInv', SlowInv', PoolInv'
    PROVE  IInv'
<1>1. \A u \in Threads : CallInv(u)'
    BY CallKept DEF IInv
<1>2. LockInv'
    BY LockKept DEF IInv
<1>3. FreeInv'
    BY FreeKept
<1>4. CountInv'
    BY CountKept DEF IInv
<1>5. QED
    BY <1>1, <1>2, <1>3, <1>4 DEF IInv

\* The new block is in the slot, with the references it was biased by.
LEMMA InstalledStep ==
    ASSUME IInv, NEW t \in Threads, SwapCas(t), RoutineBlock = OldRef[t], op[t] = "install"
    PROVE  IInv'
<1>1. /\ UNCHANGED <<ExpCallBackFlush, pool, op, OldRef>> /\ TypeOK /\ CallInv(t)
      /\ pc[t] = "SwapCas" /\ pc' = [pc EXCEPT ![t] = "idle"]
      /\ block' = [block EXCEPT ![t] = NULL] /\ RoutineBlock' = FullRef(block[t])
    BY DEF SwapCas, CompareExchange, NewRef, IInv
<1>2. UNCHANGED <<allocated, RundownProtect, rundown>>
    BY <1>1 DEF pool
<1>3. pc'[t] = "idle" /\ block'[t] = NULL
    BY <1>1 DEF TypeOK
<1>4. PICK b \in Blocks : b = block[t]
    BY <1>1 DEF CallInv, NoBlock
<1>5. /\ RoutineBlock' \in FastRef /\ RoutineBlock'.Object = b
      /\ RoutineBlock'.RefCnt = MAX_FAST_REFS /\ b # NULL
    BY <1>1, <1>4, FastRefs
<1>6. RoutineBlock.Object = NULL /\ RoutineBlock.RefCnt = 0
    BY <1>1, FastRefs DEF CallInv, OldBlock, TypeOK
<1>7. TypeOK'
    BY <1>1, <1>2, <1>5 DEF TypeOK, Labels
<1>8. Only(t)
    BY <1>1 DEF TypeOK, Only
<1>9. CallInv(t)'
    BY <1>1, <1>3 DEF CallInv, OldBlock, NoBlock, Referencing, OwnRefs, RefillRefs, FlushRefs
<1>10. Held(t) = MAX_FAST_REFS + 1
    BY <1>1, HeldAt DEF HeldFacts
<1>11. Balanced(t)
    <2> SUFFICES ASSUME NEW c \in Blocks
                 PROVE  RundownProtect'[c] - RundownProtect[c]
                   = (SlotShare(c)' - SlotShare(c)) + (MyShare(c, t)' - MyShare(c, t))
        BY DEF Balanced
    <2>1. RundownProtect[c] \in Nat /\ c # NULL /\ MAX_FAST_REFS \in Nat
        BY <1>1, FastRefs DEF TypeOK
    <2>2. SlotShare(c) = 0 /\ MyShare(c, t)' = 0
        BY <1>3, <1>6, <2>1 DEF SlotShare, MyShare
    <2>3. SlotShare(c)' = (IF c = b THEN MAX_FAST_REFS + 1 ELSE 0)
        BY <1>5 DEF SlotShare
    <2>4. MyShare(c, t) = (IF c = b THEN MAX_FAST_REFS + 1 ELSE 0)
        BY <1>4, <1>10 DEF MyShare
    <2>5. QED
        BY <1>2, <2>1, <2>2, <2>3, <2>4
<1>12. Owns(t) /\ ~Owns(t)' /\ ~Installing(t)'
    BY <1>1, <1>3 DEF Owns, Installing, FlushRefs
<1>13. FreshInv'
    BY <1>3, <1>8, <1>12, FreshKept DEF IInv
<1>14. OwnInv'
    <2>1. \A u \in Threads : Owns(u)' => u # t /\ Owns(u) /\ block'[u] = block[u]
        BY <1>8, <1>12 DEF Only, Owns, Installing
    <2>2. \A u \in Threads : Owns(u) /\ u # t => block[u] # b
        BY <1>4, <1>12 DEF IInv, OwnInv
    <2>3. QED
        BY <1>2, <1>5, <2>1, <2>2 DEF IInv, OwnInv
<1>15. RundownInv'
    BY <1>1, <1>2, <1>8, RundownKept DEF IInv
<1>16. SlowInv'
    <2> SUFFICES ASSUME NEW u \in Threads, pc'[u] = "SlowAcquire", block'[u] # NULL
                 PROVE  OutForFlush(block[u])' /\ block'[u] = block[u]
        BY DEF SlowInv, OutForFlush
    <2>1. pc[u] = "SlowAcquire" /\ block'[u] = block[u] /\ u # t
        BY <1>3, <1>8 DEF Only
    <2>2. OutForFlush(block[u])
        BY <1>6, <2>1 DEF IInv, SlowInv
    <2>3. PICK v \in Threads : pc[v] \in {"Flush", "FlushLock"} /\ block[v] = block[u]
        BY <2>2 DEF OutForFlush
    <2>4. v # t
        BY <1>1, <2>3
    <2>5. pc'[v] \in {"Flush", "FlushLock"} /\ block'[v] = block'[u]
        BY <1>8, <2>1, <2>3, <2>4 DEF Only
    <2>6. QED
        BY <2>1, <2>5 DEF OutForFlush
<1>17. PoolInv'
    BY <1>2, PoolKept
<1>18. QED
    BY <1>1, <1>2, <1>3, <1>7, <1>8, <1>9, <1>11, <1>13, <1>14, <1>15, <1>16, <1>17, PoolStep
       DEF LockPCs

\* The block is out of the slot: its references are the remover's to give back.
LEMMA RemovedStep ==
    ASSUME IInv, NEW t \in Threads, SwapCas(t), RoutineBlock = OldRef[t], op[t] # "install"
    PROVE  IInv'
<1>1. /\ UNCHANGED <<ExpCallBackFlush, pool, op, OldRef>> /\ TypeOK /\ CallInv(t)
      /\ pc[t] = "SwapCas" /\ pc' = [pc EXCEPT ![t] = "Flush"]
      /\ RoutineBlock' = EmptyRef
    BY DEF SwapCas, CompareExchange, NewRef, IInv
<1>2. UNCHANGED <<allocated, RundownProtect, rundown>>
    BY <1>1 DEF pool
<1>3. block' = block
    BY <1>1 DEF SwapCas, TypeOK
<1>4. pc'[t] = "Flush"
    BY <1>1 DEF TypeOK
<1>5. PICK b \in Blocks : b = block[t]
    BY <1>1 DEF CallInv, NoBlock
<1>6. /\ RoutineBlock.Object = b /\ RoutineBlock.RefCnt = OldRef[t].RefCnt
      /\ RoutineBlock.RefCnt \in Nat /\ op[t] = "remove" /\ b # NULL
    BY <1>1, <1>5, FastRefs DEF CallInv, OldBlock, TypeOK
<1>7. RoutineBlock' \in FastRef /\ RoutineBlock'.Object = NULL
    BY <1>1, FastRefs
<1>8. TypeOK'
    BY <1>1, <1>2, <1>3, <1>7 DEF TypeOK, Labels
<1>9. Only(t)
    BY <1>1, <1>3 DEF TypeOK, Only
<1>10. CallInv(t)'
    BY <1>1, <1>3, <1>4, <1>5, <1>6
       DEF CallInv, OldBlock, NoBlock, Referencing, OwnRefs, RefillRefs, FlushRefs
<1>11. Held(t) = 1
    BY <1>1, <1>6, HeldAt DEF HeldFacts
<1>12. Held(t)' = 1 + RoutineBlock.RefCnt + 1
    BY <1>1, <1>4, <1>6, <1>8, <1>10, HeldAtNext DEF HeldFacts, FlushRefs
<1>13. Balanced(t)
    <2> SUFFICES ASSUME NEW c \in Blocks
                 PROVE  RundownProtect'[c] - RundownProtect[c]
                   = (SlotShare(c)' - SlotShare(c)) + (MyShare(c, t)' - MyShare(c, t))
        BY DEF Balanced
    <2>1. RundownProtect[c] \in Nat /\ c # NULL
        BY <1>1, FastRefs DEF TypeOK
    <2>2. SlotShare(c)' = 0
        BY <1>7, <2>1 DEF SlotShare
    <2>3. SlotShare(c) = (IF c = b THEN RoutineBlock.RefCnt + 1 ELSE 0)
        BY <1>6 DEF SlotShare
    <2>4. /\ MyShare(c, t) = (IF c = b THEN 1 ELSE 0)
          /\ MyShare(c, t)' = (IF c = b THEN 1 + RoutineBlock.RefCnt + 1 ELSE 0)
        BY <1>3, <1>5, <1>11, <1>12 DEF MyShare
    <2>5. QED
        BY <1>2, <1>6, <2>1, <2>2, <2>3, <2>4
<1>14. ~Installing(t)'
    BY <1>4 DEF Installing
<1>15. FreshInv'
    BY <1>3, <1>9, <1>14, FreshKept DEF IInv
<1>16. OwnInv'
    <2>1. \A u \in Threads : Owns(u)' => u = t \/ Owns(u)
        BY <1>9 DEF Only, Owns, Installing
    <2>2. \A u \in Threads : Owns(u) => block[u] # b /\ block[u] \in allocated
        BY <1>6 DEF IInv, OwnInv
    <2>3. b \in allocated
        BY <1>5, BlockAllocated
    <2>4. \A u, v \in Threads : Owns(u)' /\ Owns(v)' /\ block[u] = block[v] => u = v
        BY <1>5, <2>1, <2>2 DEF IInv, OwnInv
    <2>5. \A u \in Threads : Owns(u)' => block[u] \in allocated /\ block[u] # NULL
        BY <1>5, <2>1, <2>2, <2>3, FastRefs DEF IInv, TypeOK
    <2>6. QED
        BY <1>2, <1>3, <1>7, <2>4, <2>5 DEF OwnInv
<1>17. RundownInv'
    BY <1>1, <1>2, <1>9, RundownKept DEF IInv
<1>18. SlowInv'
    <2> SUFFICES ASSUME NEW u \in Threads, pc'[u] = "SlowAcquire", block[u] # NULL
                 PROVE  \E v \in Threads : pc'[v] \in {"Flush", "FlushLock"} /\ block[v] = block[u]
        BY <1>3 DEF SlowInv, OutForFlush
    <2>1. pc[u] = "SlowAcquire"
        BY <1>4, <1>9 DEF Only
    <2>2. RoutineBlock.Object = block[u] \/ OutForFlush(block[u])
        BY <2>1 DEF IInv, SlowInv
    <2>3. CASE RoutineBlock.Object = block[u]
        BY <1>4, <1>5, <1>6, <2>3
    <2>4. CASE OutForFlush(block[u])
        <3>1. PICK v \in Threads : pc[v] \in {"Flush", "FlushLock"} /\ block[v] = block[u]
            BY <2>4 DEF OutForFlush
        <3>2. pc'[v] \in {"Flush", "FlushLock"}
            BY <1>4, <1>9, <3>1 DEF Only
        <3>3. QED
            BY <3>1, <3>2
    <2>5. QED
        BY <2>2, <2>3, <2>4
<1>19. PoolInv'
    BY <1>2, PoolKept
<1>20. QED
    BY <1>1, <1>2, <1>4, <1>8, <1>9, <1>10, <1>13, <1>15, <1>16, <1>17, <1>18, <1>19, PoolStep
       DEF LockPCs

\* The exchange of the slot's block
LEMMA SwapCasStep ==
    ASSUME IInv, NEW t \in Threads, SwapCas(t)
    PROVE  IInv'
<1>1. CASE RoutineBlock = OldRef[t]
    BY <1>1, InstalledStep, RemovedStep
<1>2. CASE RoutineBlock # OldRef[t]
    <2>1. /\ UNCHANGED <<RoutineBlock, ExpCallBackFlush, pool, op, OldRef>> /\ TypeOK /\ CallInv(t)
          /\ pc[t] = "SwapCas" /\ pc' = [pc EXCEPT ![t] = "Swap"]
        BY <1>2 DEF SwapCas, CompareExchange, IInv
    <2>2. block' = block
        BY <1>2, <2>1 DEF SwapCas, TypeOK
    <2>3. pc'[t] = "Swap"
        BY <2>1 DEF TypeOK
    <2>4. TypeOK'
        BY <2>1, <2>2 DEF TypeOK, Labels, pool
    <2>5. Only(t)
        BY <2>1, <2>2 DEF TypeOK, Only
    <2>6. CallInv(t)'
        BY <2>1, <2>2, <2>3
           DEF CallInv, OldBlock, NoBlock, Referencing, OwnRefs, RefillRefs, FlushRefs
    <2>7. Held(t)' = Held(t)
        BY <2>1, <2>2, <2>3, <2>4, <2>6, HeldAt, HeldAtNext DEF HeldFacts
    <2>8. UNCHANGED <<slot, pool>>
        BY <2>1 DEF slot
    <2>9. QED
        BY <2>1, <2>2, <2>3, <2>4, <2>5, <2>6, <2>7, <2>8, QuietStep
           DEF Owns, Installing, LockPCs, FlushRefs
<1>3. QED
    BY <1>1, <1>2

\* The waiter closes its block.
LEMMA WaitForCallBacksStep ==
    ASSUME IInv, NEW t \in Threads, WaitForCallBacks(t)
    PROVE  IInv'
<1>1. /\ UNCHANGED <<RoutineBlock, ExpCallBackFlush, allocated, RundownProtect, op, block, OldRef>>
      /\ TypeOK /\ CallInv(t)
      /\ pc[t] = "WaitForCallBacks" /\ pc' = [pc EXCEPT ![t] = "Waiting"]
      /\ rundown' = rundown \cup {block[t]}
    BY DEF WaitForCallBacks, Goto, slot, IInv
<1>2. pc'[t] = "Waiting" /\ block[t] \in Blocks
    BY <1>1 DEF TypeOK, CallInv, NoBlock
<1>3. TypeOK'
    BY <1>1, <1>2 DEF TypeOK, Labels
<1>4. Only(t)
    BY <1>1 DEF TypeOK, Only
<1>5. CallInv(t)'
    BY <1>1, <1>2 DEF CallInv, OldBlock, NoBlock, Referencing, OwnRefs, RefillRefs, FlushRefs
<1>6. Held(t) = 0 /\ Held(t)' = 0
    BY <1>1, <1>2, <1>3, <1>5, HeldAt, HeldAtNext DEF HeldFacts
<1>7. Balanced(t)
    <2> SUFFICES ASSUME NEW b \in Blocks
                 PROVE  RundownProtect'[b] - RundownProtect[b]
                   = (SlotShare(b)' - SlotShare(b)) + (MyShare(b, t)' - MyShare(b, t))
        BY DEF Balanced
    <2>1. SlotShare(b)' = SlotShare(b) /\ SlotShare(b) \in Nat /\ RundownProtect[b] \in Nat
        BY <1>1, FastRefs DEF SlotShare, TypeOK
    <2>2. MyShare(b, t)' = 0 /\ MyShare(b, t) = 0
        BY <1>6 DEF MyShare
    <2>3. QED
        BY <1>1, <2>1, <2>2
<1>8. Owns(t) /\ ~Installing(t)'
    BY <1>1, <1>2 DEF Owns, Installing
<1>9. FreshInv'
    BY <1>1, <1>4, <1>8, FreshKept DEF IInv
<1>10. OwnInv'
    BY <1>1, <1>4, <1>8, OwnKept DEF IInv
<1>11. RundownInv'
    BY <1>1, <1>2, <1>4 DEF IInv, RundownInv, Only
<1>12. SlowInv'
    BY <1>1, <1>2, <1>4, SlowKept DEF IInv
<1>13. PoolInv'
    BY <1>1, PoolKept
<1>14. QED
    BY <1>1, <1>2, <1>3, <1>4, <1>5, <1>7, <1>9, <1>10, <1>11, <1>12, <1>13, PoolStep
       DEF LockPCs

\* The block goes back to the pool; nobody else has it.
LEMMA ExFreeCallBackStep ==
    ASSUME IInv, NEW t \in Threads, ExFreeCallBack(t)
    PROVE  IInv'
<1>1. /\ UNCHANGED <<RoutineBlock, ExpCallBackFlush, RundownProtect, op, OldRef>>
      /\ TypeOK /\ CallInv(t)
      /\ pc[t] = "Free" /\ pc' = [pc EXCEPT ![t] = "idle"]
      /\ block' = [block EXCEPT ![t] = NULL]
      /\ rundown' = rundown \ {block[t]} /\ allocated' = allocated \ {block[t]}
    BY DEF ExFreeCallBack, Goto, slot, IInv
<1>2. pc'[t] = "idle" /\ block'[t] = NULL /\ block[t] \in Blocks
    BY <1>1 DEF TypeOK, CallInv, NoBlock
<1>3. \A u \in Threads \ {t} : block[u] # block[t]
    BY <1>1, FreeIsAlone
<1>4. TypeOK'
    BY <1>1, <1>2 DEF TypeOK, Labels
<1>5. Only(t)
    BY <1>1 DEF TypeOK, Only
<1>6. CallInv(t)'
    BY <1>1, <1>2 DEF CallInv, OldBlock, NoBlock, Referencing, OwnRefs, RefillRefs, FlushRefs
<1>7. Held(t) = 0 /\ Held(t)' = 0
    BY <1>1, <1>2, <1>4, <1>6, HeldAt, HeldAtNext DEF HeldFacts, NoBlock
<1>8. Balanced(t)
    <2> SUFFICES ASSUME NEW b \in Blocks
                 PROVE  RundownProtect'[b] - RundownProtect[b]
                   = (SlotShare(b)' - SlotShare(b)) + (MyShare(b, t)' - MyShare(b, t))
        BY DEF Balanced
    <2>1. SlotShare(b)' = SlotShare(b) /\ SlotShare(b) \in Nat /\ RundownProtect[b] \in Nat
        BY <1>1, FastRefs DEF SlotShare, TypeOK
    <2>2. MyShare(b, t)' = 0 /\ MyShare(b, t) = 0
        BY <1>7 DEF MyShare
    <2>3. QED
        BY <1>1, <2>1, <2>2
<1>9. ~Owns(t)' /\ ~Installing(t)'
    BY <1>2 DEF Owns, Installing, FlushRefs
<1>10. FreshInv'
    BY <1>2, <1>5, <1>9, FreshKept DEF IInv
<1>11. OwnInv'
    <2>1. \A u \in Threads : Owns(u)' => u # t /\ Owns(u) /\ block'[u] = block[u]
        BY <1>5, <1>9 DEF Only, Owns, Installing
    <2>2. QED
        BY <1>1, <1>3, <2>1 DEF IInv, OwnInv
<1>12. RundownInv'
    <2> SUFFICES ASSUME NEW b \in rundown, b # block[t]
                 PROVE  \E u \in Threads : pc'[u] \in {"Waiting", "Free"} /\ block'[u] = b
        BY <1>1 DEF RundownInv
    <2>1. PICK u \in Threads : pc[u] \in {"Waiting", "Free"} /\ block[u] = b
        BY DEF IInv, RundownInv
    <2>2. QED
        BY <1>5, <2>1 DEF Only
<1>13. SlowInv'
    BY <1>1, <1>2, <1>5, SlowKept DEF IInv
<1>14. PoolInv'
    BY <1>1 DEF IInv, PoolInv, FreeInv
<1>15. QED
    BY <1>1, <1>2, <1>4, <1>5, <1>6, <1>8, <1>10, <1>11, <1>12, <1>13, <1>14, PoolStep
       DEF LockPCs

\* A block from the pool is nobody's, though its address may have been used.
LEMMA ExAllocateCallBackStep ==
    ASSUME IInv, NEW t \in Threads, NEW b \in Blocks, ExAllocateCallBack(t, b)
    PROVE  IInv'
<1>1. /\ UNCHANGED <<RoutineBlock, ExpCallBackFlush, rundown, OldRef>> /\ TypeOK /\ CallInv(t)
      /\ pc[t] = "idle" /\ pc' = [pc EXCEPT ![t] = "Bias"] /\ b \notin allocated
      /\ op' = [op EXCEPT ![t] = "install"] /\ block' = [block EXCEPT ![t] = b]
      /\ allocated' = allocated \cup {b}
    BY DEF ExAllocateCallBack, Goto, slot, IInv
<1>2. RundownProtect' = RundownProtect
    <2>1. RundownProtect' = [RundownProtect EXCEPT ![b] = 0]
        BY DEF ExAllocateCallBack
    <2>2. RundownProtect[b] = 0
        BY <1>1 DEF IInv, PoolInv
    <2>3. QED
        BY <1>1, <2>1, <2>2 DEF TypeOK
<1>3. pc'[t] = "Bias" /\ block'[t] = b /\ op'[t] = "install"
    BY <1>1 DEF TypeOK
<1>4. RoutineBlock.Object # b
    <2>1. RoutineBlock.Object = b => RundownProtect[b] > 0
        BY CountBound DEF IInv
    <2>2. RundownProtect[b] = 0
        BY <1>1 DEF IInv, PoolInv
    <2>3. QED
        BY <2>1, <2>2
<1>5. \A u \in Threads : block[u] # b
    BY <1>1, BlockAllocated
<1>6. TypeOK'
    BY <1>1, <1>2 DEF TypeOK, Labels
<1>7. Only(t)
    BY <1>1 DEF TypeOK, Only
<1>8. CallInv(t)'
    BY <1>1, <1>3 DEF CallInv, OldBlock, NoBlock, Referencing, OwnRefs, RefillRefs, FlushRefs
<1>9. Held(t) = 0 /\ Held(t)' = 0
    BY <1>1, <1>3, <1>6, <1>8, HeldAt, HeldAtNext DEF HeldFacts, NoBlock
<1>10. Balanced(t)
    <2> SUFFICES ASSUME NEW c \in Blocks
                 PROVE  RundownProtect'[c] - RundownProtect[c]
                   = (SlotShare(c)' - SlotShare(c)) + (MyShare(c, t)' - MyShare(c, t))
        BY DEF Balanced
    <2>1. SlotShare(c)' = SlotShare(c) /\ SlotShare(c) \in Nat /\ RundownProtect[c] \in Nat
        BY <1>1, FastRefs DEF SlotShare, TypeOK
    <2>2. MyShare(c, t)' = 0 /\ MyShare(c, t) = 0
        BY <1>9 DEF MyShare
    <2>3. QED
        BY <1>2, <2>1, <2>2
<1>11. FreshInv'
    <2>1. \A u \in Threads \ {t} : Installing(u)' => Installing(u)
        BY <1>7 DEF Only, Installing
    <2>2. \A u \in Threads \ {t} : block'[u] = block[u]
        BY <1>7 DEF Only
    <2>3. QED
        BY <1>3, <1>5, <2>1, <2>2 DEF IInv, FreshInv
<1>12. OwnInv'
    <2>1. \A u \in Threads \ {t} : (Owns(u)' => Owns(u)) /\ block'[u] = block[u]
        BY <1>7 DEF Only, Owns, Installing
    <2>2. QED
        BY <1>1, <1>3, <1>4, <1>5, <2>1 DEF IInv, OwnInv
<1>13. RundownInv'
    BY <1>1, <1>7, RundownKept DEF IInv
<1>14. SlowInv'
    BY <1>1, <1>3, <1>7, SlowKept DEF IInv
<1>15. PoolInv'
    BY <1>1, <1>2 DEF IInv, PoolInv
<1>16. QED
    BY <1>1, <1>2, <1>3, <1>6, <1>7, <1>8, <1>10, <1>11, <1>12, <1>13, <1>14, <1>15, PoolStep
       DEF LockPCs

-----------------------------------------------------------------------------
(* The theorems *)

\* An empty slot and idle threads satisfy the invariant.
LEMMA InitIInv == Init => IInv
<1> SUFFICES ASSUME Init PROVE IInv
    OBVIOUS
<1>1. TypeOK
    BY FastRefs DEF Init, TypeOK, Labels
<1>2. \A t \in Threads : CallInv(t)
    BY DEF Init, CallInv, OldBlock, NoBlock, Referencing, OwnRefs, RefillRefs, FlushRefs
<1>3. \A t \in Threads : pc[t] = "idle" /\ block[t] = NULL
    BY DEF Init
<1>4. FreshInv /\ OwnInv
    BY <1>3 DEF FreshInv, OwnInv, Owns, Installing, FlushRefs
<1>5. RundownInv /\ LockInv /\ SlowInv /\ FreeInv /\ PoolInv
    BY <1>3, NullIsNone DEF Init, RundownInv, LockInv, LockPCs, SlowInv, FreeInv, PoolInv
<1>6. CountInv
    <2> SUFFICES ASSUME NEW b \in Blocks PROVE RundownProtect[b] = References(b)
        BY DEF CountInv
    <2>1. b # NULL
        BY FastRefs
    <2>2. SlotShare(b) = 0
        BY <2>1, FastRefs DEF Init, SlotShare
    <2>3. \A t \in Threads : Share(b)[t] = 0
        BY <1>3, <2>1 DEF Share
    <2>4. SharesOf(Share(b)) = {}
        BY <2>3, FastRefs DEF SharesOf
    <2>5. Cardinality(SharesOf(Share(b))) = 0
        BY <2>4, FS_EmptySet
    <2>6. QED
        BY <2>2, <2>5 DEF References, Init
<1>7. QED
    BY <1>1, <1>2, <1>4, <1>5, <1>6 DEF IInv

\* Every step keeps the invariant.
LEMMA NextIInv == IInv /\ [Next]_vars => IInv'
<1> SUFFICES ASSUME IInv, [Next]_vars PROVE IInv'
    OBVIOUS
<1>1. CASE UNCHANGED vars
    <2> USE <1>1 DEF vars
    <2>1. /\ TypeOK' /\ FreshInv' /\ OwnInv' /\ RundownInv'
          /\ LockInv' /\ SlowInv' /\ FreeInv' /\ PoolInv'
        BY DEF IInv, TypeOK, FreshInv, OwnInv, Owns, Installing, RundownInv, LockInv, SlowInv, 
               OutForFlush, FreeInv, PoolInv
    <2>2. \A t \in Threads : CallInv(t)'
        BY DEF IInv, CallInv, OldBlock
    <2>3. \A b \in Blocks : SlotShare(b)' = SlotShare(b) /\ Share(b)' = Share(b)
        BY DEF SlotShare, Share, Held
    <2>4. \A b \in Blocks : References(b)' = References(b)
        BY <2>3 DEF References, SharesOf
    <2>5. CountInv'
        BY <2>4 DEF IInv, CountInv
    <2>6. QED
        BY <2>1, <2>2, <2>5 DEF IInv
<1>2. ASSUME NEW t \in Threads, NEW what \in {"call", "remove"}, Start(t, what) PROVE IInv'
    BY <1>2, StartStep
<1>3. ASSUME NEW t \in Threads, NEW b \in Blocks, ExAllocateCallBack(t, b) PROVE IInv'
    BY <1>3, ExAllocateCallBackStep
<1>4. ASSUME NEW t \in Threads, Step(t) PROVE IInv'
    <2>1. CASE FastReference(t) \/ FastReferenceCas(t)
        BY <2>1, FastReferenceStep, FastReferenceCasStep
    <2>2. CASE SlowLock(t) \/ SlowRead(t) \/ SlowAcquire(t) \/ SlowUnlock(t)
        BY <2>2, SlowLockStep, SlowReadStep, SlowAcquireStep, SlowUnlockStep
    <2>3. CASE Refill(t) \/ RefillRead(t) \/ RefillCas(t) \/ RefillUndo(t)
        BY <2>3, RefillStep, RefillReadStep, RefillCasStep, RefillUndoStep
    <2>4. CASE CallDone(t) \/ FastDereference(t) \/ DereferenceCas(t) \/ DereferenceBlock(t)
        BY <2>4, CallDoneStep, FastDereferenceStep, DereferenceCasStep, DereferenceBlockStep
    <2>5. CASE Bias(t) \/ Unhook(t) \/ Swap(t) \/ SwapCas(t) \/ Unbias(t)
        BY <2>5, BiasStep, UnhookStep, SwapStep, SwapCasStep, UnbiasStep
    <2>6. CASE FlushFree(t) \/ FlushLock(t) \/ FlushUnlock(t) \/ ReleaseUnused(t)
        BY <2>6, FlushFreeStep, FlushLockStep, FlushUnlockStep, ReleaseUnusedStep
    <2>7. CASE WaitForCallBacks(t) \/ Waited(t) \/ ExFreeCallBack(t)
        BY <2>7, WaitForCallBacksStep, WaitedStep, ExFreeCallBackStep
    <2>8. QED
        BY <1>4, <2>1, <2>2, <2>3, <2>4, <2>5, <2>6, <2>7 DEF Step
<1>5. QED
    BY <1>1, <1>2, <1>3, <1>4 DEF Next

\* The invariant holds throughout every behaviour of the callbacks.
THEOREM Invariance == Spec => []IInv
BY InitIInv, NextIInv, PTL DEF Spec

\* ExFastReference, the refill and ExFastRefDereference never put more than
\* MAX_FAST_REFS references, or any without a block, into the slot's low bits,
\* and no count of references goes below zero.
THEOREM TypeCorrect == Spec => []TypeOK
<1>1. IInv => TypeOK
    BY DEF IInv
<1>2. QED
    BY <1>1, Invariance, PTL

\* Every reference counted in a block's rundown protection is cached in the
\* slot or held by a thread, through fast and slow references, refills that
\* race a removal, failed installations and the return of unused references.
THEOREM ReferencesAreConserved == Spec => []ReferencesConserved
<1>1. IInv => ReferencesConserved
    BY DEF IInv, CountInv, PoolInv, ReferencesConserved
<1>2. QED
    BY <1>1, Invariance, PTL

\* A slow referencer never reads the rundown protection of a freed or closed
\* block: ExpCallBackFlush keeps the remover from giving the slot's reference
\* back until the referencer has its own.
THEOREM SlowBlockIsAlive == Spec => []SlowBlockLives
<1>1. IInv => SlowBlockLives
    BY SlowIsOpen DEF SlowBlockLives
<1>2. QED
    BY <1>1, Invariance, PTL

\* When ExWaitForCallBacks has returned, or an installation has failed, nobody
\* else has the block and nobody can find it: it may be freed.
THEOREM QuietAfterTheWait == Spec => []QuietAfterWait
<1>1. IInv => QuietAfterWait
    <2> SUFFICES ASSUME IInv, NEW t \in Threads, pc[t] = "Free"
                 PROVE  /\ RoutineBlock.Object # block[t]
                        /\ \A u \in Threads \ {t} : block[u] # block[t]
        BY DEF QuietAfterWait
    <2>1. RoutineBlock.Object # block[t]
        BY DEF IInv, OwnInv, Owns
    <2>2. \A u \in Threads \ {t} : block[u] # block[t]
        BY FreeIsAlone
    <2>3. QED
        BY <2>1, <2>2
<1>2. QED
    BY <1>1, Invariance, PTL
=============================================================================
