---------------------- MODULE ExRundownCacheAwareProofs ----------------------
(***************************************************************************)
(* Proofs about cache-aware rundown protection, for any finite set of        *)
(* accessors, any number of processors and any width of the words that holds *)
(* twice the references there can be.                                       *)
(***************************************************************************)
EXTENDS ExRundownCacheAware, TLAPS, FiniteSetTheorems

-----------------------------------------------------------------------------
(* Counting. *)

\* The pairs are finitely many.
LEMMA SharesFinite ==
    ASSUME NEW S, IsFiniteSet(S), NEW n \in Nat, NEW h
    PROVE  /\ IsFiniteSet(Shares(S, n, h))
           /\ Cardinality(Shares(S, n, h)) \in Nat
           /\ Cardinality(Shares(S, n, h)) <= n * Cardinality(S)
<1>1. IsFiniteSet(1..n) /\ Cardinality(1..n) = n
    BY FS_Interval
<1>2. IsFiniteSet(S \X (1..n)) /\ Cardinality(S \X (1..n)) = Cardinality(S) * n
    BY <1>1, FS_Product
<1>3. Shares(S, n, h) \in SUBSET (S \X (1..n))
    BY DEF Shares
<1>4. Cardinality(S) \in Nat
    BY FS_CardinalityType
<1>5. /\ IsFiniteSet(Shares(S, n, h))
      /\ Cardinality(Shares(S, n, h)) <= Cardinality(S \X (1..n))
    BY <1>2, <1>3, FS_Subset
<1>6. Cardinality(Shares(S, n, h)) \in Nat
    BY <1>5, FS_CardinalityType
<1>7. Cardinality(S) * n = n * Cardinality(S)
    BY <1>4
<1>8. QED
    BY <1>2, <1>5, <1>6, <1>7

\* The numbers i+1 .. i+k of one element are k.
LEMMA ShareCardinality ==
    ASSUME NEW a, NEW i \in Nat, NEW k \in Nat
    PROVE  /\ IsFiniteSet({a} \X (i+1 .. i+k))
           /\ Cardinality({a} \X (i+1 .. i+k)) = k
<1> DEFINE I == i+1 .. i+k
           T == {a} \X I
           f == [n \in I |-> <<a, n>>]
<1>1. IsFiniteSet(I) /\ Cardinality(I) = k
    BY FS_Interval
<1>2. f \in Bijection(I, T)
    <2>1. f \in [I -> T]
        OBVIOUS
    <2>2. \A x, y \in I : f[x] = f[y] => x = y
        OBVIOUS
    <2>3. \A t \in T : \E x \in I : f[x] = t
        OBVIOUS
    <2>4. QED
        BY <2>1, <2>2, <2>3 DEF Bijection, Injection, Surjection, IsInjective
<1>3. ExistsBijection(I, T)
    BY <1>2 DEF ExistsBijection
<1>4. QED
    BY <1>1, <1>3, FS_Bijection

\* A larger share of one element makes the sum larger by as much.
LEMMA SharesAdd ==
    ASSUME NEW S, IsFiniteSet(S), NEW n \in Nat,
           NEW h \in [S -> 0..n], NEW g \in [S -> 0..n], NEW a \in S, NEW k \in Nat,
           g[a] = h[a] + k, \A b \in S : b # a => g[b] = h[b]
    PROVE  Cardinality(Shares(S, n, g)) = Cardinality(Shares(S, n, h)) + k
<1>1. PICK i \in Nat : i = h[a]
    OBVIOUS
<1> DEFINE T == {a} \X (i+1 .. i+k)
<1>2. IsFiniteSet(T) /\ Cardinality(T) = k
    <2>1. \A x, y \in Nat :
             /\ IsFiniteSet({a} \X (x+1 .. x+y))
             /\ Cardinality({a} \X (x+1 .. x+y)) = y
        BY ShareCardinality
    <2>2. QED
        BY <2>1
<1>3. Shares(S, n, g) = Shares(S, n, h) \cup T
    <2>1. \A b \in S : g[b] = IF b = a THEN i + k ELSE h[b]
        BY <1>1
    <2>2. i + k <= n /\ \A b \in S : h[b] \in Nat
        BY <1>1
    <2>3. QED
        BY <1>1, <2>1, <2>2 DEF Shares
<1>4. Shares(S, n, h) \cap T = {}
    BY <1>1 DEF Shares
<1> HIDE DEF T
<1>5. Cardinality(Shares(S, n, h) \cup T)
        = Cardinality(Shares(S, n, h)) + Cardinality(T) - Cardinality(Shares(S, n, h) \cap T)
    BY <1>2, SharesFinite, FS_Union
<1>6. Cardinality(Shares(S, n, h)) \in Nat /\ Cardinality(Shares(S, n, h) \cap T) = 0
    BY <1>4, SharesFinite, FS_EmptySet
<1>7. QED
    BY <1>2, <1>3, <1>5, <1>6

\* The sum changes by what one element's share changes by.
LEMMA SharesChange ==
    ASSUME NEW S, IsFiniteSet(S), NEW n \in Nat,
           NEW h \in [S -> 0..n], NEW g \in [S -> 0..n], NEW a \in S,
           \A b \in S : b # a => g[b] = h[b]
    PROVE  Cardinality(Shares(S, n, g)) = Cardinality(Shares(S, n, h)) + g[a] - h[a]
<1>1. /\ Cardinality(Shares(S, n, h)) \in Nat
      /\ Cardinality(Shares(S, n, g)) \in Nat
    BY SharesFinite
<1>2. g[a] \in Nat /\ h[a] \in Nat
    OBVIOUS
<1>3. CASE h[a] <= g[a]
    <2>1. PICK k \in Nat : g[a] = h[a] + k
        <3>1. g[a] - h[a] \in Nat /\ g[a] = h[a] + (g[a] - h[a])
            BY <1>2, <1>3
        <3>2. QED
            BY <3>1
    <2>2. Cardinality(Shares(S, n, g)) = Cardinality(Shares(S, n, h)) + k
        BY <2>1, SharesAdd
    <2>3. QED
        BY <1>1, <1>2, <2>1, <2>2
<1>4. CASE g[a] < h[a]
    <2>1. PICK k \in Nat : h[a] = g[a] + k
        <3>1. h[a] - g[a] \in Nat /\ h[a] = g[a] + (h[a] - g[a])
            BY <1>2, <1>4
        <3>2. QED
            BY <3>1
    <2>2. Cardinality(Shares(S, n, h)) = Cardinality(Shares(S, n, g)) + k
        <3>1. \A b \in S : b # a => h[b] = g[b]
            OBVIOUS
        <3>2. QED
            BY <2>1, <3>1, SharesAdd
    <2>3. QED
        BY <1>1, <1>2, <2>1, <2>2
<1>5. QED
    BY <1>2, <1>3, <1>4

\* The sum is monotonic.
LEMMA SharesMonotonic ==
    ASSUME NEW S, IsFiniteSet(S), NEW n \in Nat,
           NEW h \in [S -> 0..n], NEW g \in [S -> 0..n],
           \A b \in S : h[b] <= g[b]
    PROVE  Cardinality(Shares(S, n, h)) <= Cardinality(Shares(S, n, g))
<1>1. Shares(S, n, h) \in SUBSET Shares(S, n, g)
    <2>1. \A b \in S : h[b] \in Nat /\ g[b] \in Nat
        OBVIOUS
    <2>2. QED
        BY <2>1 DEF Shares
<1>2. QED
    BY <1>1, SharesFinite, FS_Subset

\* No element's share is more than the sum.
LEMMA ShareBound ==
    ASSUME NEW S, IsFiniteSet(S), NEW n \in Nat, NEW h \in [S -> 0..n], NEW a \in S
    PROVE  h[a] \in Nat /\ h[a] <= Cardinality(Shares(S, n, h))
<1>1. PICK g \in [S -> 0..n] : g[a] = 0 /\ \A b \in S : b # a => g[b] = h[b]
    <2>1. [h EXCEPT ![a] = 0] \in [S -> 0..n]
        OBVIOUS
    <2>2. QED
        BY <2>1
<1>2. Cardinality(Shares(S, n, g)) = Cardinality(Shares(S, n, h)) + g[a] - h[a]
    BY <1>1, SharesChange
<1>3. /\ Cardinality(Shares(S, n, g)) \in Nat
      /\ Cardinality(Shares(S, n, h)) \in Nat
    BY SharesFinite
<1>4. h[a] \in Nat
    OBVIOUS
<1>5. QED
    BY <1>1, <1>2, <1>3, <1>4

\* Nobody's share is nothing.
LEMMA SharesNone ==
    ASSUME NEW S, NEW n \in Nat, NEW h, \A b \in S : h[b] = 0
    PROVE  Cardinality(Shares(S, n, h)) = 0
<1>1. Shares(S, n, h) = {}
    BY DEF Shares
<1>2. QED
    BY <1>1, FS_EmptySet

\* A number less than one width out of range is brought back by one width.
LEMMA Wrap ==
    ASSUME NEW m \in Nat, m > 0, NEW x \in Int, -m <= x, x < 2 * m
    PROVE  /\ x % m \in 0 .. m - 1
           /\ \E j \in {-1, 0, 1} : x % m = x + j * m
<1>1. CASE x < 0
    <2>1. x % m = x + m
        BY <1>1
    <2>2. QED
        BY <1>1, <2>1
<1>2. CASE 0 <= x /\ x < m
    <2>1. x % m = x
        BY <1>2
    <2>2. QED
        BY <1>2, <2>1
<1>3. CASE m <= x
    <2>1. x % m = x - m
        BY <1>3
    <2>2. QED
        BY <1>3, <2>1
<1>4. QED
    BY <1>1, <1>2, <1>3

\* What differs from o, a remainder, by a multiple of m has the remainder o.
LEMMA Congruent ==
    ASSUME NEW m \in Nat, m > 0, NEW o \in 0 .. m - 1, NEW k \in Int
    PROVE  (o + k * m) % m = o
OBVIOUS

-----------------------------------------------------------------------------
(* The inductive invariant. *)

AcquirePCs == {"AcquireInline", "ExfAcquire", "Acquire"}
ReleasePCs == {"ReleaseInline", "ExfRelease", "Release"}
MarkPCs == {"MarkRead", "MarkCas"}

Counts == {CountWord(n) : n \in 0 .. Modulus - 1}

\* What the words are at each stage of a rundown. The stages that go from word
\* to word have left those below Index behind.
WordInv ==
    /\ \A p \in Processors : RunRef[p] \in Counts \cup {EX_RUNDOWN_ACTIVE, BlockWord}
    /\ tpc = "running" =>
         \/ \A p \in Processors : RunRef[p] \in Counts
         \/ \A p \in Processors : RunRef[p] = EX_RUNDOWN_ACTIVE
    /\ tpc \in MarkPCs =>
         \A p \in Processors : IF p < Index THEN RunRef[p] = BlockWord ELSE RunRef[p] \in Counts
    /\ tpc \in {"Total", "KeWait", "returned"} => \A p \in Processors : RunRef[p] = BlockWord
    /\ tpc = "ReInit" =>
         \A p \in Processors : RunRef[p] = IF p < Index THEN CountWord(0) ELSE BlockWord
    /\ tpc = "Complete" =>
         \A p \in Processors : RunRef[p] = IF p < Index THEN EX_RUNDOWN_ACTIVE ELSE BlockWord
    /\ tpc \notin MarkPCs \cup {"ReInit", "Complete"} => Index = 0

\* The references that are held or sought, each accessor's together.
Sought == [a \in Accessors |-> held[a] + (IF pc[a] \in AcquirePCs THEN Count[a] ELSE 0)]
SoughtCount == Cardinality(Shares(Accessors, MaxHold, Sought))

\* The most there can be of references held and references given back early.
MostEarly == MaxEarly + MaxHold * Cardinality(Accessors)

\* Words, total and block count the references modulo the width of a word.
SumInv ==
    tpc \in {"running", "Total"} \cup MarkPCs =>
        \E k \in Int :
            InWords + TotalCount \div 2 + (IF tpc = "running" THEN 0 ELSE WaitBlock.Count)
                = Outstanding + k * Modulus

\* How far releases can have driven the block below zero before the total is
\* added, and what holds of the total.
TotalInv ==
    /\ TotalCount = 2 * (TotalCount \div 2)
    /\ tpc \notin MarkPCs \cup {"Total"} => TotalCount = 0
    /\ tpc \in MarkPCs \cup {"Total"} => WaitBlock.Count <= 0
    /\ tpc \in MarkPCs => SoughtCount - WaitBlock.Count <= MostEarly
    /\ tpc = "Total" => Outstanding - WaitBlock.Count <= MostEarly

\* The wait counts what is out, and is over when nothing is.
WaitInv ==
    /\ tpc = "KeWait" =>
         /\ WaitBlock.Count = Outstanding
         /\ WaitBlock.WakeEvent # "none"
         /\ WaitBlock.WakeEvent = "set" => WaitBlock.Count = 0
         /\ WaitBlock.Count = 0 /\ WaitBlock.WakeEvent # "set" =>
              \E a \in Accessors : pc[a] = "KeSetEvent"
    /\ tpc \in {"returned", "ReInit", "Complete"} => Outstanding = 0
    /\ tpc = "ReInit" => \A a \in Accessors : pc[a] = "idle"
    /\ (\E p \in Processors : RunRef[p] = EX_RUNDOWN_ACTIVE) => Outstanding = 0

\* What an accessor knows at each place of its code.
AccessorInv(a) ==
    /\ pc[a] \in AcquirePCs => held[a] + Count[a] <= MaxHold
    /\ pc[a] \in ReleasePCs => Count[a] <= held[a]
    /\ pc[a] \in {"AcquireInline", "ReleaseInline"} => ~Active(Value[a])
    /\ pc[a] = "Release" /\ Active(Value[a]) => Value[a] = BlockWord
    /\ pc[a] = "Release" /\ Active(Value[a]) => tpc \in WaitPCs
    /\ pc[a] = "KeSetEvent" =>
         /\ tpc = "KeWait"
         /\ WaitBlock.Count = 0
         /\ WaitBlock.WakeEvent = "reset"
         /\ \A b \in Accessors : pc[b] = "KeSetEvent" => b = a

IInv ==
    /\ TypeOK
    /\ WordInv
    /\ SumInv
    /\ TotalInv
    /\ WaitInv
    /\ \A a \in Accessors : AccessorInv(a)

-----------------------------------------------------------------------------
(* The constants, and the words made of them. *)

\* What follows from the assumptions on the constants.
LEMMA Consts ==
    /\ IsFiniteSet(Accessors) /\ Cardinality(Accessors) \in Nat
    /\ IsFiniteSet(Processors) /\ 0 \in Processors
    /\ Number \in Nat \ {0} /\ MaxHold \in Nat \ {0}
    /\ MostEarly \in Nat /\ Modulus \in Nat \ {0} /\ 2 * MostEarly < Modulus
    /\ MaxHold * Cardinality(Accessors) \in Nat
    /\ MaxHold * Cardinality(Accessors) <= MostEarly
<1>1. IsFiniteSet(Accessors) /\ Cardinality(Accessors) \in Nat
    BY CacheAwareAssumptions, FS_CardinalityType
<1>2. PICK c \in Nat : c = Cardinality(Accessors)
    BY <1>1
<1>3. MaxHold * c \in Nat
    BY <1>2, CacheAwareAssumptions
<1>4. Modulus > 2 * (MaxHold * c + MaxEarly) /\ MaxEarly \in Nat /\ Modulus \in Nat
    BY <1>2, CacheAwareAssumptions
<1>5. MostEarly = MaxEarly + MaxHold * c
    BY <1>2 DEF MostEarly
<1>6. IsFiniteSet(Processors)
    BY FS_Interval, CacheAwareAssumptions DEF Processors
<1>7. 0 \in Processors
    BY CacheAwareAssumptions DEF Processors
<1>8. QED
    BY <1>1, <1>2, <1>3, <1>4, <1>5, <1>6, <1>7, CacheAwareAssumptions

\* An accessor's references fit in a word.
LEMMA HoldFits == Accessors # {} => MaxHold <= MaxHold * Cardinality(Accessors) /\ MaxHold < Modulus
<1> SUFFICES ASSUME Accessors # {}
             PROVE  MaxHold <= MaxHold * Cardinality(Accessors) /\ MaxHold < Modulus
    OBVIOUS
<1>1. Cardinality(Accessors) # 0
    BY Consts, FS_EmptySet
<1>2. PICK c \in Nat \ {0} : c = Cardinality(Accessors)
    BY <1>1, Consts
<1>3. MaxHold <= MaxHold * c
    BY <1>2, Consts
<1>4. QED
    BY <1>2, <1>3, Consts

\* The words that count, and the two others.
LEMMA Words ==
    /\ \A w \in Counts : w \in Word /\ ~Active(w) /\ w.rest \in 0 .. Modulus - 1 /\ Numeric(w) = 2 * w.rest
    /\ BlockWord \in Word /\ Active(BlockWord)
    /\ EX_RUNDOWN_ACTIVE \in Word /\ Active(EX_RUNDOWN_ACTIVE)
    /\ BlockWord # EX_RUNDOWN_ACTIVE
    /\ \A w \in Word : Masked(w) \in Word /\ ~Active(Masked(w))
    /\ CountWord(0) \in Counts /\ CountWord(0).rest = 0
<1>1. \A n \in 0 .. Modulus - 1 : n % Modulus = n
    BY Consts
<1>2. \A n \in 0 .. Modulus - 1 : CountWord(n) = [low |-> 0, rest |-> n]
    BY <1>1 DEF CountWord
<1>3. 0 \in 0 .. Modulus - 1
    BY Consts
<1>4. CountWord(0) = [low |-> 0, rest |-> 0]
    BY <1>2, <1>3
<1>5. CountWord(0) \in Counts /\ CountWord(0).rest = 0
    BY <1>3, <1>4 DEF Counts
<1>6. ASSUME NEW w \in Counts
      PROVE  w \in Word /\ ~Active(w) /\ w.rest \in 0 .. Modulus - 1 /\ Numeric(w) = 2 * w.rest
    <2>1. PICK n \in 0 .. Modulus - 1 : w = [low |-> 0, rest |-> n]
        BY <1>2, <1>6 DEF Counts
    <2>2. QED
        BY <2>1 DEF Word, Active, Numeric
<1>7. BlockWord \in Word /\ EX_RUNDOWN_ACTIVE \in Word
    BY <1>3 DEF BlockWord, EX_RUNDOWN_ACTIVE, Word
<1>8. BlockWord # EX_RUNDOWN_ACTIVE
    BY CacheAwareAssumptions DEF BlockWord, EX_RUNDOWN_ACTIVE
<1>9. Active(BlockWord) /\ Active(EX_RUNDOWN_ACTIVE)
    BY DEF BlockWord, EX_RUNDOWN_ACTIVE, Active
<1>10. \A w \in Word : Masked(w) \in Word /\ ~Active(Masked(w))
    BY DEF Masked, Word, Active
<1>11. QED
    BY <1>5, <1>6, <1>7, <1>8, <1>9, <1>10

\* A count that leaves the range of a word wraps.
LEMMA CountWraps ==
    ASSUME NEW n \in Int, -Modulus <= n, n < 2 * Modulus
    PROVE  /\ CountWord(n) \in Counts
           /\ \E j \in {-1, 0, 1} : CountWord(n).rest = n + j * Modulus
<1>1. n % Modulus \in 0 .. Modulus - 1 /\ \E j \in {-1, 0, 1} : n % Modulus = n + j * Modulus
    BY Wrap, Consts
<1>2. CountWord(n).rest = n % Modulus
    BY DEF CountWord
<1>3. PICK m \in 0 .. Modulus - 1 : m = n % Modulus
    BY <1>1
<1>4. m % Modulus = m
    BY Consts
<1>5. CountWord(m) = CountWord(n)
    BY <1>3, <1>4 DEF CountWord
<1>6. CountWord(n) \in Counts
    BY <1>5 DEF Counts
<1>7. QED
    BY <1>1, <1>2, <1>6

-----------------------------------------------------------------------------
(* The sums of the invariant. *)

\* What the accessors hold, or hold and seek, is a number within the bound.
LEMMA HeldBound ==
    ASSUME NEW h \in [Accessors -> 0..MaxHold]
    PROVE  /\ Cardinality(Shares(Accessors, MaxHold, h)) \in Nat
           /\ Cardinality(Shares(Accessors, MaxHold, h)) <= MaxHold * Cardinality(Accessors)
           /\ \A a \in Accessors :
                h[a] \in Nat /\ h[a] <= Cardinality(Shares(Accessors, MaxHold, h))
    BY Consts, SharesFinite, ShareBound

\* The references outstanding are a number within the bound, and cover what each
\* accessor holds.
LEMMA OutstandingBound ==
    ASSUME TypeOK
    PROVE  /\ Outstanding \in Nat
           /\ Outstanding <= MaxHold * Cardinality(Accessors)
           /\ \A a \in Accessors : held[a] \in Nat /\ held[a] <= Outstanding
<1>1. held \in [Accessors -> 0..MaxHold]
    BY DEF TypeOK
<1>2. QED
    BY <1>1, HeldBound DEF Outstanding

\* The references sought are more than those held, within the bound.
LEMMA SoughtBound ==
    ASSUME TypeOK, \A a \in Accessors : AccessorInv(a)
    PROVE  /\ Sought \in [Accessors -> 0..MaxHold]
           /\ SoughtCount \in Nat
           /\ SoughtCount <= MaxHold * Cardinality(Accessors)
           /\ Outstanding <= SoughtCount
<1>1. held \in [Accessors -> 0..MaxHold] /\ Count \in [Accessors -> 1..MaxHold]
    BY DEF TypeOK
<1>2. \A a \in Accessors : Sought[a] \in 0..MaxHold /\ held[a] <= Sought[a]
    BY <1>1, Consts DEF Sought, AccessorInv
<1>3. Sought \in [Accessors -> 0..MaxHold]
    BY <1>2 DEF Sought
<1>4. SoughtCount \in Nat /\ SoughtCount <= MaxHold * Cardinality(Accessors)
    BY <1>3, HeldBound DEF SoughtCount
<1>5. Outstanding <= SoughtCount
    BY <1>1, <1>2, <1>3, SharesMonotonic, Consts DEF Outstanding, SoughtCount
<1>6. QED
    BY <1>3, <1>4, <1>5

\* The same in the next state.
LEMMA SoughtBoundNext ==
    ASSUME TypeOK', \A a \in Accessors : AccessorInv(a)'
    PROVE  /\ Sought' \in [Accessors -> 0..MaxHold]
           /\ SoughtCount' \in Nat
           /\ SoughtCount' <= MaxHold * Cardinality(Accessors)
<1>1. held' \in [Accessors -> 0..MaxHold] /\ Count' \in [Accessors -> 1..MaxHold]
    BY DEF TypeOK
<1>2. \A a \in Accessors : Sought'[a] \in 0..MaxHold
    BY <1>1, Consts DEF Sought, AccessorInv
<1>3. Sought' \in [Accessors -> 0..MaxHold]
    BY <1>2 DEF Sought
<1>4. QED
    BY <1>3, HeldBound DEF SoughtCount

\* What the words count is a number.
LEMMA WordsBound ==
    ASSUME WordInv
    PROVE  WordCount \in [Processors -> 0 .. Modulus - 1] /\ InWords \in Nat
<1>1. \A p \in Processors : WordCount[p] \in 0 .. Modulus - 1
    BY Words, Consts DEF WordCount, WordInv
<1>2. WordCount \in [Processors -> 0 .. Modulus - 1]
    BY <1>1 DEF WordCount
<1>3. QED
    BY <1>2, SharesFinite, Consts DEF InWords

\* A step that changes one word changes the sum by as much.
LEMMA WordsChange ==
    ASSUME TypeOK, WordInv, NEW p \in Processors, NEW w \in Counts \cup {EX_RUNDOWN_ACTIVE, BlockWord},
           RunRef' = [RunRef EXCEPT ![p] = w]
    PROVE  /\ WordCount' \in [Processors -> 0 .. Modulus - 1]
           /\ InWords' = InWords + (IF Active(w) THEN 0 ELSE w.rest) - WordCount[p]
<1>1. WordCount \in [Processors -> 0 .. Modulus - 1]
    BY WordsBound
<1>2. /\ RunRef'[p] = w
      /\ \A q \in Processors : q # p => RunRef'[q] = RunRef[q]
    BY DEF TypeOK
<1>3. \A q \in Processors : q # p => WordCount'[q] = WordCount[q]
    BY <1>2 DEF WordCount
<1>4. WordCount'[p] = IF Active(w) THEN 0 ELSE w.rest
    BY <1>2 DEF WordCount
<1>5. WordCount'[p] \in 0 .. Modulus - 1
    BY <1>4, Words, Consts
<1>6. \A q \in Processors : WordCount'[q] \in 0 .. Modulus - 1
    BY <1>1, <1>3, <1>5
<1>7. WordCount' \in [Processors -> 0 .. Modulus - 1]
    BY <1>6 DEF WordCount
<1>8. \A h, g \in [Processors -> 0 .. Modulus - 1] :
         (\A q \in Processors : q # p => g[q] = h[q])
         => Cardinality(Shares(Processors, Modulus - 1, g))
              = Cardinality(Shares(Processors, Modulus - 1, h)) + g[p] - h[p]
    <2>1. Modulus - 1 \in Nat /\ IsFiniteSet(Processors)
        BY Consts
    <2>2. QED
        BY <2>1, SharesChange
<1>9. Cardinality(Shares(Processors, Modulus - 1, WordCount'))
              = Cardinality(Shares(Processors, Modulus - 1, WordCount)) + WordCount'[p] - WordCount[p]
    BY <1>1, <1>3, <1>7, <1>8
<1>10. QED
    BY <1>4, <1>7, <1>9 DEF InWords, Shares

\* A step that changes what one accessor holds changes the sum by as much.
LEMMA OutstandingChange ==
    ASSUME TypeOK, NEW a \in Accessors, NEW d \in Int, held[a] + d \in 0..MaxHold,
           held' = [held EXCEPT ![a] = @ + d]
    PROVE  held' \in [Accessors -> 0..MaxHold] /\ Outstanding' = Outstanding + d
<1>1. held \in [Accessors -> 0..MaxHold] /\ held' \in [Accessors -> 0..MaxHold]
    BY DEF TypeOK
<1>2. held'[a] = held[a] + d /\ \A b \in Accessors : b # a => held'[b] = held[b]
    BY <1>1
<1>3. \A h, g \in [Accessors -> 0..MaxHold] :
         (\A b \in Accessors : b # a => g[b] = h[b])
         => Cardinality(Shares(Accessors, MaxHold, g))
              = Cardinality(Shares(Accessors, MaxHold, h)) + g[a] - h[a]
    BY Consts, SharesChange
<1>4. Cardinality(Shares(Accessors, MaxHold, held'))
        = Cardinality(Shares(Accessors, MaxHold, held)) + held'[a] - held[a]
    BY <1>1, <1>2, <1>3
<1>5. held[a] \in Nat /\ Cardinality(Shares(Accessors, MaxHold, held)) \in Nat
    BY <1>1, HeldBound
<1>6. Cardinality(Shares(Accessors, MaxHold, held')) = Cardinality(Shares(Accessors, MaxHold, held)) + d
    BY <1>2, <1>4, <1>5
<1>7. QED
    BY <1>1, <1>6 DEF Outstanding, Shares

-----------------------------------------------------------------------------
(* The steps of an accessor. *)

\* Words just initialised satisfy the invariant.
LEMMA InitIInv == Init => IInv
<1> SUFFICES ASSUME Init PROVE IInv
    OBVIOUS
<1>1. TypeOK
    BY Words, Consts DEF Init, TypeOK
<1>2. Outstanding = 0
    BY SharesNone, Consts DEF Init, Outstanding
<1>3. WordInv
    BY Words DEF Init, WordInv, MarkPCs
<1>4. InWords = 0
    <2>1. \A p \in Processors : WordCount[p] = 0
        BY Words DEF Init, WordCount
    <2>2. Modulus - 1 \in Nat
        BY Consts
    <2>3. QED
        BY <2>1, <2>2, SharesNone DEF InWords
<1>5. SumInv
    <2>1. InWords + TotalCount \div 2 + 0 = Outstanding + 0 * Modulus
        BY <1>2, <1>4, Consts DEF Init
    <2>2. QED
        BY <2>1 DEF Init, SumInv
<1>6. TotalInv
    BY DEF Init, TotalInv, MarkPCs
<1>7. WaitInv
    BY <1>2 DEF Init, WaitInv
<1>8. \A a \in Accessors : AccessorInv(a)
    BY DEF Init, AccessorInv, AcquirePCs, ReleasePCs
<1>9. QED
    BY <1>1, <1>3, <1>5, <1>6, <1>7, <1>8 DEF IInv

\* A step of an accessor that writes nothing shared keeps the invariant when
\* it keeps the accessor's own part and does not seek too much.
LEMMA LocalStep ==
    ASSUME IInv, NEW a \in Accessors, pc[a] # "KeSetEvent",
           NEW label \in {"idle"} \cup AcquirePCs \cup ReleasePCs, NEW p \in Processors,
           NEW v \in Word, NEW k \in 1..MaxHold,
           pc' = [pc EXCEPT ![a] = label],
           at' = [at EXCEPT ![a] = p],
           Value' = [Value EXCEPT ![a] = v],
           Count' = [Count EXCEPT ![a] = k],
           UNCHANGED <<RunRef, WaitBlock, held, ownVars>>,
           AccessorInv(a)',
           tpc = "ReInit" => label = "idle",
           label \in AcquirePCs /\ tpc \in MarkPCs =>
             WaitBlock.Count > -MaxEarly \/ (pc[a] \in AcquirePCs /\ Count[a] = k)
    PROVE  IInv'
<1> USE DEF IInv
<1>1. TypeOK'
    BY DEF TypeOK, AcquirePCs, ReleasePCs, ownVars
<1>2. Outstanding' = Outstanding /\ InWords' = InWords
    BY DEF Outstanding, InWords, WordCount, Shares
<1>3. WordInv'
    BY DEF WordInv, ownVars
<1>4. SumInv'
    BY <1>2 DEF SumInv, ownVars
<1>5. \A b \in Accessors : b # a => pc'[b] = pc[b] /\ Value'[b] = Value[b] /\ Count'[b] = Count[b]
    BY DEF TypeOK
<1>6. pc'[a] = label /\ Count'[a] = k /\ label # "KeSetEvent"
    BY DEF TypeOK, AcquirePCs, ReleasePCs
<1>7. ASSUME NEW b \in Accessors, b # a PROVE AccessorInv(b)'
    <2>1. pc'[b] = "KeSetEvent" => \A c \in Accessors : pc'[c] = "KeSetEvent" => c = b
        BY <1>5, <1>6, <1>7 DEF AccessorInv
    <2>2. QED
        BY <1>5, <1>7, <2>1 DEF AccessorInv, ownVars
<1>8. \A b \in Accessors : AccessorInv(b)'
    BY <1>7
<1>9. WaitInv'
    BY <1>2, <1>5, <1>6 DEF WaitInv, ownVars
<1>10. tpc \in MarkPCs => SoughtCount' - WaitBlock.Count <= MostEarly
    <2> SUFFICES ASSUME tpc \in MarkPCs PROVE SoughtCount' - WaitBlock.Count <= MostEarly
        OBVIOUS
    <2>1. /\ SoughtCount \in Nat /\ SoughtCount - WaitBlock.Count <= MostEarly
          /\ WaitBlock.Count \in Int
        BY SoughtBound DEF TotalInv, TypeOK
    <2>2. SoughtCount' \in Nat /\ SoughtCount' <= MaxHold * Cardinality(Accessors)
        BY <1>1, <1>8, SoughtBoundNext
    <2>3. Sought \in [Accessors -> 0..MaxHold] /\ Sought' \in [Accessors -> 0..MaxHold]
        BY <1>1, <1>8, SoughtBound, SoughtBoundNext
    <2>4. CASE WaitBlock.Count > -MaxEarly
        <3>1. MaxHold * Cardinality(Accessors) \in Nat /\ MaxEarly \in Nat
            BY Consts, CacheAwareAssumptions
        <3>2. QED
            BY <2>1, <2>2, <2>4, <3>1 DEF MostEarly
    <2>5. CASE label \in AcquirePCs => pc[a] \in AcquirePCs /\ Count[a] = k
        <3>1. \A b \in Accessors : Sought'[b] <= Sought[b]
            <4>1. ASSUME NEW b \in Accessors, b # a PROVE Sought'[b] = Sought[b]
                BY <1>5, <4>1 DEF Sought
            <4>2. Sought'[a] <= Sought[a]
                BY <1>6, <2>5 DEF Sought, TypeOK
            <4>3. \A b \in Accessors : Sought[b] \in Nat
                BY <2>3
            <4>4. QED
                BY <4>1, <4>2, <4>3
        <3>2. \A h, g \in [Accessors -> 0..MaxHold] :
                (\A b \in Accessors : h[b] <= g[b]) =>
                Cardinality(Shares(Accessors, MaxHold, h)) <= Cardinality(Shares(Accessors, MaxHold, g))
            BY SharesMonotonic, Consts
        <3>3. Cardinality(Shares(Accessors, MaxHold, Sought')) <= Cardinality(Shares(Accessors, MaxHold, Sought))
            BY <2>3, <3>1, <3>2
        <3>4. SoughtCount' <= SoughtCount
            BY <3>3 DEF SoughtCount, Shares
        <3>5. QED
            BY <2>1, <2>2, <3>4, Consts
    <2>6. QED
        BY <2>4, <2>5
<1>11. TotalInv'
    BY <1>2, <1>10 DEF TotalInv, ownVars
<1>12. QED
    BY <1>1, <1>3, <1>4, <1>8, <1>9, <1>11

\* A compare-exchange that adds d, which may be negative, to a word's count and
\* to what the accessor holds keeps the sums equal modulo the width, and
\* everything else.
LEMMA CountStep ==
    ASSUME IInv, NEW a \in Accessors, pc[a] \in AcquirePCs \cup ReleasePCs,
           NEW p \in Processors, ~Active(RunRef[p]),
           NEW d \in Int, d = IF pc[a] \in AcquirePCs THEN Count[a] ELSE -Count[a],
           RunRef' = [RunRef EXCEPT ![p] = CountWord(RunRef[p].rest + d)],
           held' = [held EXCEPT ![a] = @ + d],
           Return(a), UNCHANGED <<WaitBlock, ownVars>>
    PROVE  IInv'
<1> USE DEF IInv
<1>1. Count[a] \in 1..MaxHold /\ held[a] \in 0..MaxHold
    BY DEF TypeOK
<1>2. held[a] + d \in 0..MaxHold
    BY <1>1, Consts DEF AccessorInv, AcquirePCs, ReleasePCs
<1>3. held' \in [Accessors -> 0..MaxHold] /\ Outstanding' = Outstanding + d
    BY <1>2, OutstandingChange
<1>4. RunRef[p] \in Counts /\ RunRef[p].rest \in 0 .. Modulus - 1
    BY Words DEF WordInv
<1>5. tpc \in {"running", "ReInit"} \cup MarkPCs
    BY Words DEF WordInv, TypeOK, WaitPCs, MarkPCs
<1>6. tpc # "ReInit"
    BY DEF WaitInv, AcquirePCs, ReleasePCs
<1>7. PICK w \in Counts, j \in {-1, 0, 1} :
          w = CountWord(RunRef[p].rest + d) /\ w.rest = RunRef[p].rest + d + j * Modulus
    <2>1. RunRef[p].rest + d \in Int /\ -Modulus <= RunRef[p].rest + d /\ RunRef[p].rest + d < 2 * Modulus
        BY <1>1, <1>4, HoldFits, Consts
    <2>2. QED
        BY <2>1, CountWraps
<1>8. InWords' = InWords + d + j * Modulus
    <2>1. WordCount[p] = RunRef[p].rest
        BY DEF WordCount
    <2>2. InWords' = InWords + w.rest - RunRef[p].rest
        BY <1>7, <2>1, Words, WordsChange
    <2>3. InWords \in Nat
        BY WordsBound
    <2>4. j * Modulus \in Int
        BY Consts
    <2>5. QED
        BY <1>4, <1>7, <2>2, <2>3, <2>4
<1>9. /\ RunRef'[p] = w
      /\ \A q \in Processors : q # p => RunRef'[q] = RunRef[q]
    BY <1>7 DEF TypeOK
<1>10. TypeOK'
    <2>1. RunRef' \in [Processors -> Word]
        BY <1>7, Words DEF TypeOK
    <2>2. QED
        BY <1>3, <2>1, Words, Consts DEF TypeOK, Return, Goto, ownVars
<1>11. WordInv'
    <2>1. tpc = "running" => \A q \in Processors : RunRef[q] \in Counts
        BY <1>4, Words DEF WordInv
    <2>2. tpc \in MarkPCs => ~(p < Index)
        BY Words DEF WordInv
    <2>3. QED
        BY <1>5, <1>6, <1>9, <2>1, <2>2 DEF WordInv, MarkPCs, ownVars
<1>12. SumInv'
    <2>1. PICK k \in Int, c \in Int :
            /\ c = IF tpc = "running" THEN 0 ELSE WaitBlock.Count
            /\ InWords + TotalCount \div 2 + c = Outstanding + k * Modulus
        BY <1>5, <1>6 DEF SumInv, TypeOK
    <2>2. InWords \in Nat /\ Outstanding \in Nat /\ TotalCount \div 2 \in Int
        BY WordsBound, OutstandingBound DEF TypeOK
    <2>3. (k + j) * Modulus = k * Modulus + j * Modulus /\ k * Modulus \in Int /\ j * Modulus \in Int
        BY Consts
    <2>4. InWords' + TotalCount \div 2 + c = Outstanding' + (k + j) * Modulus
        BY <1>3, <1>8, <2>1, <2>2, <2>3
    <2>5. k + j \in Int
        OBVIOUS
    <2>6. tpc' = tpc /\ TotalCount' = TotalCount /\ WaitBlock' = WaitBlock
        BY DEF ownVars
    <2>7. QED
        BY <2>1, <2>4, <2>5, <2>6 DEF SumInv
<1>13. /\ pc'[a] = "idle"
       /\ \A b \in Accessors : b # a =>
            pc'[b] = pc[b] /\ Value'[b] = Value[b] /\ Count'[b] = Count[b] /\ held'[b] = held[b]
    BY DEF TypeOK, Return, Goto
<1>14. \A b \in Accessors : AccessorInv(b)'
    <2>1. ASSUME NEW b \in Accessors, b # a PROVE AccessorInv(b)'
        <3>1. pc[b] # "KeSetEvent"
            BY <1>5 DEF AccessorInv, MarkPCs
        <3>2. QED
            BY <1>13, <2>1, <3>1 DEF AccessorInv, ownVars
    <2>2. AccessorInv(a)'
        BY <1>13 DEF AccessorInv, AcquirePCs, ReleasePCs
    <2>3. QED
        BY <2>1, <2>2
<1>15. WaitInv'
    <2>1. \A q \in Processors : RunRef'[q] = EX_RUNDOWN_ACTIVE => FALSE
        <3>1. tpc = "running" => \A q \in Processors : RunRef[q] \in Counts
            BY <1>4, Words DEF WordInv
        <3>2. tpc \in MarkPCs => \A q \in Processors : RunRef[q] # EX_RUNDOWN_ACTIVE
            BY Words DEF WordInv
        <3>3. QED
            BY <1>5, <1>6, <1>9, <3>1, <3>2, Words
    <2>2. QED
        BY <1>5, <1>6, <2>1 DEF WaitInv, ownVars, MarkPCs
<1>16. tpc \in MarkPCs => SoughtCount' <= SoughtCount
    <2>1. Sought \in [Accessors -> 0..MaxHold] /\ Sought' \in [Accessors -> 0..MaxHold]
        BY <1>10, <1>14, SoughtBound, SoughtBoundNext
    <2>2. \A b \in Accessors : Sought'[b] <= Sought[b]
        <3>1. ASSUME NEW b \in Accessors, b # a PROVE Sought'[b] = Sought[b]
            BY <1>13, <3>1 DEF Sought
        <3>2. held'[a] = held[a] + d
            BY DEF TypeOK
        <3>3. Sought'[a] <= Sought[a]
            BY <1>1, <1>13, <3>2 DEF Sought, AcquirePCs, ReleasePCs
        <3>4. \A b \in Accessors : Sought[b] \in Nat
            BY <2>1
        <3>5. QED
            BY <3>1, <3>3, <3>4
    <2>3. \A h, g \in [Accessors -> 0..MaxHold] :
            (\A b \in Accessors : h[b] <= g[b]) =>
            Cardinality(Shares(Accessors, MaxHold, h)) <= Cardinality(Shares(Accessors, MaxHold, g))
        BY SharesMonotonic, Consts
    <2>4. Cardinality(Shares(Accessors, MaxHold, Sought')) <= Cardinality(Shares(Accessors, MaxHold, Sought))
        BY <2>1, <2>2, <2>3
    <2>5. QED
        BY <2>4 DEF SoughtCount, Shares
<1>17. TotalInv'
    <2>1. SoughtCount \in Nat /\ SoughtCount' \in Nat /\ WaitBlock.Count \in Int /\ MostEarly \in Nat
        BY <1>10, <1>14, SoughtBound, SoughtBoundNext, Consts DEF TypeOK
    <2>2. tpc \in MarkPCs => SoughtCount' - WaitBlock.Count <= MostEarly
        BY <1>16, <2>1 DEF TotalInv
    <2>3. tpc # "Total"
        BY <1>5 DEF MarkPCs
    <2>4. QED
        BY <2>2, <2>3 DEF TotalInv, ownVars
<1>18. QED
    BY <1>10, <1>11, <1>12, <1>14, <1>15, <1>17

\* A release through the block keeps it: the block loses what the accessor does,
\* and whoever takes its count to zero is the one to set the event.
LEMMA BlockStep ==
    ASSUME IInv, NEW a \in Accessors, ReleaseToBlock(a)
    PROVE  IInv'
<1> USE DEF IInv
<1>1. Count[a] \in 1..MaxHold /\ held[a] \in 0..MaxHold /\ Count[a] <= held[a] /\ pc[a] = "Release"
    BY DEF TypeOK, ReleaseToBlock, AccessorInv, ReleasePCs
<1>2. tpc \in WaitPCs
    BY DEF ReleaseToBlock, AccessorInv
<1>3. PICK d \in Int : d = -Count[a] /\ held[a] + d \in 0..MaxHold
    BY <1>1, Consts
<1>4. held' = [held EXCEPT ![a] = @ + d]
    BY <1>1, <1>3 DEF ReleaseToBlock, TypeOK
<1>5. held' \in [Accessors -> 0..MaxHold] /\ Outstanding' = Outstanding - Count[a]
    <2>1. held' \in [Accessors -> 0..MaxHold] /\ Outstanding' = Outstanding + d
        BY <1>3, <1>4, OutstandingChange
    <2>2. Outstanding \in Nat
        BY OutstandingBound
    <2>3. QED
        BY <1>1, <1>3, <2>1, <2>2
<1>6. /\ WaitBlock'.Count = WaitBlock.Count - Count[a]
      /\ WaitBlock'.WakeEvent = WaitBlock.WakeEvent
      /\ WaitBlock' \in [Count : Int, WakeEvent : {"none", "reset", "set"}]
    BY <1>1 DEF ReleaseToBlock, TypeOK
<1>7. UNCHANGED <<RunRef, tpc, Index, tValue, TotalCount>>
    BY DEF ReleaseToBlock, ownVars
<1>8. /\ pc'[a] \in {"idle", "KeSetEvent"}
      /\ pc'[a] = "KeSetEvent" <=> WaitBlock'.Count = 0
      /\ \A b \in Accessors : b # a =>
            pc'[b] = pc[b] /\ Value'[b] = Value[b] /\ Count'[b] = Count[b] /\ held'[b] = held[b]
    <2>1. WaitBlock'.Count = 0 <=> WaitBlock.Count = Count[a]
        BY <1>1, <1>6 DEF TypeOK
    <2>2. QED
        BY <2>1 DEF ReleaseToBlock, Return, Goto, TypeOK
<1>9. TypeOK'
    <2>1. /\ pc' \in [Accessors -> {"idle", "AcquireInline", "ExfAcquire", "Acquire",
                             "ReleaseInline", "ExfRelease", "Release", "KeSetEvent"}]
          /\ at' \in [Accessors -> Processors]
          /\ Value' \in [Accessors -> Word]
          /\ Count' \in [Accessors -> 1..MaxHold]
        BY Words, Consts DEF ReleaseToBlock, Return, Goto, TypeOK
    <2>2. QED
        BY <1>5, <1>6, <1>7, <2>1 DEF TypeOK
<1>10. WordInv'
    BY <1>7 DEF WordInv
<1>11. /\ WaitBlock.Count \in Int /\ Outstanding \in Nat /\ Outstanding' \in Nat
       /\ InWords \in Nat /\ TotalCount \div 2 \in Int
    BY <1>5, OutstandingBound, WordsBound, HeldBound DEF TypeOK, Outstanding, Shares
<1>12. InWords' = InWords
    BY <1>7 DEF InWords, WordCount, Shares
<1>13. SumInv'
    <2> SUFFICES ASSUME tpc \in MarkPCs \cup {"Total"}
                 PROVE  \E k \in Int : InWords' + TotalCount' \div 2 + WaitBlock'.Count
                                           = Outstanding' + k * Modulus
        BY <1>2, <1>7 DEF SumInv, MarkPCs, WaitPCs
    <2>1. PICK k \in Int : InWords + TotalCount \div 2 + WaitBlock.Count = Outstanding + k * Modulus
        BY DEF SumInv, MarkPCs
    <2>2. k * Modulus \in Int
        BY Consts
    <2>3. InWords' + TotalCount' \div 2 + WaitBlock'.Count = Outstanding' + k * Modulus
        BY <1>1, <1>5, <1>6, <1>7, <1>11, <1>12, <2>1, <2>2
    <2>4. QED
        BY <2>3
<1>14. \A b \in Accessors : pc'[b] = "KeSetEvent" => tpc = "KeWait" /\ WaitBlock.WakeEvent = "reset" /\ b = a
    <2>1. ASSUME NEW b \in Accessors, b # a PROVE pc[b] # "KeSetEvent"
        <3>1. pc[b] = "KeSetEvent" => tpc = "KeWait" /\ Outstanding = 0
            BY DEF AccessorInv, WaitInv
        <3>2. Outstanding > 0
            BY <1>1, <1>11, OutstandingBound
        <3>3. QED
            BY <3>1, <3>2
    <2>2. pc'[a] = "KeSetEvent" => WaitBlock.Count = Count[a]
        BY <1>1, <1>6, <1>8, <1>11
    <2>3. pc'[a] = "KeSetEvent" => tpc = "KeWait"
        BY <1>1, <1>2, <1>11, <2>2 DEF TotalInv, MarkPCs, WaitPCs
    <2>4. pc'[a] = "KeSetEvent" => WaitBlock.WakeEvent = "reset"
        BY <1>1, <1>11, <2>2, <2>3 DEF WaitInv, TypeOK
    <2>5. QED
        BY <1>8, <2>1, <2>3, <2>4
<1>15. \A b \in Accessors : AccessorInv(b)'
    <2>1. ASSUME NEW b \in Accessors, b # a PROVE AccessorInv(b)'
        <3>1. pc'[b] # "KeSetEvent"
            BY <1>14, <2>1
        <3>2. QED
            BY <1>7, <1>8, <2>1, <3>1 DEF AccessorInv
    <2>2. AccessorInv(a)'
        <3>1. pc'[a] = "KeSetEvent" => \A b \in Accessors : pc'[b] = "KeSetEvent" => b = a
            BY <1>14
        <3>2. pc'[a] = "KeSetEvent" => tpc' = "KeWait" /\ WaitBlock'.WakeEvent = "reset" /\ WaitBlock'.Count = 0
            BY <1>6, <1>7, <1>8, <1>14
        <3>3. QED
            BY <1>8, <3>1, <3>2 DEF AccessorInv, AcquirePCs, ReleasePCs
    <2>3. QED
        BY <2>1, <2>2
<1>16. WaitInv'
    <2>1. tpc = "KeWait" => WaitBlock'.Count = Outstanding'
        BY <1>1, <1>5, <1>6, <1>11 DEF WaitInv
    <2>2. tpc = "KeWait" => WaitBlock.WakeEvent # "set"
        <3>1. Outstanding > 0
            BY <1>1, <1>11, OutstandingBound
        <3>2. QED
            BY <3>1 DEF WaitInv
    <2>3. WaitBlock'.Count = 0 => \E b \in Accessors : pc'[b] = "KeSetEvent"
        BY <1>8
    <2>4. ~ \E p \in Processors : RunRef[p] = EX_RUNDOWN_ACTIVE
        <3>1. Outstanding > 0
            BY <1>1, <1>11, OutstandingBound
        <3>2. QED
            BY <3>1 DEF WaitInv
    <2>5. QED
        BY <1>2, <1>6, <1>7, <2>1, <2>2, <2>3, <2>4 DEF WaitInv, WaitPCs
<1>17. tpc \in MarkPCs => SoughtCount' = SoughtCount - Count[a]
    <2>1. Sought \in [Accessors -> 0..MaxHold] /\ Sought' \in [Accessors -> 0..MaxHold]
        BY <1>9, <1>15, SoughtBound, SoughtBoundNext
    <2>2. \A b \in Accessors : b # a => Sought'[b] = Sought[b]
        BY <1>8 DEF Sought
    <2>3. held'[a] = held[a] - Count[a]
        BY <1>1, <1>3, <1>4 DEF TypeOK
    <2>4. Sought'[a] = held[a] - Count[a] /\ Sought[a] = held[a]
        BY <1>1, <1>8, <2>3 DEF Sought, AcquirePCs
    <2>5. \A h, g \in [Accessors -> 0..MaxHold] :
            (\A b \in Accessors : b # a => g[b] = h[b])
            => Cardinality(Shares(Accessors, MaxHold, g))
                 = Cardinality(Shares(Accessors, MaxHold, h)) + g[a] - h[a]
        BY SharesChange, Consts
    <2>6. Cardinality(Shares(Accessors, MaxHold, Sought'))
            = Cardinality(Shares(Accessors, MaxHold, Sought)) + Sought'[a] - Sought[a]
        BY <2>1, <2>2, <2>5
    <2>7. SoughtCount' = SoughtCount + Sought'[a] - Sought[a]
        BY <2>6 DEF SoughtCount, Shares
    <2>8. SoughtCount \in Nat
        BY SoughtBound
    <2>9. QED
        BY <1>1, <2>4, <2>7, <2>8
<1>18. TotalInv'
    <2>1. SoughtCount \in Nat /\ MostEarly \in Nat
        BY SoughtBound, Consts
    <2>2. tpc \in MarkPCs => SoughtCount' - WaitBlock'.Count <= MostEarly
        BY <1>1, <1>6, <1>11, <1>17, <2>1 DEF TotalInv
    <2>3. tpc = "Total" => Outstanding' - WaitBlock'.Count <= MostEarly
        BY <1>1, <1>5, <1>6, <1>11, <2>1 DEF TotalInv
    <2>4. tpc \in MarkPCs \cup {"Total"} => WaitBlock'.Count <= 0
        BY <1>1, <1>6, <1>11 DEF TotalInv
    <2>5. QED
        BY <1>7, <2>2, <2>3, <2>4 DEF TotalInv
<1>19. QED
    BY <1>9, <1>10, <1>13, <1>15, <1>16, <1>18

\* Setting the event ends the only call that was about to.
LEMMA EventStep ==
    ASSUME IInv, NEW a \in Accessors, ReleaseSetEvent(a)
    PROVE  IInv'
<1> USE DEF IInv
<1>1. /\ pc[a] = "KeSetEvent" /\ tpc = "KeWait" /\ WaitBlock.Count = 0
      /\ \A b \in Accessors : pc[b] = "KeSetEvent" => b = a
    BY DEF ReleaseSetEvent, AccessorInv
<1>2. /\ WaitBlock' = [Count |-> 0, WakeEvent |-> "set"]
      /\ UNCHANGED <<RunRef, held, tpc, Index, tValue, TotalCount>>
    BY <1>1 DEF ReleaseSetEvent, ownVars, TypeOK
<1>3. /\ pc'[a] = "idle"
      /\ \A b \in Accessors : b # a => pc'[b] = pc[b] /\ Value'[b] = Value[b] /\ Count'[b] = Count[b]
    BY DEF ReleaseSetEvent, Return, Goto, TypeOK
<1>4. TypeOK'
    <2>1. /\ pc' \in [Accessors -> {"idle", "AcquireInline", "ExfAcquire", "Acquire",
                             "ReleaseInline", "ExfRelease", "Release", "KeSetEvent"}]
          /\ at' \in [Accessors -> Processors]
          /\ Value' \in [Accessors -> Word]
          /\ Count' \in [Accessors -> 1..MaxHold]
        BY Words, Consts DEF ReleaseSetEvent, Return, Goto, TypeOK
    <2>2. QED
        BY <1>2, <2>1 DEF TypeOK
<1>5. WordInv'
    BY <1>2 DEF WordInv
<1>6. Outstanding' = Outstanding
    BY <1>2 DEF Outstanding, Shares
<1>7. SumInv'
    BY <1>1, <1>2 DEF SumInv, MarkPCs
<1>8. TotalInv'
    BY <1>1, <1>2 DEF TotalInv, MarkPCs
<1>9. WaitInv'
    BY <1>1, <1>2, <1>6 DEF WaitInv
<1>10. ASSUME NEW b \in Accessors PROVE AccessorInv(b)'
    BY <1>1, <1>2, <1>3 DEF AccessorInv, AcquirePCs, ReleasePCs
<1>11. QED
    BY <1>4, <1>5, <1>7, <1>8, <1>9, <1>10

\* Beginning a call and going on in it.
LEMMA AccessorStep ==
    ASSUME IInv, ~OpenReInit, NEW a \in Accessors, Accessor(a)
    PROVE  IInv'
<1> USE DEF IInv
<1>a. /\ at[a] \in Processors /\ Value[a] \in Word /\ Count[a] \in 1..MaxHold
      /\ held[a] \in 0..MaxHold /\ \A p \in Processors : RunRef[p] \in Word
    BY DEF TypeOK
<1>b. \A b \in Accessors : held[b] > 0 => tpc \in WaitPCs \cup {"running"}
    BY OutstandingBound DEF WaitInv, TypeOK
<1>c. \A p \in Processors : held[a] > 0 /\ Active(RunRef[p]) => RunRef[p] = BlockWord /\ tpc \in WaitPCs
    <2> SUFFICES ASSUME NEW p \in Processors, held[a] > 0, Active(RunRef[p])
                 PROVE  RunRef[p] = BlockWord /\ tpc \in WaitPCs
        OBVIOUS
    <2>1. Outstanding # 0
        BY OutstandingBound
    <2>2. RunRef[p] # EX_RUNDOWN_ACTIVE
        BY <2>1 DEF WaitInv
    <2>3. RunRef[p] = BlockWord
        BY <2>2, Words DEF WordInv
    <2>4. tpc # "running"
        BY <2>3, Words DEF WordInv
    <2>5. QED
        BY <1>b, <2>3, <2>4
<1>1. ASSUME NEW p \in Processors, NEW k \in 1..MaxHold, NEW inline \in BOOLEAN,
             AcquireCacheAware(a, p, k, inline)
      PROVE  IInv'
    <2>a. PICK label \in {"AcquireInline", "Acquire"} : label = IF inline THEN "AcquireInline" ELSE "Acquire"
        OBVIOUS
    <2>b. PICK v \in Word : v = IF inline THEN Masked(RunRef[p]) ELSE RunRef[p]
        BY <1>a, Words
    <2>1. /\ label = IF inline THEN "AcquireInline" ELSE "Acquire"
          /\ v = IF inline THEN Masked(RunRef[p]) ELSE RunRef[p]
        BY <2>a, <2>b
    <2>2. /\ pc[a] = "idle" /\ held[a] + k <= MaxHold /\ tpc # "ReInit"
          /\ pc' = [pc EXCEPT ![a] = label] /\ at' = [at EXCEPT ![a] = p]
          /\ Value' = [Value EXCEPT ![a] = v] /\ Count' = [Count EXCEPT ![a] = k]
          /\ UNCHANGED <<RunRef, WaitBlock, held, ownVars>>
          /\ tpc \in MarkPCs => WaitBlock.Count > -MaxEarly
        BY <1>1, <2>1 DEF AcquireCacheAware, Begin, Goto, MarkPCs
    <2>3. pc'[a] = label /\ Value'[a] = v /\ Count'[a] = k /\ held'[a] = held[a]
        BY <2>2 DEF TypeOK
    <2>x. label = "AcquireInline" => ~Active(v)
        BY <1>a, <2>1, Words
    <2>4. AccessorInv(a)'
        BY <2>a, <2>2, <2>3, <2>x DEF AccessorInv, AcquirePCs, ReleasePCs
    <2>5. label \in {"idle"} \cup AcquirePCs \cup ReleasePCs
        BY <2>1 DEF AcquirePCs
    <2>6. QED
        BY <2>2, <2>4, <2>5, LocalStep
<1>2. ASSUME NEW p \in Processors, NEW k \in 1..MaxHold, NEW inline \in BOOLEAN,
             ReleaseCacheAware(a, p, k, inline)
      PROVE  IInv'
    <2>a. PICK label \in {"ReleaseInline", "Release"} : label = IF inline THEN "ReleaseInline" ELSE "Release"
        OBVIOUS
    <2>b. PICK v \in Word : v = IF inline THEN Masked(RunRef[p]) ELSE RunRef[p]
        BY <1>a, Words
    <2>1. /\ label = IF inline THEN "ReleaseInline" ELSE "Release"
          /\ v = IF inline THEN Masked(RunRef[p]) ELSE RunRef[p]
        BY <2>a, <2>b
    <2>2. /\ pc[a] = "idle" /\ k <= held[a]
          /\ pc' = [pc EXCEPT ![a] = label] /\ at' = [at EXCEPT ![a] = p]
          /\ Value' = [Value EXCEPT ![a] = v] /\ Count' = [Count EXCEPT ![a] = k]
          /\ UNCHANGED <<RunRef, WaitBlock, held, ownVars>>
        BY <1>a, <1>2, <2>1 DEF ReleaseCacheAware, Begin, Goto
    <2>3. pc'[a] = label /\ Value'[a] = v /\ Count'[a] = k /\ held'[a] = held[a] /\ tpc' = tpc
        BY <2>2 DEF TypeOK, ownVars
    <2>4. held[a] > 0
        BY <1>a, <2>2
    <2>5. tpc # "ReInit"
        BY <1>b, <2>4 DEF WaitPCs
    <2>6. label = "Release" /\ Active(v) => v = BlockWord /\ tpc \in WaitPCs
        BY <1>c, <2>1, <2>4
    <2>7. label = "ReleaseInline" => ~Active(v)
        BY <1>a, <2>1, Words
    <2>8. AccessorInv(a)'
        BY <2>1, <2>2, <2>3, <2>6, <2>7 DEF AccessorInv, AcquirePCs, ReleasePCs
    <2>9. label \in ReleasePCs /\ label \notin AcquirePCs
        BY <2>1 DEF AcquirePCs, ReleasePCs
    <2>10. QED
        BY <2>2, <2>5, <2>8, <2>9, LocalStep
<1>3. ASSUME CasSucceeds(a) PROVE IInv'
    <2>1. /\ pc[a] \in AcquirePCs \cup ReleasePCs /\ RunRef[at[a]] = Value[a]
          /\ pc[a] \in AcquirePCs <=> pc[a] \in {"AcquireInline", "Acquire"}
        BY <1>3 DEF CasSucceeds, AcquirePCs, ReleasePCs
    <2>2. ~Active(Value[a])
        BY <1>3 DEF CasSucceeds, AccessorInv
    <2>3. PICK d \in Int : d = IF pc[a] \in AcquirePCs THEN Count[a] ELSE -Count[a]
        BY <1>a
    <2>4. /\ RunRef' = [RunRef EXCEPT ![at[a]] = CountWord(RunRef[at[a]].rest + d)]
          /\ held' = [held EXCEPT ![a] = @ + d]
          /\ Return(a) /\ UNCHANGED <<WaitBlock, ownVars>>
        BY <1>3, <2>1, <2>3 DEF CasSucceeds
    <2>5. QED
        BY <1>a, <2>1, <2>2, <2>3, <2>4, CountStep
<1>d. ASSUME NEW label \in AcquirePCs \cup ReleasePCs, NEW v \in Word,
             pc[a] \in AcquirePCs \cup ReleasePCs,
             label \in AcquirePCs <=> pc[a] \in AcquirePCs,
             label \in {"ExfAcquire", "ExfRelease"} \/ (label \in {"Acquire", "Release"} /\ v = RunRef[at[a]]),
             pc' = [pc EXCEPT ![a] = label], Value' = [Value EXCEPT ![a] = v],
             UNCHANGED <<RunRef, WaitBlock, at, Count, held, ownVars>>
      PROVE  IInv'
    <2>1. /\ pc'[a] = label /\ Value'[a] = v /\ Count'[a] = Count[a] /\ held'[a] = held[a] /\ tpc' = tpc
          /\ at' = [at EXCEPT ![a] = at[a]] /\ Count' = [Count EXCEPT ![a] = Count[a]]
        BY <1>d DEF TypeOK, ownVars
    <2>2. pc[a] # "KeSetEvent" /\ pc[a] # "idle" /\ AcquirePCs \cap ReleasePCs = {}
        BY <1>d DEF AcquirePCs, ReleasePCs
    <2>3. tpc # "ReInit"
        BY <2>2 DEF WaitInv
    <2>4. pc[a] \in ReleasePCs => held[a] > 0
        BY <1>a DEF AccessorInv
    <2>5. label = "Release" /\ Active(v) => v = BlockWord /\ tpc \in WaitPCs
        <3>1. label = "Release" => pc[a] \in ReleasePCs /\ v = RunRef[at[a]]
            BY <1>d, <2>2 DEF ReleasePCs
        <3>2. QED
            BY <1>a, <1>c, <2>4, <3>1
    <2>6. label \in ReleasePCs => pc[a] \in ReleasePCs
        BY <1>d, <2>2
    <2>7. label \notin {"AcquireInline", "ReleaseInline", "KeSetEvent"}
        BY <1>d
    <2>8. AccessorInv(a)'
        BY <1>d, <2>1, <2>5, <2>6, <2>7 DEF AccessorInv
    <2>9. QED
        BY <1>a, <1>d, <2>1, <2>2, <2>3, <2>8, LocalStep
<1>4. ASSUME CasFails(a) PROVE IInv'
    <2>1. \/ pc[a] = "AcquireInline" /\ Goto(a, "ExfAcquire") /\ UNCHANGED Value
          \/ pc[a] = "ReleaseInline" /\ Goto(a, "ExfRelease") /\ UNCHANGED Value
          \/ /\ pc[a] \in {"Acquire", "Release"}
             /\ Value' = [Value EXCEPT ![a] = RunRef[at[a]]]
             /\ UNCHANGED pc
        BY <1>4 DEF CasFails
    <2>2. UNCHANGED <<RunRef, WaitBlock, at, Count, held, ownVars>>
        BY <1>4 DEF CasFails
    <2>3. Value = [Value EXCEPT ![a] = Value[a]] /\ pc = [pc EXCEPT ![a] = pc[a]]
        BY DEF TypeOK
    <2>4. CASE pc[a] = "AcquireInline" /\ Goto(a, "ExfAcquire") /\ UNCHANGED Value
        BY <1>a, <1>d, <2>2, <2>3, <2>4 DEF Goto, AcquirePCs, ReleasePCs
    <2>5. CASE pc[a] = "ReleaseInline" /\ Goto(a, "ExfRelease") /\ UNCHANGED Value
        BY <1>a, <1>d, <2>2, <2>3, <2>5 DEF Goto, AcquirePCs, ReleasePCs
    <2>6. CASE /\ pc[a] \in {"Acquire", "Release"}
               /\ Value' = [Value EXCEPT ![a] = RunRef[at[a]]]
               /\ UNCHANGED pc
        BY <1>a, <1>d, <2>2, <2>3, <2>6 DEF AcquirePCs, ReleasePCs
    <2>7. QED
        BY <2>1, <2>4, <2>5, <2>6
<1>5. ASSUME ExfRead(a) PROVE IInv'
    <2>1. /\ Value' = [Value EXCEPT ![a] = RunRef[at[a]]]
          /\ UNCHANGED <<RunRef, WaitBlock, at, Count, held, ownVars>>
          /\ \/ pc[a] = "ExfAcquire" /\ pc' = [pc EXCEPT ![a] = "Acquire"]
             \/ pc[a] = "ExfRelease" /\ pc' = [pc EXCEPT ![a] = "Release"]
        BY <1>5 DEF ExfRead, Goto
    <2>2. QED
        BY <1>a, <1>d, <2>1 DEF AcquirePCs, ReleasePCs
<1>6. ASSUME AcquireRefused(a) PROVE IInv'
    <2>1. /\ pc[a] = "Acquire" /\ UNCHANGED <<RunRef, WaitBlock, held, ownVars>>
          /\ pc' = [pc EXCEPT ![a] = "idle"] /\ at' = [at EXCEPT ![a] = 0]
          /\ Value' = [Value EXCEPT ![a] = CountWord(0)] /\ Count' = [Count EXCEPT ![a] = 1]
        BY <1>6 DEF AcquireRefused, Return, Goto
    <2>2. pc'[a] = "idle"
        BY <2>1 DEF TypeOK
    <2>3. AccessorInv(a)'
        BY <2>2 DEF AccessorInv, AcquirePCs, ReleasePCs
    <2>4. 1 \in 1..MaxHold /\ 0 \in Processors /\ CountWord(0) \in Word
        BY Words, Consts
    <2>5. "idle" \notin AcquirePCs
        BY DEF AcquirePCs
    <2>6. QED
        BY <2>1, <2>3, <2>4, <2>5, LocalStep
<1>7. QED
    BY <1>1, <1>2, <1>3, <1>4, <1>5, <1>6, BlockStep, EventStep DEF Accessor, StartRelease, InCall

-----------------------------------------------------------------------------
(* The steps of the rundown thread. *)

\* The references held and sought do not change with the rundown thread.
LEMMA OwnerKeeps ==
    ASSUME TypeOK, UNCHANGED accVars
    PROVE  Outstanding' = Outstanding /\ SoughtCount' = SoughtCount /\ UNCHANGED <<pc, at, Value, Count, held>>
    BY DEF accVars, Outstanding, SoughtCount, Sought, Shares

\* The next processor, or the first one again.
LEMMA NextIndex ==
    ASSUME NEW i \in Processors
    PROVE  (IF i = Number - 1 THEN 0 ELSE i + 1) \in Processors
    BY Consts DEF Processors

\* A wait begins with words that count, and an empty block.
LEMMA BeginStep == IInv /\ ~WaitAgain /\ WaitForRundown => IInv'
<1> SUFFICES ASSUME IInv, ~WaitAgain, WaitForRundown PROVE IInv'
    OBVIOUS
<1> USE DEF IInv
<1>1. /\ tpc = "running" /\ tpc' = "MarkRead" /\ Index' = 0 /\ TotalCount' = 0 /\ TotalCount = 0
      /\ WaitBlock' = [Count |-> 0, WakeEvent |-> "none"]
      /\ UNCHANGED <<RunRef, accVars, tValue>> /\ RunRef[0] # EX_RUNDOWN_ACTIVE
    BY DEF WaitForRundown, TotalInv, MarkPCs
<1>2. \A p \in Processors : RunRef[p] \in Counts
    BY <1>1, Consts DEF WordInv
<1>3. Outstanding' = Outstanding /\ SoughtCount' = SoughtCount /\ UNCHANGED <<pc, at, Value, Count, held>>
    BY <1>1, OwnerKeeps
<1>4. InWords' = InWords
    BY <1>1 DEF InWords, WordCount, Shares
<1>5. TypeOK'
    BY <1>1, <1>3, Consts DEF TypeOK, WaitPCs
<1>6. WordInv'
    <2>1. \A p \in Processors : ~(p < 0)
        BY Consts DEF Processors
    <2>2. QED
        BY <1>1, <1>2, <2>1 DEF WordInv, MarkPCs
<1>7. SumInv'
    <2>1. PICK k \in Int : InWords + TotalCount \div 2 + 0 = Outstanding + k * Modulus
        BY <1>1 DEF SumInv
    <2>2. InWords' + TotalCount' \div 2 + WaitBlock'.Count = Outstanding' + k * Modulus
        BY <1>1, <1>3, <1>4, <2>1
    <2>3. QED
        BY <1>1, <2>2 DEF SumInv
<1>8. TotalInv'
    <2>1. SoughtCount \in Nat /\ SoughtCount - 0 <= MostEarly
        BY SoughtBound, Consts
    <2>2. QED
        BY <1>1, <1>3, <2>1 DEF TotalInv, MarkPCs
<1>9. WaitInv'
    BY <1>1, <1>2, <1>3, Words DEF WaitInv
<1>10. \A a \in Accessors : AccessorInv(a)'
    BY <1>1, <1>3 DEF AccessorInv, WaitPCs
<1>11. QED
    BY <1>5, <1>6, <1>7, <1>8, <1>9, <1>10

\* A read of a word, first or repeated, changes only tValue and the place.
LEMMA ReadStep ==
    ASSUME IInv, tpc \in MarkPCs, tpc' = "MarkCas", tValue' = RunRef[Index],
           UNCHANGED <<RunRef, WaitBlock, accVars, Index, TotalCount>>
    PROVE  IInv'
<1> USE DEF IInv
<1>1. Outstanding' = Outstanding /\ SoughtCount' = SoughtCount /\ UNCHANGED <<pc, at, Value, Count, held>>
    BY OwnerKeeps
<1>2. InWords' = InWords
    BY DEF InWords, WordCount, Shares
<1>3. TypeOK'
    BY <1>1 DEF TypeOK, WaitPCs
<1>4. WordInv'
    BY DEF WordInv, MarkPCs
<1>5. SumInv'
    BY <1>1, <1>2 DEF SumInv, MarkPCs
<1>6. TotalInv'
    BY <1>1 DEF TotalInv, MarkPCs
<1>7. WaitInv'
    BY <1>1 DEF WaitInv, MarkPCs
<1>8. \A a \in Accessors : AccessorInv(a)'
    BY <1>1 DEF AccessorInv, WaitPCs, MarkPCs
<1>9. QED
    BY <1>3, <1>4, <1>5, <1>6, <1>7, <1>8

\* Marking a word moves its count to the total.
LEMMA MarkStep ==
    ASSUME IInv, RunRef[Index] = tValue, Marked((TotalCount + Numeric(tValue)) % (2 * Modulus))
    PROVE  IInv'
<1> USE DEF IInv
<1>1. /\ tpc = "MarkCas" /\ RunRef' = [RunRef EXCEPT ![Index] = BlockWord]
      /\ TotalCount' = (TotalCount + Numeric(tValue)) % (2 * Modulus)
      /\ tpc' = IF Index = Number - 1 THEN "Total" ELSE "MarkRead"
      /\ Index' = IF Index = Number - 1 THEN 0 ELSE Index + 1
      /\ tValue' = CountWord(0)
      /\ UNCHANGED <<WaitBlock, accVars>>
    BY DEF Marked
<1>2. Index \in Processors /\ Index \in 0 .. Number - 1 /\ RunRef \in [Processors -> Word]
    BY DEF TypeOK, Processors
<1>3. RunRef[Index] \in Counts
    BY <1>1, <1>2 DEF WordInv, MarkPCs
<1>4. PICK r \in 0 .. Modulus - 1 : r = tValue.rest /\ Numeric(tValue) = 2 * r /\ WordCount[Index] = r
    BY <1>2, <1>3, Words DEF WordCount
<1>5. PICK T \in 0 .. Modulus - 1 : TotalCount = 2 * T /\ TotalCount \div 2 = T
    BY Consts DEF TotalInv, TypeOK
<1>6. PICK U \in 0 .. Modulus - 1, j \in {-1, 0, 1} :
          U = T + r + j * Modulus /\ TotalCount' = 2 * U /\ TotalCount' \div 2 = U
    <2>1. TotalCount' = (2 * (T + r)) % (2 * Modulus)
        BY <1>1, <1>4, <1>5
    <2>2. CASE T + r < Modulus
        <3>1. TotalCount' = 2 * (T + r)
            BY <2>1, <2>2, Consts
        <3>2. T + r \in 0 .. Modulus - 1 /\ T + r = T + r + 0 * Modulus
            BY <2>2, Consts
        <3>3. TotalCount' \div 2 = T + r
            BY <3>1
        <3>4. QED
            BY <3>1, <3>2, <3>3
    <2>3. CASE Modulus <= T + r
        <3>1. TotalCount' = 2 * (T + r - Modulus)
            <4>1. 2 * (T + r) \in Int /\ 2 * Modulus <= 2 * (T + r) /\ 2 * (T + r) < 2 * (2 * Modulus)
                BY <2>3, Consts
            <4>2. (2 * (T + r)) % (2 * Modulus) = 2 * (T + r) - 2 * Modulus
                BY <4>1, Consts
            <4>3. QED
                BY <2>1, <4>2, Consts
        <3>2. T + r - Modulus \in 0 .. Modulus - 1 /\ T + r - Modulus = T + r + (-1) * Modulus
            BY <2>3, Consts
        <3>3. TotalCount' \div 2 = T + r - Modulus
            BY <3>1, Consts
        <3>4. QED
            BY <3>1, <3>2, <3>3
    <2>4. QED
        BY <2>2, <2>3, Consts
<1>7. InWords' = InWords - r
    <2>1. InWords' = InWords + 0 - r
        BY <1>1, <1>2, <1>4, Words, WordsChange
    <2>2. InWords \in Nat
        BY WordsBound
    <2>3. QED
        BY <2>1, <2>2
<1>8. Outstanding' = Outstanding /\ SoughtCount' = SoughtCount /\ UNCHANGED <<pc, at, Value, Count, held>>
    BY <1>1, OwnerKeeps
<1>9. /\ RunRef'[Index] = BlockWord
      /\ \A p \in Processors : p # Index => RunRef'[p] = RunRef[p]
    BY <1>1, <1>2
<1>10. TypeOK'
    <2>1. RunRef' \in [Processors -> Word]
        BY <1>1, <1>2, Words
    <2>2. Index' \in Processors /\ tValue' \in Word
        BY <1>1, <1>2, NextIndex, Words
    <2>3. TotalCount' \in 0 .. 2 * Modulus - 1
        BY <1>6, Consts
    <2>4. tpc' \in WaitPCs
        BY <1>1 DEF WaitPCs
    <2>5. QED
        BY <1>1, <1>8, <2>1, <2>2, <2>3, <2>4 DEF TypeOK
<1>11. WordInv'
    <2>1. \A p \in Processors : IF p < Index THEN RunRef[p] = BlockWord ELSE RunRef[p] \in Counts
        BY <1>1 DEF WordInv, MarkPCs
    <2>2. CASE Index = Number - 1
        <3>1. \A p \in Processors : p = Index \/ p < Index
            BY <1>2, <2>2, Consts DEF Processors
        <3>2. \A p \in Processors : RunRef'[p] = BlockWord
            BY <1>9, <2>1, <3>1
        <3>3. QED
            BY <1>1, <2>2, <3>2 DEF WordInv, MarkPCs
    <2>3. CASE Index # Number - 1
        <3>1. \A p \in Processors : p < Index + 1 <=> p = Index \/ p < Index
            BY <1>2 DEF Processors
        <3>2. \A p \in Processors : IF p < Index' THEN RunRef'[p] = BlockWord ELSE RunRef'[p] \in Counts
            BY <1>1, <1>9, <2>1, <2>3, <3>1
        <3>3. tpc' = "MarkRead"
            BY <1>1, <2>3
        <3>4. QED
            BY <3>2, <3>3 DEF WordInv, MarkPCs
    <2>4. QED
        BY <2>2, <2>3
<1>12. SumInv'
    <2>1. PICK k \in Int : InWords + TotalCount \div 2 + WaitBlock.Count = Outstanding + k * Modulus
        BY <1>1 DEF SumInv, MarkPCs
    <2>2. InWords \in Nat /\ Outstanding \in Nat /\ WaitBlock.Count \in Int
        BY WordsBound, OutstandingBound DEF TypeOK
    <2>3. (k + j) * Modulus = k * Modulus + j * Modulus /\ k * Modulus \in Int /\ j * Modulus \in Int
        BY Consts
    <2>4. InWords' + TotalCount' \div 2 + WaitBlock'.Count = Outstanding' + (k + j) * Modulus
        BY <1>1, <1>5, <1>6, <1>7, <1>8, <2>1, <2>2, <2>3
    <2>5. k + j \in Int /\ tpc' # "running"
        BY <1>1
    <2>6. QED
        BY <2>4, <2>5 DEF SumInv
<1>13. TotalInv'
    <2>1. /\ SoughtCount \in Nat /\ Outstanding \in Nat /\ Outstanding <= SoughtCount
          /\ WaitBlock.Count \in Int /\ MostEarly \in Nat
        BY SoughtBound, OutstandingBound, Consts DEF TypeOK
    <2>2. SoughtCount - WaitBlock.Count <= MostEarly /\ WaitBlock.Count <= 0
        BY <1>1 DEF TotalInv, MarkPCs
    <2>3. Outstanding - WaitBlock.Count <= MostEarly
        BY <2>1, <2>2
    <2>4. TotalCount' = 2 * (TotalCount' \div 2)
        BY <1>6
    <2>5. QED
        BY <1>1, <1>8, <2>2, <2>3, <2>4 DEF TotalInv, MarkPCs
<1>14. WaitInv'
    <2>1. \A p \in Processors : RunRef'[p] # EX_RUNDOWN_ACTIVE
        BY <1>1, <1>9, Words DEF WordInv, MarkPCs
    <2>2. QED
        BY <1>1, <2>1 DEF WaitInv
<1>15. \A a \in Accessors : AccessorInv(a)'
    BY <1>1, <1>8 DEF AccessorInv, WaitPCs
<1>16. QED
    BY <1>10, <1>11, <1>12, <1>13, <1>14, <1>15

\* Once every word is marked the total makes the block's count exactly the
\* references outstanding: neither is large enough to hide a wrap.
LEMMA TotalIsExact ==
    ASSUME IInv, tpc = "Total"
    PROVE  /\ TotalCount \div 2 \in Nat /\ TotalCount = 2 * (TotalCount \div 2)
           /\ TotalCount < Modulus
           /\ TotalCount \div 2 + WaitBlock.Count = Outstanding
<1> USE DEF IInv
<1>1. PICK T \in 0 .. Modulus - 1 : TotalCount = 2 * T /\ TotalCount \div 2 = T
    BY Consts DEF TotalInv, TypeOK
<1>2. InWords = 0
    <2>1. \A p \in Processors : WordCount[p] = 0
        BY Words DEF WordInv, WordCount
    <2>2. Modulus - 1 \in Nat
        BY Consts
    <2>3. QED
        BY <2>1, <2>2, SharesNone DEF InWords
<1>3. PICK k \in Int : T + WaitBlock.Count = Outstanding + k * Modulus
    <2>1. PICK k \in Int : InWords + TotalCount \div 2 + WaitBlock.Count = Outstanding + k * Modulus
        BY DEF SumInv
    <2>2. WaitBlock.Count \in Int
        BY DEF TypeOK
    <2>3. QED
        BY <1>1, <1>2, <2>1, <2>2
<1>4. PICK e \in Nat : e = Outstanding - WaitBlock.Count /\ 2 * e < Modulus
    <2>1. /\ Outstanding \in Nat /\ WaitBlock.Count \in Int /\ WaitBlock.Count <= 0
          /\ Outstanding - WaitBlock.Count <= MostEarly
        BY OutstandingBound DEF TotalInv, TypeOK
    <2>2. QED
        BY <2>1, Consts
<1>5. T = e + k * Modulus
    <2>1. Outstanding \in Nat /\ WaitBlock.Count \in Int /\ k * Modulus \in Int
        BY OutstandingBound, Consts DEF TypeOK
    <2>2. QED
        BY <1>3, <1>4, <2>1
<1>6. k = 0
    <2>1. T % Modulus = T
        BY Consts
    <2>2. e \in 0 .. Modulus - 1
        BY <1>4, Consts
    <2>3. T % Modulus = e
        BY <1>5, <2>2, Congruent, Consts
    <2>4. T = e
        BY <2>1, <2>3
    <2>5. k * Modulus = 0
        <3>1. k * Modulus \in Int
            BY Consts
        <3>2. QED
            BY <1>5, <2>4, <3>1
    <2>6. QED
        BY <2>5, Consts
<1>7. T = e
    BY <1>5, <1>6, Consts
<1>8. Outstanding \in Nat /\ WaitBlock.Count \in Int
    BY OutstandingBound DEF TypeOK
<1>9. QED
    BY <1>1, <1>4, <1>7, <1>8, Consts

\* The total is added: the wait begins with the exact count, or is not needed.
LEMMA AddStep == IInv /\ AddTotal => IInv'
<1> SUFFICES ASSUME IInv, AddTotal PROVE IInv'
    OBVIOUS
<1> USE DEF IInv
<1>1. tpc = "Total" /\ UNCHANGED <<RunRef, accVars, Index, tValue>> /\ TotalCount' = 0
    BY DEF AddTotal, Added
<1>2. PICK T \in Nat : TotalCount = 2 * T /\ TotalCount \div 2 = T /\ T + WaitBlock.Count = Outstanding
    BY <1>1, TotalIsExact
<1>3. Outstanding' = Outstanding /\ UNCHANGED <<pc, at, Value, Count, held>>
    BY <1>1, OwnerKeeps
<1>4. WaitBlock.Count \in Int /\ WaitBlock.Count <= 0 /\ Outstanding \in Nat
    BY <1>1, OutstandingBound DEF TotalInv, TypeOK
<1>5. \/ /\ tpc' = "KeWait" /\ Outstanding # 0
         /\ WaitBlock' = [Count |-> Outstanding, WakeEvent |-> "reset"]
      \/ /\ tpc' = "returned" /\ Outstanding = 0
         /\ WaitBlock' \in [Count : Int, WakeEvent : {"none", "reset", "set"}]
    <2>1. CASE /\ TotalCount # 0
               /\ Added("reset", WaitBlock.Count # -(TotalCount \div 2))
        <3>1. WaitBlock.Count + TotalCount \div 2 = Outstanding
            BY <1>2, <1>4
        <3>2. WaitBlock' = [Count |-> Outstanding, WakeEvent |-> "reset"]
            BY <2>1, <3>1 DEF Added
        <3>3. (WaitBlock.Count # -(TotalCount \div 2)) <=> Outstanding # 0
            BY <1>2, <1>4
        <3>4. tpc' = IF WaitBlock.Count # -(TotalCount \div 2) THEN "KeWait" ELSE "returned"
            BY <2>1 DEF Added
        <3>5. Outstanding \in Int
            BY <1>4
        <3>6. QED
            BY <3>2, <3>3, <3>4, <3>5
    <2>2. CASE TotalCount = 0 /\ tpc' = "returned" /\ UNCHANGED WaitBlock
        <3>1. Outstanding = 0
            BY <1>2, <1>4, <2>2
        <3>2. QED
            BY <2>2, <3>1 DEF TypeOK
    <2>3. QED
        BY <2>1, <2>2 DEF AddTotal
<1>6. TypeOK'
    <2>1. WaitBlock' \in [Count : Int, WakeEvent : {"none", "reset", "set"}]
        BY <1>4, <1>5
    <2>2. tpc' \in {"KeWait", "returned"} /\ 0 \in 0 .. 2 * Modulus - 1
        BY <1>5, Consts
    <2>3. QED
        BY <1>1, <1>3, <2>1, <2>2 DEF TypeOK, WaitPCs
<1>7. WordInv'
    BY <1>1, <1>5 DEF WordInv, MarkPCs
<1>8. SumInv'
    BY <1>5 DEF SumInv, MarkPCs
<1>9. TotalInv'
    BY <1>1, <1>5 DEF TotalInv, MarkPCs
<1>10. WaitInv'
    <2>1. \A p \in Processors : RunRef'[p] # EX_RUNDOWN_ACTIVE
        BY <1>1, Words DEF WordInv
    <2>2. QED
        BY <1>3, <1>5, <2>1 DEF WaitInv
<1>11. ASSUME NEW a \in Accessors PROVE AccessorInv(a)'
    <2>1. pc[a] # "KeSetEvent"
        BY <1>1 DEF AccessorInv
    <2>2. pc[a] = "Release" => tpc' = "KeWait"
        <3>1. pc[a] = "Release" => held[a] > 0
            BY DEF AccessorInv, ReleasePCs, TypeOK
        <3>2. pc[a] = "Release" => Outstanding # 0
            BY <3>1, OutstandingBound
        <3>3. QED
            BY <1>5, <3>2
    <2>3. QED
        BY <1>3, <2>1, <2>2 DEF AccessorInv, WaitPCs
<1>12. QED
    BY <1>6, <1>7, <1>8, <1>9, <1>10, <1>11

\* The wait returns when the event is set, which is when nothing is outstanding.
LEMMA ReturnStep == IInv /\ WaitReturn => IInv'
<1> SUFFICES ASSUME IInv, WaitReturn PROVE IInv'
    OBVIOUS
<1> USE DEF IInv
<1>1. /\ tpc = "KeWait" /\ WaitBlock.WakeEvent = "set" /\ tpc' = "returned"
      /\ WaitBlock' = [WaitBlock EXCEPT !.WakeEvent = "reset"]
      /\ UNCHANGED <<RunRef, accVars, Index, tValue, TotalCount>>
    BY DEF WaitReturn
<1>2. Outstanding' = Outstanding /\ UNCHANGED <<pc, at, Value, Count, held>>
    BY <1>1, OwnerKeeps
<1>3. Outstanding = 0
    BY <1>1 DEF WaitInv
<1>4. TypeOK'
    BY <1>1, <1>2 DEF TypeOK
<1>5. WordInv'
    BY <1>1 DEF WordInv, MarkPCs
<1>6. SumInv' /\ TotalInv'
    BY <1>1 DEF SumInv, TotalInv, MarkPCs
<1>7. WaitInv'
    BY <1>1, <1>2, <1>3 DEF WaitInv
<1>8. ASSUME NEW a \in Accessors PROVE AccessorInv(a)'
    <2>1. pc[a] # "KeSetEvent"
        BY <1>1 DEF AccessorInv
    <2>2. pc[a] # "Release"
        BY <1>3, OutstandingBound DEF AccessorInv, ReleasePCs, TypeOK
    <2>3. QED
        BY <1>2, <2>1, <2>2 DEF AccessorInv
<1>9. QED
    BY <1>4, <1>5, <1>6, <1>7, <1>8

\* Between rundowns nobody holds a reference, so that no call is in the block.
LEMMA QuietAccessors ==
    ASSUME IInv, tpc \in {"returned", "ReInit", "Complete"}, NEW a \in Accessors
    PROVE  Outstanding = 0 /\ pc[a] \notin ReleasePCs \cup {"KeSetEvent"}
<1> USE DEF IInv
<1>1. Outstanding = 0
    BY DEF WaitInv
<1>2. pc[a] \notin ReleasePCs
    BY <1>1, OutstandingBound DEF AccessorInv, TypeOK
<1>3. pc[a] # "KeSetEvent"
    BY DEF AccessorInv
<1>4. QED
    BY <1>1, <1>2, <1>3

\* The owner reinitialises or completes after its wait has returned.
LEMMA BeginResetStep == IInv /\ ~OpenReInit /\ BeginReset => IInv'
<1> SUFFICES ASSUME IInv, ~OpenReInit, BeginReset PROVE IInv'
    OBVIOUS
<1> USE DEF IInv
<1>1. /\ tpc = "returned" /\ tpc' \in {"ReInit", "Complete"}
      /\ tpc' = "ReInit" => \A a \in Accessors : pc[a] = "idle"
      /\ UNCHANGED <<RunRef, WaitBlock, accVars, Index, tValue, TotalCount>>
    BY DEF BeginReset
<1>2. Outstanding' = Outstanding /\ UNCHANGED <<pc, at, Value, Count, held>>
    BY <1>1, OwnerKeeps
<1>3. TypeOK'
    BY <1>1, <1>2 DEF TypeOK
<1>4. WordInv'
    <2>1. Index = 0 /\ \A p \in Processors : ~(p < 0)
        BY <1>1, Consts DEF WordInv, MarkPCs, Processors
    <2>2. QED
        BY <1>1, <2>1 DEF WordInv, MarkPCs
<1>5. SumInv' /\ TotalInv'
    BY <1>1 DEF SumInv, TotalInv, MarkPCs
<1>6. WaitInv'
    BY <1>1, <1>2 DEF WaitInv
<1>7. \A a \in Accessors : AccessorInv(a)'
    BY <1>1, <1>2, QuietAccessors DEF AccessorInv, ReleasePCs
<1>8. QED
    BY <1>3, <1>4, <1>5, <1>6, <1>7

\* Each word is reset in turn; the last one ends the loop.
LEMMA ResetStep == IInv /\ ResetWord => IInv'
<1> SUFFICES ASSUME IInv, ResetWord PROVE IInv'
    OBVIOUS
<1> USE DEF IInv
<1>1. PICK w \in {CountWord(0), EX_RUNDOWN_ACTIVE} :
      /\ tpc \in {"ReInit", "Complete"}
      /\ w = IF tpc = "ReInit" THEN CountWord(0) ELSE EX_RUNDOWN_ACTIVE
      /\ RunRef' = [RunRef EXCEPT ![Index] = w]
      /\ Index' = IF Index = Number - 1 THEN 0 ELSE Index + 1
      /\ tpc' = IF Index = Number - 1 THEN "running" ELSE tpc
      /\ UNCHANGED <<WaitBlock, accVars, tValue, TotalCount>>
    BY DEF ResetWord
<1>2. Index \in Processors /\ Index \in 0 .. Number - 1 /\ RunRef \in [Processors -> Word]
    BY DEF TypeOK, Processors
<1>3. Outstanding' = Outstanding /\ Outstanding = 0 /\ UNCHANGED <<pc, at, Value, Count, held>>
    BY <1>1, OwnerKeeps DEF WaitInv
<1>4. /\ RunRef'[Index] = w
      /\ \A p \in Processors : p # Index => RunRef'[p] = RunRef[p]
    BY <1>1, <1>2
<1>5. \A p \in Processors : RunRef[p] = IF p < Index THEN w ELSE BlockWord
    BY <1>1 DEF WordInv
<1>6. TypeOK'
    <2>1. RunRef' \in [Processors -> Word]
        BY <1>1, <1>2, Words
    <2>2. Index' \in Processors
        BY <1>1, <1>2, NextIndex
    <2>3. tpc' \in {"running", "ReInit", "Complete"}
        BY <1>1
    <2>4. QED
        BY <1>1, <1>3, <2>1, <2>2, <2>3 DEF TypeOK
<1>7. Index = Number - 1 => \A p \in Processors : RunRef'[p] = w
    <2>1. Index = Number - 1 => \A p \in Processors : p = Index \/ p < Index
        BY <1>2, Consts DEF Processors
    <2>2. QED
        BY <1>4, <1>5, <2>1
<1>8. WordInv'
    <2>1. \A p \in Processors : RunRef'[p] \in Counts \cup {EX_RUNDOWN_ACTIVE, BlockWord}
        BY <1>4, <1>5, Words
    <2>2. CASE Index = Number - 1
        <3>1. tpc' = "running" /\ Index' = 0
            BY <1>1, <2>2
        <3>2. \/ \A p \in Processors : RunRef'[p] \in Counts
              \/ \A p \in Processors : RunRef'[p] = EX_RUNDOWN_ACTIVE
            BY <1>7, <2>2, Words
        <3>3. QED
            BY <2>1, <3>1, <3>2 DEF WordInv, MarkPCs
    <2>3. CASE Index # Number - 1
        <3>1. \A p \in Processors : p < Index + 1 <=> p = Index \/ p < Index
            BY <1>2 DEF Processors
        <3>2. \A p \in Processors : RunRef'[p] = IF p < Index' THEN w ELSE BlockWord
            BY <1>1, <1>4, <1>5, <2>3, <3>1
        <3>3. tpc' = tpc
            BY <1>1, <2>3
        <3>4. QED
            BY <1>1, <2>1, <3>2, <3>3 DEF WordInv, MarkPCs
    <2>4. QED
        BY <2>2, <2>3
<1>9. TotalInv'
    BY <1>1 DEF TotalInv, MarkPCs
<1>10. SumInv'
    <2> SUFFICES ASSUME Index = Number - 1
                 PROVE  InWords' + TotalCount' \div 2 + 0 = Outstanding' + 0 * Modulus
        <3>1. Index # Number - 1 => SumInv'
            BY <1>1 DEF SumInv, MarkPCs
        <3>2. Index = Number - 1 => tpc' = "running"
            BY <1>1
        <3>3. QED
            BY <3>1, <3>2 DEF SumInv
    <2>1. \A p \in Processors : WordCount'[p] = 0
        BY <1>7, Words DEF WordCount
    <2>2. Modulus - 1 \in Nat
        BY Consts
    <2>3. \A h : (\A p \in Processors : h[p] = 0) => Cardinality(Shares(Processors, Modulus - 1, h)) = 0
        BY <2>2, SharesNone
    <2>4. Cardinality(Shares(Processors, Modulus - 1, WordCount')) = 0
        BY <2>1, <2>3
    <2>5. InWords' = 0
        BY <2>4 DEF InWords, Shares
    <2>6. TotalCount' = 0
        BY <1>1 DEF TotalInv, MarkPCs
    <2>7. QED
        BY <1>3, <2>5, <2>6, Consts
<1>11. WaitInv'
    BY <1>1, <1>3 DEF WaitInv
<1>12. \A a \in Accessors : AccessorInv(a)'
    BY <1>1, <1>3, QuietAccessors DEF AccessorInv, ReleasePCs
<1>13. QED
    BY <1>6, <1>8, <1>9, <1>10, <1>11, <1>12

-----------------------------------------------------------------------------
(* The theorems. *)

\* Every step keeps the invariant, when the words are reinitialised with no
\* accessor about and nobody waits again after a completion.
LEMMA NextIInv == ~OpenReInit /\ ~WaitAgain /\ IInv /\ [Next]_vars => IInv'
<1> SUFFICES ASSUME ~OpenReInit, ~WaitAgain, IInv, [Next]_vars PROVE IInv'
    OBVIOUS
<1>1. ASSUME NEW a \in Accessors, Accessor(a) PROVE IInv'
    BY <1>1, AccessorStep
<1>2. CASE MarkRead
    BY <1>2, ReadStep DEF MarkRead, MarkPCs
<1>3. CASE MarkCas
    <2>1. CASE /\ RunRef[Index] = tValue
               /\ Marked((TotalCount + Numeric(tValue)) % (2 * Modulus))
        BY <2>1, MarkStep
    <2>2. CASE /\ tpc = "MarkCas"
               /\ tValue' = RunRef[Index]
               /\ UNCHANGED <<RunRef, TotalCount, tpc, Index, WaitBlock, accVars>>
        BY <2>2, ReadStep DEF MarkPCs
    <2>3. QED
        BY <1>3, <2>1, <2>2 DEF MarkCas
<1>4. CASE WaitForRundown \/ AddTotal \/ WaitReturn \/ BeginReset \/ ResetWord
    BY <1>4, BeginStep, AddStep, ReturnStep, BeginResetStep, ResetStep
<1>5. CASE UNCHANGED vars
    <2>1. UNCHANGED <<RunRef, WaitBlock, pc, at, Value, Count, held, tpc, Index, tValue, TotalCount>>
        BY <1>5 DEF vars, accVars, ownVars
    <2>2. TypeOK' /\ WordInv'
        BY <2>1 DEF IInv, TypeOK, WordInv
    <2>3. Outstanding' = Outstanding /\ InWords' = InWords /\ SoughtCount' = SoughtCount
        BY <2>1 DEF Outstanding, InWords, WordCount, SoughtCount, Sought, Shares
    <2>4. SumInv' /\ TotalInv' /\ WaitInv'
        BY <2>1, <2>3 DEF IInv, SumInv, TotalInv, WaitInv
    <2>5. \A a \in Accessors : AccessorInv(a)'
        BY <2>1 DEF IInv, AccessorInv
    <2>6. QED
        BY <2>2, <2>4, <2>5 DEF IInv
<1>6. QED
    BY <1>1, <1>2, <1>3, <1>4, <1>5 DEF Next, Owner

\* The inductive invariant holds in every state.
THEOREM Invariance == ASSUME ~OpenReInit, ~WaitAgain PROVE Spec => []IInv
<1>1. IInv /\ [Next]_vars => IInv'
    BY NextIInv
<1>2. QED
    BY <1>1, InitIInv, PTL DEF Spec

\* Every variable has its type, for any finite number of accessors.
THEOREM TypeCorrect == ASSUME ~OpenReInit, ~WaitAgain PROVE Spec => []TypeOK
<1>1. IInv => TypeOK
    BY DEF IInv
<1>2. QED
    BY <1>1, Invariance, PTL

\* Words, total and block together count the references outstanding, modulo the
\* width of a word, wherever each was taken and dropped, and exactly once every
\* word is marked: the ASSERT on the total in
\* ExWaitForRundownProtectionReleaseCacheAware holds.
THEOREM CountsAreConserved == ASSUME ~OpenReInit, ~WaitAgain PROVE Spec => []CountsConserved
<1>1. IInv => CountsConserved
    <2> SUFFICES ASSUME IInv, tpc \in WaitPCs \cup {"running"}
                 PROVE  CountsConserved
        BY DEF CountsConserved
    <2> USE DEF IInv
    <2>1. PICK c \in Int : c = IF tpc \in WaitPCs THEN WaitBlock.Count ELSE 0
        BY DEF TypeOK
    <2>2. PICK k \in Int : InWords + TotalCount \div 2 + c = Outstanding + k * Modulus
        <3>1. CASE tpc = "KeWait"
            <4>1. \A p \in Processors : WordCount[p] = 0
                BY <3>1, Words DEF WordInv, WordCount
            <4>2. Modulus - 1 \in Nat
                BY Consts
            <4>3. InWords = 0
                BY <4>1, <4>2, SharesNone DEF InWords
            <4>4. TotalCount = 0 /\ c = Outstanding /\ Outstanding \in Nat
                BY <2>1, <3>1, OutstandingBound DEF TotalInv, WaitInv, MarkPCs, WaitPCs
            <4>5. InWords + TotalCount \div 2 + c = Outstanding + 0 * Modulus
                BY <4>3, <4>4, Consts
            <4>6. QED
                BY <4>5
        <3>2. CASE tpc # "KeWait"
            BY <2>1, <3>2 DEF SumInv, MarkPCs, WaitPCs
        <3>3. QED
            BY <3>1, <3>2
    <2>3. Outstanding \in 0 .. Modulus - 1
        <3>1. Outstanding \in Nat /\ Outstanding <= MaxHold * Cardinality(Accessors)
            BY OutstandingBound
        <3>2. QED
            BY <3>1, Consts
    <2>4. (Outstanding + k * Modulus) % Modulus = Outstanding
        <3>1. \A o \in 0 .. Modulus - 1 : (o + k * Modulus) % Modulus = o
            BY Congruent, Consts
        <3>2. QED
            BY <2>3, <3>1
    <2>5. (InWords + TotalCount \div 2 + c) % Modulus = Outstanding
        BY <2>2, <2>4
    <2>6. tpc = "Total" => TotalCount < Modulus /\ TotalCount \div 2 + c = Outstanding
        BY <2>1, TotalIsExact DEF WaitPCs
    <2>7. QED
        BY <2>1, <2>5, <2>6 DEF CountsConserved
<1>2. QED
    BY <1>1, Invariance, PTL

\* Nobody holds a reference, on any processor, once the wait has returned.
THEOREM RundownIsSafe == ASSUME ~OpenReInit, ~WaitAgain PROVE Spec => []RundownSafe
<1>1. IInv => RundownSafe
    BY DEF IInv, WaitInv, RundownSafe
<1>2. QED
    BY <1>1, Invariance, PTL

\* Whoever follows a pointer to the wait block, or sets its event, finds the
\* block of a wait in progress.
THEOREM BlockAccessIsSafe == ASSUME ~OpenReInit, ~WaitAgain PROVE Spec => []BlockAccessSafe
<1>1. IInv => BlockAccessSafe
    BY DEF IInv, AccessorInv, BlockAccessSafe
<1>2. QED
    BY <1>1, Invariance, PTL

\* A rundown thread that waits has somebody to wake it.
THEOREM WaiterIsWoken == ASSUME ~OpenReInit, ~WaitAgain PROVE Spec => []WaiterHasWaker
<1>1. IInv => WaiterHasWaker
    <2> SUFFICES ASSUME IInv, tpc = "KeWait", WaitBlock.WakeEvent # "set", ~(Outstanding > 0)
                 PROVE  \E a \in Accessors : pc[a] = "KeSetEvent"
        BY DEF WaiterHasWaker
    <2>1. Outstanding = 0
        BY OutstandingBound DEF IInv
    <2>2. QED
        BY <2>1 DEF IInv, WaitInv
<1>2. QED
    BY <1>1, Invariance, PTL
=============================================================================
