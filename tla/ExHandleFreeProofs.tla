------------------------- MODULE ExHandleFreeProofs -------------------------
(***************************************************************************)
(* Proofs about the free lists of a handle table, for any set of threads and *)
(* any number of locks, of pages and of entries of a page.  Every entry has  *)
(* a place, given by a function p that the invariant says exists: on a list, *)
(* in use, in the hands of a thread, or in one of the two chains of the      *)
(* thread that moves or grows.                                              *)
(***************************************************************************)
EXTENDS ExHandleFree, FiniteSetTheorems, TLAPS

\* The entries of S are a chain from h to l: each but l has its successor in S,
\* no two have the same one, none precedes h, and S has nothing that is not on
\* the way.
Segment(f, S, h, l) ==
    /\ S \subseteq Indexes \ {0}
    /\ h \in S /\ l \in S
    /\ \A k \in S \ {l} : f[k] \in S /\ f[k] # h
    /\ \A j, k \in S \ {l} : f[j] = f[k] => j = k
    /\ \A T \in SUBSET S : h \in T /\ (\A k \in T \ {l} : f[k] \in T) => T = S

\* A list that ends: 0 is the head of the empty one.
List(f, S, h) ==
    \/ h = 0 /\ S = {}
    \/ \E l \in S : Segment(f, S, h, l) /\ f[l] = 0

PopPCs == {"Verify", "ReadNext", "Pop", "UnlockRetry", "UnlockPopped"}
BarrierPCs == {"Barrier", "BarrierAcquire", "BarrierRelease"}
ExchangePCs == {"Exchange", "ExchangeCas"}
NewPagePCs == {"GrowLink", "GrowCas"}
MovePCs == BarrierPCs \cup {"Reverse"} \cup ExchangePCs \cup NewPagePCs
TablePCs == MovePCs \cup {"CheckAgain", "UnlockTable", "Move", "Grow", "UnlockGrown"}
SinglePCs == {"UnlockPopped", "Create", "ChooseList", "LinkFirst", "LinkLast", "PushFirst", "PushLast"}
FreePCs == PopPCs \cup TablePCs \cup SinglePCs \cup {"idle", "Allocate", "LockTable", "LockShared", "AfterGrow"}

Locks == 0 .. HANDLE_TABLE_LOCKS - 1

Exclusive ==
    \A i \in Locks : \A t, u \in Threads :
        t # u /\ HandleTableLock[i][t] = "X" => HandleTableLock[i][u] = "none"

\* What a thread holds at each of its steps.
Holding(t) ==
    /\ pc[t] \in PopPCs => HandleTableLock[LockOf(Handle[t])][t] = "S" /\ Handle[t] = OldValue[t]
    /\ pc[t] \in PopPCs \cup {"UnlockTable", "LockShared"} => OldValue[t] # 0
    /\ pc[t] \in TablePCs => HandleTableLock[0][t] = "X"
    /\ pc[t] \in BarrierPCs => Idx[t] >= 1
    /\ pc[t] \in {"BarrierAcquire", "BarrierRelease"} => Idx[t] < HANDLE_TABLE_LOCKS
    /\ pc[t] = "BarrierRelease" => HandleTableLock[Idx[t]][t] = "X"

\* The places of a handle: the lists, use, one thread, and the chains of the move.
Places == {"none", "use", "first", "last", "rest", "done", "held"}

Place(p, x) == {k \in Indexes : p[k] = x}

ListsInv(p) ==
    /\ List(NextFreeTableEntry, Place(p, "first"), FirstFree)
    /\ List(NextFreeTableEntry, Place(p, "last"), LastFree)
    /\ InUse = Place(p, "use")
    /\ \A h \in Indexes : p[h] = "none" <=> h \notin HandlesBelow(NextHandleNeedingPool)

HeldInv(p) ==
    /\ \A t \in Threads : pc[t] \in SinglePCs => p[Handle[t]] = "held"
    /\ \A t, u \in Threads : pc[t] \in SinglePCs /\ pc[u] \in SinglePCs /\ Handle[t] = Handle[u] => t = u
    /\ \A h \in Indexes : p[h] = "held" => \E t \in Threads : pc[t] \in SinglePCs /\ Handle[t] = h
    /\ \A t \in Threads : pc[t] \in {"PushFirst", "PushLast"} => NextFreeTableEntry[Handle[t]] = OldValue[t]

\* What the thread in the move, or in the growth, has taken out of the lists and
\* not yet put back: the rest of the chain it reverses, and what it has done.
Moving(p, t) ==
    /\ pc[t] \in BarrierPCs =>
          /\ OldValue[t] # 0
          /\ List(NextFreeTableEntry, Place(p, "rest"), OldValue[t])
          /\ Place(p, "done") = {}
    /\ pc[t] = "Reverse" =>
          /\ Index[t] # 0
          /\ List(NextFreeTableEntry, Place(p, "rest"), Index[t])
          /\ OldIndex[t] = 0 => Place(p, "done") = {} /\ Index[t] = OldValue[t]
          /\ OldIndex[t] # 0 => /\ Segment(NextFreeTableEntry, Place(p, "done"), OldIndex[t], OldValue[t])
                               /\ NextFreeTableEntry[OldValue[t]] = 0
    /\ pc[t] \in ExchangePCs =>
          /\ Place(p, "rest") = {}
          /\ Segment(NextFreeTableEntry, Place(p, "done"), OldIndex[t], OldValue[t])
          /\ pc[t] = "ExchangeCas" => NextFreeTableEntry[OldValue[t]] = NewValue[t]
    /\ pc[t] \in NewPagePCs =>
          /\ Place(p, "rest") = {}
          /\ Place(p, "done") = HandlesBelow(NextHandleNeedingPool) \ HandlesBelow(NextHandleNeedingPool - LOWLEVEL_COUNT)
          /\ Segment(NextFreeTableEntry, Place(p, "done"), NextHandleNeedingPool - LOWLEVEL_COUNT + 1, LastOfPage)
          /\ pc[t] = "GrowCas" => NextFreeTableEntry[LastOfPage] = NewValue[t]

MoveInv(p) ==
    /\ \A h \in Indexes : p[h] \in {"rest", "done"} => \E t \in Threads : pc[t] \in MovePCs
    /\ \A t \in Threads : Moving(p, t)

PopInv(p, t) ==
    LET h == Handle[t]
    IN  pc[t] \in {"ReadNext", "Pop"} =>
            /\ p[h] \notin {"none", "done"}
            /\ p[h] = "first" /\ pc[t] = "Pop" => NewValue[t] = NextFreeTableEntry[h]
            /\ \A u \in Threads : pc[u] \in {"LinkFirst", "PushFirst"} => Handle[u] # h
            /\ p[h] = "rest" => \A m \in Threads : pc[m] \in MovePCs => pc[m] \in BarrierPCs /\ Idx[m] <= LockOf(h)

GhostInv(p) ==
    /\ ListsInv(p)
    /\ HeldInv(p)
    /\ MoveInv(p)
    /\ \A t \in Threads : PopInv(p, t)

PagesInv == \E k \in 1 .. MaxPages : NextHandleNeedingPool = k * LOWLEVEL_COUNT

FreeLabels == pc \in [Threads -> FreePCs]

\* The types but that of HandleCount.
FreeTypes ==
    /\ FirstFree \in Indexes /\ LastFree \in Indexes
    /\ NextFreeTableEntry \in [Indexes -> Indexes \cup {GrantedAccess}]
    /\ StrictFIFO \in BOOLEAN
    /\ InUse \subseteq Indexes
    /\ HandleTableLock \in [Locks -> [Threads -> {"none", "S", "X"}]]
    /\ Handle \in [Threads -> Indexes]
    /\ OldValue \in [Threads -> Indexes]
    /\ NewValue \in [Threads -> Indexes \cup {GrantedAccess}]
    /\ Index \in [Threads -> Indexes]
    /\ OldIndex \in [Threads -> Indexes]
    /\ FreeSize \in [Threads -> Nat]
    /\ Idx \in [Threads -> 0 .. HANDLE_TABLE_LOCKS]
    /\ RetVal \in [Threads -> BOOLEAN]

CountInv == IsFiniteSet(InUse) /\ HandleCount = Cardinality(InUse)

HoldingInv == Exclusive /\ \A t \in Threads : Holding(t)

FreeInv ==
    /\ FreeLabels /\ FreeTypes
    /\ HoldingInv
    /\ PagesInv
    /\ CountInv
    /\ \E p \in [Indexes -> Places] : GhostInv(p)

FreeStep(t) == Begin(t) \/ Continue(t)

\* A step of t leaves the other threads where they are.
FreeOthers(t) ==
    \A u \in Threads \ {t} :
        /\ pc'[u] = pc[u] /\ Handle'[u] = Handle[u]
        /\ OldValue'[u] = OldValue[u] /\ NewValue'[u] = NewValue[u]
        /\ Index'[u] = Index[u] /\ OldIndex'[u] = OldIndex[u] /\ Idx'[u] = Idx[u]
        /\ \A i \in Locks : HandleTableLock'[i][u] = HandleTableLock[i][u]

\* Quotient and remainder.
LEMMA DivMod ==
    ASSUME NEW n \in Nat, NEW d \in Nat \ {0}
    PROVE  /\ n \div d \in Nat
           /\ (n % d) \in 0 .. d - 1
           /\ n = ((n \div d) * d) + (n % d)
    OBVIOUS

\* A number has one quotient and one remainder.
LEMMA DivUnique ==
    ASSUME NEW q \in Nat, NEW d \in Nat \ {0}, NEW r \in 0 .. d - 1
    PROVE  ((q * d) + r) \div d = q /\ ((q * d) + r) % d = r
    OBVIOUS

\* Multiples of different numbers are apart.
LEMMA MultiplesApart ==
    ASSUME NEW p \in Nat, NEW q \in Nat, NEW d \in Nat \ {0}, p < q
    PROVE  (p * d) + d <= q * d
<1>1. q - (p + 1) \in Nat /\ q = p + 1 + (q - (p + 1))
    OBVIOUS
<1>2. PICK k \in Nat : q = p + 1 + k
    BY <1>1
<1>3. q * d = (p * d) + d + (k * d)
    BY <1>2
<1>4. k * d \in Nat
    OBVIOUS
<1>5. QED
    BY <1>3, <1>4

\* Multiples of different numbers differ, in the same order.
LEMMA Multiples ==
    ASSUME NEW p \in Nat, NEW q \in Nat, NEW d \in Nat \ {0}
    PROVE  /\ p * d \in Nat
           /\ p * d = q * d => p = q
           /\ p * d < q * d => p < q
<1>1. p * d \in Nat /\ q * d \in Nat
    OBVIOUS
<1>2. p < q => (p * d) + d <= q * d
    BY MultiplesApart
<1>3. q < p => (q * d) + d <= p * d
    BY MultiplesApart
<1>4. QED
    BY <1>1, <1>2, <1>3

\* The indexes are the numbers below the size of the largest table.
LEMMA IndexesNat ==
    /\ Indexes \subseteq Nat
    /\ 0 \in Indexes
    /\ 1 \in Indexes
    /\ MaxPages * LOWLEVEL_COUNT \in Nat
    /\ MaxPages * LOWLEVEL_COUNT >= LOWLEVEL_COUNT
    /\ \A n \in Nat : n < MaxPages * LOWLEVEL_COUNT => n \in Indexes
<1>1. MaxPages * LOWLEVEL_COUNT \in Nat /\ MaxPages * LOWLEVEL_COUNT >= LOWLEVEL_COUNT
  BY HandleFreeAssumptions, SMTT(60)
<1> QED BY <1>1, HandleFreeAssumptions DEF Indexes

(***************************************************************************)
(* Facts about chains.                                                     *)
(***************************************************************************)
\* A chain is what it is by the successors of all its entries but the last.
LEMMA SegmentAgree ==
    ASSUME NEW f, NEW g, NEW S, NEW h, NEW l, Segment(f, S, h, l), \A k \in S \ {l} : g[k] = f[k]
    PROVE  Segment(g, S, h, l)
<1>1. /\ S \subseteq Indexes \ {0}
      /\ h \in S /\ l \in S
      /\ \A k \in S \ {l} : g[k] \in S /\ g[k] # h
      /\ \A j, k \in S \ {l} : g[j] = g[k] => j = k
  BY Zenon DEF Segment
<1>2. ASSUME NEW T \in SUBSET S, h \in T, \A k \in T \ {l} : g[k] \in T
      PROVE  T = S
  <2>1. \A k \in T \ {l} : f[k] \in T
    BY <1>2
  <2> QED BY <1>2, <2>1 DEF Segment
<1> QED BY <1>1, <1>2, Zenon DEF Segment

\* A list is what it is by the successors of its entries.
LEMMA ListAgree ==
    ASSUME NEW f, NEW g, NEW S, NEW h, List(f, S, h), \A k \in S : g[k] = f[k]
    PROVE  List(g, S, h)
<1>1. CASE h = 0 /\ S = {}
  BY <1>1 DEF List
<1>2. ASSUME NEW l \in S, Segment(f, S, h, l), f[l] = 0
      PROVE  List(g, S, h)
  <2>1. Segment(g, S, h, l)
    BY <1>2, SegmentAgree
  <2> QED BY <1>2, <2>1 DEF List
<1> QED BY <1>1, <1>2 DEF List

\* One entry is a chain.
LEMMA SegmentSingle ==
    ASSUME NEW f, NEW k \in Indexes, k # 0
    PROVE  Segment(f, {k}, k, k)
BY DEF Segment

\* The head of a list is 0 or one of its entries.
LEMMA ListHead ==
    ASSUME NEW f, NEW S, NEW h, List(f, S, h)
    PROVE  /\ S \subseteq Indexes \ {0}
           /\ h = 0 \/ h \in S
           /\ h = 0 <=> S = {}
BY DEF List, Segment

\* An entry that precedes the head becomes the head.
LEMMA SegmentPush ==
    ASSUME NEW f, NEW S, NEW h, NEW l, Segment(f, S, h, l),
           NEW k \in Indexes, k # 0, k \notin S, f[k] = h
    PROVE  Segment(f, S \cup {k}, k, l)
<1> DEFINE R == S \cup {k}
<1>1. /\ R \subseteq Indexes \ {0}
      /\ k \in R /\ l \in R
      /\ \A j \in R \ {l} : f[j] \in R /\ f[j] # k
  BY DEF Segment
<1>2. \A i, j \in R \ {l} : f[i] = f[j] => i = j
  BY DEF Segment
<1>3. ASSUME NEW T \in SUBSET R, k \in T, \A j \in T \ {l} : f[j] \in T
      PROVE  T = R
  <2> DEFINE U == T \cap S
  <2>1. h \in U
    BY <1>3 DEF Segment
  <2>2. \A j \in U \ {l} : f[j] \in U
    BY <1>3 DEF Segment
  <2>3. U = S
    <3>1. U \in SUBSET S
      OBVIOUS
    <3> HIDE DEF U
    <3> QED BY <2>1, <2>2, <3>1 DEF Segment
  <2> QED BY <1>3, <2>3
<1> HIDE DEF R
<1>4. Segment(f, R, k, l)
  BY <1>1, <1>2, <1>3, Zenon DEF Segment
<1> QED BY <1>4 DEF R

\* The same for a list, which may be empty.
LEMMA ListPush ==
    ASSUME NEW f, NEW S, NEW h, List(f, S, h), NEW k \in Indexes, k # 0, k \notin S, f[k] = h
    PROVE  List(f, S \cup {k}, k)
<1>1. CASE h = 0 /\ S = {}
  <2>1. Segment(f, {k}, k, k)
    BY SegmentSingle
  <2>2. S \cup {k} = {k}
    BY <1>1
  <2> QED BY <1>1, <2>1, <2>2 DEF List
<1>2. ASSUME NEW l \in S, Segment(f, S, h, l), f[l] = 0
      PROVE  List(f, S \cup {k}, k)
  <2>1. Segment(f, S \cup {k}, k, l)
    BY <1>2, SegmentPush
  <2> QED BY <1>2, <2>1 DEF List
<1> QED BY <1>1, <1>2 DEF List

\* Without its head, a list begins with the successor of the head.
LEMMA ListPop ==
    ASSUME NEW f, NEW S, NEW h, List(f, S, h), h # 0
    PROVE  /\ h \in S
           /\ f[h] \in Indexes
           /\ f[h] \in (S \ {h}) \cup {0}
           /\ List(f, S \ {h}, f[h])
<1>1. PICK l \in S : Segment(f, S, h, l) /\ f[l] = 0
  BY DEF List
<1> DEFINE R == S \ {h}
<1>2. CASE h = l
  <2>1. {h} = S
    <3> DEFINE T == {h}
    <3>1. T \in SUBSET S /\ h \in T /\ \A k \in T \ {l} : f[k] \in T
      BY <1>1, <1>2 DEF Segment
    <3> HIDE DEF T
    <3>2. T = S
      BY <1>1, <3>1, Zenon DEF Segment
    <3> QED BY <3>2 DEF T
  <2>2. 0 \in Indexes
    BY <1>1, HandleFreeAssumptions, IndexesNat DEF Segment
  <2> QED BY <1>1, <1>2, <2>1, <2>2 DEF List
<1>3. CASE h # l
  <2>1. /\ R \subseteq Indexes \ {0}
        /\ f[h] \in R /\ l \in R
        /\ \A j \in R \ {l} : f[j] \in R /\ f[j] # f[h]
        /\ \A i, j \in R \ {l} : f[i] = f[j] => i = j
    BY <1>1, <1>3 DEF Segment
  <2>2. ASSUME NEW T \in SUBSET R, f[h] \in T, \A j \in T \ {l} : f[j] \in T
        PROVE  T = R
    <3> DEFINE U == T \cup {h}
    <3>1. U \in SUBSET S /\ h \in U /\ \A j \in U \ {l} : f[j] \in U
      BY <1>1, <2>2 DEF Segment
    <3>2. U = S
      <4> HIDE DEF U
      <4> QED BY <1>1, <3>1, Zenon DEF Segment
    <3> QED BY <2>2, <3>2
  <2>3. Segment(f, R, f[h], l)
    <3> HIDE DEF R
    <3> QED BY <2>1, <2>2, Zenon DEF Segment
  <2>4. h \in S
    BY <1>1 DEF Segment
  <2> QED BY <1>1, <1>3, <2>1, <2>3, <2>4 DEF List
<1> QED BY <1>2, <1>3

\* A chain whose last entry is linked to the head of a list is put before it.
LEMMA SegmentJoin ==
    ASSUME NEW f, NEW S, NEW h, NEW l, Segment(f, S, h, l),
           NEW R, List(f, R, f[l]), S \cap R = {}
    PROVE  List(f, S \cup R, h)
<1>1. CASE f[l] = 0 /\ R = {}
  <2>1. S \cup R = S
    BY <1>1
  <2> QED BY <1>1, <2>1 DEF List, Segment
<1>2. ASSUME NEW e \in R, Segment(f, R, f[l], e), f[e] = 0
      PROVE  List(f, S \cup R, h)
  <2> DEFINE Q == S \cup R
  <2>1. /\ Q \subseteq Indexes \ {0}
        /\ h \in Q /\ e \in Q
    BY <1>2 DEF Segment
  <2>2. \A j \in Q \ {e} : f[j] \in Q /\ f[j] # h
    <3> TAKE j \in Q \ {e}
    <3>1. CASE j \in S \ {l}
      BY <3>1 DEF Segment
    <3>2. CASE j = l
      BY <1>2, <3>2 DEF Segment
    <3>3. CASE j \in R
      BY <1>2, <3>3 DEF Segment
    <3> QED BY <3>1, <3>2, <3>3
  <2>3. \A i, j \in Q \ {e} : f[i] = f[j] => i = j
    <3>1. \A k \in S \ {l} : f[k] \in S
      BY DEF Segment
    <3>2. \A k \in R \ {e} : f[k] \in R /\ f[k] # f[l]
      BY <1>2 DEF Segment
    <3>3. l \in S /\ f[l] \in R
      BY <1>2 DEF Segment
    <3>4. \A i, j \in S \ {l} : f[i] = f[j] => i = j
      BY DEF Segment
    <3>5. \A i, j \in R \ {e} : f[i] = f[j] => i = j
      BY <1>2 DEF Segment
    <3> QED BY <3>1, <3>2, <3>3, <3>4, <3>5
  <2>4. ASSUME NEW T \in SUBSET Q, h \in T, \A j \in T \ {e} : f[j] \in T
        PROVE  T = Q
    <3> DEFINE U == T \cap S
    <3> DEFINE V == T \cap R
    <3>1. U \in SUBSET S /\ h \in U /\ \A j \in U \ {l} : f[j] \in U
      BY <1>2, <2>4 DEF Segment
    <3>2. U = S
      <4> HIDE DEF U
      <4> QED BY <3>1, Zenon DEF Segment
    <3>3. V \in SUBSET R /\ f[l] \in V /\ \A j \in V \ {e} : f[j] \in V
      BY <1>2, <2>4, <3>2 DEF Segment
    <3>4. V = R
      <4> HIDE DEF V
      <4> QED BY <1>2, <3>3, Zenon DEF Segment
    <3> QED BY <2>4, <3>2, <3>4
  <2>5. Segment(f, Q, h, e)
    <3> HIDE DEF Q
    <3> QED BY <2>1, <2>2, <2>3, <2>4, Zenon DEF Segment
  <2> QED BY <1>2, <2>5 DEF List
<1> QED BY <1>1, <1>2 DEF List

\* What is on the way through a chain.
LEMMA SegmentWay ==
    ASSUME NEW S, NEW h, NEW l, Segment(NextFreeTableEntry, S, h, l)
    PROVE  Way(h, l) = S
<1> DEFINE nx == NextFreeTableEntry
<1> DEFINE closed(T) == \A k \in T \ {0, l} : nx[k] \in Indexes => nx[k] \in T
<1>1. S \in SUBSET Indexes /\ h \in S /\ closed(S)
  BY DEF Segment
<1>2. ASSUME NEW T \in SUBSET Indexes, h \in T, closed(T)
      PROVE  S \subseteq T
  <2> DEFINE U == T \cap S
  <2>1. U \in SUBSET S /\ h \in U /\ \A k \in U \ {l} : nx[k] \in U
    BY <1>2 DEF Segment
  <2>2. U = S
    <3> HIDE DEF U
    <3> QED BY <2>1, Zenon DEF Segment
  <2> QED BY <2>2
<1>3. Way(h, l) = {g \in Indexes : \A T \in SUBSET Indexes : h \in T /\ closed(T) => g \in T}
  BY DEF Way
<1> HIDE DEF closed
<1> QED BY <1>1, <1>2, <1>3

\* What is on the way through a list: its entries, and its end.
LEMMA ListChain ==
    ASSUME NEW S, NEW h, List(NextFreeTableEntry, S, h)
    PROVE  ChainFrom(h) = S \cup {0} /\ Chain(h) = S
<1> DEFINE nx == NextFreeTableEntry
<1> DEFINE closed(T) == \A k \in T \ {0, 0} : nx[k] \in Indexes => nx[k] \in T
<1>0. 0 \in Indexes
  BY IndexesNat
<1>1. Way(h, 0) = {g \in Indexes : \A T \in SUBSET Indexes : h \in T /\ closed(T) => g \in T}
  BY DEF Way
<1>2. S \cup {0} \in SUBSET Indexes /\ h \in S \cup {0} /\ closed(S \cup {0}) /\ 0 \notin S
  BY <1>0 DEF List, Segment
<1>3. ASSUME NEW T \in SUBSET Indexes, h \in T, closed(T)
      PROVE  S \cup {0} \subseteq T
  <2>1. CASE h = 0 /\ S = {}
    BY <1>3, <2>1
  <2>2. ASSUME NEW l \in S, Segment(nx, S, h, l), nx[l] = 0
        PROVE  S \cup {0} \subseteq T
    <3> DEFINE U == T \cap S
    <3>1. U \in SUBSET S /\ h \in U /\ \A k \in U \ {l} : nx[k] \in U
      BY <1>3, <2>2 DEF Segment
    <3>2. U = S
      <4> HIDE DEF U
      <4> QED BY <2>2, <3>1, Zenon DEF Segment
    <3>3. 0 \in T
      BY <1>0, <1>2, <1>3, <2>2, <3>2
    <3> QED BY <3>2, <3>3
  <2> QED BY <2>1, <2>2 DEF List
<1> HIDE DEF closed
<1>4. Way(h, 0) = S \cup {0}
  BY <1>1, <1>2, <1>3
<1> QED BY <1>2, <1>4 DEF ChainFrom, Chain

(***************************************************************************)
(* The chain of a new page.                                                *)
(***************************************************************************)
\* Numbers that follow one another: the set of those below one that is missing
\* would be mapped into itself without its first by the successor.
LEMMA Successors ==
    ASSUME NEW b \in Nat, NEW n \in Nat, NEW T \in SUBSET (b .. n), b \in T, \A k \in T \ {n} : k + 1 \in T
    PROVE  T = b .. n
<1> SUFFICES ASSUME NEW m \in b .. n, m \notin T PROVE FALSE
  OBVIOUS
<1> DEFINE U == {k \in T : k < m}
<1> DEFINE next == [k \in U |-> k + 1]
<1>1. IsFiniteSet(U)
  <2>1. IsFiniteSet(b .. n)
    BY FS_Interval
  <2>2. U \subseteq b .. n
    OBVIOUS
  <2> HIDE DEF U
  <2> QED BY <2>1, <2>2, FS_Subset, Zenon
<1>2. b \in U
  OBVIOUS
<1>3. \A k \in U : k + 1 \in U \ {b}
  OBVIOUS
<1>4. IsFiniteSet(U \ {b}) /\ Cardinality(U \ {b}) < Cardinality(U)
  <2> HIDE DEF U
  <2>1. IsFiniteSet(U \ {b}) /\ Cardinality(U \ {b}) = IF b \in U THEN Cardinality(U) - 1 ELSE Cardinality(U)
    BY <1>1, FS_RemoveElement, Zenon
  <2>2. Cardinality(U) \in Nat
    BY <1>1, FS_CardinalityType, Zenon
  <2> QED BY <1>2, <2>1, <2>2
<1>5. next \in [U -> U \ {b}]
  BY <1>3
<1>6. \E x, y \in U : x # y /\ next[x] = next[y]
  <2> HIDE DEF U, next
  <2> QED BY <1>1, <1>4, <1>5, FS_PigeonHole, Zenon
<1> QED BY <1>6

\* The entries of page k but the first, whose number is a multiple of the size.
LEMMA HandlesOfPage ==
    ASSUME NEW k \in Nat, k < MaxPages
    PROVE  LET b == k * LOWLEVEL_COUNT
           IN  /\ b \in Nat
               /\ b + LOWLEVEL_COUNT <= MaxPages * LOWLEVEL_COUNT
               /\ b + LOWLEVEL_COUNT = (k + 1) * LOWLEVEL_COUNT
               /\ HandlesBelow(b) \subseteq HandlesBelow(b + LOWLEVEL_COUNT)
               /\ HandlesBelow(b + LOWLEVEL_COUNT) \ HandlesBelow(b) = b + 1 .. b + LOWLEVEL_COUNT - 1
               /\ b + 1 .. b + LOWLEVEL_COUNT - 1 \subseteq Indexes \ {0}
               /\ \A h \in b + 1 .. b + LOWLEVEL_COUNT - 1 :
                     PageChain(h) = IF h = b + LOWLEVEL_COUNT - 1 THEN 0 ELSE h + 1
<1> DEFINE L == LOWLEVEL_COUNT
<1> DEFINE b == k * L
<1>1. L \in Nat /\ L > 1 /\ MaxPages \in Nat
  BY HandleFreeAssumptions
<1>2. b \in Nat /\ b + L <= MaxPages * L /\ b + L = (k + 1) * L
  BY <1>1, MultiplesApart
<1>3. \A r \in 0 .. L - 1 : (b + r) % L = r
  BY <1>1, DivUnique
<1> HIDE DEF L
<1>4. \A h \in b .. b + L - 1 : h % L = h - b
  <2> HIDE DEF b
  <2> TAKE h \in b .. b + L - 1
  <2>1. h - b \in 0 .. L - 1 /\ b + (h - b) = h
    BY <1>1, <1>2
  <2>2. (b + (h - b)) % L = h - b
    BY <1>3, <2>1
  <2> QED BY <2>1, <2>2
<1> HIDE DEF b
<1>5. b + 1 .. b + L - 1 \subseteq Indexes \ {0}
  BY <1>1, <1>2, IndexesNat DEF L
<1>6. \A n : HandlesBelow(n) = {h \in Indexes : h < n /\ h % L # 0}
  BY DEF HandlesBelow, L
<1>7. HandlesBelow(b) \subseteq HandlesBelow(b + L)
  <2>1. \A h \in Nat : h < b => h < b + L
    BY <1>1, <1>2
  <2> QED BY <1>6, <2>1, IndexesNat
<1>8. HandlesBelow(b + L) \ HandlesBelow(b) = b + 1 .. b + L - 1
  <2>1. ASSUME NEW h \in b + 1 .. b + L - 1
        PROVE  h \in HandlesBelow(b + L) \ HandlesBelow(b)
    <3>1. h \in b .. b + L - 1 /\ h \in Nat /\ h - b # 0 /\ h < b + L /\ ~(h < b)
      BY <1>1, <1>2
    <3>2. h % L = h - b /\ h \in Indexes
      BY <1>4, <1>5, <3>1
    <3> QED BY <1>6, <3>1, <3>2
  <2>2. ASSUME NEW h \in HandlesBelow(b + L) \ HandlesBelow(b)
        PROVE  h \in b + 1 .. b + L - 1
    <3>1. h \in Nat /\ h < b + L /\ h % L # 0 /\ ~(h < b)
      BY <1>6, <2>2, IndexesNat
    <3>2. h \in b .. b + L - 1
      BY <1>1, <1>2, <3>1
    <3>3. h # b
      BY <1>1, <1>2, <1>4, <3>1, <3>2
    <3> QED BY <1>1, <1>2, <3>2, <3>3
  <2> QED BY <2>1, <2>2
<1>9. \A h \in b + 1 .. b + L - 1 : PageChain(h) = IF h = b + L - 1 THEN 0 ELSE h + 1
  <2> TAKE h \in b + 1 .. b + L - 1
  <2>0. h \in b .. b + L - 1
    BY <1>1, <1>2
  <2>1. h % L = h - b
    BY <1>4, <2>0
  <2>2. h - b = L - 1 <=> h = b + L - 1
    BY <1>1, <1>2
  <2> QED BY <2>1, <2>2 DEF PageChain, L
<1> QED BY <1>1, <1>2, <1>5, <1>7, <1>8, <1>9 DEF L, b

\* They are chained in their order.
LEMMA PageSegment ==
    ASSUME NEW f, NEW k \in Nat, k < MaxPages,
           NEW b, b = k * LOWLEVEL_COUNT,
           \A h \in b + 1 .. b + LOWLEVEL_COUNT - 1 : f[h] = PageChain(h)
    PROVE  /\ Segment(f, b + 1 .. b + LOWLEVEL_COUNT - 1, b + 1, b + LOWLEVEL_COUNT - 1)
           /\ f[b + LOWLEVEL_COUNT - 1] = 0
<1> DEFINE l == b + LOWLEVEL_COUNT - 1
<1> DEFINE S == b + 1 .. l
<1>1. b \in Nat /\ S \subseteq Indexes \ {0} /\ \A h \in S : f[h] = IF h = l THEN 0 ELSE h + 1
  BY HandlesOfPage
<1>2. l \in Nat /\ l >= b + 1
  BY <1>1, HandleFreeAssumptions
<1>3. b + 1 \in S /\ l \in S
  BY <1>1, <1>2
<1> HIDE DEF l
<1>4. \A j \in S \ {l} : f[j] = j + 1 /\ j + 1 \in S /\ j + 1 # b + 1
  BY <1>1, <1>2
<1>5. \A i, j \in S \ {l} : f[i] = f[j] => i = j
  BY <1>1, <1>2, <1>4
<1>6. ASSUME NEW T \in SUBSET S, b + 1 \in T, \A j \in T \ {l} : f[j] \in T
      PROVE  T = S
  <2>1. \A j \in T \ {l} : j + 1 \in T
    BY <1>4, <1>6
  <2>2. b + 1 \in Nat
    BY <1>1
  <2> QED BY <1>2, <1>6, <2>1, <2>2, Successors
<1>7. Segment(f, S, b + 1, l)
  <2> DEFINE h == b + 1
  <2>1. \A j \in S \ {l} : f[j] \in S /\ f[j] # h
    BY <1>4
  <2> HIDE DEF S, h
  <2>2. Segment(f, S, h, l)
    BY <1>1, <1>3, <1>5, <1>6, <2>1, Zenon DEF Segment, h
  <2> QED BY <2>2 DEF h
<1> QED BY <1>1, <1>3, <1>7 DEF l

(***************************************************************************)
(* What a step leaves alone.                                               *)
(***************************************************************************)
\* A step of one thread writes its own locals and locks only.
LEMMA FreeOthersStay ==
    ASSUME FreeLabels, FreeTypes, NEW t \in Threads, FreeStep(t)
    PROVE  FreeOthers(t)
<1> USE DEF FreeLabels, FreeTypes, FreeOthers, Locks
<1>1. CASE Allocate(t)
  BY <1>1 DEF Allocate, Goto, locals, moving, lists, table
<1>2. CASE ReadFirstFree(t)
  BY <1>2 DEF ReadFirstFree, Goto, locals, moving, lists, table
<1>3. CASE LockShared(t)
  BY <1>3 DEF LockShared, Acquire, Goto, locals, moving, lists, table
<1>4. CASE Verify(t)
  BY <1>4 DEF Verify, Goto, locals, moving, lists, table
<1>5. CASE ReadNext(t)
  BY <1>5 DEF ReadNext, Goto, locals, moving, lists, table
<1>6. CASE Pop(t)
  BY <1>6 DEF Pop, Goto, locals, moving, lists, table
<1>7. CASE UnlockRetry(t)
  BY <1>7 DEF UnlockRetry, Release, Goto, locals, moving, lists, table
<1>8. CASE UnlockPopped(t)
  BY <1>8 DEF UnlockPopped, Release, Goto, locals, moving, lists, table
<1>9. CASE CreateHandle(t)
  BY <1>9 DEF CreateHandle, Return, Goto, locals, moving, lists, table
<1>10. CASE LockTable(t)
  BY <1>10 DEF LockTable, Acquire, Goto, locals, moving, lists, table
<1>11. CASE CheckAgain(t)
  BY <1>11 DEF CheckAgain, Goto, locals, moving, lists, table
<1>12. CASE UnlockTable(t)
  BY <1>12 DEF UnlockTable, Release, Goto, locals, moving, lists, table
<1>13. CASE TakeLastFree(t)
  BY <1>13 DEF TakeLastFree, Goto, locals, moving, lists, table
<1>14. CASE BarrierLook(t)
  BY <1>14 DEF BarrierLook, Passed, Goto, locals, moving, lists, table
<1>15. CASE BarrierAcquire(t)
  BY <1>15 DEF BarrierAcquire, Acquire, Goto, locals, moving, lists, table
<1>16. CASE BarrierRelease(t)
  BY <1>16 DEF BarrierRelease, Passed, Release, Goto, locals, moving, lists, table
<1>17. CASE BarrierDone(t)
  BY <1>17 DEF BarrierDone, BeginReverse, Goto, locals, moving, lists, table
<1>18. CASE Reverse(t)
  BY <1>18 DEF Reverse, Goto, locals, moving, lists, table
<1>19. CASE ExchangeLink(t)
  BY <1>19 DEF ExchangeLink, Goto, locals, moving, lists, table
<1>20. CASE ExchangeCas(t)
  BY <1>20 DEF ExchangeCas, Goto, locals, moving, lists, table
<1>21. CASE Grow(t)
  BY <1>21 DEF Grow, Goto, locals, moving, lists, table
<1>22. CASE GrowFails(t)
  BY <1>22 DEF GrowFails, Goto, locals, moving, lists, table
<1>23. CASE GrowLink(t)
  BY <1>23 DEF GrowLink, Goto, locals, moving, lists, table
<1>24. CASE GrowCas(t)
  BY <1>24 DEF GrowCas, Goto, locals, moving, lists, table
<1>25. CASE UnlockGrown(t)
  BY <1>25 DEF UnlockGrown, Release, Goto, locals, moving, lists, table
<1>26. CASE AfterGrow(t)
  BY <1>26 DEF AfterGrow, Return, Goto, locals, moving, lists, table
<1>27. CASE ChooseList(t)
  BY <1>27 DEF ChooseList, Goto, locals, moving, lists, table
<1>28. CASE Link(t)
  BY <1>28 DEF Link, Goto, locals, moving, lists, table
<1>29. CASE Push(t)
  BY <1>29 DEF Push, Return, Goto, locals, moving, lists, table
<1>30. ASSUME NEW h \in Indexes, Free(t, h)
      PROVE  FreeOthers(t)
  BY <1>30 DEF Free, Goto, locals, moving, lists, table
<1> QED BY <1>1, <1>2, <1>3, <1>4, <1>5, <1>6, <1>7, <1>8, <1>9, <1>10, <1>11, <1>12, <1>13, <1>14, <1>15,
     <1>16, <1>17, <1>18, <1>19, <1>20, <1>21, <1>22, <1>23, <1>24, <1>25, <1>26, <1>27, <1>28, <1>29,
     <1>30 DEF FreeStep, Begin, Continue

\* The lock of a handle is one of the locks.
LEMMA LockOfType ==
    ASSUME NEW h \in Indexes
    PROVE  LockOf(h) \in Locks
<1>1. h \in Nat /\ HANDLE_TABLE_LOCKS \in Nat \ {0}
  BY IndexesNat, HandleFreeAssumptions
<1> QED BY <1>1, DivMod DEF LockOf, Locks

\* A pop that is going to succeed takes the head, and puts its successor in its place.
LEMMA PopTakes ==
    ASSUME FreeTypes, HoldingInv, NEW p \in [Indexes -> Places], GhostInv(p),
           NEW t \in Threads, pc[t] = "Pop", FirstFree = OldValue[t]
    PROVE  /\ Handle[t] = FirstFree /\ FirstFree # 0
           /\ p[Handle[t]] = "first"
           /\ NewValue[t] = NextFreeTableEntry[Handle[t]]
           /\ NewValue[t] \in Indexes
           /\ List(NextFreeTableEntry, Place(p, "first") \ {Handle[t]}, NewValue[t])
<1>1. Handle[t] = OldValue[t] /\ OldValue[t] # 0
  BY DEF HoldingInv, Holding, PopPCs
<1>2. List(NextFreeTableEntry, Place(p, "first"), FirstFree)
  BY DEF GhostInv, ListsInv
<1>3. /\ Handle[t] \in Place(p, "first")
      /\ NextFreeTableEntry[Handle[t]] \in Indexes
      /\ List(NextFreeTableEntry, Place(p, "first") \ {Handle[t]}, NextFreeTableEntry[Handle[t]])
  BY <1>1, <1>2, ListPop
<1>4. p[Handle[t]] = "first"
  BY <1>3 DEF Place
<1>5. NewValue[t] = NextFreeTableEntry[Handle[t]]
  BY <1>4 DEF GhostInv, PopInv
<1> QED BY <1>1, <1>3, <1>4, <1>5

\* The reversal takes the head of what is left.
LEMMA ReverseTakes ==
    ASSUME FreeTypes, NEW p \in [Indexes -> Places], GhostInv(p), NEW t \in Threads, pc[t] = "Reverse"
    PROVE  /\ Index[t] # 0
           /\ p[Index[t]] = "rest"
           /\ NextFreeTableEntry[Index[t]] \in Indexes
           /\ List(NextFreeTableEntry, Place(p, "rest") \ {Index[t]}, NextFreeTableEntry[Index[t]])
<1>1. Index[t] # 0 /\ List(NextFreeTableEntry, Place(p, "rest"), Index[t])
  BY DEF GhostInv, MoveInv, Moving
<1>2. /\ Index[t] \in Place(p, "rest")
      /\ NextFreeTableEntry[Index[t]] \in Indexes
      /\ List(NextFreeTableEntry, Place(p, "rest") \ {Index[t]}, NextFreeTableEntry[Index[t]])
  BY <1>1, ListPop
<1> QED BY <1>1, <1>2 DEF Place

\* The page that a growth adds.
LEMMA GrowthPage ==
    ASSUME PagesInv, NextHandleNeedingPool < MaxPages * LOWLEVEL_COUNT
    PROVE  \E k \in Nat :
              /\ k < MaxPages
              /\ NextHandleNeedingPool = k * LOWLEVEL_COUNT
              /\ k + 1 \in 1 .. MaxPages
<1>1. PICK k \in 1 .. MaxPages : NextHandleNeedingPool = k * LOWLEVEL_COUNT
  BY DEF PagesInv
<1>2. MaxPages \in Nat /\ LOWLEVEL_COUNT \in Nat \ {0}
  BY HandleFreeAssumptions
<1>3. k \in Nat /\ k < MaxPages
  BY <1>1, <1>2, Multiples
<1> QED BY <1>1, <1>2, <1>3

\* The page that has been added last.
LEMMA LastPage ==
    ASSUME PagesInv
    PROVE  /\ NextHandleNeedingPool \in Nat
           /\ NextHandleNeedingPool - LOWLEVEL_COUNT + 1 \in Indexes
           /\ LastOfPage \in Indexes
           /\ NextHandleNeedingPool <= MaxPages * LOWLEVEL_COUNT
           /\ NextHandleNeedingPool >= LOWLEVEL_COUNT
<1>1. PICK k \in 1 .. MaxPages : NextHandleNeedingPool = k * LOWLEVEL_COUNT
  BY DEF PagesInv
<1>2. MaxPages \in Nat /\ LOWLEVEL_COUNT \in Nat /\ LOWLEVEL_COUNT > 1
  BY HandleFreeAssumptions
<1>3. k - 1 \in Nat /\ k - 1 < MaxPages /\ (k - 1) + 1 = k
  BY <1>1, <1>2
<1> DEFINE b == (k - 1) * LOWLEVEL_COUNT
<1>4. b \in Nat /\ b + LOWLEVEL_COUNT <= MaxPages * LOWLEVEL_COUNT /\ b + LOWLEVEL_COUNT = NextHandleNeedingPool
  BY <1>1, <1>3, HandlesOfPage
<1> HIDE DEF b
<1> QED BY <1>2, <1>4, IndexesNat DEF LastOfPage

\* A pop and a reversal read the index of an entry, never the access of a handle in use.
LEMMA FreeTypesStep ==
    ASSUME FreeInv, NEW t \in Threads, FreeStep(t)
    PROVE  FreeTypes'
<1> USE DEF FreeTypes
<1>0. PICK p \in [Indexes -> Places] : GhostInv(p)
  BY DEF FreeInv
<1>a. FreeTypes /\ FreeLabels /\ PagesInv /\ HoldingInv
  BY DEF FreeInv
<1>b. HANDLE_TABLE_LOCKS \in Nat /\ HANDLE_TABLE_LOCKS >= 1 /\ GrantedAccess \notin Nat /\ 0 \in Indexes
  BY HandleFreeAssumptions, IndexesNat
<1>c. LastOfPage \in Indexes /\ NextHandleNeedingPool - LOWLEVEL_COUNT + 1 \in Indexes
  BY <1>a, LastPage
<1>1. CASE Allocate(t)
  BY <1>1, <1>a, <1>b, <1>c DEF Allocate, Goto, locals, moving, lists, table
<1>2. CASE ReadFirstFree(t)
  BY <1>2, <1>a, <1>b, <1>c DEF ReadFirstFree, Goto, locals, moving, lists, table
<1>3. CASE LockShared(t)
  BY <1>3, <1>a, <1>b, <1>c DEF LockShared, Acquire, Goto, locals, moving, lists, table
<1>4. CASE Verify(t)
  BY <1>4, <1>a, <1>b, <1>c DEF Verify, Goto, locals, moving, lists, table
<1>5. CASE ReadNext(t)
  BY <1>5, <1>a, <1>b, <1>c DEF ReadNext, Goto, locals, moving, lists, table
<1>6. CASE Pop(t)
  <2>1. FirstFree = OldValue[t] => NewValue[t] \in Indexes
    BY <1>6, <1>0, <1>a, PopTakes DEF Pop
  <2> QED BY <1>6, <1>a, <2>1 DEF Pop, Goto, locals, moving, lists, table
<1>7. CASE UnlockRetry(t)
  BY <1>7, <1>a, <1>b, <1>c DEF UnlockRetry, Release, Goto, locals, moving, lists, table
<1>8. CASE UnlockPopped(t)
  BY <1>8, <1>a, <1>b, <1>c DEF UnlockPopped, Release, Goto, locals, moving, lists, table
<1>9. CASE CreateHandle(t)
  BY <1>9, <1>a, <1>b, <1>c DEF CreateHandle, Return, Goto, locals, moving, lists, table
<1>10. CASE LockTable(t)
  BY <1>10, <1>a, <1>b, <1>c DEF LockTable, Acquire, Goto, locals, moving, lists, table
<1>11. CASE CheckAgain(t)
  BY <1>11, <1>a, <1>b, <1>c DEF CheckAgain, Goto, locals, moving, lists, table
<1>12. CASE UnlockTable(t)
  BY <1>12, <1>a, <1>b, <1>c DEF UnlockTable, Release, Goto, locals, moving, lists, table
<1>13. CASE TakeLastFree(t)
  BY <1>13, <1>a, <1>b, <1>c DEF TakeLastFree, Goto, locals, moving, lists, table
<1>14. CASE BarrierLook(t)
  <2>1. Idx[t] + 1 \in 0 .. HANDLE_TABLE_LOCKS
    BY <1>14, <1>a, <1>b DEF BarrierLook
  <2> QED BY <1>14, <1>a, <2>1 DEF BarrierLook, Passed, Goto, locals, moving, lists, table
<1>15. CASE BarrierAcquire(t)
  BY <1>15, <1>a, <1>b, <1>c DEF BarrierAcquire, Acquire, Goto, locals, moving, lists, table
<1>16. CASE BarrierRelease(t)
  <2>1. Idx[t] + 1 \in 0 .. HANDLE_TABLE_LOCKS
    BY <1>16, <1>a, <1>b DEF BarrierRelease, HoldingInv, Holding
  <2> QED BY <1>16, <1>a, <2>1 DEF BarrierRelease, Passed, Release, Goto, locals, moving, lists, table
<1>17. CASE BarrierDone(t)
  BY <1>17, <1>a, <1>b, <1>c DEF BarrierDone, BeginReverse, Goto, locals, moving, lists, table
<1>18. CASE Reverse(t)
  <2>1. NextFreeTableEntry[Index[t]] \in Indexes
    BY <1>18, <1>0, <1>a, ReverseTakes DEF Reverse
  <2>2. FreeSize[t] + 1 \in Nat
    BY <1>a
  <2> QED BY <1>18, <1>a, <2>1, <2>2 DEF Reverse, Goto, locals, moving, lists, table
<1>19. CASE ExchangeLink(t)
  BY <1>19, <1>a, <1>b, <1>c DEF ExchangeLink, Goto, locals, moving, lists, table
<1>20. CASE ExchangeCas(t)
  BY <1>20, <1>a, <1>b, <1>c DEF ExchangeCas, Goto, locals, moving, lists, table
<1>21. CASE Grow(t)
  <2>1. PICK k \in Nat : k < MaxPages /\ NextHandleNeedingPool = k * LOWLEVEL_COUNT
    BY <1>21, <1>a, GrowthPage DEF Grow
  <2> DEFINE n == NextHandleNeedingPool
  <2> DEFINE S == HandlesBelow(n + LOWLEVEL_COUNT) \ HandlesBelow(n)
  <2>2. \A h \in S : PageChain(h) \in Indexes
    <3>1. n \in Nat /\ S = n + 1 .. n + LOWLEVEL_COUNT - 1 /\ S \subseteq Indexes
      BY <2>1, HandlesOfPage
    <3>2. \A h \in n + 1 .. n + LOWLEVEL_COUNT - 1 :
             PageChain(h) = IF h = n + LOWLEVEL_COUNT - 1 THEN 0 ELSE h + 1
      BY <2>1, HandlesOfPage
    <3>3. \A h \in n + 1 .. n + LOWLEVEL_COUNT - 1 : h # n + LOWLEVEL_COUNT - 1 => h + 1 \in n + 1 .. n + LOWLEVEL_COUNT - 1
      BY <3>1, HandleFreeAssumptions
    <3> HIDE DEF n
    <3> QED BY <1>b, <3>1, <3>2, <3>3
  <2>3. NextFreeTableEntry' = [h \in Indexes |-> IF h \in S THEN PageChain(h) ELSE NextFreeTableEntry[h]]
    BY <1>21 DEF Grow
  <2> HIDE DEF S
  <2>4. NextFreeTableEntry' \in [Indexes -> Indexes \cup {GrantedAccess}]
    BY <1>a, <2>2, <2>3
  <2> QED BY <1>21, <1>a, <2>4 DEF Grow, Goto, locals, moving, lists, table
<1>22. CASE GrowFails(t)
  BY <1>22, <1>a, <1>b, <1>c DEF GrowFails, Goto, locals, moving, lists, table
<1>23. CASE GrowLink(t)
  BY <1>23, <1>a, <1>b, <1>c DEF GrowLink, Goto, locals, moving, lists, table
<1>24. CASE GrowCas(t)
  BY <1>24, <1>a, <1>b, <1>c DEF GrowCas, Goto, locals, moving, lists, table
<1>25. CASE UnlockGrown(t)
  BY <1>25, <1>a, <1>b, <1>c DEF UnlockGrown, Release, Goto, locals, moving, lists, table
<1>26. CASE AfterGrow(t)
  <2>1. CASE Return(t)
    BY <1>26, <1>a, <1>b, <2>1 DEF AfterGrow, Return, Goto, moving, lists, table
  <2>2. CASE ~Return(t)
    BY <1>26, <1>a, <1>b, <2>2 DEF AfterGrow, Goto, moving, lists, table
  <2> QED BY <2>1, <2>2
<1>27. CASE ChooseList(t)
  BY <1>27, <1>a, <1>b, <1>c DEF ChooseList, Goto, locals, moving, lists, table
<1>28. CASE Link(t)
  BY <1>28, <1>a, <1>b, <1>c DEF Link, Chosen, Goto, locals, moving, lists, table
<1>29. CASE Push(t)
  <2>1. CASE Return(t)
    BY <1>29, <1>a, <1>b, <2>1 DEF Push, Return, Goto, moving, lists, table
  <2>2. CASE ~Return(t)
    BY <1>29, <1>a, <1>b, <2>2 DEF Push, Goto, moving, lists, table
  <2> QED BY <2>1, <2>2
<1>30. ASSUME NEW h \in Indexes, Free(t, h)
      PROVE  FreeTypes'
  BY <1>30, <1>a, <1>b, <1>c DEF Free, Goto, locals, moving, lists, table
<1> QED BY <1>1, <1>2, <1>3, <1>4, <1>5, <1>6, <1>7, <1>8, <1>9, <1>10, <1>11, <1>12, <1>13, <1>14, <1>15,
     <1>16, <1>17, <1>18, <1>19, <1>20, <1>21, <1>22, <1>23, <1>24, <1>25, <1>26, <1>27, <1>28, <1>29,
     <1>30 DEF FreeStep, Begin, Continue

\* Every step leads to a step of one of the routines.
LEMMA FreeLabelsStep ==
    ASSUME FreeLabels, NEW t \in Threads, FreeStep(t)
    PROVE  FreeLabels'
<1> USE DEF FreeLabels
<1>0. ASSUME NEW label \in FreePCs, Goto(t, label)
      PROVE  FreeLabels'
  BY <1>0 DEF Goto
<1> DEFINE goes == \E label \in FreePCs : Goto(t, label)
<1> SUFFICES goes
  BY <1>0
<1>1. CASE Allocate(t)
  <2>1. \E label \in {"Allocate"} : Goto(t, label)
    BY <1>1 DEF Allocate
  <2> QED BY <2>1 DEF FreePCs, PopPCs, BarrierPCs, ExchangePCs, NewPagePCs, MovePCs, TablePCs, SinglePCs
<1>2. CASE ReadFirstFree(t)
  <2>1. \E label \in {"LockTable", "LockShared"} : Goto(t, label)
    BY <1>2 DEF ReadFirstFree
  <2> QED BY <2>1 DEF FreePCs, PopPCs, BarrierPCs, ExchangePCs, NewPagePCs, MovePCs, TablePCs, SinglePCs
<1>3. CASE LockShared(t)
  <2>1. \E label \in {"Verify"} : Goto(t, label)
    BY <1>3 DEF LockShared
  <2> QED BY <2>1 DEF FreePCs, PopPCs, BarrierPCs, ExchangePCs, NewPagePCs, MovePCs, TablePCs, SinglePCs
<1>4. CASE Verify(t)
  <2>1. \E label \in {"ReadNext", "UnlockRetry"} : Goto(t, label)
    BY <1>4 DEF Verify
  <2> QED BY <2>1 DEF FreePCs, PopPCs, BarrierPCs, ExchangePCs, NewPagePCs, MovePCs, TablePCs, SinglePCs
<1>5. CASE ReadNext(t)
  <2>1. \E label \in {"Pop"} : Goto(t, label)
    BY <1>5 DEF ReadNext
  <2> QED BY <2>1 DEF FreePCs, PopPCs, BarrierPCs, ExchangePCs, NewPagePCs, MovePCs, TablePCs, SinglePCs
<1>6. CASE Pop(t)
  <2>1. \E label \in {"UnlockPopped", "UnlockRetry"} : Goto(t, label)
    BY <1>6 DEF Pop
  <2> QED BY <2>1 DEF FreePCs, PopPCs, BarrierPCs, ExchangePCs, NewPagePCs, MovePCs, TablePCs, SinglePCs
<1>7. CASE UnlockRetry(t)
  <2>1. \E label \in {"Allocate"} : Goto(t, label)
    BY <1>7 DEF UnlockRetry
  <2> QED BY <2>1 DEF FreePCs, PopPCs, BarrierPCs, ExchangePCs, NewPagePCs, MovePCs, TablePCs, SinglePCs
<1>8. CASE UnlockPopped(t)
  <2>1. \E label \in {"Create"} : Goto(t, label)
    BY <1>8 DEF UnlockPopped
  <2> QED BY <2>1 DEF FreePCs, PopPCs, BarrierPCs, ExchangePCs, NewPagePCs, MovePCs, TablePCs, SinglePCs
<1>9. CASE CreateHandle(t)
  <2>1. \E label \in {"idle"} : Goto(t, label)
    BY <1>9 DEF CreateHandle, Return
  <2> QED BY <2>1 DEF FreePCs, PopPCs, BarrierPCs, ExchangePCs, NewPagePCs, MovePCs, TablePCs, SinglePCs
<1>10. CASE LockTable(t)
  <2>1. \E label \in {"CheckAgain"} : Goto(t, label)
    BY <1>10 DEF LockTable
  <2> QED BY <2>1 DEF FreePCs, PopPCs, BarrierPCs, ExchangePCs, NewPagePCs, MovePCs, TablePCs, SinglePCs
<1>11. CASE CheckAgain(t)
  <2>1. \E label \in {"Move", "UnlockTable"} : Goto(t, label)
    BY <1>11 DEF CheckAgain
  <2> QED BY <2>1 DEF FreePCs, PopPCs, BarrierPCs, ExchangePCs, NewPagePCs, MovePCs, TablePCs, SinglePCs
<1>12. CASE UnlockTable(t)
  <2>1. \E label \in {"LockShared"} : Goto(t, label)
    BY <1>12 DEF UnlockTable
  <2> QED BY <2>1 DEF FreePCs, PopPCs, BarrierPCs, ExchangePCs, NewPagePCs, MovePCs, TablePCs, SinglePCs
<1>13. CASE TakeLastFree(t)
  <2>1. \E label \in {"Grow", "Barrier"} : Goto(t, label)
    BY <1>13 DEF TakeLastFree
  <2> QED BY <2>1 DEF FreePCs, PopPCs, BarrierPCs, ExchangePCs, NewPagePCs, MovePCs, TablePCs, SinglePCs
<1>14. CASE BarrierLook(t)
  <2>1. \E label \in {"BarrierAcquire", "Barrier"} : Goto(t, label)
    BY <1>14 DEF BarrierLook, Passed
  <2> QED BY <2>1 DEF FreePCs, PopPCs, BarrierPCs, ExchangePCs, NewPagePCs, MovePCs, TablePCs, SinglePCs
<1>15. CASE BarrierAcquire(t)
  <2>1. \E label \in {"BarrierRelease"} : Goto(t, label)
    BY <1>15 DEF BarrierAcquire
  <2> QED BY <2>1 DEF FreePCs, PopPCs, BarrierPCs, ExchangePCs, NewPagePCs, MovePCs, TablePCs, SinglePCs
<1>16. CASE BarrierRelease(t)
  <2>1. \E label \in {"Barrier"} : Goto(t, label)
    BY <1>16 DEF BarrierRelease, Passed
  <2> QED BY <2>1 DEF FreePCs, PopPCs, BarrierPCs, ExchangePCs, NewPagePCs, MovePCs, TablePCs, SinglePCs
<1>17. CASE BarrierDone(t)
  <2>1. \E label \in {"UnlockTable", "Reverse"} : Goto(t, label)
    BY <1>17 DEF BarrierDone, BeginReverse
  <2> QED BY <2>1 DEF FreePCs, PopPCs, BarrierPCs, ExchangePCs, NewPagePCs, MovePCs, TablePCs, SinglePCs
<1>18. CASE Reverse(t)
  <2>1. \E label \in {"Exchange", "Reverse"} : Goto(t, label)
    BY <1>18 DEF Reverse
  <2> QED BY <2>1 DEF FreePCs, PopPCs, BarrierPCs, ExchangePCs, NewPagePCs, MovePCs, TablePCs, SinglePCs
<1>19. CASE ExchangeLink(t)
  <2>1. \E label \in {"ExchangeCas"} : Goto(t, label)
    BY <1>19 DEF ExchangeLink
  <2> QED BY <2>1 DEF FreePCs, PopPCs, BarrierPCs, ExchangePCs, NewPagePCs, MovePCs, TablePCs, SinglePCs
<1>20. CASE ExchangeCas(t)
  <2>1. \E label \in {"Grow", "UnlockTable", "Exchange"} : Goto(t, label)
    BY <1>20 DEF ExchangeCas
  <2> QED BY <2>1 DEF FreePCs, PopPCs, BarrierPCs, ExchangePCs, NewPagePCs, MovePCs, TablePCs, SinglePCs
<1>21. CASE Grow(t)
  <2>1. \E label \in {"GrowLink"} : Goto(t, label)
    BY <1>21 DEF Grow
  <2> QED BY <2>1 DEF FreePCs, PopPCs, BarrierPCs, ExchangePCs, NewPagePCs, MovePCs, TablePCs, SinglePCs
<1>22. CASE GrowFails(t)
  <2>1. \E label \in {"UnlockGrown"} : Goto(t, label)
    BY <1>22 DEF GrowFails
  <2> QED BY <2>1 DEF FreePCs, PopPCs, BarrierPCs, ExchangePCs, NewPagePCs, MovePCs, TablePCs, SinglePCs
<1>23. CASE GrowLink(t)
  <2>1. \E label \in {"GrowCas"} : Goto(t, label)
    BY <1>23 DEF GrowLink
  <2> QED BY <2>1 DEF FreePCs, PopPCs, BarrierPCs, ExchangePCs, NewPagePCs, MovePCs, TablePCs, SinglePCs
<1>24. CASE GrowCas(t)
  <2>1. \E label \in {"UnlockGrown", "GrowLink"} : Goto(t, label)
    BY <1>24 DEF GrowCas
  <2> QED BY <2>1 DEF FreePCs, PopPCs, BarrierPCs, ExchangePCs, NewPagePCs, MovePCs, TablePCs, SinglePCs
<1>25. CASE UnlockGrown(t)
  <2>1. \E label \in {"AfterGrow"} : Goto(t, label)
    BY <1>25 DEF UnlockGrown
  <2> QED BY <2>1 DEF FreePCs, PopPCs, BarrierPCs, ExchangePCs, NewPagePCs, MovePCs, TablePCs, SinglePCs
<1>26. CASE AfterGrow(t)
  <2>1. \E label \in {"idle", "LockTable", "LockShared"} : Goto(t, label)
    BY <1>26 DEF AfterGrow, Return
  <2> QED BY <2>1 DEF FreePCs, PopPCs, BarrierPCs, ExchangePCs, NewPagePCs, MovePCs, TablePCs, SinglePCs
<1>27. CASE ChooseList(t)
  <2>1. \E label \in {"LinkLast", "LinkFirst"} : Goto(t, label)
    BY <1>27 DEF ChooseList
  <2> QED BY <2>1 DEF FreePCs, PopPCs, BarrierPCs, ExchangePCs, NewPagePCs, MovePCs, TablePCs, SinglePCs
<1>28. CASE Link(t)
  <2>1. \E label \in {"PushFirst", "PushLast"} : Goto(t, label)
    BY <1>28 DEF Link
  <2> QED BY <2>1 DEF FreePCs, PopPCs, BarrierPCs, ExchangePCs, NewPagePCs, MovePCs, TablePCs, SinglePCs
<1>29. CASE Push(t)
  <2>1. \E label \in {"idle", "LinkFirst", "LinkLast"} : Goto(t, label)
    BY <1>29 DEF Push, Return
  <2> QED BY <2>1 DEF FreePCs, PopPCs, BarrierPCs, ExchangePCs, NewPagePCs, MovePCs, TablePCs, SinglePCs
<1>30. ASSUME NEW h \in Indexes, Free(t, h)
      PROVE  goes
  <2>1. \E label \in {"ChooseList"} : Goto(t, label)
    BY <1>30 DEF Free
  <2> QED BY <2>1 DEF FreePCs, PopPCs, BarrierPCs, ExchangePCs, NewPagePCs, MovePCs, TablePCs, SinglePCs
<1> QED BY <1>1, <1>2, <1>3, <1>4, <1>5, <1>6, <1>7, <1>8, <1>9, <1>10, <1>11, <1>12, <1>13, <1>14, <1>15,
     <1>16, <1>17, <1>18, <1>19, <1>20, <1>21, <1>22, <1>23, <1>24, <1>25, <1>26, <1>27, <1>28, <1>29,
     <1>30 DEF FreeStep, Begin, Continue

\* What a step does to the locks of its thread: a lock that it takes is free, or
\* nobody has it exclusively.
LEMMA LocksStep ==
    ASSUME FreeTypes, NEW t \in Threads, FreeStep(t)
    PROVE  \A i \in Locks :
              \/ HandleTableLock'[i][t] \in {HandleTableLock[i][t], "none"}
              \/ HandleTableLock'[i][t] = "S" /\ \A u \in Threads : HandleTableLock[i][u] # "X"
              \/ \A u \in Threads : HandleTableLock[i][u] = "none"
<1> DEFINE goal == \A i \in Locks :
              \/ HandleTableLock'[i][t] \in {HandleTableLock[i][t], "none"}
              \/ HandleTableLock'[i][t] = "S" /\ \A u \in Threads : HandleTableLock[i][u] # "X"
              \/ \A u \in Threads : HandleTableLock[i][u] = "none"
<1>a. HandleTableLock \in [Locks -> [Threads -> {"none", "S", "X"}]]
  BY DEF FreeTypes
<1>b. HandleTableLock' = HandleTableLock => goal
  OBVIOUS
<1>c. ASSUME NEW j, Release(t, j)
      PROVE  goal
  BY <1>a, <1>c DEF Release
<1>d. ASSUME NEW j, NEW mode \in {"S", "X"}, Acquire(t, j, mode)
      PROVE  goal
  BY <1>a, <1>d DEF Acquire
<1> HIDE DEF goal
<1>e. goal
  <2>1. CASE Allocate(t)
    BY <2>1, <1>b DEF Allocate
  <2>2. CASE ReadFirstFree(t)
    BY <2>2, <1>b DEF ReadFirstFree
  <2>3. CASE LockShared(t)
    BY <2>3, <1>d DEF LockShared
  <2>4. CASE Verify(t)
    BY <2>4, <1>b DEF Verify
  <2>5. CASE ReadNext(t)
    BY <2>5, <1>b DEF ReadNext
  <2>6. CASE Pop(t)
    BY <2>6, <1>b DEF Pop
  <2>7. CASE UnlockRetry(t)
    BY <2>7, <1>c DEF UnlockRetry
  <2>8. CASE UnlockPopped(t)
    BY <2>8, <1>c DEF UnlockPopped
  <2>9. CASE CreateHandle(t)
    BY <2>9, <1>b DEF CreateHandle
  <2>10. CASE LockTable(t)
    BY <2>10, <1>d DEF LockTable
  <2>11. CASE CheckAgain(t)
    BY <2>11, <1>b DEF CheckAgain
  <2>12. CASE UnlockTable(t)
    BY <2>12, <1>c DEF UnlockTable
  <2>13. CASE TakeLastFree(t)
    BY <2>13, <1>b DEF TakeLastFree
  <2>14. CASE BarrierLook(t)
    BY <2>14, <1>b DEF BarrierLook
  <2>15. CASE BarrierAcquire(t)
    BY <2>15, <1>d DEF BarrierAcquire
  <2>16. CASE BarrierRelease(t)
    BY <2>16, <1>c DEF BarrierRelease
  <2>17. CASE BarrierDone(t)
    BY <2>17, <1>b DEF BarrierDone
  <2>18. CASE Reverse(t)
    BY <2>18, <1>b DEF Reverse
  <2>19. CASE ExchangeLink(t)
    BY <2>19, <1>b DEF ExchangeLink
  <2>20. CASE ExchangeCas(t)
    BY <2>20, <1>b DEF ExchangeCas
  <2>21. CASE Grow(t)
    BY <2>21, <1>b DEF Grow
  <2>22. CASE GrowFails(t)
    BY <2>22, <1>b DEF GrowFails
  <2>23. CASE GrowLink(t)
    BY <2>23, <1>b DEF GrowLink
  <2>24. CASE GrowCas(t)
    BY <2>24, <1>b DEF GrowCas
  <2>25. CASE UnlockGrown(t)
    BY <2>25, <1>c DEF UnlockGrown
  <2>26. CASE AfterGrow(t)
    BY <2>26, <1>b DEF AfterGrow
  <2>27. CASE ChooseList(t)
    BY <2>27, <1>b DEF ChooseList
  <2>28. CASE Link(t)
    BY <2>28, <1>b DEF Link
  <2>29. CASE Push(t)
    BY <2>29, <1>b DEF Push
  <2>30. ASSUME NEW h \in Indexes, Free(t, h)
        PROVE  goal
    BY <2>30, <1>b DEF Free
  <2> QED BY <2>1, <2>2, <2>3, <2>4, <2>5, <2>6, <2>7, <2>8, <2>9, <2>10, <2>11, <2>12, <2>13, <2>14,
       <2>15, <2>16, <2>17, <2>18, <2>19, <2>20, <2>21, <2>22, <2>23, <2>24, <2>25, <2>26, <2>27, <2>28,
       <2>29, <2>30 DEF FreeStep, Begin, Continue
<1> QED BY <1>e DEF goal

\* A lock held exclusively is held by one thread.
LEMMA ExclusiveStep ==
    ASSUME FreeLabels, FreeTypes, Exclusive, NEW t \in Threads, FreeStep(t)
    PROVE  Exclusive'
<1>1. FreeOthers(t)
  BY FreeOthersStay
<1>2. \A i \in Locks :
         \/ HandleTableLock'[i][t] \in {HandleTableLock[i][t], "none"}
         \/ HandleTableLock'[i][t] = "S" /\ \A u \in Threads : HandleTableLock[i][u] # "X"
         \/ \A u \in Threads : HandleTableLock[i][u] = "none"
  BY LocksStep
<1> QED BY <1>1, <1>2 DEF Exclusive, FreeOthers

\* The threads that do not take the step.
LEMMA HoldingOthers ==
    ASSUME FreeTypes, NEW t, FreeOthers(t), NEW u \in Threads \ {t}, Holding(u)
    PROVE  Holding(u)'
<1>1. pc'[u] = pc[u] /\ Handle'[u] = Handle[u] /\ OldValue'[u] = OldValue[u] /\ Idx'[u] = Idx[u]
  BY DEF FreeOthers
<1>2. \A i \in Locks : HandleTableLock'[i][u] = HandleTableLock[i][u]
  BY DEF FreeOthers
<1>3. LockOf(Handle[u]) \in Locks /\ LockOf(Handle[u])' = LockOf(Handle[u])
  BY <1>1, LockOfType DEF FreeTypes, LockOf
<1>4. 0 \in Locks /\ Idx[u] \in Int
  BY HandleFreeAssumptions DEF Locks, FreeTypes
<1>5. Idx[u] >= 1 /\ Idx[u] < HANDLE_TABLE_LOCKS => Idx[u] \in Locks
  BY <1>4, HandleFreeAssumptions DEF Locks
<1>6. pc[u] = "BarrierRelease" => pc[u] \in BarrierPCs /\ pc[u] \in {"BarrierAcquire", "BarrierRelease"}
  BY DEF BarrierPCs
<1> QED BY <1>1, <1>2, <1>3, <1>4, <1>5, <1>6 DEF Holding

\* The thread in the move has an entry to move.
LEMMA MovesEntry ==
    ASSUME NEW p, GhostInv(p), NEW t \in Threads, pc[t] \in BarrierPCs \cup ExchangePCs
    PROVE  OldValue[t] # 0
BY DEF GhostInv, MoveInv, Moving, Segment

\* The thread that takes the step.
LEMMA HoldingSelf ==
    ASSUME FreeInv, NEW t \in Threads, FreeStep(t)
    PROVE  Holding(t)'
<1>0. PICK p \in [Indexes -> Places] : GhostInv(p)
  BY DEF FreeInv
<1>a. FreeTypes /\ FreeLabels /\ Holding(t)
  BY DEF FreeInv, HoldingInv
<1>b. HANDLE_TABLE_LOCKS \in Nat /\ HANDLE_TABLE_LOCKS >= 1 /\ 0 \in Locks /\ Idx[t] \in Int
  BY <1>a, HandleFreeAssumptions DEF Locks, FreeTypes
<1>c. pc[t] \in BarrierPCs \cup ExchangePCs => OldValue[t] # 0
  BY <1>0, MovesEntry
<1>d. Idx[t] >= 1 /\ Idx[t] < HANDLE_TABLE_LOCKS => Idx[t] \in Locks /\ Idx[t] # 0
  BY <1>b DEF Locks
<1>1. CASE Allocate(t)
  BY <1>1, <1>a, <1>b, <1>c DEF Allocate, Goto, locals, moving, lists, table, FreeTypes, FreeLabels,
       Holding, LockOf, PopPCs, BarrierPCs, ExchangePCs, NewPagePCs, MovePCs, TablePCs
<1>2. CASE ReadFirstFree(t)
  BY <1>2, <1>a, <1>b, <1>c DEF ReadFirstFree, Goto, locals, moving, lists, table, FreeTypes, FreeLabels,
       Holding, LockOf, PopPCs, BarrierPCs, ExchangePCs, NewPagePCs, MovePCs, TablePCs
<1>3. CASE LockShared(t)
  <2>1. LockOf(OldValue[t]) \in Locks
    BY <1>a, LockOfType DEF FreeTypes
  <2>2. pc'[t] = "Verify" /\ Handle'[t] = OldValue[t] /\ OldValue'[t] = OldValue[t] /\ OldValue[t] # 0
    BY <1>3, <1>a DEF LockShared, Goto, FreeTypes, FreeLabels, Holding
  <2>3. HandleTableLock'[LockOf(OldValue[t])][t] = "S"
    BY <1>3, <1>a, <2>1 DEF LockShared, Acquire, FreeTypes
  <2>4. LockOf(Handle[t])' = LockOf(OldValue[t])
    BY <2>2 DEF LockOf
  <2> QED BY <2>2, <2>3, <2>4 DEF Holding, PopPCs, BarrierPCs, ExchangePCs, NewPagePCs, MovePCs, TablePCs
<1>4. CASE Verify(t)
  BY <1>4, <1>a, <1>b, <1>c DEF Verify, Goto, locals, moving, lists, table, FreeTypes, FreeLabels, Holding,
       LockOf, PopPCs, BarrierPCs, ExchangePCs, NewPagePCs, MovePCs, TablePCs
<1>5. CASE ReadNext(t)
  BY <1>5, <1>a, <1>b, <1>c DEF ReadNext, Goto, locals, moving, lists, table, FreeTypes, FreeLabels,
       Holding, LockOf, PopPCs, BarrierPCs, ExchangePCs, NewPagePCs, MovePCs, TablePCs
<1>6. CASE Pop(t)
  BY <1>6, <1>a, <1>b, <1>c DEF Pop, Goto, locals, moving, lists, table, FreeTypes, FreeLabels, Holding,
       LockOf, PopPCs, BarrierPCs, ExchangePCs, NewPagePCs, MovePCs, TablePCs
<1>7. CASE UnlockRetry(t)
  <2>1. pc'[t] = "Allocate"
    BY <1>7, <1>a DEF UnlockRetry, Goto, FreeLabels
  <2> QED BY <1>7, <1>a, <2>1 DEF UnlockRetry, Holding, locals, PopPCs, BarrierPCs, ExchangePCs,
       NewPagePCs, MovePCs, TablePCs
<1>8. CASE UnlockPopped(t)
  <2>1. pc'[t] = "Create"
    BY <1>8, <1>a DEF UnlockPopped, Goto, FreeLabels
  <2> QED BY <1>8, <1>a, <2>1 DEF UnlockPopped, Holding, locals, PopPCs, BarrierPCs, ExchangePCs,
       NewPagePCs, MovePCs, TablePCs
<1>9. CASE CreateHandle(t)
  <2>1. pc'[t] = "idle"
    BY <1>9, <1>a DEF CreateHandle, Goto, FreeLabels, Return
  <2> QED BY <2>1 DEF Holding, PopPCs, BarrierPCs, ExchangePCs, NewPagePCs, MovePCs, TablePCs
<1>10. CASE LockTable(t)
  BY <1>10, <1>a, <1>b, <1>c DEF LockTable, Acquire, Goto, locals, moving, lists, table, FreeTypes,
       FreeLabels, Holding, LockOf, PopPCs, BarrierPCs, ExchangePCs, NewPagePCs, MovePCs, TablePCs
<1>11. CASE CheckAgain(t)
  BY <1>11, <1>a, <1>b, <1>c DEF CheckAgain, Goto, locals, moving, lists, table, FreeTypes, FreeLabels,
       Holding, LockOf, PopPCs, BarrierPCs, ExchangePCs, NewPagePCs, MovePCs, TablePCs
<1>12. CASE UnlockTable(t)
  <2>1. pc'[t] = "LockShared"
    BY <1>12, <1>a DEF UnlockTable, Goto, FreeLabels
  <2> QED BY <1>12, <1>a, <2>1 DEF UnlockTable, Holding, locals, PopPCs, BarrierPCs, ExchangePCs,
       NewPagePCs, MovePCs, TablePCs
<1>13. CASE TakeLastFree(t)
  BY <1>13, <1>a, <1>b, <1>c DEF TakeLastFree, Goto, locals, moving, lists, table, FreeTypes, FreeLabels,
       Holding, LockOf, PopPCs, BarrierPCs, ExchangePCs, NewPagePCs, MovePCs, TablePCs
<1>14. CASE BarrierLook(t)
  BY <1>14, <1>a, <1>b, <1>c DEF BarrierLook, Passed, Goto, locals, moving, lists, table, FreeTypes,
       FreeLabels, Holding, LockOf, PopPCs, BarrierPCs, ExchangePCs, NewPagePCs, MovePCs, TablePCs
<1>15. CASE BarrierAcquire(t)
  <2>1. Idx[t] \in Locks /\ Idx[t] # 0 /\ Idx[t] >= 1 /\ Idx[t] < HANDLE_TABLE_LOCKS /\ HandleTableLock[0][t] = "X"
    BY <1>15, <1>a, <1>d DEF BarrierAcquire, Holding, PopPCs, BarrierPCs, ExchangePCs, NewPagePCs, MovePCs,
         TablePCs
  <2>2. pc'[t] = "BarrierRelease" /\ Idx'[t] = Idx[t]
    BY <1>15, <1>a DEF BarrierAcquire, Goto, FreeLabels, locals, moving
  <2>3. HandleTableLock'[Idx[t]][t] = "X" /\ HandleTableLock'[0][t] = HandleTableLock[0][t]
    BY <1>15, <1>a, <1>b, <2>1 DEF BarrierAcquire, Acquire, FreeTypes
  <2> QED BY <2>1, <2>2, <2>3 DEF Holding, PopPCs, BarrierPCs, ExchangePCs, NewPagePCs, MovePCs, TablePCs
<1>16. CASE BarrierRelease(t)
  <2>1. Idx[t] \in Locks /\ Idx[t] # 0 /\ Idx[t] + 1 >= 1 /\ HandleTableLock[0][t] = "X"
    BY <1>16, <1>a, <1>b, <1>d DEF BarrierRelease, Holding, PopPCs, BarrierPCs, ExchangePCs, NewPagePCs,
         MovePCs, TablePCs
  <2>2. pc'[t] = "Barrier" /\ Idx'[t] = Idx[t] + 1
    BY <1>16, <1>a DEF BarrierRelease, Passed, Goto, FreeLabels, FreeTypes
  <2>3. HandleTableLock'[0][t] = HandleTableLock[0][t]
    BY <1>16, <1>a, <1>b, <2>1 DEF BarrierRelease, Release, FreeTypes
  <2> QED BY <2>1, <2>2, <2>3 DEF Holding, PopPCs, BarrierPCs, ExchangePCs, NewPagePCs, MovePCs, TablePCs
<1>17. CASE BarrierDone(t)
  BY <1>17, <1>a, <1>b, <1>c DEF BarrierDone, BeginReverse, Goto, locals, moving, lists, table, FreeTypes,
       FreeLabels, Holding, LockOf, PopPCs, BarrierPCs, ExchangePCs, NewPagePCs, MovePCs, TablePCs
<1>18. CASE Reverse(t)
  BY <1>18, <1>a, <1>b, <1>c DEF Reverse, Goto, locals, moving, lists, table, FreeTypes, FreeLabels,
       Holding, LockOf, PopPCs, BarrierPCs, ExchangePCs, NewPagePCs, MovePCs, TablePCs
<1>19. CASE ExchangeLink(t)
  BY <1>19, <1>a, <1>b, <1>c DEF ExchangeLink, Goto, locals, moving, lists, table, FreeTypes, FreeLabels,
       Holding, LockOf, PopPCs, BarrierPCs, ExchangePCs, NewPagePCs, MovePCs, TablePCs
<1>20. CASE ExchangeCas(t)
  BY <1>20, <1>a, <1>b, <1>c DEF ExchangeCas, Goto, locals, moving, lists, table, FreeTypes, FreeLabels,
       Holding, LockOf, PopPCs, BarrierPCs, ExchangePCs, NewPagePCs, MovePCs, TablePCs
<1>21. CASE Grow(t)
  BY <1>21, <1>a, <1>b, <1>c DEF Grow, Goto, locals, moving, lists, table, FreeTypes, FreeLabels, Holding,
       LockOf, PopPCs, BarrierPCs, ExchangePCs, NewPagePCs, MovePCs, TablePCs
<1>22. CASE GrowFails(t)
  BY <1>22, <1>a, <1>b, <1>c DEF GrowFails, Goto, locals, moving, lists, table, FreeTypes, FreeLabels,
       Holding, LockOf, PopPCs, BarrierPCs, ExchangePCs, NewPagePCs, MovePCs, TablePCs
<1>23. CASE GrowLink(t)
  BY <1>23, <1>a, <1>b, <1>c DEF GrowLink, Goto, locals, moving, lists, table, FreeTypes, FreeLabels,
       Holding, LockOf, PopPCs, BarrierPCs, ExchangePCs, NewPagePCs, MovePCs, TablePCs
<1>24. CASE GrowCas(t)
  BY <1>24, <1>a, <1>b, <1>c DEF GrowCas, Goto, locals, moving, lists, table, FreeTypes, FreeLabels,
       Holding, LockOf, PopPCs, BarrierPCs, ExchangePCs, NewPagePCs, MovePCs, TablePCs
<1>25. CASE UnlockGrown(t)
  <2>1. pc'[t] = "AfterGrow"
    BY <1>25, <1>a DEF UnlockGrown, Goto, FreeLabels
  <2> QED BY <1>25, <1>a, <2>1 DEF UnlockGrown, Holding, locals, PopPCs, BarrierPCs, ExchangePCs,
       NewPagePCs, MovePCs, TablePCs
<1>26. CASE AfterGrow(t)
  BY <1>26, <1>a, <1>b, <1>c DEF AfterGrow, Return, Goto, locals, moving, lists, table, FreeTypes,
       FreeLabels, Holding, LockOf, PopPCs, BarrierPCs, ExchangePCs, NewPagePCs, MovePCs, TablePCs
<1>27. CASE ChooseList(t)
  <2>1. pc'[t] \in {"LinkFirst", "LinkLast"}
    BY <1>27, <1>a DEF ChooseList, Goto, FreeLabels
  <2> QED BY <2>1 DEF Holding, PopPCs, BarrierPCs, ExchangePCs, NewPagePCs, MovePCs, TablePCs
<1>28. CASE Link(t)
  <2>1. pc'[t] \in {"PushFirst", "PushLast"}
    BY <1>28, <1>a DEF Link, Goto, FreeLabels
  <2> QED BY <2>1 DEF Holding, PopPCs, BarrierPCs, ExchangePCs, NewPagePCs, MovePCs, TablePCs
<1>29. CASE Push(t)
  <2>1. pc'[t] \in {"LinkFirst", "LinkLast", "idle"}
    BY <1>29, <1>a DEF Push, Goto, FreeLabels, Return
  <2> QED BY <2>1 DEF Holding, PopPCs, BarrierPCs, ExchangePCs, NewPagePCs, MovePCs, TablePCs
<1>30. ASSUME NEW h \in Indexes, Free(t, h)
      PROVE  Holding(t)'
  <2>1. pc'[t] = "ChooseList"
    BY <1>30, <1>a DEF Free, Goto, FreeLabels
  <2> QED BY <2>1 DEF Holding, PopPCs, BarrierPCs, ExchangePCs, NewPagePCs, MovePCs, TablePCs
<1> QED BY <1>1, <1>2, <1>3, <1>4, <1>5, <1>6, <1>7, <1>8, <1>9, <1>10, <1>11, <1>12, <1>13, <1>14, <1>15,
     <1>16, <1>17, <1>18, <1>19, <1>20, <1>21, <1>22, <1>23, <1>24, <1>25, <1>26, <1>27, <1>28, <1>29,
     <1>30 DEF FreeStep, Begin, Continue

\* What every thread holds, after a step of one of them.
LEMMA HoldingStep ==
    ASSUME FreeInv, NEW t \in Threads, FreeStep(t)
    PROVE  HoldingInv'
<1>1. FreeTypes /\ FreeLabels /\ Exclusive /\ \A u \in Threads : Holding(u)
  BY DEF FreeInv, HoldingInv
<1>2. Exclusive'
  BY <1>1, ExclusiveStep
<1>3. FreeOthers(t)
  BY <1>1, FreeOthersStay
<1>4. \A u \in Threads \ {t} : Holding(u)'
  BY <1>1, <1>3, HoldingOthers
<1>5. Holding(t)'
  BY HoldingSelf
<1> QED BY <1>2, <1>4, <1>5 DEF HoldingInv

\* The table grows by whole pages.
LEMMA PagesStep ==
    ASSUME FreeInv, NEW t \in Threads, FreeStep(t)
    PROVE  PagesInv'
<1>1. PagesInv
  BY DEF FreeInv
<1>2. CASE Grow(t)
  <2>1. PICK k \in Nat : k < MaxPages /\ NextHandleNeedingPool = k * LOWLEVEL_COUNT /\ k + 1 \in 1 .. MaxPages
    BY <1>1, <1>2, GrowthPage DEF Grow
  <2>2. NextHandleNeedingPool' = (k + 1) * LOWLEVEL_COUNT
    BY <1>2, <2>1, HandlesOfPage DEF Grow
  <2> QED BY <2>1, <2>2 DEF PagesInv
<1>3. CASE ~Grow(t)
  <2>1. NextHandleNeedingPool' = NextHandleNeedingPool
    BY <1>3 DEF FreeStep, Begin, Continue, Allocate, ReadFirstFree, LockShared, Verify, ReadNext, Pop,
         UnlockRetry, UnlockPopped, CreateHandle, LockTable, CheckAgain, UnlockTable, TakeLastFree,
         BarrierLook, BarrierAcquire, BarrierRelease, BarrierDone, Reverse, ExchangeLink, ExchangeCas,
         GrowFails, GrowLink, GrowCas, UnlockGrown, AfterGrow, ChooseList, Link, Push, Free, table
  <2> QED BY <1>1, <2>1 DEF PagesInv
<1> QED BY <1>2, <1>3

\* HandleCount counts the handles in use.
LEMMA CountStep ==
    ASSUME FreeInv, NEW t \in Threads, FreeStep(t)
    PROVE  CountInv'
<1>0. PICK p \in [Indexes -> Places] : GhostInv(p)
  BY DEF FreeInv
<1>1. IsFiniteSet(InUse) /\ HandleCount = Cardinality(InUse) /\ Cardinality(InUse) \in Nat
  BY FS_CardinalityType DEF FreeInv, CountInv
<1>2. CASE CreateHandle(t)
  <2>1. Handle[t] \notin InUse
    <3>1. Handle[t] \in Indexes
      BY DEF FreeInv, FreeTypes
    <3>2. p[Handle[t]] = "held"
      BY <1>0, <1>2 DEF CreateHandle, GhostInv, HeldInv, SinglePCs
    <3>3. InUse = {k \in Indexes : p[k] = "use"}
      BY <1>0 DEF GhostInv, ListsInv, Place
    <3> QED BY <3>2, <3>3
  <2>2. InUse' = InUse \cup {Handle[t]} /\ HandleCount' = HandleCount + 1
    BY <1>2 DEF CreateHandle
  <2>3. IsFiniteSet(InUse \cup {Handle[t]}) /\ Cardinality(InUse \cup {Handle[t]}) = Cardinality(InUse) + 1
    BY <1>1, <2>1, FS_AddElement
  <2> QED BY <1>1, <2>2, <2>3 DEF CountInv
<1>3. ASSUME NEW h \in Indexes, Free(t, h)
      PROVE  CountInv'
  <2>1. h \in InUse /\ InUse' = InUse \ {h} /\ HandleCount' = HandleCount - 1
    BY <1>3 DEF Free
  <2>2. IsFiniteSet(InUse \ {h}) /\ Cardinality(InUse \ {h}) = Cardinality(InUse) - 1
    BY <1>1, <2>1, FS_RemoveElement
  <2> QED BY <1>1, <2>1, <2>2 DEF CountInv
<1>4. CASE ~CreateHandle(t) /\ ~\E h \in Indexes : Free(t, h)
  <2>1. UNCHANGED <<InUse, HandleCount>>
    BY <1>4 DEF FreeStep, Begin, Continue, Allocate, ReadFirstFree, LockShared, Verify, ReadNext, Pop,
         UnlockRetry, UnlockPopped, LockTable, CheckAgain, UnlockTable, TakeLastFree, BarrierLook,
         BarrierAcquire, BarrierRelease, BarrierDone, Reverse, ExchangeLink, ExchangeCas, Grow, GrowFails,
         GrowLink, GrowCas, UnlockGrown, AfterGrow, ChooseList, Link, Push, table
  <2> QED BY <1>1, <2>1 DEF CountInv
<1> QED BY <1>2, <1>3, <1>4

(***************************************************************************)
(* What the parts of the invariant depend on.                              *)
(***************************************************************************)
\* One thread has the table lock.
LEMMA OneMover ==
    ASSUME HoldingInv, NEW t \in Threads, NEW u \in Threads, pc[t] \in TablePCs, pc[u] \in TablePCs
    PROVE  t = u
<1>1. 0 \in Locks
  BY HandleFreeAssumptions DEF Locks
<1>2. HandleTableLock[0][t] = "X" /\ HandleTableLock[0][u] = "X"
  BY DEF HoldingInv, Holding
<1> QED BY <1>1, <1>2 DEF HoldingInv, Exclusive

\* The table lock keeps the others out of the move and the growth.
LEMMA NoOtherMover ==
    ASSUME HoldingInv, NEW t \in Threads, pc[t] \in TablePCs, FreeOthers(t)
    PROVE  \A u \in Threads \ {t} : pc[u] \notin MovePCs /\ pc'[u] \notin MovePCs
<1> TAKE u \in Threads \ {t}
<1>1. pc[u] \notin TablePCs
  BY OneMover
<1>2. pc'[u] = pc[u]
  BY DEF FreeOthers
<1> QED BY <1>1, <1>2 DEF TablePCs

\* The lists depend on their heads and on the successors of their entries.
LEMMA ListsFrame ==
    ASSUME NEW p, ListsInv(p), UNCHANGED <<FirstFree, LastFree, InUse, NextHandleNeedingPool>>,
           \A h \in Indexes : p[h] \in {"first", "last"} => NextFreeTableEntry'[h] = NextFreeTableEntry[h]
    PROVE  ListsInv(p)'
<1>1. List(NextFreeTableEntry', Place(p, "first"), FirstFree')
  <2>1. \A h \in Place(p, "first") : NextFreeTableEntry'[h] = NextFreeTableEntry[h]
    BY DEF Place
  <2> QED BY <2>1, ListAgree DEF ListsInv
<1>2. List(NextFreeTableEntry', Place(p, "last"), LastFree')
  <2>1. \A h \in Place(p, "last") : NextFreeTableEntry'[h] = NextFreeTableEntry[h]
    BY DEF Place
  <2> QED BY <2>1, ListAgree DEF ListsInv
<1>3. /\ InUse' = Place(p, "use")
      /\ \A h \in Indexes : p[h] = "none" <=> h \notin HandlesBelow(NextHandleNeedingPool)'
  BY DEF ListsInv, HandlesBelow
<1> QED BY <1>1, <1>2, <1>3 DEF ListsInv, Place

\* Who has which entry in his hands depends on where the threads are.
LEMMA HeldFrame ==
    ASSUME NEW p, NEW q, HeldInv(p), FreeTypes, NEW t \in Threads, FreeOthers(t),
           pc'[t] \notin {"PushFirst", "PushLast"},
           pc'[t] \in SinglePCs <=> pc[t] \in SinglePCs,
           pc[t] \in SinglePCs => Handle'[t] = Handle[t],
           \A h \in Indexes : /\ q[h] = "held" <=> p[h] = "held"
                              /\ p[h] = "held" => NextFreeTableEntry'[h] = NextFreeTableEntry[h]
    PROVE  HeldInv(q)'
<1>1. \A u \in Threads : /\ pc'[u] \in SinglePCs <=> pc[u] \in SinglePCs
                         /\ pc[u] \in SinglePCs => Handle'[u] = Handle[u]
  BY DEF FreeOthers
<1>2. \A u \in Threads : Handle[u] \in Indexes
  BY DEF FreeTypes
<1>3. \A u \in Threads : pc'[u] \in SinglePCs => q[Handle'[u]] = "held"
  BY <1>1, <1>2 DEF HeldInv
<1>4. \A u, v \in Threads : pc'[u] \in SinglePCs /\ pc'[v] \in SinglePCs /\ Handle'[u] = Handle'[v] => u = v
  BY <1>1 DEF HeldInv
<1>5. \A h \in Indexes : q[h] = "held" => \E u \in Threads : pc'[u] \in SinglePCs /\ Handle'[u] = h
  BY <1>1 DEF HeldInv
<1>6. \A u \in Threads : pc'[u] \in {"PushFirst", "PushLast"} => NextFreeTableEntry'[Handle'[u]] = OldValue'[u]
  <2> TAKE u \in Threads
  <2> HAVE pc'[u] \in {"PushFirst", "PushLast"}
  <2>1. u # t
    OBVIOUS
  <2>2. pc[u] = pc'[u] /\ Handle'[u] = Handle[u] /\ OldValue'[u] = OldValue[u]
    BY <2>1 DEF FreeOthers
  <2>3. p[Handle[u]] = "held" /\ NextFreeTableEntry[Handle[u]] = OldValue[u]
    BY <2>2 DEF HeldInv, SinglePCs
  <2> QED BY <1>2, <2>2, <2>3
<1> QED BY <1>3, <1>4, <1>5, <1>6 DEF HeldInv

\* The chains of the move depend on the successors of their entries.
LEMMA MovingFrame ==
    ASSUME NEW p, NEW q, NEW u \in Threads, Moving(p, u),
           UNCHANGED <<pc[u], OldValue[u], NewValue[u], Index[u], OldIndex[u], NextHandleNeedingPool>>,
           Place(q, "rest") = Place(p, "rest"), Place(q, "done") = Place(p, "done"),
           \A h \in Indexes : p[h] \in {"rest", "done"} => NextFreeTableEntry'[h] = NextFreeTableEntry[h]
    PROVE  Moving(q, u)'
<1> DEFINE f == NextFreeTableEntry
<1> DEFINE g == NextFreeTableEntry'
<1>1. /\ \A h \in Place(p, "rest") : g[h] = f[h]
      /\ \A h \in Place(p, "done") : g[h] = f[h]
  BY DEF Place
<1>2. \A h : List(f, Place(p, "rest"), h) => List(g, Place(p, "rest"), h)
  BY <1>1, ListAgree
<1>3. \A h, l : Segment(f, Place(p, "done"), h, l) => Segment(g, Place(p, "done"), h, l) /\ g[l] = f[l]
  <2> TAKE h, l
  <2> HAVE Segment(f, Place(p, "done"), h, l)
  <2>1. \A k \in Place(p, "done") \ {l} : g[k] = f[k]
    BY <1>1
  <2>2. l \in Place(p, "done")
    BY DEF Segment
  <2> QED BY <1>1, <2>1, <2>2, SegmentAgree
<1>4. Place(q, "rest")' = Place(p, "rest") /\ Place(q, "done")' = Place(p, "done")
  BY DEF Place
<1>5. LastOfPage' = LastOfPage /\ HandlesBelow(NextHandleNeedingPool)' = HandlesBelow(NextHandleNeedingPool)
      /\ HandlesBelow(NextHandleNeedingPool - LOWLEVEL_COUNT)' = HandlesBelow(NextHandleNeedingPool - LOWLEVEL_COUNT)
  BY DEF LastOfPage, HandlesBelow
<1>6. CASE pc[u] \in BarrierPCs
  BY <1>2, <1>4, <1>6 DEF Moving, BarrierPCs, ExchangePCs, NewPagePCs
<1>7. CASE pc[u] = "Reverse"
  BY <1>2, <1>3, <1>4, <1>7 DEF Moving, BarrierPCs, ExchangePCs, NewPagePCs
<1>8. CASE pc[u] \in ExchangePCs
  BY <1>3, <1>4, <1>8 DEF Moving, BarrierPCs, ExchangePCs, NewPagePCs
<1>9. CASE pc[u] \in NewPagePCs
  BY <1>3, <1>4, <1>5, <1>9 DEF Moving, BarrierPCs, ExchangePCs, NewPagePCs
<1> QED BY <1>6, <1>7, <1>8, <1>9 DEF Moving

\* A step of a thread that does not move entries.
LEMMA MoveFrame ==
    ASSUME NEW p, NEW q, MoveInv(p), NEW t \in Threads, FreeOthers(t),
           pc[t] \notin MovePCs, pc'[t] \notin MovePCs,
           NextHandleNeedingPool' = NextHandleNeedingPool,
           \A h \in Indexes : /\ q[h] = "rest" <=> p[h] = "rest"
                              /\ q[h] = "done" <=> p[h] = "done"
                              /\ p[h] \in {"rest", "done"} => NextFreeTableEntry'[h] = NextFreeTableEntry[h]
    PROVE  MoveInv(q)'
<1>1. Place(q, "rest") = Place(p, "rest") /\ Place(q, "done") = Place(p, "done")
  BY DEF Place
<1>2. \A u \in Threads \ {t} : Moving(q, u)'
  <2> TAKE u \in Threads \ {t}
  <2>1. UNCHANGED <<pc[u], OldValue[u], NewValue[u], Index[u], OldIndex[u], NextHandleNeedingPool>>
    BY DEF FreeOthers
  <2>2. Moving(p, u)
    BY DEF MoveInv
  <2> QED BY <1>1, <2>1, <2>2, MovingFrame
<1>3. Moving(q, t)'
  BY DEF Moving, MovePCs
<1>4. \A h \in Indexes : q[h] \in {"rest", "done"} => \E u \in Threads : pc'[u] \in MovePCs
  BY DEF MoveInv, FreeOthers
<1> QED BY <1>2, <1>3, <1>4 DEF MoveInv

\* A step of the thread that does.
LEMMA MoverFrame ==
    ASSUME HoldingInv, NEW q, NEW t \in Threads, FreeOthers(t), pc[t] \in TablePCs,
           pc'[t] \in MovePCs \/ \A h \in Indexes : q[h] \notin {"rest", "done"},
           pc'[t] \in MovePCs => Moving(q, t)'
    PROVE  MoveInv(q)'
<1>1. \A u \in Threads \ {t} : pc'[u] \notin MovePCs
  BY NoOtherMover
<1>2. \A u \in Threads : pc'[u] \notin MovePCs => Moving(q, u)'
  BY DEF Moving, MovePCs
<1> QED BY <1>1, <1>2 DEF MoveInv

\* A pop by another thread.
LEMMA PopOthers ==
    ASSUME NEW p, NEW q, NEW t \in Threads, FreeOthers(t), NEW u \in Threads \ {t}, PopInv(p, u),
           pc[u] \in {"ReadNext", "Pop"} =>
              /\ q[Handle[u]] \notin {"none", "done"}
              /\ q[Handle[u]] = "first" => /\ p[Handle[u]] = "first"
                                           /\ NextFreeTableEntry'[Handle[u]] = NextFreeTableEntry[Handle[u]]
              /\ pc'[t] \in {"LinkFirst", "PushFirst"} => Handle'[t] # Handle[u]
              /\ q[Handle[u]] = "rest" =>
                    /\ pc'[t] \in MovePCs => pc'[t] \in BarrierPCs /\ Idx'[t] <= LockOf(Handle[u])
                    /\ p[Handle[u]] = "rest" \/ \A m \in Threads \ {t} : pc[m] \notin MovePCs
    PROVE  PopInv(q, u)'
<1>1. pc'[u] = pc[u] /\ Handle'[u] = Handle[u] /\ NewValue'[u] = NewValue[u]
  BY DEF FreeOthers
<1>2. \A m \in Threads \ {t} : pc'[m] = pc[m] /\ Handle'[m] = Handle[m] /\ Idx'[m] = Idx[m]
  BY DEF FreeOthers
<1> SUFFICES ASSUME pc[u] \in {"ReadNext", "Pop"} PROVE PopInv(q, u)'
  BY <1>1 DEF PopInv
<1>3. /\ p[Handle[u]] = "first" /\ pc[u] = "Pop" => NewValue[u] = NextFreeTableEntry[Handle[u]]
      /\ \A m \in Threads : pc[m] \in {"LinkFirst", "PushFirst"} => Handle[m] # Handle[u]
      /\ p[Handle[u]] = "rest" =>
            \A m \in Threads : pc[m] \in MovePCs => pc[m] \in BarrierPCs /\ Idx[m] <= LockOf(Handle[u])
  BY DEF PopInv
<1>4. q[Handle[u]] = "first" /\ pc[u] = "Pop" => NewValue'[u] = NextFreeTableEntry'[Handle[u]]
  BY <1>1, <1>3
<1>5. \A m \in Threads : pc'[m] \in {"LinkFirst", "PushFirst"} => Handle'[m] # Handle[u]
  BY <1>2, <1>3
<1>6. q[Handle[u]] = "rest" =>
         \A m \in Threads : pc'[m] \in MovePCs => pc'[m] \in BarrierPCs /\ Idx'[m] <= LockOf(Handle[u])
  BY <1>2, <1>3
<1>7. LockOf(Handle[u])' = LockOf(Handle[u])
  BY <1>1 DEF LockOf
<1> QED BY <1>1, <1>4, <1>5, <1>6, <1>7 DEF PopInv

\* A step in which no entry changes its place.
LEMMA GhostFrame ==
    ASSUME NEW p, GhostInv(p), FreeTypes, NEW t \in Threads, FreeOthers(t),
           UNCHANGED <<FirstFree, LastFree, NextFreeTableEntry, InUse, NextHandleNeedingPool>>,
           pc'[t] \notin {"PushFirst", "PushLast", "LinkFirst"}, PopInv(p, t)',
           pc'[t] \in SinglePCs <=> pc[t] \in SinglePCs,
           pc[t] \in SinglePCs => Handle'[t] = Handle[t],
           pc[t] \notin MovePCs, pc'[t] \notin MovePCs
    PROVE  GhostInv(p)'
<1>1. ListsInv(p)'
  BY ListsFrame DEF GhostInv
<1>2. HeldInv(p)'
  BY HeldFrame DEF GhostInv
<1>3. MoveInv(p)'
  BY MoveFrame DEF GhostInv
<1>4. \A u \in Threads \ {t} : PopInv(p, u)'
  <2> TAKE u \in Threads \ {t}
  <2>1. PopInv(p, u)
    BY DEF GhostInv
  <2>2. pc[u] \in {"ReadNext", "Pop"} => p[Handle[u]] \notin {"none", "done"}
    BY <2>1 DEF PopInv
  <2> QED BY <2>1, <2>2, PopOthers
<1> QED BY <1>1, <1>2, <1>3, <1>4 DEF GhostInv

\* All entries of one place come to another.
LEMMA PlaceAll ==
    ASSUME NEW p \in [Indexes -> Places], NEW x \in Places, NEW y \in Places, x # y, NEW q,
           q = [k \in Indexes |-> IF p[k] = x THEN y ELSE p[k]]
    PROVE  /\ q \in [Indexes -> Places]
           /\ \A k \in Indexes : q[k] = IF p[k] = x THEN y ELSE p[k]
           /\ Place(q, x) = {}
           /\ Place(q, y) = Place(p, x) \cup Place(p, y)
           /\ \A z : z # x /\ z # y => Place(q, z) = Place(p, z)
<1>1. q \in [Indexes -> Places] /\ \A k \in Indexes : q[k] = IF p[k] = x THEN y ELSE p[k]
  OBVIOUS
<1>2. Place(q, x) = {}
  BY <1>1 DEF Place
<1>3. Place(q, y) = Place(p, x) \cup Place(p, y)
  BY <1>1 DEF Place
<1>4. \A z : z # x /\ z # y => Place(q, z) = Place(p, z)
  BY <1>1 DEF Place
<1> QED BY <1>1, <1>2, <1>3, <1>4

\* A thread takes an entry into its hands.
LEMMA HeldEnter ==
    ASSUME NEW p \in [Indexes -> Places], HeldInv(p), FreeTypes, NEW t \in Threads, FreeOthers(t),
           pc[t] \notin SinglePCs, pc'[t] \in SinglePCs, pc'[t] \notin {"PushFirst", "PushLast"},
           NEW h \in Indexes, Handle'[t] = h, p[h] # "held",
           NextFreeTableEntry' = NextFreeTableEntry,
           NEW q, q = [p EXCEPT ![h] = "held"]
    PROVE  HeldInv(q)'
<1>1. \A u \in Threads \ {t} : pc'[u] = pc[u] /\ Handle'[u] = Handle[u] /\ OldValue'[u] = OldValue[u]
  BY DEF FreeOthers
<1>2. \A u \in Threads : Handle[u] \in Indexes
  BY DEF FreeTypes
<1>3. q[h] = "held" /\ \A k \in Indexes \ {h} : q[k] = p[k]
  OBVIOUS
<1>4. \A u \in Threads \ {t} : pc[u] \in SinglePCs => p[Handle[u]] = "held" /\ Handle[u] # h
  BY DEF HeldInv
<1>5. \A u \in Threads : pc'[u] \in SinglePCs => q[Handle'[u]] = "held"
  BY <1>1, <1>2, <1>3, <1>4
<1>6. \A u, v \in Threads : pc'[u] \in SinglePCs /\ pc'[v] \in SinglePCs /\ Handle'[u] = Handle'[v] => u = v
  BY <1>1, <1>4 DEF HeldInv
<1>7. \A k \in Indexes : q[k] = "held" => \E u \in Threads : pc'[u] \in SinglePCs /\ Handle'[u] = k
  <2> TAKE k \in Indexes
  <2> HAVE q[k] = "held"
  <2>1. CASE k = h
    BY <2>1
  <2>2. CASE k # h
    <3>1. PICK u \in Threads : pc[u] \in SinglePCs /\ Handle[u] = k
      BY <1>3, <2>2 DEF HeldInv
    <3> QED BY <1>1, <3>1
  <2> QED BY <2>1, <2>2
<1>8. \A u \in Threads : pc'[u] \in {"PushFirst", "PushLast"} => NextFreeTableEntry'[Handle'[u]] = OldValue'[u]
  BY <1>1 DEF HeldInv
<1> QED BY <1>5, <1>6, <1>7, <1>8 DEF HeldInv

\* A thread gives away the entry in its hands.
LEMMA HeldLeave ==
    ASSUME NEW p \in [Indexes -> Places], HeldInv(p), FreeTypes, NEW t \in Threads, FreeOthers(t),
           pc[t] \in SinglePCs, pc'[t] \notin SinglePCs,
           \A k \in Indexes : k # Handle[t] => NextFreeTableEntry'[k] = NextFreeTableEntry[k],
           NEW y \in Places, y # "held", NEW q, q = [p EXCEPT ![Handle[t]] = y]
    PROVE  HeldInv(q)'
<1>1. \A u \in Threads \ {t} : pc'[u] = pc[u] /\ Handle'[u] = Handle[u] /\ OldValue'[u] = OldValue[u]
  BY DEF FreeOthers
<1>2. \A u \in Threads : Handle[u] \in Indexes
  BY DEF FreeTypes
<1>3. q[Handle[t]] = y /\ \A k \in Indexes \ {Handle[t]} : q[k] = p[k]
  BY <1>2
<1>4. \A u \in Threads \ {t} : pc[u] \in SinglePCs => p[Handle[u]] = "held" /\ Handle[u] # Handle[t]
  BY DEF HeldInv
<1>5. \A u \in Threads : pc'[u] \in SinglePCs => q[Handle'[u]] = "held"
  BY <1>1, <1>2, <1>3, <1>4
<1>6. \A u, v \in Threads : pc'[u] \in SinglePCs /\ pc'[v] \in SinglePCs /\ Handle'[u] = Handle'[v] => u = v
  BY <1>1 DEF HeldInv
<1>7. \A k \in Indexes : q[k] = "held" => \E u \in Threads : pc'[u] \in SinglePCs /\ Handle'[u] = k
  <2> TAKE k \in Indexes
  <2> HAVE q[k] = "held"
  <2>1. k # Handle[t] /\ p[k] = "held"
    BY <1>3
  <2>2. PICK u \in Threads : pc[u] \in SinglePCs /\ Handle[u] = k
    BY <2>1 DEF HeldInv
  <2> QED BY <1>1, <2>1, <2>2
<1>8. \A u \in Threads : pc'[u] \in {"PushFirst", "PushLast"} => NextFreeTableEntry'[Handle'[u]] = OldValue'[u]
  <2> TAKE u \in Threads
  <2> HAVE pc'[u] \in {"PushFirst", "PushLast"}
  <2>1. u # t /\ pc[u] = pc'[u] /\ pc[u] \in SinglePCs
    BY <1>1 DEF SinglePCs
  <2>2. NextFreeTableEntry[Handle[u]] = OldValue[u]
    BY <2>1 DEF HeldInv
  <2> QED BY <1>1, <1>2, <1>4, <2>1, <2>2
<1> QED BY <1>5, <1>6, <1>7, <1>8 DEF HeldInv

(***************************************************************************)
(* The steps of an allocation.                                             *)
(***************************************************************************)
\* Steps in which no entry changes its place.
LEMMA QuietSteps ==
    ASSUME FreeLabels, FreeTypes, HoldingInv, PagesInv, NEW p \in [Indexes -> Places], GhostInv(p),
           NEW t \in Threads, FreeOthers(t),
           \/ Allocate(t) \/ ReadFirstFree(t) \/ LockTable(t) \/ CheckAgain(t) \/ UnlockTable(t) \/ LockShared(t)
           \/ UnlockRetry(t) \/ UnlockPopped(t) \/ GrowFails(t) \/ UnlockGrown(t) \/ AfterGrow(t)
    PROVE  GhostInv(p)'
<1> DEFINE quiet == /\ UNCHANGED <<FirstFree, LastFree, NextFreeTableEntry, InUse, NextHandleNeedingPool>>
                    /\ pc[t] \notin MovePCs /\ pc'[t] \notin MovePCs
                    /\ pc'[t] \notin {"PushFirst", "PushLast", "LinkFirst", "ReadNext", "Pop"}
                    /\ pc'[t] \in SinglePCs <=> pc[t] \in SinglePCs
                    /\ pc[t] \in SinglePCs => Handle'[t] = Handle[t]
<1>0. quiet => GhostInv(p)'
  <2> HAVE quiet
  <2>1. PopInv(p, t)'
    BY DEF PopInv
  <2> QED BY <2>1, GhostFrame
<1> SUFFICES quiet
  BY <1>0
<1>1. CASE Allocate(t)
  <2>1. pc[t] = "idle" /\ pc'[t] \in {"Allocate"} /\ UNCHANGED <<lists, table>>
    BY <1>1 DEF Allocate, Goto, FreeLabels
  <2> QED BY <2>1 DEF lists, table, SinglePCs, MovePCs, BarrierPCs, ExchangePCs, NewPagePCs
<1>2. CASE ReadFirstFree(t)
  <2>1. pc[t] = "Allocate" /\ pc'[t] \in {"LockTable", "LockShared"} /\ UNCHANGED <<lists, table>>
    BY <1>2 DEF ReadFirstFree, Goto, FreeLabels
  <2> QED BY <2>1 DEF lists, table, SinglePCs, MovePCs, BarrierPCs, ExchangePCs, NewPagePCs
<1>3. CASE LockTable(t)
  <2>1. pc[t] = "LockTable" /\ pc'[t] \in {"CheckAgain"} /\ UNCHANGED <<lists, table>>
    BY <1>3 DEF LockTable, Goto, FreeLabels
  <2> QED BY <2>1 DEF lists, table, SinglePCs, MovePCs, BarrierPCs, ExchangePCs, NewPagePCs
<1>4. CASE CheckAgain(t)
  <2>1. pc[t] = "CheckAgain" /\ pc'[t] \in {"Move", "UnlockTable"} /\ UNCHANGED <<lists, table>>
    BY <1>4 DEF CheckAgain, Goto, FreeLabels
  <2> QED BY <2>1 DEF lists, table, SinglePCs, MovePCs, BarrierPCs, ExchangePCs, NewPagePCs
<1>5. CASE UnlockTable(t)
  <2>1. pc[t] = "UnlockTable" /\ pc'[t] \in {"LockShared"} /\ UNCHANGED <<lists, table>>
    BY <1>5 DEF UnlockTable, Goto, FreeLabels
  <2> QED BY <2>1 DEF lists, table, SinglePCs, MovePCs, BarrierPCs, ExchangePCs, NewPagePCs
<1>6. CASE LockShared(t)
  <2>1. pc[t] = "LockShared" /\ pc'[t] \in {"Verify"} /\ UNCHANGED <<lists, table>>
    BY <1>6 DEF LockShared, Goto, FreeLabels
  <2> QED BY <2>1 DEF lists, table, SinglePCs, MovePCs, BarrierPCs, ExchangePCs, NewPagePCs
<1>7. CASE UnlockRetry(t)
  <2>1. pc[t] = "UnlockRetry" /\ pc'[t] \in {"Allocate"} /\ UNCHANGED <<lists, table>>
    BY <1>7 DEF UnlockRetry, Goto, FreeLabels
  <2> QED BY <2>1 DEF lists, table, SinglePCs, MovePCs, BarrierPCs, ExchangePCs, NewPagePCs
<1>8. CASE UnlockPopped(t)
  <2>1. pc[t] = "UnlockPopped" /\ pc'[t] \in {"Create"} /\ UNCHANGED <<lists, table>>
    BY <1>8 DEF UnlockPopped, Goto, FreeLabels
  <2>2. Handle'[t] = Handle[t]
    BY <1>8 DEF UnlockPopped, locals
  <2> QED BY <2>1, <2>2 DEF lists, table, SinglePCs, MovePCs, BarrierPCs, ExchangePCs, NewPagePCs
<1>9. CASE GrowFails(t)
  <2>1. pc[t] = "Grow" /\ pc'[t] \in {"UnlockGrown"} /\ UNCHANGED <<lists, table>>
    BY <1>9 DEF GrowFails, Goto, FreeLabels
  <2> QED BY <2>1 DEF lists, table, SinglePCs, MovePCs, BarrierPCs, ExchangePCs, NewPagePCs
<1>10. CASE UnlockGrown(t)
  <2>1. pc[t] = "UnlockGrown" /\ pc'[t] \in {"AfterGrow"} /\ UNCHANGED <<lists, table>>
    BY <1>10 DEF UnlockGrown, Goto, FreeLabels
  <2> QED BY <2>1 DEF lists, table, SinglePCs, MovePCs, BarrierPCs, ExchangePCs, NewPagePCs
<1>11. CASE AfterGrow(t)
  <2>1. pc[t] = "AfterGrow" /\ pc'[t] \in {"idle", "LockTable", "LockShared"} /\ UNCHANGED <<lists, table>>
    BY <1>11 DEF AfterGrow, Goto, FreeLabels, Return
  <2> QED BY <2>1 DEF lists, table, SinglePCs, MovePCs, BarrierPCs, ExchangePCs, NewPagePCs
<1> QED BY <1>1, <1>2, <1>3, <1>4, <1>5, <1>6, <1>7, <1>8, <1>9, <1>10, <1>11

\* Under the lock of the head, no free brings it back to FirstFree.
LEMMA VerifyGhost ==
    ASSUME FreeLabels, FreeTypes, HoldingInv, PagesInv, NEW p \in [Indexes -> Places], GhostInv(p),
           NEW t \in Threads, FreeOthers(t), Verify(t)
    PROVE  GhostInv(p)'
<1>1. pc[t] = "Verify" /\ pc'[t] \in {"ReadNext", "UnlockRetry"} /\ UNCHANGED <<lists, table, Handle>>
  BY DEF Verify, Goto, FreeLabels, locals
<1>2. pc'[t] = "ReadNext" => FirstFree = OldValue[t]
  BY DEF Verify, Goto, FreeLabels
<1>3. Handle[t] = OldValue[t] /\ OldValue[t] # 0 /\ Handle[t] \in Indexes
  BY <1>1 DEF HoldingInv, Holding, PopPCs, FreeTypes
<1>4. PopInv(p, t)'
  <2> SUFFICES ASSUME pc'[t] = "ReadNext" PROVE PopInv(p, t)'
    BY <1>1 DEF PopInv
  <2>1. p[Handle[t]] = "first"
    <3>1. List(NextFreeTableEntry, Place(p, "first"), Handle[t])
      BY <1>2, <1>3 DEF GhostInv, ListsInv
    <3>2. Handle[t] \in Place(p, "first")
      BY <1>3, <3>1, ListPop
    <3> QED BY <3>2 DEF Place
  <2>2. \A u \in Threads : pc'[u] \in {"LinkFirst", "PushFirst"} => Handle[u] # Handle[t]
    <3> TAKE u \in Threads
    <3> HAVE pc'[u] \in {"LinkFirst", "PushFirst"}
    <3>1. pc[u] = pc'[u]
      BY DEF FreeOthers
    <3>2. p[Handle[u]] = "held"
      BY <3>1 DEF GhostInv, HeldInv, SinglePCs
    <3> QED BY <2>1, <3>2
  <2> QED BY <1>1, <2>1, <2>2 DEF PopInv
<1>5. /\ UNCHANGED <<FirstFree, LastFree, NextFreeTableEntry, InUse, NextHandleNeedingPool>>
      /\ pc[t] \notin MovePCs /\ pc'[t] \notin MovePCs
      /\ pc'[t] \notin {"PushFirst", "PushLast", "LinkFirst"}
      /\ pc'[t] \notin SinglePCs /\ pc[t] \notin SinglePCs
  BY <1>1 DEF lists, table, SinglePCs, MovePCs, BarrierPCs, ExchangePCs, NewPagePCs
<1> QED BY <1>4, <1>5, GhostFrame

\* The successor that is read is the one that the list has.
LEMMA ReadNextGhost ==
    ASSUME FreeLabels, FreeTypes, HoldingInv, PagesInv, NEW p \in [Indexes -> Places], GhostInv(p),
           NEW t \in Threads, FreeOthers(t), ReadNext(t)
    PROVE  GhostInv(p)'
<1>1. /\ pc[t] = "ReadNext" /\ pc'[t] = "Pop" /\ UNCHANGED <<lists, table, Handle, Idx>>
      /\ NewValue'[t] = NextFreeTableEntry[Handle[t]]
  BY DEF ReadNext, Goto, FreeLabels, FreeTypes, moving
<1>2. PopInv(p, t)'
  <2>1. PopInv(p, t)
    BY DEF GhostInv
  <2>2. \A u \in Threads : u # t => pc'[u] = pc[u]
    BY DEF FreeOthers
  <2>3. LockOf(Handle[t])' = LockOf(Handle[t])
    BY <1>1 DEF LockOf
  <2>4. pc'[t] \notin {"LinkFirst", "PushFirst"} /\ pc'[t] \notin MovePCs
    BY <1>1 DEF SinglePCs, MovePCs, BarrierPCs, ExchangePCs, NewPagePCs
  <2> QED BY <1>1, <2>1, <2>2, <2>3, <2>4 DEF PopInv, lists
<1>3. /\ UNCHANGED <<FirstFree, LastFree, NextFreeTableEntry, InUse, NextHandleNeedingPool>>
      /\ pc[t] \notin MovePCs /\ pc'[t] \notin MovePCs
      /\ pc'[t] \notin {"PushFirst", "PushLast", "LinkFirst"}
      /\ pc'[t] \notin SinglePCs /\ pc[t] \notin SinglePCs
  BY <1>1 DEF lists, table, SinglePCs, MovePCs, BarrierPCs, ExchangePCs, NewPagePCs
<1> QED BY <1>2, <1>3, GhostFrame

\* A pop that succeeds brings the head into the hands of the thread.
LEMMA PopGhost ==
    ASSUME FreeLabels, FreeTypes, HoldingInv, PagesInv, NEW p \in [Indexes -> Places], GhostInv(p),
           NEW t \in Threads, FreeOthers(t), Pop(t)
    PROVE  \E q \in [Indexes -> Places] : GhostInv(q)'
<1>1. CASE FirstFree # OldValue[t]
  <2>1. pc[t] = "Pop" /\ pc'[t] = "UnlockRetry" /\ UNCHANGED <<lists, table>>
    BY <1>1 DEF Pop, Goto, FreeLabels, lists
  <2>2. /\ UNCHANGED <<FirstFree, LastFree, NextFreeTableEntry, InUse, NextHandleNeedingPool>>
        /\ pc[t] \notin MovePCs /\ pc'[t] \notin MovePCs
        /\ pc'[t] \notin {"PushFirst", "PushLast", "LinkFirst"}
        /\ pc'[t] \notin SinglePCs /\ pc[t] \notin SinglePCs
    BY <2>1 DEF lists, table, SinglePCs, MovePCs, BarrierPCs, ExchangePCs, NewPagePCs
  <2>3. PopInv(p, t)'
    BY <2>1 DEF PopInv
  <2> QED BY <2>2, <2>3, GhostFrame
<1>2. CASE FirstFree = OldValue[t]
  <2>0. PICK h \in Indexes, q \in [Indexes -> Places] : h = Handle[t] /\ q = [p EXCEPT ![h] = "held"]
    BY DEF FreeTypes, Places
  <2>1. /\ pc[t] = "Pop" /\ pc'[t] = "UnlockPopped" /\ FirstFree' = NewValue[t]
        /\ UNCHANGED <<LastFree, NextFreeTableEntry, InUse, NextHandleNeedingPool, Handle>>
    BY <1>2 DEF Pop, Goto, FreeLabels, table, locals
  <2>2. p[h] = "first" /\ h \in Indexes /\ List(NextFreeTableEntry, Place(p, "first") \ {h}, NewValue[t])
    BY <1>2, <2>0, <2>1, PopTakes
  <2>3. /\ q \in [Indexes -> Places]
        /\ q[h] = "held"
        /\ \A k \in Indexes \ {h} : q[k] = p[k]
        /\ Place(q, "first") = Place(p, "first") \ {h}
        /\ Place(q, "last") = Place(p, "last")
        /\ Place(q, "use") = Place(p, "use")
    <3>1. q \in [Indexes -> Places] /\ q[h] = "held" /\ \A k \in Indexes \ {h} : q[k] = p[k]
      BY <2>0 DEF Places
    <3>2. Place(q, "first") = Place(p, "first") \ {h}
      BY <2>2, <3>1 DEF Place
    <3>3. Place(q, "last") = Place(p, "last") /\ Place(q, "use") = Place(p, "use")
      BY <2>2, <3>1 DEF Place
    <3> QED BY <3>1, <3>2, <3>3
  <2>4. ListsInv(q)'
    <3>1. /\ List(NextFreeTableEntry', Place(q, "first"), FirstFree')
          /\ List(NextFreeTableEntry', Place(q, "last"), LastFree')
          /\ InUse' = Place(q, "use")
      BY <2>1, <2>2, <2>3 DEF GhostInv, ListsInv
    <3>2. \A k \in Indexes : q[k] = "none" <=> k \notin HandlesBelow(NextHandleNeedingPool)'
      BY <2>1, <2>2, <2>3 DEF GhostInv, ListsInv, HandlesBelow
    <3> QED BY <3>1, <3>2 DEF ListsInv, Place
  <2>5. HeldInv(q)'
    <3>1. pc[t] \notin SinglePCs /\ pc'[t] \in SinglePCs /\ pc'[t] \notin {"PushFirst", "PushLast"}
      BY <2>1 DEF SinglePCs
    <3> QED BY <2>0, <2>1, <2>2, <3>1, HeldEnter DEF GhostInv
  <2>6. MoveInv(q)'
    <3>1. pc[t] \notin MovePCs /\ pc'[t] \notin MovePCs
      BY <2>1 DEF SinglePCs, MovePCs, BarrierPCs, ExchangePCs, NewPagePCs
    <3>2. \A k \in Indexes : /\ q[k] = "rest" <=> p[k] = "rest"
                             /\ q[k] = "done" <=> p[k] = "done"
                             /\ p[k] \in {"rest", "done"} => NextFreeTableEntry'[k] = NextFreeTableEntry[k]
      <4> TAKE k \in Indexes
      <4>1. NextFreeTableEntry'[k] = NextFreeTableEntry[k]
        BY <2>1
      <4>2. CASE k = h
        BY <2>2, <2>3, <4>1, <4>2
      <4>3. CASE k # h
        BY <2>3, <4>1, <4>3
      <4> QED BY <4>2, <4>3
    <3>3. MoveInv(p) /\ NextHandleNeedingPool' = NextHandleNeedingPool
      BY <2>1 DEF GhostInv
    <3> QED BY <3>1, <3>2, <3>3, MoveFrame
  <2>7. \A u \in Threads : PopInv(q, u)'
    <3>1. PopInv(q, t)'
      BY <2>1 DEF PopInv
    <3>2. ASSUME NEW u \in Threads \ {t}
          PROVE  PopInv(q, u)'
      <4>1. PopInv(p, u) /\ Handle[u] \in Indexes
        BY DEF GhostInv, FreeTypes
      <4>2. pc'[t] \notin {"LinkFirst", "PushFirst"} /\ pc'[t] \notin MovePCs
        BY <2>1 DEF SinglePCs, MovePCs, BarrierPCs, ExchangePCs, NewPagePCs
      <4>3. pc[u] \in {"ReadNext", "Pop"} => p[Handle[u]] \notin {"none", "done"}
        BY <4>1 DEF PopInv
      <4> QED BY <2>1, <2>2, <2>3, <4>1, <4>2, <4>3, PopOthers
    <3> QED BY <3>1, <3>2
  <2> QED BY <2>3, <2>4, <2>5, <2>6, <2>7 DEF GhostInv
<1> QED BY <1>1, <1>2

\* The handle is in use.
LEMMA FillGhost ==
    ASSUME FreeLabels, FreeTypes, HoldingInv, PagesInv, NEW p \in [Indexes -> Places], GhostInv(p),
           NEW t \in Threads, FreeOthers(t), CreateHandle(t)
    PROVE  \E q \in [Indexes -> Places] : GhostInv(q)'
<1>0. PICK h \in Indexes, q \in [Indexes -> Places] : h = Handle[t] /\ q = [p EXCEPT ![h] = "use"]
  BY DEF FreeTypes, Places
<1>1. /\ pc[t] = "Create" /\ pc'[t] = "idle" /\ h \in Indexes
      /\ UNCHANGED <<FirstFree, LastFree, NextHandleNeedingPool>>
      /\ InUse' = InUse \cup {h}
  BY <1>0 DEF CreateHandle, Return, Goto, FreeLabels, FreeTypes
<1>2. \A k \in Indexes : k # h => NextFreeTableEntry'[k] = NextFreeTableEntry[k]
  BY <1>0 DEF CreateHandle, FreeTypes
<1>3. p[h] = "held"
  BY <1>0, <1>1 DEF GhostInv, HeldInv, SinglePCs
<1>4. /\ q \in [Indexes -> Places]
      /\ q[h] = "use"
      /\ \A k \in Indexes \ {h} : q[k] = p[k]
      /\ Place(q, "first") = Place(p, "first")
      /\ Place(q, "last") = Place(p, "last")
      /\ Place(q, "use") = Place(p, "use") \cup {h}
  <2>1. q \in [Indexes -> Places] /\ q[h] = "use" /\ \A k \in Indexes \ {h} : q[k] = p[k]
    BY <1>0 DEF Places
  <2>2. Place(q, "use") = Place(p, "use") \cup {h}
    BY <1>3, <2>1 DEF Place
  <2>3. Place(q, "first") = Place(p, "first") /\ Place(q, "last") = Place(p, "last")
    BY <1>3, <2>1 DEF Place
  <2> QED BY <2>1, <2>2, <2>3
<1>5. pc[t] \in SinglePCs /\ pc'[t] \notin SinglePCs /\ pc[t] \notin MovePCs /\ pc'[t] \notin MovePCs
  BY <1>1 DEF SinglePCs, MovePCs, BarrierPCs, ExchangePCs, NewPagePCs
<1>6. HeldInv(q)'
  BY <1>0, <1>2, <1>5, HeldLeave DEF GhostInv, Places
<1>7. ListsInv(q)'
  <2>1. \A k \in Place(p, "first") : NextFreeTableEntry'[k] = NextFreeTableEntry[k]
    BY <1>2, <1>3 DEF Place
  <2>2. \A k \in Place(p, "last") : NextFreeTableEntry'[k] = NextFreeTableEntry[k]
    BY <1>2, <1>3 DEF Place
  <2>3. List(NextFreeTableEntry', Place(p, "first"), FirstFree) /\ List(NextFreeTableEntry', Place(p, "last"), LastFree)
    BY <2>1, <2>2, ListAgree DEF GhostInv, ListsInv
  <2>4. \A k \in Indexes : q[k] = "none" <=> k \notin HandlesBelow(NextHandleNeedingPool)'
    BY <1>1, <1>3, <1>4 DEF GhostInv, ListsInv, HandlesBelow
  <2>5. InUse' = Place(q, "use")
    BY <1>1, <1>4 DEF GhostInv, ListsInv
  <2> QED BY <1>1, <1>4, <2>3, <2>4, <2>5 DEF ListsInv, Place
<1>8. MoveInv(q)'
  <2>1. \A k \in Indexes : /\ q[k] = "rest" <=> p[k] = "rest"
                           /\ q[k] = "done" <=> p[k] = "done"
                           /\ p[k] \in {"rest", "done"} => NextFreeTableEntry'[k] = NextFreeTableEntry[k]
    BY <1>2, <1>3, <1>4
  <2>2. MoveInv(p) /\ NextHandleNeedingPool' = NextHandleNeedingPool
    BY <1>1 DEF GhostInv
  <2> QED BY <1>5, <2>1, <2>2, MoveFrame
<1>9. \A u \in Threads : PopInv(q, u)'
  <2>1. PopInv(q, t)'
    BY <1>1 DEF PopInv
  <2>2. ASSUME NEW u \in Threads \ {t}
        PROVE  PopInv(q, u)'
    <3>1. PopInv(p, u) /\ Handle[u] \in Indexes
      BY DEF GhostInv, FreeTypes
    <3>2. pc[u] \in {"ReadNext", "Pop"} => p[Handle[u]] \notin {"none", "done"}
      BY <3>1 DEF PopInv
    <3>3. q[Handle[u]] = "first" => p[Handle[u]] = "first" /\ Handle[u] # h
      BY <1>3, <1>4, <3>1
    <3>4. q[Handle[u]] = p[Handle[u]] \/ q[Handle[u]] = "use"
      BY <1>4, <3>1
    <3>5. pc'[t] \notin {"LinkFirst", "PushFirst"}
      BY <1>1
    <3> QED BY <1>2, <1>5, <3>1, <3>2, <3>3, <3>4, <3>5, PopOthers
  <2> QED BY <2>1, <2>2
<1> QED BY <1>4, <1>6, <1>7, <1>8, <1>9 DEF GhostInv

(***************************************************************************)
(* The steps of a free.                                                    *)
(***************************************************************************)
\* The handle leaves use for the hands of the thread.
LEMMA FreeHandleGhost ==
    ASSUME FreeLabels, FreeTypes, HoldingInv, PagesInv, NEW p \in [Indexes -> Places], GhostInv(p),
           NEW t \in Threads, FreeOthers(t), NEW h \in Indexes, Free(t, h)
    PROVE  \E q \in [Indexes -> Places] : GhostInv(q)'
<1>0. PICK q : q = [p EXCEPT ![h] = "held"]
  OBVIOUS
<1>1. /\ pc[t] = "idle" /\ pc'[t] = "ChooseList" /\ Handle'[t] = h
      /\ UNCHANGED <<FirstFree, LastFree, NextFreeTableEntry, NextHandleNeedingPool>>
      /\ h \in InUse /\ InUse' = InUse \ {h}
  BY DEF Free, Goto, FreeLabels, FreeTypes, lists
<1>2. p[h] = "use"
  BY <1>1 DEF GhostInv, ListsInv, Place
<1>3. /\ q \in [Indexes -> Places]
      /\ q[h] = "held"
      /\ \A k \in Indexes \ {h} : q[k] = p[k]
      /\ Place(q, "first") = Place(p, "first")
      /\ Place(q, "last") = Place(p, "last")
      /\ Place(q, "use") = Place(p, "use") \ {h}
  <2>1. q \in [Indexes -> Places] /\ q[h] = "held" /\ \A k \in Indexes \ {h} : q[k] = p[k]
    BY <1>0 DEF Places
  <2>2. Place(q, "use") = Place(p, "use") \ {h}
    BY <1>2, <2>1 DEF Place
  <2>3. Place(q, "first") = Place(p, "first") /\ Place(q, "last") = Place(p, "last")
    BY <1>2, <2>1 DEF Place
  <2> QED BY <2>1, <2>2, <2>3
<1>4. /\ pc[t] \notin SinglePCs /\ pc'[t] \in SinglePCs /\ pc[t] \notin MovePCs /\ pc'[t] \notin MovePCs
      /\ pc'[t] \notin {"PushFirst", "PushLast"}
  BY <1>1 DEF SinglePCs, MovePCs, BarrierPCs, ExchangePCs, NewPagePCs
<1>5. HeldInv(q)'
  BY <1>0, <1>1, <1>2, <1>4, HeldEnter DEF GhostInv
<1>6. ListsInv(q)'
  <2>1. /\ List(NextFreeTableEntry', Place(q, "first"), FirstFree')
        /\ List(NextFreeTableEntry', Place(q, "last"), LastFree')
        /\ InUse' = Place(q, "use")
    BY <1>1, <1>3 DEF GhostInv, ListsInv
  <2>2. \A k \in Indexes : q[k] = "none" <=> k \notin HandlesBelow(NextHandleNeedingPool)'
    BY <1>1, <1>2, <1>3 DEF GhostInv, ListsInv, HandlesBelow
  <2> QED BY <2>1, <2>2 DEF ListsInv, Place
<1>7. MoveInv(q)'
  <2>1. \A k \in Indexes : /\ q[k] = "rest" <=> p[k] = "rest"
                           /\ q[k] = "done" <=> p[k] = "done"
                           /\ p[k] \in {"rest", "done"} => NextFreeTableEntry'[k] = NextFreeTableEntry[k]
    BY <1>1, <1>2, <1>3
  <2>2. MoveInv(p) /\ NextHandleNeedingPool' = NextHandleNeedingPool
    BY <1>1 DEF GhostInv
  <2> QED BY <1>4, <2>1, <2>2, MoveFrame
<1>8. \A u \in Threads : PopInv(q, u)'
  <2>1. PopInv(q, t)'
    BY <1>1 DEF PopInv
  <2>2. ASSUME NEW u \in Threads \ {t}
        PROVE  PopInv(q, u)'
    <3>1. PopInv(p, u) /\ Handle[u] \in Indexes
      BY DEF GhostInv, FreeTypes
    <3>2. pc[u] \in {"ReadNext", "Pop"} => p[Handle[u]] \notin {"none", "done"}
      BY <3>1 DEF PopInv
    <3>3. q[Handle[u]] = p[Handle[u]] \/ q[Handle[u]] = "held"
      BY <1>3, <3>1
    <3>4. pc'[t] \notin {"LinkFirst", "PushFirst"} /\ NextFreeTableEntry'[Handle[u]] = NextFreeTableEntry[Handle[u]]
      BY <1>1
    <3> QED BY <1>4, <3>1, <3>2, <3>3, <3>4, PopOthers
  <2> QED BY <2>1, <2>2
<1> QED BY <1>3, <1>5, <1>6, <1>7, <1>8 DEF GhostInv

\* The entry of a pop in progress goes to LastFree: its lock is held.
LEMMA ChooseListGhost ==
    ASSUME FreeLabels, FreeTypes, HoldingInv, PagesInv, NEW p \in [Indexes -> Places], GhostInv(p),
           NEW t \in Threads, FreeOthers(t), ChooseList(t)
    PROVE  GhostInv(p)'
<1>1. /\ pc[t] = "ChooseList" /\ pc'[t] \in {"LinkFirst", "LinkLast"} /\ Handle'[t] = Handle[t]
      /\ UNCHANGED <<FirstFree, LastFree, NextFreeTableEntry, InUse, NextHandleNeedingPool>>
  BY DEF ChooseList, Goto, FreeLabels, lists, table, locals
<1>2. pc'[t] = "LinkFirst" => ~Held(LockOf(Handle[t]))
  BY DEF ChooseList, Goto, FreeLabels
<1>3. /\ pc[t] \in SinglePCs /\ pc'[t] \in SinglePCs /\ pc[t] \notin MovePCs /\ pc'[t] \notin MovePCs
      /\ pc'[t] \notin {"PushFirst", "PushLast"}
  BY <1>1 DEF SinglePCs, MovePCs, BarrierPCs, ExchangePCs, NewPagePCs
<1>4. ListsInv(p)'
  BY <1>1, ListsFrame DEF GhostInv
<1>5. HeldInv(p)'
  <2>1. HeldInv(p)
    BY DEF GhostInv
  <2> QED BY <1>1, <1>3, <2>1, HeldFrame
<1>6. MoveInv(p)'
  <2>1. MoveInv(p) /\ NextHandleNeedingPool' = NextHandleNeedingPool
    BY <1>1 DEF GhostInv
  <2> QED BY <1>1, <1>3, <2>1, MoveFrame
<1>7. \A u \in Threads : PopInv(p, u)'
  <2>1. PopInv(p, t)'
    BY <1>1 DEF PopInv
  <2>2. ASSUME NEW u \in Threads \ {t}
        PROVE  PopInv(p, u)'
    <3>1. PopInv(p, u) /\ Handle[u] \in Indexes
      BY DEF GhostInv, FreeTypes
    <3>2. pc[u] \in {"ReadNext", "Pop"} => p[Handle[u]] \notin {"none", "done"}
      BY <3>1 DEF PopInv
    <3>3. pc[u] \in {"ReadNext", "Pop"} => HandleTableLock[LockOf(Handle[u])][u] = "S"
      BY DEF HoldingInv, Holding, PopPCs
    <3>4. pc[u] \in {"ReadNext", "Pop"} /\ pc'[t] \in {"LinkFirst", "PushFirst"} => Handle'[t] # Handle[u]
      BY <1>1, <1>2, <3>3 DEF Held
    <3>5. NextFreeTableEntry'[Handle[u]] = NextFreeTableEntry[Handle[u]]
      BY <1>1
    <3> QED BY <1>3, <3>1, <3>2, <3>4, <3>5, PopOthers
  <2> QED BY <2>1, <2>2
<1> QED BY <1>4, <1>5, <1>6, <1>7 DEF GhostInv

\* Only the entry in hand is linked.
LEMMA LinkGhost ==
    ASSUME FreeLabels, FreeTypes, HoldingInv, PagesInv, NEW p \in [Indexes -> Places], GhostInv(p),
           NEW t \in Threads, FreeOthers(t), Link(t)
    PROVE  GhostInv(p)'
<1>1. /\ pc[t] \in {"LinkFirst", "LinkLast"}
      /\ pc'[t] = IF pc[t] = "LinkFirst" THEN "PushFirst" ELSE "PushLast"
      /\ Handle'[t] = Handle[t] /\ Handle[t] \in Indexes
      /\ UNCHANGED <<FirstFree, LastFree, InUse, NextHandleNeedingPool>>
  BY DEF Link, Goto, FreeLabels, table, FreeTypes
<1>2. /\ NextFreeTableEntry'[Handle[t]] = OldValue'[t]
      /\ \A k \in Indexes : k # Handle[t] => NextFreeTableEntry'[k] = NextFreeTableEntry[k]
  BY DEF Link, FreeTypes
<1>3. pc[t] \in SinglePCs /\ pc'[t] \in SinglePCs /\ pc[t] \notin MovePCs /\ pc'[t] \notin MovePCs
  BY <1>1 DEF SinglePCs, MovePCs, BarrierPCs, ExchangePCs, NewPagePCs
<1>4. p[Handle[t]] = "held" /\ \A k \in Indexes : p[k] # "held" => NextFreeTableEntry'[k] = NextFreeTableEntry[k]
  BY <1>2, <1>3 DEF GhostInv, HeldInv
<1>5. ListsInv(p)'
  BY <1>1, <1>4, ListsFrame DEF GhostInv
<1>6. HeldInv(p)'
  <2>1. HeldInv(p)
    BY DEF GhostInv
  <2>2. \A u \in Threads \ {t} : pc'[u] = pc[u] /\ Handle'[u] = Handle[u] /\ OldValue'[u] = OldValue[u]
    BY DEF FreeOthers
  <2>3. \A u \in Threads : Handle[u] \in Indexes
    BY DEF FreeTypes
  <2>4. \A u \in Threads : pc'[u] \in SinglePCs => p[Handle'[u]] = "held"
    BY <1>1, <1>4, <2>1, <2>2 DEF HeldInv
  <2>5. \A u, v \in Threads : pc'[u] \in SinglePCs /\ pc'[v] \in SinglePCs /\ Handle'[u] = Handle'[v] => u = v
    BY <1>1, <1>3, <2>1, <2>2 DEF HeldInv
  <2>6. \A k \in Indexes : p[k] = "held" => \E u \in Threads : pc'[u] \in SinglePCs /\ Handle'[u] = k
    BY <1>1, <1>3, <2>1, <2>2 DEF HeldInv
  <2>7. \A u \in Threads : pc'[u] \in {"PushFirst", "PushLast"} => NextFreeTableEntry'[Handle'[u]] = OldValue'[u]
    <3> TAKE u \in Threads
    <3> HAVE pc'[u] \in {"PushFirst", "PushLast"}
    <3>1. CASE u = t
      BY <1>1, <1>2, <3>1
    <3>2. CASE u # t
      <4>1. pc[u] \in {"PushFirst", "PushLast"} /\ pc[u] \in SinglePCs
        BY <2>2, <3>2 DEF SinglePCs
      <4>2. Handle[u] # Handle[t] /\ NextFreeTableEntry[Handle[u]] = OldValue[u]
        BY <1>3, <2>1, <3>2, <4>1 DEF HeldInv
      <4> QED BY <1>2, <2>2, <2>3, <3>2, <4>2
    <3> QED BY <3>1, <3>2
  <2> QED BY <2>4, <2>5, <2>6, <2>7 DEF HeldInv
<1>7. MoveInv(p)'
  <2>1. MoveInv(p) /\ NextHandleNeedingPool' = NextHandleNeedingPool
    BY <1>1 DEF GhostInv
  <2>2. \A k \in Indexes : p[k] \in {"rest", "done"} => NextFreeTableEntry'[k] = NextFreeTableEntry[k]
    BY <1>4
  <2> QED BY <1>3, <2>1, <2>2, MoveFrame
<1>8. \A u \in Threads : PopInv(p, u)'
  <2>1. PopInv(p, t)'
    BY <1>1 DEF PopInv
  <2>2. ASSUME NEW u \in Threads \ {t}
        PROVE  PopInv(p, u)'
    <3>1. PopInv(p, u) /\ Handle[u] \in Indexes
      BY DEF GhostInv, FreeTypes
    <3>2. pc[u] \in {"ReadNext", "Pop"} => p[Handle[u]] \notin {"none", "done"}
      BY <3>1 DEF PopInv
    <3>3. pc[u] \in {"ReadNext", "Pop"} /\ pc'[t] \in {"LinkFirst", "PushFirst"} => Handle'[t] # Handle[u]
      BY <1>1, <3>1 DEF PopInv
    <3>4. p[Handle[u]] = "first" => NextFreeTableEntry'[Handle[u]] = NextFreeTableEntry[Handle[u]]
      BY <1>4, <3>1
    <3> QED BY <1>3, <3>1, <3>2, <3>3, <3>4, PopOthers
  <2> QED BY <2>1, <2>2
<1> QED BY <1>5, <1>6, <1>7, <1>8 DEF GhostInv

\* An exchange that fails: the entry is linked again.
LEMMA PushFailsGhost ==
    ASSUME FreeLabels, FreeTypes, HoldingInv, PagesInv, NEW p \in [Indexes -> Places], GhostInv(p),
           NEW t \in Threads, FreeOthers(t), Push(t), Chosen(t) # OldValue[t]
    PROVE  GhostInv(p)'
<1>1. /\ pc[t] \in {"PushFirst", "PushLast"}
      /\ pc'[t] = IF pc[t] = "PushFirst" THEN "LinkFirst" ELSE "LinkLast"
      /\ Handle'[t] = Handle[t] /\ Handle[t] \in Indexes
      /\ UNCHANGED <<FirstFree, LastFree, NextFreeTableEntry, InUse, NextHandleNeedingPool>>
  BY DEF Push, Goto, FreeLabels, table, FreeTypes
<1>2. /\ pc[t] \in SinglePCs /\ pc'[t] \in SinglePCs /\ pc[t] \notin MovePCs /\ pc'[t] \notin MovePCs
      /\ pc'[t] \notin {"PushFirst", "PushLast"}
  BY <1>1 DEF SinglePCs, MovePCs, BarrierPCs, ExchangePCs, NewPagePCs
<1>3. ListsInv(p)'
  BY <1>1, ListsFrame DEF GhostInv
<1>4. HeldInv(p)'
  <2>1. HeldInv(p)
    BY DEF GhostInv
  <2> QED BY <1>1, <1>2, <2>1, HeldFrame
<1>5. MoveInv(p)'
  <2>1. MoveInv(p) /\ NextHandleNeedingPool' = NextHandleNeedingPool
    BY <1>1 DEF GhostInv
  <2> QED BY <1>1, <1>2, <2>1, MoveFrame
<1>6. \A u \in Threads : PopInv(p, u)'
  <2>1. PopInv(p, t)'
    BY <1>1 DEF PopInv
  <2>2. ASSUME NEW u \in Threads \ {t}
        PROVE  PopInv(p, u)'
    <3>1. PopInv(p, u)
      BY DEF GhostInv
    <3>2. pc[u] \in {"ReadNext", "Pop"} => p[Handle[u]] \notin {"none", "done"}
      BY <3>1 DEF PopInv
    <3>3. pc[u] \in {"ReadNext", "Pop"} /\ pc'[t] \in {"LinkFirst", "PushFirst"} => Handle'[t] # Handle[u]
      BY <1>1, <3>1 DEF PopInv
    <3>4. NextFreeTableEntry'[Handle[u]] = NextFreeTableEntry[Handle[u]]
      BY <1>1
    <3> QED BY <1>2, <3>1, <3>2, <3>3, <3>4, PopOthers
  <2> QED BY <2>1, <2>2
<1> QED BY <1>3, <1>4, <1>5, <1>6 DEF GhostInv

\* The entry becomes the head of the list chosen.
LEMMA PushGhost ==
    ASSUME FreeLabels, FreeTypes, HoldingInv, PagesInv, NEW p \in [Indexes -> Places], GhostInv(p),
           NEW t \in Threads, FreeOthers(t), Push(t), Chosen(t) = OldValue[t]
    PROVE  \E q \in [Indexes -> Places] : GhostInv(q)'
<1>0. PICK h \in Indexes, y \in {"first", "last"}, q \in [Indexes -> Places] :
         /\ h = Handle[t]
         /\ y = IF pc[t] = "PushFirst" THEN "first" ELSE "last"
         /\ q = [p EXCEPT ![h] = y]
  BY DEF FreeTypes, Places
<1>1. /\ pc[t] \in {"PushFirst", "PushLast"} /\ pc'[t] = "idle"
      /\ UNCHANGED <<NextFreeTableEntry, InUse, NextHandleNeedingPool>>
  BY DEF Push, Return, Goto, FreeLabels, table
<1>2. /\ pc[t] \in SinglePCs /\ pc'[t] \notin SinglePCs /\ pc[t] \notin MovePCs /\ pc'[t] \notin MovePCs
  BY <1>1 DEF SinglePCs, MovePCs, BarrierPCs, ExchangePCs, NewPagePCs
<1>3. p[h] = "held" /\ NextFreeTableEntry[h] = Chosen(t)
  BY <1>0, <1>1, <1>2 DEF GhostInv, HeldInv
<1>4. q \in [Indexes -> Places] /\ q[h] = y /\ \A k \in Indexes \ {h} : q[k] = p[k]
  BY <1>0 DEF Places
<1>5. h # 0
  <2>1. 0 \in Indexes /\ 0 \notin HandlesBelow(NextHandleNeedingPool)
    BY HandleFreeAssumptions, IndexesNat DEF HandlesBelow
  <2> QED BY <1>3, <2>1 DEF GhostInv, ListsInv
<1>6. ListsInv(q)'
  <2>1. \A k \in Indexes : q[k] = "none" <=> k \notin HandlesBelow(NextHandleNeedingPool)'
    BY <1>1, <1>3, <1>4 DEF GhostInv, ListsInv, HandlesBelow
  <2>2. Place(q, "use") = Place(p, "use")
    BY <1>3, <1>4 DEF Place
  <2>3. CASE pc[t] = "PushFirst"
    <3>1. /\ FirstFree' = h /\ LastFree' = LastFree /\ NextFreeTableEntry[h] = FirstFree
      BY <1>0, <1>3, <2>3 DEF Push, Chosen
    <3>2. y = "first"
      BY <1>0, <2>3
    <3>3. Place(q, "first") = Place(p, "first") \cup {h}
      BY <1>4, <3>2 DEF Place
    <3>4. Place(q, "last") = Place(p, "last")
      BY <1>3, <1>4, <3>2 DEF Place
    <3>5. h \notin Place(p, "first")
      BY <1>3 DEF Place
    <3>6. List(NextFreeTableEntry, Place(p, "first") \cup {h}, h)
      BY <1>5, <3>1, <3>5, ListPush DEF GhostInv, ListsInv
    <3> QED BY <1>1, <2>1, <2>2, <3>1, <3>3, <3>4, <3>6 DEF GhostInv, ListsInv, Place
  <2>4. CASE pc[t] = "PushLast"
    <3>1. /\ FirstFree' = FirstFree /\ LastFree' = h /\ NextFreeTableEntry[h] = LastFree
      BY <1>0, <1>3, <2>4 DEF Push, Chosen
    <3>2. y = "last"
      BY <1>0, <2>4
    <3>3. Place(q, "last") = Place(p, "last") \cup {h}
      BY <1>4, <3>2 DEF Place
    <3>4. Place(q, "first") = Place(p, "first")
      BY <1>3, <1>4, <3>2 DEF Place
    <3>5. h \notin Place(p, "last")
      BY <1>3 DEF Place
    <3>6. List(NextFreeTableEntry, Place(p, "last") \cup {h}, h)
      BY <1>5, <3>1, <3>5, ListPush DEF GhostInv, ListsInv
    <3> QED BY <1>1, <2>1, <2>2, <3>1, <3>3, <3>4, <3>6 DEF GhostInv, ListsInv, Place
  <2> QED BY <1>1, <2>3, <2>4
<1>7. HeldInv(q)'
  <2>1. HeldInv(p) /\ y \in Places /\ y # "held"
    BY <1>0 DEF GhostInv, Places
  <2> QED BY <1>0, <1>1, <1>2, <2>1, HeldLeave
<1>8. MoveInv(q)'
  <2>1. \A k \in Indexes : /\ q[k] = "rest" <=> p[k] = "rest"
                           /\ q[k] = "done" <=> p[k] = "done"
                           /\ p[k] \in {"rest", "done"} => NextFreeTableEntry'[k] = NextFreeTableEntry[k]
    BY <1>1, <1>3, <1>4
  <2>2. MoveInv(p) /\ NextHandleNeedingPool' = NextHandleNeedingPool
    BY <1>1 DEF GhostInv
  <2> QED BY <1>2, <2>1, <2>2, MoveFrame
<1>9. \A u \in Threads : PopInv(q, u)'
  <2>1. PopInv(q, t)'
    BY <1>1 DEF PopInv
  <2>2. ASSUME NEW u \in Threads \ {t}
        PROVE  PopInv(q, u)'
    <3>1. PopInv(p, u) /\ Handle[u] \in Indexes
      BY DEF GhostInv, FreeTypes
    <3>2. pc[u] \in {"ReadNext", "Pop"} => p[Handle[u]] \notin {"none", "done"}
      BY <3>1 DEF PopInv
    <3>3. pc[u] \in {"ReadNext", "Pop"} /\ pc[t] = "PushFirst" => Handle[u] # h
      BY <1>0, <3>1 DEF PopInv
    <3>4. pc[u] \in {"ReadNext", "Pop"} => q[Handle[u]] = p[Handle[u]] \/ q[Handle[u]] = "last"
      BY <1>0, <1>1, <1>4, <3>1, <3>3
    <3>5. pc'[t] \notin {"LinkFirst", "PushFirst"} /\ NextFreeTableEntry'[Handle[u]] = NextFreeTableEntry[Handle[u]]
      BY <1>1
    <3> QED BY <1>2, <3>1, <3>2, <3>4, <3>5, PopOthers
  <2> QED BY <2>1, <2>2
<1> QED BY <1>4, <1>6, <1>7, <1>8, <1>9 DEF GhostInv

(***************************************************************************)
(* The steps of the move.                                                  *)
(***************************************************************************)
\* A thread with the table lock that has nothing in hand: nobody has.
LEMMA NothingMoves ==
    ASSUME HoldingInv, NEW p, MoveInv(p), NEW t \in Threads, pc[t] \in TablePCs, pc[t] \notin MovePCs
    PROVE  /\ \A h \in Indexes : p[h] \notin {"rest", "done"}
           /\ Place(p, "rest") = {} /\ Place(p, "done") = {}
<1>1. \A u \in Threads : pc[u] \notin MovePCs
  BY OneMover DEF TablePCs
<1> QED BY <1>1 DEF MoveInv, Place

\* The lock of a pop is not one that another thread has exclusively.
LEMMA PopLock ==
    ASSUME FreeTypes, HoldingInv, NEW u \in Threads, pc[u] \in {"ReadNext", "Pop"}
    PROVE  /\ LockOf(Handle[u]) \in Locks
           /\ Held(LockOf(Handle[u]))
           /\ \A t \in Threads, i \in Locks : t # u /\ HandleTableLock[i][t] = "X" => LockOf(Handle[u]) # i
<1>1. HandleTableLock[LockOf(Handle[u])][u] = "S"
  BY DEF HoldingInv, Holding, PopPCs
<1>2. LockOf(Handle[u]) \in Locks
  BY LockOfType DEF FreeTypes
<1> QED BY <1>1, <1>2 DEF HoldingInv, Exclusive, Held

\* The handles in the hands of a thread do not change by a step of the move.
LEMMA MoverHolds ==
    ASSUME NEW p, NEW q, HeldInv(p), FreeTypes, NEW t \in Threads, FreeOthers(t),
           pc[t] \notin SinglePCs, pc'[t] \notin SinglePCs,
           \A h \in Indexes : /\ q[h] = "held" <=> p[h] = "held"
                              /\ p[h] = "held" => NextFreeTableEntry'[h] = NextFreeTableEntry[h]
    PROVE  HeldInv(q)'
<1>1. pc'[t] \notin {"PushFirst", "PushLast"}
  BY DEF SinglePCs
<1> QED BY <1>1, HeldFrame

\* LastFree becomes the chain to move. A pop in progress has one of the other locks.
LEMMA TakeLastFreeGhost ==
    ASSUME FreeLabels, FreeTypes, HoldingInv, PagesInv, NEW p \in [Indexes -> Places], GhostInv(p),
           NEW t \in Threads, FreeOthers(t), TakeLastFree(t)
    PROVE  \E q \in [Indexes -> Places] : GhostInv(q)'
<1>1. CASE LastFree = 0
  <2>1. pc[t] = "Move" /\ pc'[t] = "Grow" /\ UNCHANGED <<FirstFree, LastFree, NextFreeTableEntry, InUse, NextHandleNeedingPool>>
    BY <1>1 DEF TakeLastFree, Goto, FreeLabels, table
  <2>2. /\ pc[t] \notin MovePCs /\ pc'[t] \notin MovePCs
        /\ pc'[t] \notin {"PushFirst", "PushLast", "LinkFirst"}
        /\ pc'[t] \notin SinglePCs /\ pc[t] \notin SinglePCs
    BY <2>1 DEF SinglePCs, MovePCs, BarrierPCs, ExchangePCs, NewPagePCs
  <2>3. PopInv(p, t)'
    BY <2>1 DEF PopInv
  <2> QED BY <2>1, <2>2, <2>3, GhostFrame
<1>2. CASE LastFree # 0
  <2>0. PICK q : q = [k \in Indexes |-> IF p[k] = "last" THEN "rest" ELSE p[k]]
    OBVIOUS
  <2>1. /\ pc[t] = "Move" /\ pc'[t] = "Barrier" /\ LastFree' = 0 /\ OldValue'[t] = LastFree /\ Idx'[t] = 1
        /\ UNCHANGED <<FirstFree, NextFreeTableEntry, InUse, NextHandleNeedingPool>>
    BY <1>2 DEF TakeLastFree, Goto, FreeLabels, FreeTypes, table
  <2>2. /\ pc[t] \in TablePCs /\ pc[t] \notin MovePCs /\ pc'[t] \in BarrierPCs /\ pc'[t] \in MovePCs
        /\ pc'[t] \notin SinglePCs /\ pc[t] \notin SinglePCs
    BY <2>1 DEF TablePCs, SinglePCs, MovePCs, BarrierPCs, ExchangePCs, NewPagePCs
  <2>3. MoveInv(p) /\ HeldInv(p) /\ ListsInv(p)
    BY DEF GhostInv
  <2>4. Place(p, "rest") = {} /\ Place(p, "done") = {} /\ \A k \in Indexes : p[k] # "rest"
    BY <2>2, <2>3, NothingMoves
  <2>5. /\ q \in [Indexes -> Places]
        /\ \A k \in Indexes : q[k] = IF p[k] = "last" THEN "rest" ELSE p[k]
        /\ Place(q, "last") = {}
        /\ Place(q, "rest") = Place(p, "last") \cup Place(p, "rest")
        /\ \A z : z # "last" /\ z # "rest" => Place(q, z) = Place(p, z)
    <3>1. "last" \in Places /\ "rest" \in Places /\ "last" # "rest"
      BY DEF Places
    <3> QED BY <2>0, <3>1, PlaceAll
  <2>6. ListsInv(q)'
    <3>1. List(NextFreeTableEntry', Place(q, "first"), FirstFree')
      BY <2>1, <2>3, <2>5 DEF ListsInv
    <3>2. List(NextFreeTableEntry', Place(q, "last"), LastFree')
      BY <2>1, <2>5 DEF List
    <3>3. InUse' = Place(q, "use")
      BY <2>1, <2>3, <2>5 DEF ListsInv
    <3>4. \A k \in Indexes : q[k] = "none" <=> k \notin HandlesBelow(NextHandleNeedingPool)'
      BY <2>1, <2>3, <2>5 DEF ListsInv, HandlesBelow
    <3> QED BY <3>1, <3>2, <3>3, <3>4 DEF ListsInv, Place
  <2>7. HeldInv(q)'
    <3>1. \A k \in Indexes : /\ q[k] = "held" <=> p[k] = "held"
                             /\ p[k] = "held" => NextFreeTableEntry'[k] = NextFreeTableEntry[k]
      BY <2>1, <2>5
    <3> QED BY <2>2, <2>3, <3>1, MoverHolds
  <2>8. MoveInv(q)'
    <3>1. List(NextFreeTableEntry', Place(q, "rest"), OldValue'[t]) /\ Place(q, "done") = {} /\ OldValue'[t] # 0
      BY <1>2, <2>1, <2>3, <2>4, <2>5 DEF ListsInv
    <3>2. Moving(q, t)'
      BY <2>1, <3>1 DEF Moving, Place, BarrierPCs, ExchangePCs, NewPagePCs
    <3> QED BY <2>2, <3>2, MoverFrame
  <2>9. \A u \in Threads : PopInv(q, u)'
    <3>1. PopInv(q, t)'
      BY <2>1 DEF PopInv
    <3>2. ASSUME NEW u \in Threads \ {t}
          PROVE  PopInv(q, u)'
      <4>1. PopInv(p, u) /\ Handle[u] \in Indexes
        BY DEF GhostInv, FreeTypes
      <4>2. pc[u] \in {"ReadNext", "Pop"} => p[Handle[u]] \notin {"none", "done"}
        BY <4>1 DEF PopInv
      <4>3. pc[u] \in {"ReadNext", "Pop"} => Idx'[t] <= LockOf(Handle[u])
        <5> HAVE pc[u] \in {"ReadNext", "Pop"}
        <5>1. HandleTableLock[0][t] = "X" /\ 0 \in Locks
          BY <2>2, HandleFreeAssumptions DEF HoldingInv, Holding, Locks
        <5>2. LockOf(Handle[u]) \in Locks /\ LockOf(Handle[u]) # 0
          BY <5>1, PopLock
        <5> QED BY <2>1, <5>2, HandleFreeAssumptions DEF Locks
      <4>4. \A m \in Threads \ {t} : pc[m] \notin MovePCs
        BY <2>2, NoOtherMover
      <4>5. q[Handle[u]] = IF p[Handle[u]] = "last" THEN "rest" ELSE p[Handle[u]]
        BY <2>5, <4>1
      <4>6. pc'[t] \notin {"LinkFirst", "PushFirst"} /\ NextFreeTableEntry'[Handle[u]] = NextFreeTableEntry[Handle[u]]
        BY <2>1
      <4> QED BY <2>2, <4>1, <4>2, <4>3, <4>4, <4>5, <4>6, PopOthers
    <3> QED BY <3>1, <3>2
  <2> QED BY <2>5, <2>6, <2>7, <2>8, <2>9 DEF GhostInv
<1> QED BY <1>1, <1>2

\* Waiting for the pops: those that may have seen an entry of the chain hold a
\* lock that is still to come.
LEMMA BarrierGhost ==
    ASSUME FreeLabels, FreeTypes, HoldingInv, PagesInv, NEW p \in [Indexes -> Places], GhostInv(p),
           NEW t \in Threads, FreeOthers(t), BarrierLook(t) \/ BarrierAcquire(t) \/ BarrierRelease(t)
    PROVE  GhostInv(p)'
<1>1. /\ pc[t] \in BarrierPCs /\ pc'[t] \in BarrierPCs /\ OldValue'[t] = OldValue[t]
      /\ UNCHANGED <<FirstFree, LastFree, NextFreeTableEntry, InUse, NextHandleNeedingPool>>
  <2>1. CASE BarrierLook(t)
    BY <2>1 DEF BarrierLook, Passed, Goto, FreeLabels, BarrierPCs, lists, table
  <2>2. CASE BarrierAcquire(t)
    BY <2>2 DEF BarrierAcquire, Goto, FreeLabels, BarrierPCs, lists, table, locals
  <2>3. CASE BarrierRelease(t)
    BY <2>3 DEF BarrierRelease, Passed, Goto, FreeLabels, BarrierPCs, lists, table
  <2> QED BY <2>1, <2>2, <2>3
<1>2. \/ Idx'[t] = Idx[t]
      \/ /\ Idx'[t] = Idx[t] + 1
         /\ ~Held(Idx[t]) \/ (Idx[t] \in Locks /\ HandleTableLock[Idx[t]][t] = "X")
  <2>1. CASE BarrierLook(t)
    BY <2>1 DEF BarrierLook, Passed, FreeTypes
  <2>2. CASE BarrierAcquire(t)
    BY <2>2 DEF BarrierAcquire, locals, moving
  <2>3. CASE BarrierRelease(t)
    <3>1. Idx'[t] = Idx[t] + 1 /\ pc[t] = "BarrierRelease"
      BY <2>3 DEF BarrierRelease, Passed, FreeTypes
    <3>2. Idx[t] \in Int /\ Idx[t] >= 1 /\ Idx[t] < HANDLE_TABLE_LOCKS /\ HandleTableLock[Idx[t]][t] = "X"
      BY <3>1, HandleFreeAssumptions DEF HoldingInv, Holding, BarrierPCs, FreeTypes
    <3>3. Idx[t] \in Locks
      BY <3>2, HandleFreeAssumptions DEF Locks
    <3> QED BY <3>1, <3>2, <3>3
  <2> QED BY <2>1, <2>2, <2>3
<1>3. /\ pc[t] \in TablePCs /\ pc[t] \in MovePCs /\ pc'[t] \in MovePCs
      /\ pc'[t] \notin SinglePCs /\ pc[t] \notin SinglePCs
      /\ pc'[t] \notin {"LinkFirst", "PushFirst", "ReadNext", "Pop"}
  BY <1>1 DEF TablePCs, SinglePCs, MovePCs, BarrierPCs, ExchangePCs, NewPagePCs
<1>4. ListsInv(p)'
  BY <1>1, ListsFrame DEF GhostInv
<1>5. HeldInv(p)'
  <2>1. HeldInv(p)
    BY DEF GhostInv
  <2> QED BY <1>1, <1>3, <2>1, MoverHolds
<1>6. MoveInv(p)'
  <2>1. Moving(p, t)
    BY DEF GhostInv, MoveInv
  <2>2. Moving(p, t)'
    BY <1>1, <2>1 DEF Moving, Place, BarrierPCs, ExchangePCs, NewPagePCs
  <2> QED BY <1>3, <2>2, MoverFrame
<1>7. \A u \in Threads : PopInv(p, u)'
  <2>1. PopInv(p, t)'
    BY <1>3 DEF PopInv
  <2>2. ASSUME NEW u \in Threads \ {t}
        PROVE  PopInv(p, u)'
    <3>1. PopInv(p, u)
      BY DEF GhostInv
    <3>2. pc[u] \in {"ReadNext", "Pop"} => p[Handle[u]] \notin {"none", "done"}
      BY <3>1 DEF PopInv
    <3>3. pc[u] \in {"ReadNext", "Pop"} /\ p[Handle[u]] = "rest" => Idx'[t] <= LockOf(Handle[u])
      <4> HAVE pc[u] \in {"ReadNext", "Pop"} /\ p[Handle[u]] = "rest"
      <4>1. Idx[t] <= LockOf(Handle[u])
        BY <1>3, <3>1 DEF PopInv
      <4>2. LockOf(Handle[u]) \in Locks /\ Held(LockOf(Handle[u]))
        BY PopLock
      <4>3. Idx'[t] = Idx[t] + 1 => LockOf(Handle[u]) # Idx[t]
        <5>1. ~Held(Idx[t]) => LockOf(Handle[u]) # Idx[t]
          BY <4>2
        <5>2. Idx[t] \in Locks /\ HandleTableLock[Idx[t]][t] = "X" => LockOf(Handle[u]) # Idx[t]
          BY PopLock
        <5>3. Idx[t] \in Int
          BY HandleFreeAssumptions DEF FreeTypes
        <5> QED BY <1>2, <5>1, <5>2, <5>3
      <4>4. Idx[t] \in Int /\ LockOf(Handle[u]) \in Int
        BY <4>2, HandleFreeAssumptions DEF FreeTypes, Locks
      <4> QED BY <1>2, <4>1, <4>3, <4>4
    <3>4. NextFreeTableEntry'[Handle[u]] = NextFreeTableEntry[Handle[u]]
      BY <1>1
    <3> QED BY <1>1, <1>3, <3>1, <3>2, <3>3, <3>4, PopOthers
  <2> QED BY <2>1, <2>2
<1> QED BY <1>4, <1>5, <1>6, <1>7 DEF GhostInv

\* No pop is left that may have seen an entry of the chain.
LEMMA BarrierPassed ==
    ASSUME FreeTypes, HoldingInv, NEW p, GhostInv(p), NEW t \in Threads, pc[t] = "Barrier",
           Idx[t] = HANDLE_TABLE_LOCKS, NEW u \in Threads, pc[u] \in {"ReadNext", "Pop"}
    PROVE  p[Handle[u]] \notin {"none", "rest", "done"}
<1>1. PopInv(p, u)
  BY DEF GhostInv
<1>2. LockOf(Handle[u]) \in Locks
  BY PopLock
<1>3. ~(Idx[t] <= LockOf(Handle[u]))
  BY <1>2, HandleFreeAssumptions DEF Locks
<1>4. pc[t] \in MovePCs
  BY DEF MovePCs, BarrierPCs
<1> QED BY <1>1, <1>3, <1>4 DEF PopInv

\* The chain becomes FirstFree, or what is to be reversed.
LEMMA BarrierDoneGhost ==
    ASSUME FreeLabels, FreeTypes, HoldingInv, PagesInv, NEW p \in [Indexes -> Places], GhostInv(p),
           NEW t \in Threads, FreeOthers(t), BarrierDone(t)
    PROVE  \E q \in [Indexes -> Places] : GhostInv(q)'
<1>1. /\ pc[t] = "Barrier" /\ Idx[t] = HANDLE_TABLE_LOCKS /\ OldValue'[t] = OldValue[t]
      /\ UNCHANGED <<LastFree, NextFreeTableEntry, InUse, NextHandleNeedingPool>>
  BY DEF BarrierDone, table
<1>2. pc[t] \in TablePCs /\ pc[t] \in BarrierPCs /\ pc[t] \in MovePCs /\ pc[t] \notin SinglePCs
  BY <1>1 DEF TablePCs, SinglePCs, MovePCs, BarrierPCs, ExchangePCs, NewPagePCs
<1>3. MoveInv(p) /\ HeldInv(p) /\ ListsInv(p)
  BY DEF GhostInv
<1>4. OldValue[t] # 0 /\ List(NextFreeTableEntry, Place(p, "rest"), OldValue[t]) /\ Place(p, "done") = {}
  BY <1>2, <1>3 DEF MoveInv, Moving
<1>5. CASE ~StrictFIFO /\ FirstFree = 0
  <2>0. PICK q : q = [k \in Indexes |-> IF p[k] = "rest" THEN "first" ELSE p[k]]
    OBVIOUS
  <2>1. pc'[t] = "UnlockTable" /\ FirstFree' = OldValue[t]
    BY <1>5 DEF BarrierDone, Goto, FreeLabels
  <2>2. /\ pc'[t] \notin MovePCs /\ pc'[t] \notin SinglePCs
        /\ pc'[t] \notin {"LinkFirst", "PushFirst", "ReadNext", "Pop"}
    BY <2>1 DEF SinglePCs, MovePCs, BarrierPCs, ExchangePCs, NewPagePCs
  <2>3. /\ q \in [Indexes -> Places]
        /\ \A k \in Indexes : q[k] = IF p[k] = "rest" THEN "first" ELSE p[k]
        /\ Place(q, "rest") = {}
        /\ Place(q, "first") = Place(p, "rest") \cup Place(p, "first")
        /\ \A z : z # "rest" /\ z # "first" => Place(q, z) = Place(p, z)
    <3>1. "first" \in Places /\ "rest" \in Places /\ "first" # "rest"
      BY DEF Places
    <3> QED BY <2>0, <3>1, PlaceAll
  <2>4. ListsInv(q)'
    <3>1. Place(p, "first") = {}
      BY <1>3, <1>5, ListHead DEF ListsInv
    <3>2. List(NextFreeTableEntry', Place(q, "first"), FirstFree')
      BY <1>1, <1>4, <2>1, <2>3, <3>1
    <3>3. List(NextFreeTableEntry', Place(q, "last"), LastFree') /\ InUse' = Place(q, "use")
      BY <1>1, <1>3, <2>3 DEF ListsInv
    <3>4. \A k \in Indexes : q[k] = "none" <=> k \notin HandlesBelow(NextHandleNeedingPool)'
      BY <1>1, <1>3, <2>3 DEF ListsInv, HandlesBelow
    <3> QED BY <3>2, <3>3, <3>4 DEF ListsInv, Place
  <2>5. HeldInv(q)'
    <3>1. \A k \in Indexes : /\ q[k] = "held" <=> p[k] = "held"
                             /\ p[k] = "held" => NextFreeTableEntry'[k] = NextFreeTableEntry[k]
      BY <1>1, <2>3
    <3> QED BY <1>2, <1>3, <2>2, <3>1, MoverHolds
  <2>6. MoveInv(q)'
    <3>1. \A k \in Indexes : q[k] \notin {"rest", "done"}
      BY <1>4, <2>3 DEF Place
    <3> QED BY <1>2, <2>2, <3>1, MoverFrame
  <2>7. \A u \in Threads : PopInv(q, u)'
    <3>1. PopInv(q, t)'
      BY <2>2 DEF PopInv
    <3>2. ASSUME NEW u \in Threads \ {t}
          PROVE  PopInv(q, u)'
      <4>1. PopInv(p, u) /\ Handle[u] \in Indexes
        BY DEF GhostInv, FreeTypes
      <4>2. pc[u] \in {"ReadNext", "Pop"} => p[Handle[u]] \notin {"none", "rest", "done"}
        BY <1>1, BarrierPassed
      <4>3. pc[u] \in {"ReadNext", "Pop"} => q[Handle[u]] = p[Handle[u]]
        BY <2>3, <4>1, <4>2
      <4>4. NextFreeTableEntry'[Handle[u]] = NextFreeTableEntry[Handle[u]]
        BY <1>1
      <4> QED BY <2>2, <4>1, <4>2, <4>3, <4>4, PopOthers
    <3> QED BY <3>1, <3>2
  <2> QED BY <2>3, <2>4, <2>5, <2>6, <2>7 DEF GhostInv
<1>6. CASE StrictFIFO \/ FirstFree # 0
  <2>1. pc'[t] = "Reverse" /\ FirstFree' = FirstFree /\ Index'[t] = OldValue[t] /\ OldIndex'[t] = 0
    BY <1>6 DEF BarrierDone, BeginReverse, Goto, FreeLabels, FreeTypes
  <2>2. /\ pc'[t] \in MovePCs /\ pc'[t] \notin SinglePCs
        /\ pc'[t] \notin {"LinkFirst", "PushFirst", "ReadNext", "Pop"}
    BY <2>1 DEF SinglePCs, MovePCs, BarrierPCs, ExchangePCs, NewPagePCs
  <2>3. ListsInv(p)'
    BY <1>1, <1>3, <2>1, ListsFrame
  <2>4. HeldInv(p)'
    BY <1>1, <1>2, <1>3, <2>2, MoverHolds
  <2>5. MoveInv(p)'
    <3>1. Moving(p, t)'
      BY <1>1, <1>4, <2>1 DEF Moving, Place, BarrierPCs, ExchangePCs, NewPagePCs
    <3> QED BY <1>2, <2>2, <3>1, MoverFrame
  <2>6. \A u \in Threads : PopInv(p, u)'
    <3>1. PopInv(p, t)'
      BY <2>2 DEF PopInv
    <3>2. ASSUME NEW u \in Threads \ {t}
          PROVE  PopInv(p, u)'
      <4>1. PopInv(p, u)
        BY DEF GhostInv
      <4>2. pc[u] \in {"ReadNext", "Pop"} => p[Handle[u]] \notin {"none", "rest", "done"}
        BY <1>1, BarrierPassed
      <4>3. NextFreeTableEntry'[Handle[u]] = NextFreeTableEntry[Handle[u]]
        BY <1>1
      <4> QED BY <2>2, <4>1, <4>2, <4>3, PopOthers
    <3> QED BY <3>1, <3>2
  <2> QED BY <2>3, <2>4, <2>5, <2>6 DEF GhostInv
<1> QED BY <1>5, <1>6 DEF BarrierDone

\* A step of the thread with the table lock after which every pop in progress
\* finds its entry where it was.
LEMMA MoverGhost ==
    ASSUME FreeTypes, HoldingInv, NEW p \in [Indexes -> Places], GhostInv(p),
           NEW t \in Threads, FreeOthers(t), pc[t] \in TablePCs, pc'[t] \in TablePCs,
           NEW q \in [Indexes -> Places], ListsInv(q)',
           pc'[t] \in MovePCs \/ \A h \in Indexes : q[h] \notin {"rest", "done"},
           pc'[t] \in MovePCs => Moving(q, t)',
           \A h \in Indexes : /\ q[h] = "held" <=> p[h] = "held"
                              /\ p[h] = "held" => NextFreeTableEntry'[h] = NextFreeTableEntry[h],
           \A u \in Threads : pc[u] \in {"ReadNext", "Pop"} =>
              /\ p[Handle[u]] \notin {"none", "rest", "done"}
              /\ q[Handle[u]] = p[Handle[u]]
              /\ p[Handle[u]] = "first" => NextFreeTableEntry'[Handle[u]] = NextFreeTableEntry[Handle[u]]
    PROVE  GhostInv(q)'
<1>1. /\ pc[t] \notin SinglePCs /\ pc'[t] \notin SinglePCs
      /\ pc'[t] \notin {"LinkFirst", "PushFirst", "ReadNext", "Pop"}
  BY DEF TablePCs, SinglePCs, MovePCs, BarrierPCs, ExchangePCs, NewPagePCs
<1>2. HeldInv(q)'
  <2>1. HeldInv(p)
    BY DEF GhostInv
  <2> QED BY <1>1, <2>1, MoverHolds
<1>3. MoveInv(q)'
  BY MoverFrame
<1>4. \A u \in Threads : PopInv(q, u)'
  <2>1. PopInv(q, t)'
    BY <1>1 DEF PopInv
  <2>2. ASSUME NEW u \in Threads \ {t}
        PROVE  PopInv(q, u)'
    <3>1. PopInv(p, u)
      BY DEF GhostInv
    <3> QED BY <1>1, <3>1, PopOthers
  <2> QED BY <2>1, <2>2
<1> QED BY <1>2, <1>3, <1>4 DEF GhostInv

\* After the barrier, no pop has to do with what is being moved.
LEMMA NoPopMoves ==
    ASSUME NEW p, GhostInv(p), NEW t \in Threads, pc[t] \in MovePCs, pc[t] \notin BarrierPCs
    PROVE  \A u \in Threads : pc[u] \in {"ReadNext", "Pop"} => p[Handle[u]] \notin {"none", "rest", "done"}
<1> TAKE u \in Threads
<1> HAVE pc[u] \in {"ReadNext", "Pop"}
<1>1. PopInv(p, u)
  BY DEF GhostInv
<1> QED BY <1>1 DEF PopInv

\* One entry leaves the rest of the chain and comes before what is done.
LEMMA ReverseGhost ==
    ASSUME FreeLabels, FreeTypes, HoldingInv, PagesInv, NEW p \in [Indexes -> Places], GhostInv(p),
           NEW t \in Threads, FreeOthers(t), Reverse(t)
    PROVE  \E q \in [Indexes -> Places] : GhostInv(q)'
<1>0. PICK h \in Indexes : h = Index[t]
  BY DEF FreeTypes
<1>a. PICK q : q = [p EXCEPT ![h] = "done"]
  OBVIOUS
<1>1. /\ pc[t] = "Reverse"
      /\ OldIndex'[t] = h /\ Index'[t] = NextFreeTableEntry[h] /\ OldValue'[t] = OldValue[t]
      /\ pc'[t] = IF NextFreeTableEntry[h] = 0 THEN "Exchange" ELSE "Reverse"
      /\ UNCHANGED <<FirstFree, LastFree, InUse, NextHandleNeedingPool>>
  BY <1>0 DEF Reverse, Goto, FreeLabels, FreeTypes, table
<1>2. NextFreeTableEntry'[h] = OldIndex[t] /\ \A k \in Indexes \ {h} : NextFreeTableEntry'[k] = NextFreeTableEntry[k]
  BY <1>0 DEF Reverse, FreeTypes
<1>3. /\ h # 0 /\ p[h] = "rest" /\ NextFreeTableEntry[h] \in Indexes
      /\ List(NextFreeTableEntry, Place(p, "rest") \ {h}, NextFreeTableEntry[h])
  BY <1>0, <1>1, ReverseTakes
<1>4. /\ q \in [Indexes -> Places] /\ q[h] = "done" /\ \A k \in Indexes \ {h} : q[k] = p[k]
      /\ Place(q, "rest") = Place(p, "rest") \ {h}
      /\ Place(q, "done") = Place(p, "done") \cup {h}
      /\ Place(q, "first") = Place(p, "first")
      /\ Place(q, "last") = Place(p, "last")
      /\ Place(q, "use") = Place(p, "use")
  <2>1. q \in [Indexes -> Places] /\ q[h] = "done" /\ \A k \in Indexes \ {h} : q[k] = p[k]
    BY <1>a DEF Places
  <2>2. Place(q, "rest") = Place(p, "rest") \ {h} /\ Place(q, "done") = Place(p, "done") \cup {h}
    BY <1>3, <2>1 DEF Place
  <2>3. Place(q, "first") = Place(p, "first") /\ Place(q, "last") = Place(p, "last") /\ Place(q, "use") = Place(p, "use")
    BY <1>3, <2>1 DEF Place
  <2> QED BY <2>1, <2>2, <2>3
<1>5. /\ pc[t] \in TablePCs /\ pc'[t] \in TablePCs /\ pc[t] \in MovePCs /\ pc'[t] \in MovePCs
      /\ pc[t] \notin BarrierPCs
  BY <1>1 DEF TablePCs, MovePCs, BarrierPCs, ExchangePCs, NewPagePCs
<1>6. ListsInv(q)'
  <2>1. ListsInv(p)
    BY DEF GhostInv
  <2>2. \A k \in Indexes : p[k] \in {"first", "last"} => NextFreeTableEntry'[k] = NextFreeTableEntry[k]
    BY <1>2, <1>3
  <2>3. ListsInv(p)'
    BY <1>1, <2>1, <2>2, ListsFrame
  <2>4. \A k \in Indexes : q[k] = "none" <=> p[k] = "none"
    BY <1>3, <1>4
  <2> QED BY <1>4, <2>3, <2>4 DEF ListsInv, Place
<1>7. Moving(q, t)'
  <2> DEFINE f == NextFreeTableEntry'
  <2>1. /\ OldIndex[t] = 0 => Place(p, "done") = {} /\ h = OldValue[t]
        /\ OldIndex[t] # 0 => /\ Segment(NextFreeTableEntry, Place(p, "done"), OldIndex[t], OldValue[t])
                              /\ NextFreeTableEntry[OldValue[t]] = 0
    BY <1>0, <1>1 DEF GhostInv, MoveInv, Moving
  <2>2. List(f, Place(q, "rest"), NextFreeTableEntry[h])
    <3>1. \A k \in Place(p, "rest") \ {h} : f[k] = NextFreeTableEntry[k]
      BY <1>2 DEF Place
    <3> QED BY <1>3, <1>4, <3>1, ListAgree
  <2>3. Segment(f, Place(q, "done"), h, OldValue[t]) /\ f[OldValue[t]] = 0
    <3>1. CASE OldIndex[t] = 0
      <4>1. Place(q, "done") = {h} /\ OldValue[t] = h
        BY <1>4, <2>1, <3>1
      <4>2. Segment(f, {h}, h, h)
        BY <1>3, SegmentSingle
      <4> QED BY <1>2, <3>1, <4>1, <4>2
    <3>2. CASE OldIndex[t] # 0
      <4>1. h \notin Place(p, "done") /\ Place(p, "done") \subseteq Indexes \ {h}
        BY <1>3 DEF Place
      <4>2. Segment(f, Place(p, "done"), OldIndex[t], OldValue[t])
        BY <1>2, <2>1, <3>2, <4>1, SegmentAgree
      <4>3. Segment(f, Place(p, "done") \cup {h}, h, OldValue[t])
        BY <1>2, <1>3, <4>1, <4>2, SegmentPush
      <4>4. OldValue[t] \in Place(p, "done")
        BY <4>2 DEF Segment
      <4> QED BY <1>2, <1>4, <2>1, <3>2, <4>1, <4>3, <4>4
    <3> QED BY <3>1, <3>2
  <2>4. NextFreeTableEntry[h] = 0 => Place(q, "rest") = {}
    BY <2>2, ListHead
  <2> HIDE DEF f
  <2>5. CASE NextFreeTableEntry[h] = 0
    BY <1>1, <2>3, <2>4, <2>5 DEF Moving, Place, BarrierPCs, ExchangePCs, NewPagePCs, f
  <2>6. CASE NextFreeTableEntry[h] # 0
    BY <1>1, <1>3, <2>2, <2>3, <2>6 DEF Moving, Place, BarrierPCs, ExchangePCs, NewPagePCs, f
  <2> QED BY <2>5, <2>6
<1>8. \A k \in Indexes : /\ q[k] = "held" <=> p[k] = "held"
                         /\ p[k] = "held" => NextFreeTableEntry'[k] = NextFreeTableEntry[k]
  BY <1>2, <1>3, <1>4
<1>9. \A u \in Threads : pc[u] \in {"ReadNext", "Pop"} =>
         /\ p[Handle[u]] \notin {"none", "rest", "done"}
         /\ q[Handle[u]] = p[Handle[u]]
         /\ p[Handle[u]] = "first" => NextFreeTableEntry'[Handle[u]] = NextFreeTableEntry[Handle[u]]
  <2>1. \A u \in Threads : pc[u] \in {"ReadNext", "Pop"} => p[Handle[u]] \notin {"none", "rest", "done"}
    BY <1>5, NoPopMoves
  <2>2. \A u \in Threads : Handle[u] \in Indexes
    BY DEF FreeTypes
  <2> QED BY <1>2, <1>3, <1>4, <2>1, <2>2
<1> QED BY <1>4, <1>5, <1>6, <1>7, <1>8, <1>9, MoverGhost

\* The last entry of the chain is linked to the list there is.
LEMMA ExchangeLinkGhost ==
    ASSUME FreeLabels, FreeTypes, HoldingInv, PagesInv, NEW p \in [Indexes -> Places], GhostInv(p),
           NEW t \in Threads, FreeOthers(t), ExchangeLink(t)
    PROVE  GhostInv(p)'
<1>0. PICK h \in Indexes : h = OldValue[t]
  BY DEF FreeTypes
<1>1. /\ pc[t] = "Exchange" /\ pc'[t] = "ExchangeCas"
      /\ OldIndex'[t] = OldIndex[t] /\ OldValue'[t] = h
      /\ UNCHANGED <<FirstFree, LastFree, InUse, NextHandleNeedingPool>>
  BY <1>0 DEF ExchangeLink, Goto, FreeLabels, FreeTypes, table, moving
<1>2. /\ NextFreeTableEntry'[h] = FirstFree /\ NewValue'[t] = FirstFree
      /\ \A k \in Indexes \ {h} : NextFreeTableEntry'[k] = NextFreeTableEntry[k]
  BY <1>0 DEF ExchangeLink, FreeTypes
<1>3. /\ Place(p, "rest") = {}
      /\ Segment(NextFreeTableEntry, Place(p, "done"), OldIndex[t], h)
  BY <1>0, <1>1 DEF GhostInv, MoveInv, Moving, ExchangePCs
<1>4. p[h] = "done"
  BY <1>3 DEF Segment, Place
<1>5. /\ pc[t] \in TablePCs /\ pc'[t] \in TablePCs /\ pc[t] \in MovePCs /\ pc'[t] \in MovePCs
      /\ pc[t] \notin BarrierPCs
  BY <1>1 DEF TablePCs, MovePCs, BarrierPCs, ExchangePCs, NewPagePCs
<1>6. ListsInv(p)'
  <2>1. ListsInv(p)
    BY DEF GhostInv
  <2>2. \A k \in Indexes : p[k] \in {"first", "last"} => NextFreeTableEntry'[k] = NextFreeTableEntry[k]
    BY <1>2, <1>4
  <2> QED BY <1>1, <2>1, <2>2, ListsFrame
<1>7. Moving(p, t)'
  <2>1. \A k \in Place(p, "done") \ {h} : NextFreeTableEntry'[k] = NextFreeTableEntry[k]
    BY <1>2 DEF Place
  <2>2. Segment(NextFreeTableEntry', Place(p, "done"), OldIndex[t], h)
    BY <1>3, <2>1, SegmentAgree
  <2> QED BY <1>1, <1>2, <1>3, <2>2 DEF Moving, Place, BarrierPCs, ExchangePCs, NewPagePCs
<1>8. \A k \in Indexes : p[k] = "held" => NextFreeTableEntry'[k] = NextFreeTableEntry[k]
  BY <1>2, <1>4
<1>9. \A u \in Threads : pc[u] \in {"ReadNext", "Pop"} =>
         /\ p[Handle[u]] \notin {"none", "rest", "done"}
         /\ p[Handle[u]] = "first" => NextFreeTableEntry'[Handle[u]] = NextFreeTableEntry[Handle[u]]
  <2>1. \A u \in Threads : pc[u] \in {"ReadNext", "Pop"} => p[Handle[u]] \notin {"none", "rest", "done"}
    BY <1>5, NoPopMoves
  <2>2. \A u \in Threads : Handle[u] \in Indexes
    BY DEF FreeTypes
  <2> QED BY <1>2, <1>4, <2>1, <2>2
<1> QED BY <1>5, <1>6, <1>7, <1>8, <1>9, MoverGhost

\* The chain is put in front of the list by one exchange of the head.
LEMMA PublishGhost ==
    ASSUME FreeTypes, HoldingInv, NEW p \in [Indexes -> Places], GhostInv(p),
           NEW t \in Threads, FreeOthers(t), pc[t] \in MovePCs, pc[t] \notin BarrierPCs,
           pc'[t] \in TablePCs, pc'[t] \notin MovePCs,
           UNCHANGED <<LastFree, NextFreeTableEntry, InUse, NextHandleNeedingPool>>,
           NEW l, Segment(NextFreeTableEntry, Place(p, "done"), FirstFree', l),
           NextFreeTableEntry[l] = FirstFree, Place(p, "rest") = {}
    PROVE  \E q \in [Indexes -> Places] : GhostInv(q)'
<1>0. PICK q : q = [k \in Indexes |-> IF p[k] = "done" THEN "first" ELSE p[k]]
  OBVIOUS
<1>1. /\ q \in [Indexes -> Places]
      /\ \A k \in Indexes : q[k] = IF p[k] = "done" THEN "first" ELSE p[k]
      /\ Place(q, "done") = {}
      /\ Place(q, "first") = Place(p, "done") \cup Place(p, "first")
      /\ \A z : z # "done" /\ z # "first" => Place(q, z) = Place(p, z)
  <2>1. "first" \in Places /\ "done" \in Places /\ "first" # "done"
    BY DEF Places
  <2> QED BY <1>0, <2>1, PlaceAll
<1>2. ListsInv(q)'
  <2>1. ListsInv(p)
    BY DEF GhostInv
  <2>2. List(NextFreeTableEntry, Place(q, "first"), FirstFree')
    <3>1. Place(p, "done") \cap Place(p, "first") = {}
      BY DEF Place
    <3> QED BY <1>1, <2>1, <3>1, SegmentJoin DEF ListsInv
  <2>3. List(NextFreeTableEntry', Place(q, "last"), LastFree') /\ InUse' = Place(q, "use")
    BY <1>1, <2>1 DEF ListsInv
  <2>4. \A k \in Indexes : q[k] = "none" <=> k \notin HandlesBelow(NextHandleNeedingPool)'
    BY <1>1, <2>1 DEF ListsInv, HandlesBelow
  <2> QED BY <2>2, <2>3, <2>4 DEF ListsInv, Place
<1>3. \A k \in Indexes : q[k] \notin {"rest", "done"}
  BY <1>1 DEF Place
<1>4. \A k \in Indexes : /\ q[k] = "held" <=> p[k] = "held"
                         /\ p[k] = "held" => NextFreeTableEntry'[k] = NextFreeTableEntry[k]
  BY <1>1
<1>5. \A u \in Threads : pc[u] \in {"ReadNext", "Pop"} =>
         /\ p[Handle[u]] \notin {"none", "rest", "done"}
         /\ q[Handle[u]] = p[Handle[u]]
         /\ p[Handle[u]] = "first" => NextFreeTableEntry'[Handle[u]] = NextFreeTableEntry[Handle[u]]
  <2>1. \A u \in Threads : pc[u] \in {"ReadNext", "Pop"} => p[Handle[u]] \notin {"none", "rest", "done"}
    BY NoPopMoves
  <2>2. \A u \in Threads : Handle[u] \in Indexes
    BY DEF FreeTypes
  <2> QED BY <1>1, <2>1, <2>2
<1>6. pc[t] \in TablePCs
  BY DEF TablePCs
<1> QED BY <1>1, <1>2, <1>3, <1>4, <1>5, <1>6, MoverGhost

\* An exchange that fails: the chain is linked again.
LEMMA RelinkGhost ==
    ASSUME FreeTypes, HoldingInv, NEW p \in [Indexes -> Places], GhostInv(p),
           NEW t \in Threads, FreeOthers(t), pc[t] \in MovePCs, pc[t] \notin BarrierPCs,
           pc'[t] \in MovePCs, Moving(p, t)',
           UNCHANGED <<FirstFree, LastFree, NextFreeTableEntry, InUse, NextHandleNeedingPool>>
    PROVE  GhostInv(p)'
<1>1. pc[t] \in TablePCs /\ pc'[t] \in TablePCs
  BY DEF TablePCs
<1>2. ListsInv(p)'
  BY ListsFrame DEF GhostInv
<1>3. \A u \in Threads : pc[u] \in {"ReadNext", "Pop"} => p[Handle[u]] \notin {"none", "rest", "done"}
  BY NoPopMoves
<1> QED BY <1>1, <1>2, <1>3, MoverGhost

\* The reversed chain is published, or linked again.
LEMMA ExchangeCasGhost ==
    ASSUME FreeLabels, FreeTypes, HoldingInv, PagesInv, NEW p \in [Indexes -> Places], GhostInv(p),
           NEW t \in Threads, FreeOthers(t), ExchangeCas(t)
    PROVE  \E q \in [Indexes -> Places] : GhostInv(q)'
<1>1. /\ pc[t] = "ExchangeCas"
      /\ UNCHANGED <<LastFree, NextFreeTableEntry, InUse, NextHandleNeedingPool>>
  BY DEF ExchangeCas, table
<1>2. pc[t] \in MovePCs /\ pc[t] \notin BarrierPCs
  BY <1>1 DEF MovePCs, BarrierPCs, ExchangePCs
<1>3. /\ Place(p, "rest") = {}
      /\ Segment(NextFreeTableEntry, Place(p, "done"), OldIndex[t], OldValue[t])
      /\ NextFreeTableEntry[OldValue[t]] = NewValue[t]
  BY <1>1 DEF GhostInv, MoveInv, Moving, ExchangePCs
<1>4. CASE FirstFree = NewValue[t]
  <2>1. FirstFree' = OldIndex[t] /\ pc'[t] \in {"Grow", "UnlockTable"}
    BY <1>4 DEF ExchangeCas, Goto, FreeLabels
  <2>2. pc'[t] \in TablePCs /\ pc'[t] \notin MovePCs
    BY <2>1 DEF TablePCs, MovePCs, BarrierPCs, ExchangePCs, NewPagePCs
  <2> QED BY <1>1, <1>2, <1>3, <1>4, <2>1, <2>2, PublishGhost
<1>5. CASE FirstFree # NewValue[t]
  <2>1. /\ pc'[t] = "Exchange" /\ FirstFree' = FirstFree
        /\ OldIndex'[t] = OldIndex[t] /\ OldValue'[t] = OldValue[t]
    BY <1>5 DEF ExchangeCas, Goto, FreeLabels
  <2>2. Moving(p, t)'
    BY <1>1, <1>3, <2>1 DEF Moving, Place, BarrierPCs, ExchangePCs, NewPagePCs
  <2>3. pc'[t] \in MovePCs
    BY <2>1 DEF MovePCs, ExchangePCs
  <2> QED BY <1>1, <1>2, <2>1, <2>2, <2>3, RelinkGhost
<1> QED BY <1>4, <1>5

(***************************************************************************)
(* The steps of the growth.                                                *)
(***************************************************************************)
\* A new page has entries that no list and no thread has.
LEMMA GrowGhost ==
    ASSUME FreeLabels, FreeTypes, HoldingInv, PagesInv, NEW p \in [Indexes -> Places], GhostInv(p),
           NEW t \in Threads, FreeOthers(t), Grow(t)
    PROVE  \E q \in [Indexes -> Places] : GhostInv(q)'
<1> DEFINE L == LOWLEVEL_COUNT
<1>0. /\ pc[t] = "Grow" /\ pc'[t] = "GrowLink" /\ NextHandleNeedingPool < MaxPages * L
      /\ NextHandleNeedingPool' = NextHandleNeedingPool + L
      /\ UNCHANGED <<FirstFree, LastFree, InUse>>
  BY DEF Grow, Goto, FreeLabels
<1>1. PICK n \in Nat : n < MaxPages /\ NextHandleNeedingPool = n * L
  BY <1>0, GrowthPage
<1>2. PICK b : b = NextHandleNeedingPool
  OBVIOUS
<1>3. PICK N : N = b + 1 .. b + L - 1
  OBVIOUS
<1>4. /\ b \in Nat /\ L \in Nat
      /\ HandlesBelow(b) \subseteq HandlesBelow(b + L)
      /\ HandlesBelow(b + L) \ HandlesBelow(b) = N
      /\ N \subseteq Indexes \ {0}
  BY <1>1, <1>2, <1>3, HandlesOfPage, HandleFreeAssumptions
<1>5. \A h \in Indexes : NextFreeTableEntry'[h] = IF h \in N THEN PageChain(h) ELSE NextFreeTableEntry[h]
  <2>1. HandlesBelow(NextHandleNeedingPool') \ HandlesBelow(NextHandleNeedingPool) = N
    BY <1>0, <1>2, <1>4
  <2> QED BY <2>1 DEF Grow
<1>6. Segment(NextFreeTableEntry', N, b + 1, b + L - 1)
  <2>1. \A h \in b + 1 .. b + L - 1 : NextFreeTableEntry'[h] = PageChain(h)
    BY <1>3, <1>4, <1>5
  <2> QED BY <1>1, <1>2, <1>3, <2>1, PageSegment
<1> HIDE DEF L
<1>7. PICK q : q = [h \in Indexes |-> IF h \in N THEN "done" ELSE p[h]]
  OBVIOUS
<1>8. ListsInv(p) /\ MoveInv(p)
  BY DEF GhostInv
<1>9. \A h \in N : p[h] = "none"
  BY <1>2, <1>4, <1>8 DEF ListsInv
<1>10. /\ pc[t] \in TablePCs /\ pc[t] \notin MovePCs /\ pc'[t] \in TablePCs /\ pc'[t] \in MovePCs
  BY <1>0 DEF TablePCs, MovePCs, BarrierPCs, ExchangePCs, NewPagePCs
<1>11. Place(p, "rest") = {} /\ Place(p, "done") = {} /\ \A h \in Indexes : p[h] \notin {"rest", "done"}
  BY <1>8, <1>10, NothingMoves
<1>12. q \in [Indexes -> Places] /\ \A h \in Indexes : q[h] = IF h \in N THEN "done" ELSE p[h]
  BY <1>7 DEF Places
<1>13. /\ Place(q, "first") = Place(p, "first") /\ Place(q, "last") = Place(p, "last")
       /\ Place(q, "use") = Place(p, "use")
  BY <1>9, <1>12 DEF Place
<1>14. Place(q, "rest") = {} /\ Place(q, "done") = N
  BY <1>4, <1>9, <1>11, <1>12 DEF Place
<1>15. ListsInv(q)'
  <2>1. List(NextFreeTableEntry', Place(p, "first"), FirstFree)
    <3>1. \A h \in Place(p, "first") : NextFreeTableEntry'[h] = NextFreeTableEntry[h]
      BY <1>5, <1>9 DEF Place
    <3> QED BY <1>8, <3>1, ListAgree DEF ListsInv
  <2>2. List(NextFreeTableEntry', Place(p, "last"), LastFree)
    <3>1. \A h \in Place(p, "last") : NextFreeTableEntry'[h] = NextFreeTableEntry[h]
      BY <1>5, <1>9 DEF Place
    <3> QED BY <1>8, <3>1, ListAgree DEF ListsInv
  <2>3. InUse' = Place(q, "use")
    BY <1>0, <1>8, <1>13 DEF ListsInv
  <2>4. \A h \in Indexes : q[h] = "none" <=> h \notin HandlesBelow(b + L)
    <3>1. \A h \in Indexes : p[h] = "none" <=> h \notin HandlesBelow(b)
      BY <1>2, <1>8 DEF ListsInv
    <3>2. \A h \in Indexes : h \in HandlesBelow(b + L) <=> h \in HandlesBelow(b) \/ h \in N
      BY <1>4
    <3> QED BY <1>12, <3>1, <3>2
  <2>5. HandlesBelow(NextHandleNeedingPool)' = HandlesBelow(b + L)
    BY <1>0, <1>2 DEF HandlesBelow, L
  <2> QED BY <1>0, <1>13, <2>1, <2>2, <2>3, <2>4, <2>5 DEF ListsInv, Place
<1>16. Moving(q, t)'
  <2>1. /\ NextHandleNeedingPool' - LOWLEVEL_COUNT = b /\ NextHandleNeedingPool' - 1 = b + L - 1
        /\ NextHandleNeedingPool' = b + L
    BY <1>0, <1>2, <1>4 DEF L
  <2>2. /\ HandlesBelow(NextHandleNeedingPool)' = HandlesBelow(b + L)
        /\ HandlesBelow(NextHandleNeedingPool - LOWLEVEL_COUNT)' = HandlesBelow(b)
        /\ LastOfPage' = b + L - 1
        /\ (NextHandleNeedingPool - LOWLEVEL_COUNT + 1)' = b + 1
    BY <2>1 DEF HandlesBelow, LastOfPage
  <2> QED BY <1>0, <1>4, <1>6, <1>14, <2>2 DEF Moving, Place, BarrierPCs, ExchangePCs, NewPagePCs
<1>17. \A h \in Indexes : /\ q[h] = "held" <=> p[h] = "held"
                          /\ p[h] = "held" => NextFreeTableEntry'[h] = NextFreeTableEntry[h]
  BY <1>5, <1>9, <1>12
<1>18. \A u \in Threads : pc[u] \in {"ReadNext", "Pop"} =>
          /\ p[Handle[u]] \notin {"none", "rest", "done"}
          /\ q[Handle[u]] = p[Handle[u]]
          /\ p[Handle[u]] = "first" => NextFreeTableEntry'[Handle[u]] = NextFreeTableEntry[Handle[u]]
  <2> TAKE u \in Threads
  <2> HAVE pc[u] \in {"ReadNext", "Pop"}
  <2>1. Handle[u] \in Indexes /\ PopInv(p, u)
    BY DEF FreeTypes, GhostInv
  <2>2. p[Handle[u]] \notin {"none", "rest", "done"}
    BY <1>11, <2>1 DEF PopInv
  <2> QED BY <1>5, <1>9, <1>12, <2>1, <2>2
<1> QED BY <1>10, <1>12, <1>15, <1>16, <1>17, <1>18, MoverGhost

\* The last entry of the page is linked to the list there is.
LEMMA GrowLinkGhost ==
    ASSUME FreeLabels, FreeTypes, HoldingInv, PagesInv, NEW p \in [Indexes -> Places], GhostInv(p),
           NEW t \in Threads, FreeOthers(t), GrowLink(t)
    PROVE  GhostInv(p)'
<1>0. PICK h \in Indexes : h = LastOfPage
  BY LastPage
<1>a. PICK d : d = HandlesBelow(NextHandleNeedingPool) \ HandlesBelow(NextHandleNeedingPool - LOWLEVEL_COUNT)
  OBVIOUS
<1>b. PICK e : e = NextHandleNeedingPool - LOWLEVEL_COUNT + 1
  OBVIOUS
<1>1. /\ pc[t] = "GrowLink" /\ pc'[t] = "GrowCas"
      /\ UNCHANGED <<FirstFree, LastFree, InUse, NextHandleNeedingPool>>
  BY DEF GrowLink, Goto, FreeLabels, table
<1>2. /\ NextFreeTableEntry'[h] = FirstFree /\ NewValue'[t] = FirstFree
      /\ \A k \in Indexes \ {h} : NextFreeTableEntry'[k] = NextFreeTableEntry[k]
  BY <1>0 DEF GrowLink, FreeTypes
<1>3. Place(p, "rest") = {} /\ Place(p, "done") = d /\ Segment(NextFreeTableEntry, Place(p, "done"), e, h)
  BY <1>0, <1>1, <1>a, <1>b DEF GhostInv, MoveInv, Moving, NewPagePCs
<1>4. p[h] = "done"
  BY <1>3 DEF Segment, Place
<1>5. /\ pc[t] \in TablePCs /\ pc'[t] \in TablePCs /\ pc[t] \in MovePCs /\ pc'[t] \in MovePCs
      /\ pc[t] \notin BarrierPCs
  BY <1>1 DEF TablePCs, MovePCs, BarrierPCs, ExchangePCs, NewPagePCs
<1>6. ListsInv(p)'
  <2>1. ListsInv(p)
    BY DEF GhostInv
  <2>2. \A k \in Indexes : p[k] \in {"first", "last"} => NextFreeTableEntry'[k] = NextFreeTableEntry[k]
    BY <1>2, <1>4
  <2> QED BY <1>1, <2>1, <2>2, ListsFrame
<1>7. Moving(p, t)'
  <2>1. \A k \in Place(p, "done") \ {h} : NextFreeTableEntry'[k] = NextFreeTableEntry[k]
    BY <1>2 DEF Place
  <2>2. Segment(NextFreeTableEntry', Place(p, "done"), e, h)
    BY <1>3, <2>1, SegmentAgree
  <2>3. /\ (HandlesBelow(NextHandleNeedingPool) \ HandlesBelow(NextHandleNeedingPool - LOWLEVEL_COUNT))' = d
        /\ LastOfPage' = h /\ (NextHandleNeedingPool - LOWLEVEL_COUNT + 1)' = e
    BY <1>0, <1>1, <1>a, <1>b DEF HandlesBelow, LastOfPage
  <2> QED BY <1>1, <1>2, <1>3, <2>2, <2>3 DEF Moving, Place, BarrierPCs, ExchangePCs, NewPagePCs
<1>8. \A k \in Indexes : p[k] = "held" => NextFreeTableEntry'[k] = NextFreeTableEntry[k]
  BY <1>2, <1>4
<1>9. \A u \in Threads : pc[u] \in {"ReadNext", "Pop"} =>
         /\ p[Handle[u]] \notin {"none", "rest", "done"}
         /\ p[Handle[u]] = "first" => NextFreeTableEntry'[Handle[u]] = NextFreeTableEntry[Handle[u]]
  <2>1. \A u \in Threads : pc[u] \in {"ReadNext", "Pop"} => p[Handle[u]] \notin {"none", "rest", "done"}
    BY <1>5, NoPopMoves
  <2>2. \A u \in Threads : Handle[u] \in Indexes
    BY DEF FreeTypes
  <2> QED BY <1>2, <1>4, <2>1, <2>2
<1> QED BY <1>5, <1>6, <1>7, <1>8, <1>9, MoverGhost

\* The page is published, or linked again.
LEMMA GrowCasGhost ==
    ASSUME FreeLabels, FreeTypes, HoldingInv, PagesInv, NEW p \in [Indexes -> Places], GhostInv(p),
           NEW t \in Threads, FreeOthers(t), GrowCas(t)
    PROVE  \E q \in [Indexes -> Places] : GhostInv(q)'
<1>1. /\ pc[t] = "GrowCas"
      /\ UNCHANGED <<LastFree, NextFreeTableEntry, InUse, NextHandleNeedingPool>>
  BY DEF GrowCas, table
<1>2. pc[t] \in MovePCs /\ pc[t] \notin BarrierPCs
  BY <1>1 DEF MovePCs, BarrierPCs, NewPagePCs
<1>3. Moving(p, t)
  BY DEF GhostInv, MoveInv
<1>4. CASE FirstFree = NewValue[t]
  <2>1. FirstFree' = NextHandleNeedingPool - LOWLEVEL_COUNT + 1 /\ pc'[t] = "UnlockGrown"
    BY <1>4 DEF GrowCas, Goto, FreeLabels
  <2>2. pc'[t] \in TablePCs /\ pc'[t] \notin MovePCs
    BY <2>1 DEF TablePCs, MovePCs, BarrierPCs, ExchangePCs, NewPagePCs
  <2>3. /\ Place(p, "rest") = {} /\ NextFreeTableEntry[LastOfPage] = FirstFree
        /\ Segment(NextFreeTableEntry, Place(p, "done"), FirstFree', LastOfPage)
    BY <1>1, <1>3, <1>4, <2>1 DEF Moving, NewPagePCs
  <2> QED BY <1>1, <1>2, <2>2, <2>3, PublishGhost
<1>5. CASE FirstFree # NewValue[t]
  <2>1. pc'[t] = "GrowLink" /\ FirstFree' = FirstFree
    BY <1>5 DEF GrowCas, Goto, FreeLabels
  <2>2. /\ HandlesBelow(NextHandleNeedingPool)' = HandlesBelow(NextHandleNeedingPool)
        /\ HandlesBelow(NextHandleNeedingPool - LOWLEVEL_COUNT)' = HandlesBelow(NextHandleNeedingPool - LOWLEVEL_COUNT)
        /\ LastOfPage' = LastOfPage
    BY <1>1 DEF HandlesBelow, LastOfPage
  <2>3. Moving(p, t)'
    BY <1>1, <1>3, <2>1, <2>2 DEF Moving, Place, BarrierPCs, ExchangePCs, NewPagePCs
  <2>4. pc'[t] \in MovePCs
    BY <2>1 DEF MovePCs, NewPagePCs
  <2> QED BY <1>1, <1>2, <2>1, <2>3, <2>4, RelinkGhost
<1> QED BY <1>4, <1>5

(***************************************************************************)
(* The invariant.                                                          *)
(***************************************************************************)
\* After every step, every entry has a place again.
LEMMA GhostStep ==
    ASSUME FreeInv, NEW t \in Threads, FreeStep(t)
    PROVE  \E q \in [Indexes -> Places] : GhostInv(q)'
<1>0. FreeLabels /\ FreeTypes /\ HoldingInv /\ PagesInv
  BY DEF FreeInv
<1>1. PICK p \in [Indexes -> Places] : GhostInv(p)
  BY DEF FreeInv
<1>2. FreeOthers(t)
  BY <1>0, FreeOthersStay
<1>3. CASE \/ Allocate(t) \/ ReadFirstFree(t) \/ LockTable(t) \/ CheckAgain(t) \/ UnlockTable(t) \/ LockShared(t)
           \/ UnlockRetry(t) \/ UnlockPopped(t) \/ GrowFails(t) \/ UnlockGrown(t) \/ AfterGrow(t)
  BY <1>0, <1>1, <1>2, <1>3, QuietSteps
<1>4. CASE Verify(t) \/ ReadNext(t) \/ Pop(t) \/ CreateHandle(t)
  BY <1>0, <1>1, <1>2, <1>4, VerifyGhost, ReadNextGhost, PopGhost, FillGhost
<1>5. CASE (\E h \in Indexes : Free(t, h)) \/ ChooseList(t) \/ Link(t) \/ Push(t)
  BY <1>0, <1>1, <1>2, <1>5, FreeHandleGhost, ChooseListGhost, LinkGhost, PushFailsGhost, PushGhost
<1>6. CASE TakeLastFree(t) \/ BarrierLook(t) \/ BarrierAcquire(t) \/ BarrierRelease(t) \/ BarrierDone(t)
  BY <1>0, <1>1, <1>2, <1>6, TakeLastFreeGhost, BarrierGhost, BarrierDoneGhost
<1>7. CASE Reverse(t) \/ ExchangeLink(t) \/ ExchangeCas(t)
  BY <1>0, <1>1, <1>2, <1>7, ReverseGhost, ExchangeLinkGhost, ExchangeCasGhost
<1>8. CASE Grow(t) \/ GrowLink(t) \/ GrowCas(t)
  BY <1>0, <1>1, <1>2, <1>8, GrowGhost, GrowLinkGhost, GrowCasGhost
<1> QED BY <1>3, <1>4, <1>5, <1>6, <1>7, <1>8 DEF FreeStep, Begin, Continue

\* A new table: one page, all of it on FirstFree.
LEMMA FreeInitInv == Init => FreeInv
<1> SUFFICES ASSUME Init PROVE FreeInv
  OBVIOUS
<1> DEFINE L == LOWLEVEL_COUNT
<1>1. /\ L \in Nat /\ L > 1 /\ MaxPages \in Nat /\ MaxPages >= 1
      /\ HANDLE_TABLE_LOCKS \in Nat /\ HANDLE_TABLE_LOCKS >= 1
  BY HandleFreeAssumptions
<1>2. 0 \in Indexes /\ 1 \in Indexes /\ Indexes \subseteq Nat
  BY IndexesNat
<1>a. HandlesBelow(0) = {}
  <2>1. \A h \in Indexes : ~(h < 0)
    BY <1>2
  <2> QED BY <2>1 DEF HandlesBelow
<1>3. FreeLabels
  BY DEF Init, FreeLabels, FreePCs
<1>4. FreeTypes
  <2>1. \A h \in HandlesBelow(L) : PageChain(h) \in Indexes
    <3>0. 0 \in Nat /\ 0 < MaxPages /\ 0 * L = 0
      BY <1>1
    <3>1. /\ HandlesBelow(0 + L) \ HandlesBelow(0) = 0 + 1 .. 0 + L - 1
          /\ 0 + 1 .. 0 + L - 1 \subseteq Indexes
          /\ \A h \in 0 + 1 .. 0 + L - 1 : PageChain(h) = IF h = 0 + L - 1 THEN 0 ELSE h + 1
      BY <3>0, HandlesOfPage
    <3>2. HandlesBelow(0) = {} /\ 0 + L = L
      BY <1>1, <1>a
    <3>3. \A h \in 1 .. L - 1 : h # L - 1 => h + 1 \in 1 .. L - 1
      BY <1>1
    <3> QED BY <1>1, <1>2, <3>1, <3>2, <3>3
  <2>2. NextFreeTableEntry \in [Indexes -> Indexes \cup {GrantedAccess}]
    BY <1>2, <2>1 DEF Init
  <2>3. 0 \in 0 .. HANDLE_TABLE_LOCKS
    BY <1>1
  <2> QED BY <1>2, <2>2, <2>3 DEF Init, FreeTypes, Locks
<1>5. HoldingInv
  <2>1. \A t \in Threads : pc[t] = "idle"
    BY DEF Init
  <2>2. \A t \in Threads : Holding(t)
    BY <2>1 DEF Holding, PopPCs, TablePCs, MovePCs, BarrierPCs, ExchangePCs, NewPagePCs
  <2>3. Exclusive
    BY DEF Init, Exclusive, Locks
  <2> QED BY <2>2, <2>3 DEF HoldingInv
<1>6. PagesInv
  <2>1. 1 \in 1 .. MaxPages /\ L = 1 * L
    BY <1>1
  <2>2. NextHandleNeedingPool = 1 * L
    BY <2>1 DEF Init
  <2> QED BY <2>1, <2>2 DEF PagesInv
<1>7. CountInv
  BY FS_EmptySet DEF Init, CountInv
<1>8. \E p \in [Indexes -> Places] : GhostInv(p)
  <2> DEFINE p == [h \in Indexes |-> IF h \in HandlesBelow(L) THEN "first" ELSE "none"]
  <2>1. p \in [Indexes -> Places]
    BY DEF Places
  <2>2. /\ Place(p, "first") = HandlesBelow(L)
        /\ Place(p, "last") = {} /\ Place(p, "use") = {}
    BY DEF Place, HandlesBelow
  <2>3. \A h \in Indexes : /\ p[h] \in {"first", "none"}
                           /\ p[h] = "none" <=> h \notin HandlesBelow(L)
    OBVIOUS
  <2> HIDE DEF p
  <2>4. List(NextFreeTableEntry, HandlesBelow(L), 1)
    <3>0. 0 \in Nat /\ 0 < MaxPages /\ 0 = 0 * L
      BY <1>1
    <3>1. HandlesBelow(0 + L) \ HandlesBelow(0) = 0 + 1 .. 0 + L - 1 /\ 0 + 1 .. 0 + L - 1 \subseteq Indexes
      BY <3>0, HandlesOfPage
    <3>2. HandlesBelow(0) = {} /\ 0 + L = L /\ 0 + 1 = 1 /\ L - 1 \in 1 .. L - 1
      BY <1>1, <1>a
    <3>3. HandlesBelow(L) = 0 + 1 .. 0 + L - 1
      BY <3>1, <3>2
    <3>4. \A h \in 0 + 1 .. 0 + L - 1 : NextFreeTableEntry[h] = PageChain(h)
      BY <3>1, <3>3 DEF Init
    <3>5. /\ Segment(NextFreeTableEntry, 0 + 1 .. 0 + L - 1, 0 + 1, 0 + L - 1)
          /\ NextFreeTableEntry[0 + L - 1] = 0
      BY <3>0, <3>4, PageSegment
    <3>6. /\ Segment(NextFreeTableEntry, HandlesBelow(L), 1, L - 1)
          /\ NextFreeTableEntry[L - 1] = 0 /\ L - 1 \in HandlesBelow(L)
      BY <3>2, <3>3, <3>5
    <3> QED BY <3>6 DEF List
  <2>5. ListsInv(p)
    BY <2>2, <2>3, <2>4 DEF Init, ListsInv, List
  <2>6. \A t \in Threads : pc[t] = "idle"
    BY DEF Init
  <2>7. HeldInv(p)
    BY <2>3, <2>6 DEF HeldInv, SinglePCs
  <2>8. MoveInv(p)
    BY <2>3, <2>6 DEF MoveInv, Moving, BarrierPCs, ExchangePCs, NewPagePCs
  <2>9. \A t \in Threads : PopInv(p, t)
    BY <2>6 DEF PopInv
  <2> QED BY <2>1, <2>5, <2>7, <2>8, <2>9 DEF GhostInv
<1> QED BY <1>3, <1>4, <1>5, <1>6, <1>7, <1>8 DEF FreeInv

\* The invariant says nothing of other variables.
LEMMA FreeStutters == FreeInv /\ UNCHANGED vars => FreeInv'
<1> SUFFICES ASSUME FreeInv, UNCHANGED vars PROVE FreeInv'
  OBVIOUS
<1> USE DEF vars, lists, table, locals, moving
<1>1. FreeLabels' /\ FreeTypes'
  BY DEF FreeInv, FreeLabels, FreeTypes
<1>2. HoldingInv'
  BY DEF FreeInv, HoldingInv, Exclusive, Holding, LockOf
<1>3. PagesInv' /\ CountInv'
  BY DEF FreeInv, PagesInv, CountInv
<1>4. PICK p \in [Indexes -> Places] : GhostInv(p)
  BY DEF FreeInv
<1>5. ListsInv(p)'
  BY <1>4 DEF GhostInv, ListsInv, HandlesBelow, Place
<1>6. HeldInv(p)'
  BY <1>4 DEF GhostInv, HeldInv
<1>7. MoveInv(p)'
  <2>1. ASSUME NEW t \in Threads
        PROVE  Moving(p, t)'
    <3>1. Moving(p, t)
      BY <1>4 DEF GhostInv, MoveInv
    <3> QED BY <3>1, MovingFrame
  <2>2. \A h \in Indexes : p[h] \in {"rest", "done"} => \E t \in Threads : pc'[t] \in MovePCs
    BY <1>4 DEF GhostInv, MoveInv
  <2> QED BY <2>1, <2>2 DEF MoveInv
<1>8. \A t \in Threads : PopInv(p, t)'
  BY <1>4 DEF GhostInv, PopInv, LockOf
<1> QED BY <1>1, <1>2, <1>3, <1>4, <1>5, <1>6, <1>7, <1>8 DEF FreeInv, GhostInv

\* Every step keeps the invariant.
LEMMA FreeInvStep == FreeInv /\ [Next]_vars => FreeInv'
<1>1. ASSUME FreeInv, NEW t \in Threads, FreeStep(t)
      PROVE  FreeInv'
  <2>1. FreeLabels'
    BY <1>1, FreeLabelsStep DEF FreeInv
  <2>2. \E q \in [Indexes -> Places] : GhostInv(q)'
    BY <1>1, GhostStep
  <2> QED BY <1>1, <2>1, <2>2, FreeTypesStep, HoldingStep, PagesStep, CountStep DEF FreeInv
<1> QED BY <1>1, FreeStutters DEF Next, FreeStep

\* The invariant holds in every reachable state.
LEMMA FreeInvariance == Spec => []FreeInv
BY FreeInitInv, FreeInvStep, PTL DEF Spec

(***************************************************************************)
(* The theorems.                                                           *)
(***************************************************************************)
\* What is on the way to publication is what the mover has in hand.
LEMMA UnpublishedPlaces ==
    ASSUME FreeTypes, NEW p \in [Indexes -> Places], GhostInv(p), NEW t \in Threads
    PROVE  Unpublished(t) = IF pc[t] \in MovePCs THEN Place(p, "rest") \cup Place(p, "done") ELSE {}
<1>1. Moving(p, t)
  BY DEF GhostInv, MoveInv
<1>2. CASE pc[t] \in BarrierPCs
  <2>1. Chain(OldValue[t]) = Place(p, "rest") /\ Place(p, "done") = {}
    BY <1>1, <1>2, ListChain DEF Moving
  <2>2. pc[t] \in MovePCs /\ Unpublished(t) = Chain(OldValue[t])
    BY <1>2 DEF Unpublished, BarrierPCs, MovePCs
  <2> QED BY <2>1, <2>2
<1>3. CASE pc[t] = "Reverse"
  <2>1. Chain(Index[t]) = Place(p, "rest")
    BY <1>1, <1>3, ListChain DEF Moving
  <2>2. List(NextFreeTableEntry, Place(p, "done"), OldIndex[t])
    <3>1. CASE OldIndex[t] = 0
      BY <1>1, <1>3, <3>1 DEF Moving, List
    <3>2. CASE OldIndex[t] # 0
      <4>1. /\ Segment(NextFreeTableEntry, Place(p, "done"), OldIndex[t], OldValue[t])
            /\ NextFreeTableEntry[OldValue[t]] = 0
        BY <1>1, <1>3, <3>2 DEF Moving
      <4>2. OldValue[t] \in Place(p, "done")
        BY <4>1 DEF Segment
      <4> QED BY <4>1, <4>2 DEF List
    <3> QED BY <3>1, <3>2
  <2>3. Chain(OldIndex[t]) = Place(p, "done")
    BY <2>2, ListChain
  <2>4. pc[t] \in MovePCs /\ Unpublished(t) = Chain(Index[t]) \cup Chain(OldIndex[t])
    BY <1>3 DEF Unpublished, MovePCs
  <2> QED BY <2>1, <2>3, <2>4
<1>4. CASE pc[t] \in ExchangePCs
  <2>1. Way(OldIndex[t], OldValue[t]) = Place(p, "done") /\ Place(p, "rest") = {}
    BY <1>1, <1>4, SegmentWay DEF Moving
  <2>2. pc[t] \in MovePCs /\ Unpublished(t) = Way(OldIndex[t], OldValue[t])
    BY <1>4 DEF Unpublished, ExchangePCs, MovePCs
  <2> QED BY <2>1, <2>2
<1>5. CASE pc[t] \in NewPagePCs
  <2>1. /\ Place(p, "done") = HandlesBelow(NextHandleNeedingPool) \ HandlesBelow(NextHandleNeedingPool - LOWLEVEL_COUNT)
        /\ Place(p, "rest") = {}
    BY <1>1, <1>5 DEF Moving
  <2>2. /\ pc[t] \in MovePCs
        /\ Unpublished(t) = HandlesBelow(NextHandleNeedingPool) \ HandlesBelow(NextHandleNeedingPool - LOWLEVEL_COUNT)
    BY <1>5 DEF Unpublished, NewPagePCs, MovePCs
  <2> QED BY <2>1, <2>2
<1>6. CASE pc[t] \notin MovePCs
  BY <1>6 DEF Unpublished, MovePCs, BarrierPCs, ExchangePCs, NewPagePCs
<1> QED BY <1>2, <1>3, <1>4, <1>5, <1>6 DEF MovePCs

\* An entry of the table is with exactly one thread, or with none.
LEMMA OneThread ==
    ASSUME FreeInv, NEW p \in [Indexes -> Places], GhostInv(p), NEW h \in Indexes
    PROVE  LET T == {t \in Threads : h \in Single(t) \cup Unpublished(t)}
           IN  IF p[h] \in {"held", "rest", "done"} THEN \E t \in Threads : T = {t} ELSE T = {}
<1> DEFINE T == {t \in Threads : h \in Single(t) \cup Unpublished(t)}
<1>1. FreeTypes /\ HoldingInv /\ HeldInv(p) /\ MoveInv(p)
  BY DEF FreeInv, GhostInv
<1>2. \A t \in Threads : h \in Single(t) <=> pc[t] \in SinglePCs /\ Handle[t] = h
  BY DEF Single, SinglePCs
<1>3. \A t \in Threads : h \in Unpublished(t) <=> pc[t] \in MovePCs /\ p[h] \in {"rest", "done"}
  <2> TAKE t \in Threads
  <2>1. Unpublished(t) = IF pc[t] \in MovePCs THEN Place(p, "rest") \cup Place(p, "done") ELSE {}
    BY <1>1, UnpublishedPlaces
  <2> QED BY <2>1 DEF Place
<1>4. \A t \in Threads : h \in Single(t) => p[h] = "held"
  BY <1>1, <1>2 DEF HeldInv
<1>5. T = {t \in Threads : h \in Single(t) \/ h \in Unpublished(t)}
  OBVIOUS
<1>6. CASE p[h] = "held"
  <2>1. PICK t \in Threads : pc[t] \in SinglePCs /\ Handle[t] = h
    BY <1>1, <1>6 DEF HeldInv
  <2>2. \A u \in Threads : pc[u] \in SinglePCs /\ Handle[u] = h => u = t
    BY <1>1, <2>1 DEF HeldInv
  <2>3. T = {t}
    BY <1>2, <1>3, <1>5, <1>6, <2>1, <2>2
  <2> QED BY <1>6, <2>3
<1>7. CASE p[h] \in {"rest", "done"}
  <2>1. PICK t \in Threads : pc[t] \in MovePCs
    BY <1>1, <1>7 DEF MoveInv
  <2>2. \A u \in Threads : pc[u] \in MovePCs => u = t
    BY <1>1, <2>1, OneMover DEF TablePCs
  <2>3. T = {t}
    BY <1>3, <1>4, <1>5, <1>7, <2>1, <2>2
  <2> QED BY <1>7, <2>3
<1>8. CASE p[h] \notin {"held", "rest", "done"}
  <2>1. T = {}
    BY <1>3, <1>4, <1>5, <1>8
  <2> QED BY <1>8, <2>1
<1> QED BY <1>6, <1>7, <1>8

\* The places of the invariant are those that HandlesConserved counts.
LEMMA ConservedHolds == FreeInv => HandlesConserved
<1> SUFFICES ASSUME FreeInv PROVE HandlesConserved
  OBVIOUS
<1>1. PICK p \in [Indexes -> Places] : GhostInv(p)
  BY DEF FreeInv
<1>2. ListsInv(p)
  BY <1>1 DEF GhostInv
<1>3. ChainFrom(FirstFree) = Place(p, "first") \cup {0} /\ Chain(FirstFree) = Place(p, "first")
  BY <1>2, ListChain DEF ListsInv
<1>4. ChainFrom(LastFree) = Place(p, "last") \cup {0} /\ Chain(LastFree) = Place(p, "last")
  BY <1>2, ListChain DEF ListsInv
<1>5. InUse = Place(p, "use")
  BY <1>2 DEF ListsInv
<1> DEFINE places == <<InUse, Chain(FirstFree), Chain(LastFree)>>
<1>6. places[1] = Place(p, "use") /\ places[2] = Place(p, "first") /\ places[3] = Place(p, "last")
  BY <1>3, <1>4, <1>5
<1>7. \A h \in Indexes : p[h] # "none" <=> h \in HandlesBelow(NextHandleNeedingPool)
  BY <1>2 DEF ListsInv
<1> HIDE DEF places
<1>8. UNION {places[i] : i \in 1 .. 3} \subseteq HandlesBelow(NextHandleNeedingPool)
  <2>1. ASSUME NEW i \in 1 .. 3, NEW h \in places[i]
        PROVE  h \in HandlesBelow(NextHandleNeedingPool)
    <3>1. i = 1 \/ i = 2 \/ i = 3
      OBVIOUS
    <3>2. h \in Indexes /\ p[h] \in {"use", "first", "last"}
      BY <1>6, <2>1, <3>1 DEF Place
    <3> QED BY <1>7, <3>2
  <2> QED BY <2>1
<1>9. ASSUME NEW h \in HandlesBelow(NextHandleNeedingPool)
      PROVE    Cardinality({i \in 1 .. 3 : h \in places[i]})
             + Cardinality({t \in Threads : h \in Single(t) \cup Unpublished(t)}) = 1
  <2> DEFINE P == {i \in 1 .. 3 : h \in places[i]}
  <2> DEFINE T == {t \in Threads : h \in Single(t) \cup Unpublished(t)}
  <2>1. h \in Indexes
    BY DEF HandlesBelow
  <2>2. p[h] \in Places /\ p[h] # "none"
    BY <1>7, <2>1
  <2>3. IF p[h] \in {"held", "rest", "done"} THEN \E t \in Threads : T = {t} ELSE T = {}
    BY <1>1, <2>1, OneThread
  <2>4. \A i \in 1 .. 3 : h \in places[i] <=> \/ i = 1 /\ p[h] = "use"
                                              \/ i = 2 /\ p[h] = "first"
                                              \/ i = 3 /\ p[h] = "last"
    BY <1>6, <2>1 DEF Place
  <2>5. IF p[h] \in {"held", "rest", "done"} THEN P = {} ELSE \E i : P = {i}
    <3>1. p[h] \in {"held", "rest", "done"} => P = {}
      BY <2>4
    <3>2. p[h] = "use" => P = {1}
      BY <2>4
    <3>3. p[h] = "first" => P = {2}
      BY <2>4
    <3>4. p[h] = "last" => P = {3}
      BY <2>4
    <3> HIDE DEF P
    <3> QED BY <2>2, <3>1, <3>2, <3>3, <3>4 DEF Places
  <2> HIDE DEF P, T
  <2>6. Cardinality({}) = 0 /\ \A x : Cardinality({x}) = 1
    BY FS_EmptySet, FS_Singleton
  <2>7. \/ Cardinality(P) = 0 /\ Cardinality(T) = 1
        \/ Cardinality(P) = 1 /\ Cardinality(T) = 0
    BY <2>3, <2>5, <2>6, Zenon
  <2>8. Cardinality(P) + Cardinality(T) = 1
    BY <2>7
  <2> QED BY <2>8 DEF P, T
<1>10. 0 \in ChainFrom(FirstFree) /\ 0 \in ChainFrom(LastFree)
  BY <1>3, <1>4
<1> QED BY <1>8, <1>9, <1>10 DEF HandlesConserved, places

\* HandleCount and NextHandleNeedingPool are within the table.
LEMMA CountType == FreeInv => TypeOK
<1> SUFFICES ASSUME FreeInv PROVE TypeOK
  OBVIOUS
<1>1. PICK p \in [Indexes -> Places] : GhostInv(p)
  BY DEF FreeInv
<1>2. LOWLEVEL_COUNT \in Nat /\ LOWLEVEL_COUNT > 1 /\ 0 % LOWLEVEL_COUNT = 0
  BY HandleFreeAssumptions
<1> DEFINE M == MaxPages * LOWLEVEL_COUNT
<1>3. M \in Nat /\ M >= 2
  BY <1>2, IndexesNat
<1>4. \A h \in InUse : h \in Indexes /\ h # 0
  <2>1. \A h \in InUse : h \in Indexes /\ p[h] # "none"
    BY <1>1 DEF GhostInv, ListsInv, Place
  <2>2. \A h \in InUse : h \in HandlesBelow(NextHandleNeedingPool)
    BY <1>1, <2>1 DEF GhostInv, ListsInv
  <2> QED BY <1>2, <2>1, <2>2 DEF HandlesBelow
<1>5. Indexes = 0 .. M - 1
  BY DEF Indexes
<1> HIDE DEF M
<1>6. InUse \subseteq 1 .. M - 1
  BY <1>3, <1>4, <1>5
<1>7. IsFiniteSet(1 .. M - 1) /\ Cardinality(1 .. M - 1) = M - 1
  BY <1>3, FS_Interval
<1>8. Cardinality(InUse) <= M - 1 /\ Cardinality(InUse) \in Nat
  BY <1>6, <1>7, FS_Subset, FS_CardinalityType
<1>9. HandleCount \in Indexes
  BY <1>3, <1>5, <1>8 DEF FreeInv, CountInv
<1>10. NextHandleNeedingPool \in 1 .. MaxPages * LOWLEVEL_COUNT
  <2>1. /\ NextHandleNeedingPool \in Nat /\ NextHandleNeedingPool <= MaxPages * LOWLEVEL_COUNT
        /\ NextHandleNeedingPool >= LOWLEVEL_COUNT
    BY LastPage DEF FreeInv
  <2> QED BY <1>2, <2>1, IndexesNat
<1> QED BY <1>9, <1>10 DEF FreeInv, FreeTypes, TypeOK, Locks

\* The head that a pop has verified still has the successor it read.
LEMMA FreshHolds == FreeInv => PopIsFresh
<1> SUFFICES ASSUME FreeInv, NEW t \in Threads, pc[t] = "Pop", FirstFree = OldValue[t]
             PROVE  NewValue[t] = NextFreeTableEntry[Handle[t]]
  BY DEF PopIsFresh
<1>1. PICK p \in [Indexes -> Places] : GhostInv(p)
  BY DEF FreeInv
<1> QED BY <1>1, PopTakes DEF FreeInv

\* The variables of the free lists have their types in every reachable state of
\* ExpAllocateHandleTableEntry, ExpMoveFreeHandles and ExpFreeHandleTableEntry:
\* HandleCount, which is counted up and down outside the locks, stays below the
\* number of entries.
THEOREM TypeCorrect == Spec => []TypeOK
BY FreeInvariance, CountType, PTL

\* Whatever the number of threads, locks and pages: no pop of FirstFree succeeds
\* with a stale successor, although the list has no sequence number.
THEOREM PopsAreFresh == Spec => []PopIsFresh
BY FreeInvariance, FreshHolds, PTL

\* Whatever the number of threads, locks and pages: pops, frees, moves and growth
\* give no handle out twice and lose none, and both lists end.
THEOREM HandlesAreConserved == Spec => []HandlesConserved
BY FreeInvariance, ConservedHolds, PTL
=============================================================================
