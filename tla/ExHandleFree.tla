---------------------------- MODULE ExHandleFree ----------------------------
(***************************************************************************)
(* The free lists of a handle table (ex/handle.c). A free entry holds the   *)
(* index of the next one. Allocation pops FirstFree without a table lock;   *)
(* against A-B-A it holds one of the locks HandleTableLock[Idx] shared       *)
(* between the look at the head and the exchange. A free that sees that     *)
(* lock held pushes the entry on LastFree instead, which an allocation that  *)
(* finds FirstFree empty moves over after every such pop has ended. If that  *)
(* gives nothing, the table grows by a page. The sequence numbers of the     *)
(* source are compiled out (EXHANDLE_EXTRA_CHECKS is 0), so the locks are    *)
(* the whole protection. A lock is the RWLock that ExPushLock implements.    *)
(***************************************************************************)
EXTENDS Naturals, FiniteSets

CONSTANTS
    Threads,
    LOWLEVEL_COUNT,     \* entries of a page; the first one is not a handle
    MaxPages,           \* the bound on the growth of the table
    HANDLE_TABLE_LOCKS,
    FreeTarget,         \* 100 in the code: fewer free handles make a FIFO table grow
    GrantedAccess       \* what a handle in use has where a free one has the next index

ASSUME HandleFreeAssumptions ==
    /\ LOWLEVEL_COUNT \in Nat /\ LOWLEVEL_COUNT > 1
    /\ MaxPages \in Nat \ {0}
    /\ HANDLE_TABLE_LOCKS \in Nat \ {0}
    /\ FreeTarget \in Nat
    /\ GrantedAccess \notin Nat

VARIABLES
    FirstFree, LastFree,        \* the heads of the two lists, 0 when empty
    NextFreeTableEntry,         \* of each entry
    NextHandleNeedingPool,      \* the size of the table
    HandleCount,
    StrictFIFO,                 \* set before the table is used
    InUse,                      \* handles whose entry has an object
    HandleTableLock,            \* how each thread holds each lock: none, S, X
    pc,
    Handle,                     \* the handle a thread pops or frees
    OldValue,                   \* the head it read, or the chain it moves
    NewValue,                   \* the next index it read
    Index, OldIndex,            \* the reversal: the rest of the chain, and what is done
    FreeSize,
    Idx,                        \* the lock it waits for in the move
    RetVal                      \* whether the growth succeeded

lists == <<FirstFree, LastFree, NextFreeTableEntry>>
table == <<NextHandleNeedingPool, HandleCount, StrictFIFO, InUse>>
moving == <<Index, OldIndex, FreeSize, Idx>>
locals == <<Handle, OldValue, NewValue, moving, RetVal>>
vars == <<lists, table, HandleTableLock, pc, locals>>

Indexes == 0 .. MaxPages * LOWLEVEL_COUNT - 1

\* The handles of a table of n entries: the first entry of a page is special.
HandlesBelow(n) == {h \in Indexes : h < n /\ h % LOWLEVEL_COUNT # 0}

\* The chain of the free entries of a new page.
PageChain(h) == IF h % LOWLEVEL_COUNT = LOWLEVEL_COUNT - 1 THEN 0 ELSE h + 1

Init ==
    /\ FirstFree = 1
    /\ LastFree = 0
    /\ NextFreeTableEntry =
          [h \in Indexes |-> IF h \in HandlesBelow(LOWLEVEL_COUNT) THEN PageChain(h) ELSE 0]
    /\ NextHandleNeedingPool = LOWLEVEL_COUNT
    /\ HandleCount = 0
    /\ StrictFIFO \in BOOLEAN
    /\ InUse = {}
    /\ HandleTableLock = [i \in 0 .. HANDLE_TABLE_LOCKS - 1 |-> [t \in Threads |-> "none"]]
    /\ pc = [t \in Threads |-> "idle"]
    /\ Handle = [t \in Threads |-> 0]
    /\ OldValue = [t \in Threads |-> 0]
    /\ NewValue = [t \in Threads |-> 0]
    /\ Index = [t \in Threads |-> 0]
    /\ OldIndex = [t \in Threads |-> 0]
    /\ FreeSize = [t \in Threads |-> 0]
    /\ Idx = [t \in Threads |-> 0]
    /\ RetVal = [t \in Threads |-> FALSE]

Goto(t, label) == pc' = [pc EXCEPT ![t] = label]

Return(t) ==
    /\ Goto(t, "idle")
    /\ Handle' = [Handle EXCEPT ![t] = 0]
    /\ OldValue' = [OldValue EXCEPT ![t] = 0]
    /\ NewValue' = [NewValue EXCEPT ![t] = 0]
    /\ RetVal' = [RetVal EXCEPT ![t] = FALSE]

(***************************************************************************)
(* The locks. The lock of a handle is chosen by its index.                  *)
(***************************************************************************)
LockOf(h) == h % HANDLE_TABLE_LOCKS

\* The Locked bit, which ExTryAcquireReleasePushLockExclusive looks at.
Held(i) == \E u \in Threads : HandleTableLock[i][u] # "none"

Acquire(t, i, mode) ==
    /\ \A u \in Threads : HandleTableLock[i][u] # "none" => mode = "S" /\ HandleTableLock[i][u] = "S"
    /\ HandleTableLock' = [HandleTableLock EXCEPT ![i][t] = mode]

Release(t, i) == HandleTableLock' = [HandleTableLock EXCEPT ![i][t] = "none"]

(***************************************************************************)
(* ExpAllocateHandleTableEntry.                                            *)
(***************************************************************************)
Allocate(t) ==
    /\ pc[t] = "idle"
    /\ Goto(t, "Allocate")
    /\ UNCHANGED <<lists, table, HandleTableLock, locals>>

\* The head of the list decides between the fast path and the table lock.
ReadFirstFree(t) ==
    /\ pc[t] = "Allocate"
    /\ OldValue' = [OldValue EXCEPT ![t] = FirstFree]
    /\ Goto(t, IF FirstFree = 0 THEN "LockTable" ELSE "LockShared")
    /\ UNCHANGED <<lists, table, HandleTableLock, Handle, NewValue, moving, RetVal>>

LockTable(t) ==
    /\ pc[t] = "LockTable"
    /\ Acquire(t, 0, "X")
    /\ Goto(t, "CheckAgain")
    /\ UNCHANGED <<lists, table, locals>>

\* Another thread may have filled the list while this one waited.
CheckAgain(t) ==
    /\ pc[t] = "CheckAgain"
    /\ OldValue' = [OldValue EXCEPT ![t] = FirstFree]
    /\ Goto(t, IF FirstFree = 0 THEN "Move" ELSE "UnlockTable")
    /\ UNCHANGED <<lists, table, HandleTableLock, Handle, NewValue, moving, RetVal>>

\* With a head in hand, from either list, the pop is tried.
UnlockTable(t) ==
    /\ pc[t] = "UnlockTable"
    /\ Release(t, 0)
    /\ Goto(t, "LockShared")
    /\ UNCHANGED <<lists, table, locals>>

LockShared(t) ==
    /\ pc[t] = "LockShared"
    /\ Handle' = [Handle EXCEPT ![t] = OldValue[t]]
    /\ Acquire(t, LockOf(OldValue[t]), "S")
    /\ Goto(t, "Verify")
    /\ UNCHANGED <<lists, table, OldValue, NewValue, moving, RetVal>>

\* Mutant: the head is not looked at again under the lock.
Verify_Never(t) ==
    /\ pc[t] = "Verify"
    /\ Goto(t, "ReadNext")
    /\ UNCHANGED <<lists, table, HandleTableLock, locals>>

\* Only an entry that is the head while its lock is held may be popped.
Verify(t) ==
    /\ pc[t] = "Verify"
    /\ Goto(t, IF FirstFree = OldValue[t] THEN "ReadNext" ELSE "UnlockRetry")
    /\ UNCHANGED <<lists, table, HandleTableLock, locals>>

ReadNext(t) ==
    /\ pc[t] = "ReadNext"
    /\ NewValue' = [NewValue EXCEPT ![t] = NextFreeTableEntry[Handle[t]]]
    /\ Goto(t, "Pop")
    /\ UNCHANGED <<lists, table, HandleTableLock, Handle, OldValue, moving, RetVal>>

Pop(t) ==
    /\ pc[t] = "Pop"
    /\ \/ /\ FirstFree = OldValue[t]
          /\ FirstFree' = NewValue[t]
          /\ Goto(t, "UnlockPopped")
       \/ /\ FirstFree # OldValue[t]
          /\ Goto(t, "UnlockRetry")
          /\ UNCHANGED FirstFree
    /\ UNCHANGED <<LastFree, NextFreeTableEntry, table, HandleTableLock, locals>>

\* A pop that failed starts over.
UnlockRetry(t) ==
    /\ pc[t] = "UnlockRetry"
    /\ Release(t, LockOf(Handle[t]))
    /\ Handle' = [Handle EXCEPT ![t] = 0]
    /\ OldValue' = [OldValue EXCEPT ![t] = 0]
    /\ NewValue' = [NewValue EXCEPT ![t] = 0]
    /\ Goto(t, "Allocate")
    /\ UNCHANGED <<lists, table, moving, RetVal>>

UnlockPopped(t) ==
    /\ pc[t] = "UnlockPopped"
    /\ Release(t, LockOf(Handle[t]))
    /\ Goto(t, "Create")
    /\ UNCHANGED <<lists, table, locals>>

\* The handle is counted and returned, and ExCreateHandle fills in its entry.
CreateHandle(t) ==
    /\ pc[t] = "Create"
    /\ HandleCount' = HandleCount + 1
    /\ InUse' = InUse \cup {Handle[t]}
    /\ NextFreeTableEntry' = [NextFreeTableEntry EXCEPT ![Handle[t]] = GrantedAccess]
    /\ Return(t)
    /\ UNCHANGED <<FirstFree, LastFree, NextHandleNeedingPool, StrictFIFO, HandleTableLock, moving>>

(***************************************************************************)
(* ExpMoveFreeHandles, under the table lock, which is lock 0 as well.       *)
(***************************************************************************)
\* LastFree is taken as a whole.
TakeLastFree(t) ==
    /\ pc[t] = "Move"
    /\ OldValue' = [OldValue EXCEPT ![t] = LastFree]
    /\ LastFree' = 0
    /\ Idx' = [Idx EXCEPT ![t] = IF LastFree = 0 THEN 0 ELSE 1]
    /\ Goto(t, IF LastFree = 0 THEN "Grow" ELSE "Barrier")
    /\ UNCHANGED <<FirstFree, NextFreeTableEntry, table, HandleTableLock, Handle, NewValue, Index,
                   OldIndex, FreeSize, RetVal>>

Passed(t) ==
    /\ Idx' = [Idx EXCEPT ![t] = @ + 1]
    /\ Goto(t, "Barrier")

\* ExAcquireReleasePushLockExclusive of a lock that is not held only looks.
BarrierLook(t) ==
    /\ pc[t] = "Barrier"
    /\ Idx[t] < HANDLE_TABLE_LOCKS
    /\ \/ /\ Held(Idx[t])
          /\ Goto(t, "BarrierAcquire")
          /\ UNCHANGED Idx
       \/ /\ ~Held(Idx[t])
          /\ Passed(t)
    /\ UNCHANGED <<lists, table, HandleTableLock, Handle, OldValue, NewValue, Index, OldIndex,
                   FreeSize, RetVal>>

BarrierAcquire(t) ==
    /\ pc[t] = "BarrierAcquire"
    /\ Acquire(t, Idx[t], "X")
    /\ Goto(t, "BarrierRelease")
    /\ UNCHANGED <<lists, table, locals>>

BarrierRelease(t) ==
    /\ pc[t] = "BarrierRelease"
    /\ Release(t, Idx[t])
    /\ Passed(t)
    /\ UNCHANGED <<lists, table, Handle, OldValue, NewValue, Index, OldIndex, FreeSize, RetVal>>

BeginReverse(t) ==
    /\ Index' = [Index EXCEPT ![t] = OldValue[t]]
    /\ OldIndex' = [OldIndex EXCEPT ![t] = 0]
    /\ FreeSize' = [FreeSize EXCEPT ![t] = 0]
    /\ Goto(t, "Reverse")

\* Every pop that could have seen an entry of the chain has ended. The chain
\* becomes the list if that is empty, unless FIFO order is asked for.
BarrierDone(t) ==
    /\ pc[t] = "Barrier"
    /\ Idx[t] = HANDLE_TABLE_LOCKS
    /\ Idx' = [Idx EXCEPT ![t] = 0]
    /\ \/ /\ ~StrictFIFO /\ FirstFree = 0
          /\ FirstFree' = OldValue[t]
          /\ Goto(t, "UnlockTable")
          /\ UNCHANGED <<Index, OldIndex, FreeSize>>
       \/ /\ StrictFIFO \/ FirstFree # 0
          /\ BeginReverse(t)
          /\ UNCHANGED FirstFree
    /\ UNCHANGED <<LastFree, NextFreeTableEntry, table, HandleTableLock, Handle, OldValue, NewValue,
                   RetVal>>

\* One entry of the chain is turned round. Its head, OldValue, becomes the last.
Reverse(t) ==
    LET NewIndex == NextFreeTableEntry[Index[t]]
    IN  /\ pc[t] = "Reverse"
        /\ FreeSize' = [FreeSize EXCEPT ![t] = @ + 1]
        /\ NextFreeTableEntry' = [NextFreeTableEntry EXCEPT ![Index[t]] = OldIndex[t]]
        /\ OldIndex' = [OldIndex EXCEPT ![t] = Index[t]]
        /\ Index' = [Index EXCEPT ![t] = NewIndex]
        /\ Goto(t, IF NewIndex = 0 THEN "Exchange" ELSE "Reverse")
        /\ UNCHANGED <<FirstFree, LastFree, table, HandleTableLock, Handle, OldValue, NewValue, Idx, RetVal>>

\* ExpInterlockedExchange: the last entry is linked to the list there is ...
ExchangeLink(t) ==
    /\ pc[t] = "Exchange"
    /\ NewValue' = [NewValue EXCEPT ![t] = FirstFree]
    /\ NextFreeTableEntry' = [NextFreeTableEntry EXCEPT ![OldValue[t]] = FirstFree]
    /\ Goto(t, "ExchangeCas")
    /\ UNCHANGED <<FirstFree, LastFree, table, HandleTableLock, Handle, OldValue, moving, RetVal>>

\* ... and the chain put in front of it. A FIFO table with few handles grows.
ExchangeCas(t) ==
    LET grow == StrictFIFO /\ FreeSize[t] < FreeTarget
    IN  /\ pc[t] = "ExchangeCas"
        /\ \/ /\ FirstFree = NewValue[t]
              /\ FirstFree' = OldIndex[t]
              /\ OldValue' = [OldValue EXCEPT ![t] = IF grow THEN 0 ELSE @]
              /\ NewValue' = [NewValue EXCEPT ![t] = 0]
              /\ OldIndex' = [OldIndex EXCEPT ![t] = 0]
              /\ FreeSize' = [FreeSize EXCEPT ![t] = 0]
              /\ Goto(t, IF grow THEN "Grow" ELSE "UnlockTable")
           \/ /\ FirstFree # NewValue[t]
              /\ Goto(t, "Exchange")
              /\ UNCHANGED <<FirstFree, OldValue, NewValue, OldIndex, FreeSize>>
        /\ UNCHANGED <<LastFree, NextFreeTableEntry, table, HandleTableLock, Handle, Index, Idx, RetVal>>

(***************************************************************************)
(* ExpAllocateHandleTableEntrySlow, under the table lock. How the page gets  *)
(* into the table is the matter of ExHandleTable.                           *)
(***************************************************************************)
\* The last entry of the page that is being added.
LastOfPage == NextHandleNeedingPool - 1

\* No pool, no quota, or no room in the top level.
GrowFails(t) ==
    /\ pc[t] = "Grow"
    /\ RetVal' = [RetVal EXCEPT ![t] = FALSE]
    /\ Goto(t, "UnlockGrown")
    /\ UNCHANGED <<lists, table, HandleTableLock, Handle, OldValue, NewValue, moving>>

\* The page, its entries chained, is part of the table.
Grow(t) ==
    /\ pc[t] = "Grow"
    /\ NextHandleNeedingPool < MaxPages * LOWLEVEL_COUNT
    /\ NextHandleNeedingPool' = NextHandleNeedingPool + LOWLEVEL_COUNT
    /\ NextFreeTableEntry' =
          [h \in Indexes |-> IF h \in HandlesBelow(NextHandleNeedingPool') \ HandlesBelow(NextHandleNeedingPool)
                             THEN PageChain(h) ELSE NextFreeTableEntry[h]]
    /\ RetVal' = [RetVal EXCEPT ![t] = TRUE]
    /\ Goto(t, "GrowLink")
    /\ UNCHANGED <<FirstFree, LastFree, HandleCount, StrictFIFO, InUse, HandleTableLock, Handle, OldValue, NewValue,
                   moving>>

GrowLink(t) ==
    /\ pc[t] = "GrowLink"
    /\ NewValue' = [NewValue EXCEPT ![t] = FirstFree]
    /\ NextFreeTableEntry' = [NextFreeTableEntry EXCEPT ![LastOfPage] = FirstFree]
    /\ Goto(t, "GrowCas")
    /\ UNCHANGED <<FirstFree, LastFree, table, HandleTableLock, Handle, OldValue, moving, RetVal>>

GrowCas(t) ==
    /\ pc[t] = "GrowCas"
    /\ \/ /\ FirstFree = NewValue[t]
          /\ FirstFree' = NextHandleNeedingPool - LOWLEVEL_COUNT + 1
          /\ NewValue' = [NewValue EXCEPT ![t] = 0]
          /\ Goto(t, "UnlockGrown")
       \/ /\ FirstFree # NewValue[t]
          /\ Goto(t, "GrowLink")
          /\ UNCHANGED <<FirstFree, NewValue>>
    /\ UNCHANGED <<LastFree, NextFreeTableEntry, table, HandleTableLock, Handle, OldValue, moving, RetVal>>

\* Mutant: the lock is kept when the growth has failed.
UnlockGrown_Success(t) ==
    /\ pc[t] = "UnlockGrown"
    /\ IF RetVal[t] THEN Release(t, 0) ELSE UNCHANGED HandleTableLock
    /\ Goto(t, "AfterGrow")
    /\ UNCHANGED <<lists, table, locals>>

UnlockGrown(t) ==
    /\ pc[t] = "UnlockGrown"
    /\ Release(t, 0)
    /\ Goto(t, "AfterGrow")
    /\ UNCHANGED <<lists, table, locals>>

\* What the list has now decides; the call fails if growing failed and it has nothing.
AfterGrow(t) ==
    /\ pc[t] = "AfterGrow"
    /\ \/ /\ FirstFree = 0 /\ ~RetVal[t]
          /\ Return(t)
       \/ /\ FirstFree # 0 \/ RetVal[t]
          /\ OldValue' = [OldValue EXCEPT ![t] = FirstFree]
          /\ RetVal' = [RetVal EXCEPT ![t] = FALSE]
          /\ Goto(t, IF FirstFree = 0 THEN "LockTable" ELSE "LockShared")
          /\ UNCHANGED <<Handle, NewValue>>
    /\ UNCHANGED <<lists, table, HandleTableLock, moving>>

(***************************************************************************)
(* ExpFreeHandleTableEntry.                                                *)
(***************************************************************************)
\* ExDestroyHandle has taken the object out of the entry it held locked.
Free(t, h) ==
    /\ pc[t] = "idle"
    /\ h \in InUse
    /\ InUse' = InUse \ {h}
    /\ HandleCount' = HandleCount - 1
    /\ Handle' = [Handle EXCEPT ![t] = h]
    /\ Goto(t, "ChooseList")
    /\ UNCHANGED <<lists, NextHandleNeedingPool, StrictFIFO, HandleTableLock, OldValue, NewValue, moving, RetVal>>

\* Mutant: the entry goes to FirstFree although its lock is held.
ChooseList_First(t) ==
    /\ pc[t] = "ChooseList"
    /\ Goto(t, IF StrictFIFO THEN "LinkLast" ELSE "LinkFirst")
    /\ UNCHANGED <<lists, table, HandleTableLock, locals>>

\* An entry that a pop may be looking at goes to the other list.
ChooseList(t) ==
    /\ pc[t] = "ChooseList"
    /\ Goto(t, IF StrictFIFO \/ Held(LockOf(Handle[t])) THEN "LinkLast" ELSE "LinkFirst")
    /\ UNCHANGED <<lists, table, HandleTableLock, locals>>

\* The head of the list chosen.
Chosen(t) == IF pc[t] \in {"LinkFirst", "PushFirst"} THEN FirstFree ELSE LastFree

Link(t) ==
    /\ pc[t] \in {"LinkFirst", "LinkLast"}
    /\ OldValue' = [OldValue EXCEPT ![t] = Chosen(t)]
    /\ NextFreeTableEntry' = [NextFreeTableEntry EXCEPT ![Handle[t]] = Chosen(t)]
    /\ Goto(t, IF pc[t] = "LinkFirst" THEN "PushFirst" ELSE "PushLast")
    /\ UNCHANGED <<FirstFree, LastFree, table, HandleTableLock, Handle, NewValue, moving, RetVal>>

Push(t) ==
    /\ pc[t] \in {"PushFirst", "PushLast"}
    /\ \/ /\ Chosen(t) = OldValue[t]
          /\ FirstFree' = IF pc[t] = "PushFirst" THEN Handle[t] ELSE FirstFree
          /\ LastFree' = IF pc[t] = "PushLast" THEN Handle[t] ELSE LastFree
          /\ Return(t)
       \/ /\ Chosen(t) # OldValue[t]
          /\ Goto(t, IF pc[t] = "PushFirst" THEN "LinkFirst" ELSE "LinkLast")
          /\ UNCHANGED <<FirstFree, LastFree, Handle, OldValue, NewValue, RetVal>>
    /\ UNCHANGED <<NextFreeTableEntry, table, HandleTableLock, moving>>

(***************************************************************************)
(* The specification.                                                      *)
(***************************************************************************)
Begin(t) == Allocate(t) \/ \E h \in Indexes : Free(t, h)

Continue(t) ==
    \/ ReadFirstFree(t) \/ LockShared(t) \/ Verify(t) \/ ReadNext(t) \/ Pop(t)
    \/ UnlockRetry(t) \/ UnlockPopped(t) \/ CreateHandle(t)
    \/ LockTable(t) \/ CheckAgain(t) \/ UnlockTable(t)
    \/ TakeLastFree(t) \/ BarrierLook(t) \/ BarrierAcquire(t) \/ BarrierRelease(t)
    \/ BarrierDone(t) \/ Reverse(t) \/ ExchangeLink(t) \/ ExchangeCas(t)
    \/ Grow(t) \/ GrowFails(t) \/ GrowLink(t) \/ GrowCas(t) \/ UnlockGrown(t) \/ AfterGrow(t)
    \/ ChooseList(t) \/ Link(t) \/ Push(t)

Next == \E t \in Threads : Begin(t) \/ Continue(t)

Spec == Init /\ [][Next]_vars

\* Every thread in a call runs on.
FairSpec == Spec /\ \A t \in Threads : WF_vars(Continue(t))

(***************************************************************************)
(* Properties.                                                             *)
(***************************************************************************)
\* The entries on the way from h to the entry e or to the end of the chain,
\* which is 0: what every set has that has h and, with an entry, the next one.
Way(h, e) ==
    LET closed(S) == \A k \in S \ {0, e} : NextFreeTableEntry[k] \in Indexes => NextFreeTableEntry[k] \in S
    IN  {g \in Indexes : \A S \in SUBSET Indexes : h \in S /\ closed(S) => g \in S}

ChainFrom(h) == Way(h, 0)

Chain(h) == ChainFrom(h) \ {0}

\* The chain that a thread in the move, or in the growth, has not yet published.
Unpublished(t) ==
    CASE pc[t] \in {"Barrier", "BarrierAcquire", "BarrierRelease"} -> Chain(OldValue[t])
      [] pc[t] = "Reverse" -> Chain(Index[t]) \cup Chain(OldIndex[t])
      [] pc[t] \in {"Exchange", "ExchangeCas"} -> Way(OldIndex[t], OldValue[t])
      [] pc[t] \in {"GrowLink", "GrowCas"} ->
            HandlesBelow(NextHandleNeedingPool) \ HandlesBelow(NextHandleNeedingPool - LOWLEVEL_COUNT)
      [] OTHER -> {}

\* The handle a thread has popped and not yet filled in, or not yet pushed.
Single(t) ==
    IF pc[t] \in {"UnlockPopped", "Create", "ChooseList", "LinkFirst", "LinkLast", "PushFirst", "PushLast"}
    THEN {Handle[t]} ELSE {}

\* Every variable has its type.
TypeOK ==
    /\ FirstFree \in Indexes /\ LastFree \in Indexes
    /\ NextFreeTableEntry \in [Indexes -> Indexes \cup {GrantedAccess}]
    /\ NextHandleNeedingPool \in 1 .. MaxPages * LOWLEVEL_COUNT
    /\ HandleCount \in Indexes
    /\ StrictFIFO \in BOOLEAN
    /\ InUse \subseteq Indexes
    /\ HandleTableLock \in [0 .. HANDLE_TABLE_LOCKS - 1 -> [Threads -> {"none", "S", "X"}]]
    /\ Handle \in [Threads -> Indexes]
    /\ OldValue \in [Threads -> Indexes]
    /\ NewValue \in [Threads -> Indexes \cup {GrantedAccess}]
    /\ Index \in [Threads -> Indexes]
    /\ OldIndex \in [Threads -> Indexes]
    /\ FreeSize \in [Threads -> Nat]
    /\ Idx \in [Threads -> 0 .. HANDLE_TABLE_LOCKS]
    /\ RetVal \in [Threads -> BOOLEAN]

\* Every handle of the table is in exactly one place: in use, on one of the
\* lists, or with the one thread that pops, frees, moves or adds it; and both
\* lists end. No handle is given out twice, and none is lost.
HandlesConserved ==
    LET places == <<InUse, Chain(FirstFree), Chain(LastFree)>>
    IN  /\ 0 \in ChainFrom(FirstFree) /\ 0 \in ChainFrom(LastFree)
        /\ \A h \in HandlesBelow(NextHandleNeedingPool) :
              Cardinality({i \in 1 .. 3 : h \in places[i]})
            + Cardinality({t \in Threads : h \in Single(t) \cup Unpublished(t)}) = 1
        /\ UNION {places[i] : i \in 1 .. 3} \subseteq HandlesBelow(NextHandleNeedingPool)

\* No A-B-A: when the exchange of a pop is going to succeed, the entry it pops
\* has not left the list since its successor was read.
PopIsFresh ==
    \A t \in Threads : pc[t] = "Pop" /\ FirstFree = OldValue[t] => NewValue[t] = NextFreeTableEntry[Handle[t]]

\* Once no more calls begin, every allocation and every free ends: the table
\* lock, the locks of the pops and the move do not wait for one another for ever.
CallsEnd ==
    \A t \in Threads : <>[][\A u \in Threads : ~Begin(u)]_vars => []<>(pc[t] = "idle")
=============================================================================
