----------------------------- MODULE ExCallBack -----------------------------
(***************************************************************************)
(* Low-overhead callbacks (ex/callback.c) over fast references (inc/ex.h). *)
(* A callback slot is one word: a pointer to a routine block and, in its   *)
(* low bits, a few references to the block that have been taken in         *)
(* advance.  A caller takes one with a compare-exchange; when they have    *)
(* run out it takes a reference under ExpCallBackFlush instead, and the    *)
(* one that took the last tries to refill the word.  Who removes the block *)
(* from the slot flushes the lock, gives the unused references back, waits *)
(* for the callers to leave and frees the block.                           *)
(*                                                                         *)
(* Threads use one slot the way PsSetCreateProcessNotifyRoutine and the    *)
(* code that calls its routines do.  A freed block's address can be given  *)
(* to the next block, so a compare-exchange can meet the value it read in  *)
(* another block's life.  The block's rundown protection is the one of     *)
(* ExRundown, by what it promises: a count, closed by the waiter.  The     *)
(* push lock is by its owner.  ExpCallBackReturnRefs is FALSE, as in every *)
(* free build.                                                             *)
(***************************************************************************)
EXTENDS Integers, FiniteSets

CONSTANTS Threads, Blocks, NULL,
          Role,             \* what a thread does: "call", "install", "remove"
          MAX_FAST_REFS     \* 7, or 15 on 64 bits

ASSUME MaxFastRefsPositive == MAX_FAST_REFS \in Nat \ {0}
ASSUME RolesTyped == Role \in [Threads -> SUBSET {"call", "install", "remove"}]
ASSUME ThreadsFinite == IsFiniteSet(Threads)
ASSUME NullIsNone == NULL \notin Threads \cup Blocks

VARIABLES RoutineBlock,     \* the slot's EX_FAST_REF
          ExpCallBackFlush, \* who holds the push lock
          allocated,        \* the blocks the pool has given out
          RundownProtect,   \* a block's references
          rundown,          \* the blocks whose rundown protection is closed
          pc,               \* where a thread is
          op,               \* what it is there for
          block,            \* CallBackBlock, NewBlock or ReplacedBlock
          OldRef            \* the slot's value as the thread last read it

vars == <<RoutineBlock, ExpCallBackFlush, allocated, RundownProtect, rundown,
          pc, op, block, OldRef>>
slot == <<RoutineBlock, ExpCallBackFlush>>
pool == <<allocated, RundownProtect, rundown>>

EmptyRef == [Object |-> NULL, RefCnt |-> 0]
FullRef(b) == [Object |-> b, RefCnt |-> MAX_FAST_REFS]

\* CompareExchange is the interlocked exchange of what the thread read for new.
CompareExchange(t, new, then, else) ==
    IF RoutineBlock = OldRef[t]
    THEN RoutineBlock' = new /\ pc' = [pc EXCEPT ![t] = then]
    ELSE UNCHANGED RoutineBlock /\ pc' = [pc EXCEPT ![t] = else]

Goto(t, label) == pc' = [pc EXCEPT ![t] = label]

\* ReadThen reads the slot for a compare-exchange; what the routine then does
\* with another value of it does not depend on the value.
ReadThen(t, wanted, cas, else) ==
    /\ OldRef' = [OldRef EXCEPT ![t] = IF wanted THEN RoutineBlock ELSE EmptyRef]
    /\ Goto(t, IF wanted THEN cas ELSE else)
Forget(t) == OldRef' = [OldRef EXCEPT ![t] = EmptyRef]

\* ExAcquireRundownProtectionEx and ExReleaseRundownProtectionEx
Acquire(b, n) == RundownProtect' = [RundownProtect EXCEPT ![b] = @ + n]
Release(b, n) == RundownProtect' = [RundownProtect EXCEPT ![b] = @ - n]

----------------------------------------------------------------------------
\* What the threads are there for: a call, or the removal of what they find.
Start(t, what) ==
    /\ pc[t] = "idle"
    /\ what \in Role[t]
    /\ op' = [op EXCEPT ![t] = what]
    /\ Goto(t, "Reference")
    /\ UNCHANGED <<slot, pool, block, OldRef>>

\* ExAllocateCallBack, for an installation
ExAllocateCallBack(t, b) ==
    /\ pc[t] = "idle"
    /\ "install" \in Role[t]
    /\ b \notin allocated
    /\ allocated' = allocated \cup {b}
    /\ RundownProtect' = [RundownProtect EXCEPT ![b] = 0]
    /\ op' = [op EXCEPT ![t] = "install"]
    /\ block' = [block EXCEPT ![t] = b]
    /\ Goto(t, "Bias")
    /\ UNCHANGED <<slot, rundown, OldRef>>

----------------------------------------------------------------------------
(* ExReferenceCallBackBlock *)

\* ExFastReference reads the slot: nothing there, no reference left, or one.
FastReference(t) ==
    /\ pc[t] = "Reference"
    /\ ReadThen(t, RoutineBlock.RefCnt # 0, "FastReferenceCas",
                IF RoutineBlock.Object = NULL THEN "idle" ELSE "SlowLock")
    /\ UNCHANGED <<slot, pool, op, block>>

\* The one that took the last reference goes to refill.
FastReferenceCas(t) ==
    /\ pc[t] = "FastReferenceCas"
    /\ CompareExchange(t, [OldRef[t] EXCEPT !.RefCnt = @ - 1],
                       IF OldRef[t].RefCnt = 1 THEN "Refill" ELSE "held", "Reference")
    /\ block' = [block EXCEPT ![t] = IF RoutineBlock = OldRef[t] THEN OldRef[t].Object ELSE @]
    /\ Forget(t)
    /\ UNCHANGED <<ExpCallBackFlush, pool, op>>

LockFlush(t, from, to) ==
    /\ pc[t] = from
    /\ ExpCallBackFlush = NULL
    /\ ExpCallBackFlush' = t
    /\ Goto(t, to)

SlowLock(t) ==
    /\ LockFlush(t, "SlowLock", "SlowRead")
    /\ UNCHANGED <<RoutineBlock, pool, op, block, OldRef>>

SlowRead(t) ==
    /\ pc[t] = "SlowRead"
    /\ block' = [block EXCEPT ![t] = RoutineBlock.Object]
    /\ Goto(t, "SlowAcquire")
    /\ UNCHANGED <<slot, pool, op, OldRef>>

\* The block is touched, if there is one, and referenced unless it is closed.
SlowAcquire(t) ==
    /\ pc[t] = "SlowAcquire"
    /\ LET b == block[t]
       IN  IF b # NULL /\ b \notin rundown
           THEN Acquire(b, 1) /\ UNCHANGED block
           ELSE UNCHANGED RundownProtect /\ block' = [block EXCEPT ![t] = NULL]
    /\ Goto(t, "SlowUnlock")
    /\ UNCHANGED <<slot, allocated, rundown, op, OldRef>>

SlowUnlock(t) ==
    /\ pc[t] = "SlowUnlock"
    /\ ExpCallBackFlush' = NULL
    /\ Goto(t, IF block[t] = NULL THEN "idle" ELSE "held")
    /\ UNCHANGED <<RoutineBlock, pool, op, block, OldRef>>

\* The references for the refill are taken first; if they cannot be, so be it.
Refill(t) ==
    /\ pc[t] = "Refill"
    /\ IF block[t] \notin rundown
       THEN Acquire(block[t], MAX_FAST_REFS) /\ Goto(t, "RefillRead")
       ELSE UNCHANGED RundownProtect /\ Goto(t, "held")
    /\ UNCHANGED <<slot, allocated, rundown, op, block, OldRef>>

\* Mutant: the object is not compared.
RefillReadAnyObject(t) ==
    /\ pc[t] = "RefillRead"
    /\ ReadThen(t, RoutineBlock.RefCnt = 0, "RefillCas", "RefillUndo")
    /\ UNCHANGED <<slot, pool, op, block>>

\* ExFastRefAddAdditionalReferenceCounts: there must be room, and the same
\* object in the slot.
RefillRead(t) ==
    /\ pc[t] = "RefillRead"
    /\ ReadThen(t, /\ RoutineBlock.RefCnt + MAX_FAST_REFS <= MAX_FAST_REFS
                   /\ RoutineBlock.Object = block[t],
                "RefillCas", "RefillUndo")
    /\ UNCHANGED <<slot, pool, op, block>>

RefillCas(t) ==
    /\ pc[t] = "RefillCas"
    /\ CompareExchange(t, [OldRef[t] EXCEPT !.RefCnt = @ + MAX_FAST_REFS], "held", "RefillRead")
    /\ Forget(t)
    /\ UNCHANGED <<ExpCallBackFlush, pool, op, block>>

\* Mutant: the references that could not be cached are kept.
RefillKept(t) ==
    /\ pc[t] = "RefillUndo"
    /\ Goto(t, "held")
    /\ UNCHANGED <<slot, pool, op, block, OldRef>>

RefillUndo(t) ==
    /\ pc[t] = "RefillUndo"
    /\ Release(block[t], MAX_FAST_REFS)
    /\ Goto(t, "held")
    /\ UNCHANGED <<slot, allocated, rundown, op, block, OldRef>>

----------------------------------------------------------------------------
(* The caller with a referenced block, and ExDereferenceCallBackBlock *)

\* The routine has been called, or is not the one that is to be removed.
CallDone(t) ==
    /\ pc[t] = "held"
    /\ Goto(t, "Dereference")
    /\ UNCHANGED <<slot, pool, op, block, OldRef>>

\* ExFastRefDereference: another object, or no room, and it is given back to
\* the block.
FastDereference(t) ==
    /\ pc[t] = "Dereference"
    /\ ReadThen(t, RoutineBlock.Object = block[t] /\ RoutineBlock.RefCnt # MAX_FAST_REFS,
                "DereferenceCas", "DereferenceBlock")
    /\ UNCHANGED <<slot, pool, op, block>>

DereferenceCas(t) ==
    /\ pc[t] = "DereferenceCas"
    /\ CompareExchange(t, [OldRef[t] EXCEPT !.RefCnt = @ + 1], "idle", "Dereference")
    /\ block' = [block EXCEPT ![t] = IF RoutineBlock = OldRef[t] THEN NULL ELSE @]
    /\ Forget(t)
    /\ UNCHANGED <<ExpCallBackFlush, pool, op>>

DereferenceBlock(t) ==
    /\ pc[t] = "DereferenceBlock"
    /\ Release(block[t], 1)
    /\ IF op[t] = "removed"
       THEN Goto(t, "WaitForCallBacks") /\ UNCHANGED block
       ELSE Goto(t, "idle") /\ block' = [block EXCEPT ![t] = NULL]
    /\ UNCHANGED <<slot, allocated, rundown, op, OldRef>>

----------------------------------------------------------------------------
(* ExCompareExchangeCallBack *)

\* NewBlock is biased for the slot and the references cached in it.
Bias(t) ==
    /\ pc[t] = "Bias"
    /\ Acquire(block[t], MAX_FAST_REFS + 1)
    /\ Goto(t, "Swap")
    /\ UNCHANGED <<slot, allocated, rundown, op, block, OldRef>>

\* The routine is the one to remove.
Unhook(t) ==
    /\ pc[t] = "held"
    /\ op[t] = "remove"
    /\ Goto(t, "Swap")
    /\ UNCHANGED <<slot, pool, op, block, OldRef>>

OldBlock(t) == IF op[t] = "install" THEN NULL ELSE block[t]
NewRef(t) == IF op[t] = "install" THEN FullRef(block[t]) ELSE EmptyRef

\* ExFastRefCompareSwapObject: only OldBlock is replaced.
Swap(t) ==
    /\ pc[t] = "Swap"
    /\ ReadThen(t, RoutineBlock.Object = OldBlock(t), "SwapCas",
                IF op[t] = "install" THEN "Unbias" ELSE "Dereference")
    /\ UNCHANGED <<slot, pool, op, block>>

\* Mutant: the slot is written whatever has happened to its references.
SwapWrite(t) ==
    /\ pc[t] = "SwapCas"
    /\ RoutineBlock' = NewRef(t)
    /\ Goto(t, IF op[t] = "install" THEN "idle" ELSE "Flush")
    /\ block' = [block EXCEPT ![t] = IF op[t] = "install" THEN NULL ELSE @]
    /\ UNCHANGED <<ExpCallBackFlush, pool, op, OldRef>>

SwapCas(t) ==
    /\ pc[t] = "SwapCas"
    /\ CompareExchange(t, NewRef(t), IF op[t] = "install" THEN "idle" ELSE "Flush", "Swap")
    /\ block' = [block EXCEPT ![t] = IF op[t] = "install" /\ RoutineBlock = OldRef[t] THEN NULL ELSE @]
    /\ UNCHANGED <<ExpCallBackFlush, pool, op, OldRef>>

\* The installation failed: the bias is taken back and the block is freed.
Unbias(t) ==
    /\ pc[t] = "Unbias"
    /\ Release(block[t], MAX_FAST_REFS + 1)
    /\ Goto(t, "Free")
    /\ UNCHANGED <<slot, allocated, rundown, op, block, OldRef>>

\* Mutant: the slow referencers are not flushed out.
FlushNobody(t) ==
    /\ pc[t] = "Flush"
    /\ Goto(t, "ReleaseUnused")
    /\ UNCHANGED <<slot, pool, op, block, OldRef>>

\* ExAcquireReleasePushLockExclusive only looks when the lock is free.
FlushFree(t) ==
    /\ pc[t] = "Flush"
    /\ Goto(t, IF ExpCallBackFlush = NULL THEN "ReleaseUnused" ELSE "FlushLock")
    /\ UNCHANGED <<slot, pool, op, block, OldRef>>

FlushLock(t) ==
    /\ LockFlush(t, "FlushLock", "FlushUnlock")
    /\ UNCHANGED <<RoutineBlock, pool, op, block, OldRef>>

FlushUnlock(t) ==
    /\ pc[t] = "FlushUnlock"
    /\ ExpCallBackFlush' = NULL
    /\ Goto(t, "ReleaseUnused")
    /\ UNCHANGED <<RoutineBlock, pool, op, block, OldRef>>

\* The references of the slot go, the unused ones and its own; the remover
\* still has the one it found the block with.
ReleaseUnused(t) ==
    /\ pc[t] = "ReleaseUnused"
    /\ Release(block[t], OldRef[t].RefCnt + 1)
    /\ op' = [op EXCEPT ![t] = "removed"]
    /\ Goto(t, "Dereference")
    /\ Forget(t)
    /\ UNCHANGED <<slot, allocated, rundown, block>>

----------------------------------------------------------------------------
\* ExWaitForCallBacks closes the rundown protection and waits for its count.
WaitForCallBacks(t) ==
    /\ pc[t] = "WaitForCallBacks"
    /\ rundown' = rundown \cup {block[t]}
    /\ Goto(t, "Waiting")
    /\ UNCHANGED <<slot, allocated, RundownProtect, op, block, OldRef>>

Waited(t) ==
    /\ pc[t] = "Waiting"
    /\ RundownProtect[block[t]] = 0
    /\ Goto(t, "Free")
    /\ UNCHANGED <<slot, pool, op, block, OldRef>>

ExFreeCallBack(t) ==
    /\ pc[t] = "Free"
    /\ allocated' = allocated \ {block[t]}
    /\ rundown' = rundown \ {block[t]}
    /\ block' = [block EXCEPT ![t] = NULL]
    /\ Goto(t, "idle")
    /\ UNCHANGED <<slot, RundownProtect, op, OldRef>>

----------------------------------------------------------------------------
Init ==
    /\ RoutineBlock = EmptyRef
    /\ ExpCallBackFlush = NULL
    /\ allocated = {}
    /\ RundownProtect = [b \in Blocks |-> 0]
    /\ rundown = {}
    /\ pc = [t \in Threads |-> "idle"]
    /\ op = [t \in Threads |-> "call"]
    /\ block = [t \in Threads |-> NULL]
    /\ OldRef = [t \in Threads |-> EmptyRef]

\* The steps of a call that has begun
Step(t) ==
    \/ FastReference(t) \/ FastReferenceCas(t)
    \/ SlowLock(t) \/ SlowRead(t) \/ SlowAcquire(t) \/ SlowUnlock(t)
    \/ Refill(t) \/ RefillRead(t) \/ RefillCas(t) \/ RefillUndo(t)
    \/ CallDone(t) \/ FastDereference(t) \/ DereferenceCas(t) \/ DereferenceBlock(t)
    \/ Bias(t) \/ Unhook(t) \/ Swap(t) \/ SwapCas(t) \/ Unbias(t)
    \/ FlushFree(t) \/ FlushLock(t) \/ FlushUnlock(t) \/ ReleaseUnused(t)
    \/ WaitForCallBacks(t) \/ Waited(t) \/ ExFreeCallBack(t)

Next ==
    \E t \in Threads :
        \/ \E what \in {"call", "remove"} : Start(t, what)
        \/ \E b \in Blocks : ExAllocateCallBack(t, b)
        \/ Step(t)

Spec == Init /\ [][Next]_vars

\* A thread that is in a call goes on with it; the routines return.
FairSpec == Spec /\ \A t \in Threads : WF_vars(Step(t))

----------------------------------------------------------------------------
(* Properties *)

\* The values of a slot's word
FastRef == {r \in [Object : Blocks \cup {NULL}, RefCnt : 0 .. MAX_FAST_REFS] :
                r.Object = NULL => r.RefCnt = 0}

Labels == {"idle", "Reference", "FastReferenceCas", "SlowLock", "SlowRead",
           "SlowAcquire", "SlowUnlock", "Refill", "RefillRead", "RefillCas",
           "RefillUndo", "held", "Dereference", "DereferenceCas",
           "DereferenceBlock", "Bias", "Swap", "SwapCas", "Unbias", "Flush",
           "FlushLock", "FlushUnlock", "ReleaseUnused", "WaitForCallBacks",
           "Waiting", "Free"}

\* Every variable has its type: a slot's word counts at most MAX_FAST_REFS
\* cached references, and none when there is no block, and no block's count
\* goes below zero.
TypeOK ==
    /\ RoutineBlock \in FastRef
    /\ ExpCallBackFlush \in Threads \cup {NULL}
    /\ allocated \subseteq Blocks
    /\ RundownProtect \in [Blocks -> Nat]
    /\ rundown \subseteq Blocks
    /\ pc \in [Threads -> Labels]
    /\ op \in [Threads -> {"call", "install", "remove", "removed"}]
    /\ block \in [Threads -> Blocks \cup {NULL}]
    /\ OldRef \in [Threads -> FastRef]

\* The references to its block that a thread has, by where it is
OwnRefs == {"held", "Refill", "Dereference", "DereferenceCas", "DereferenceBlock"}
RefillRefs == {"RefillRead", "RefillCas", "RefillUndo"}
FlushRefs == {"Flush", "FlushLock", "FlushUnlock", "ReleaseUnused"}

Held(t) ==
    CASE pc[t] \in OwnRefs -> 1
      [] pc[t] = "SlowUnlock" /\ block[t] # NULL -> 1
      [] pc[t] \in RefillRefs -> 1 + MAX_FAST_REFS
      [] pc[t] \in FlushRefs -> 1 + OldRef[t].RefCnt + 1
      [] pc[t] \in {"Swap", "SwapCas"} /\ op[t] = "remove" -> 1
      [] pc[t] \in {"Swap", "SwapCas", "Unbias"} /\ op[t] = "install" -> MAX_FAST_REFS + 1
      [] OTHER -> 0

\* The references to block b that anybody has: the slot with the cached ones and
\* its own, and the threads, each of them numbered within its thread.
SlotShare(b) == IF RoutineBlock.Object = b THEN RoutineBlock.RefCnt + 1 ELSE 0
Share(b) == [t \in Threads |-> IF block[t] = b THEN Held(t) ELSE 0]
SharesOf(h) == {r \in Threads \X (1 .. MAX_FAST_REFS + 2) : r[2] <= h[r[1]]}
References(b) == SlotShare(b) + Cardinality(SharesOf(Share(b)))

\* Every reference that was taken on a block is in the slot or with a thread,
\* and no reference is without one: neither the refill that races a removal,
\* nor a compare-exchange that meets an old value, gains or loses any.  A
\* block that has been freed has none.
ReferencesConserved ==
    \A b \in Blocks : References(b) = IF b \in allocated THEN RundownProtect[b] ELSE 0

\* A slow referencer reads the block's rundown protection while it has no
\* reference: the lock is what keeps the block there, open and with the
\* slot's reference not yet given back, though it may be out of the slot.
SlowBlockLives ==
    \A t \in Threads : pc[t] = "SlowAcquire" /\ block[t] # NULL =>
        /\ block[t] \in allocated \ rundown
        /\ RundownProtect[block[t]] > 0

\* When ExWaitForCallBacks has returned nobody runs the routine: the driver
\* that removed it may be unloaded.  Nobody can come to it, either.
QuietAfterWait ==
    \A t \in Threads : pc[t] = "Free" =>
        /\ RoutineBlock.Object # block[t]
        /\ \A u \in Threads \ {t} : block[u] # block[t]

\* ExWaitForCallBacks returns: every reference to a removed block is given
\* back to the block, through whatever path it was taken.
WaitReturns ==
    \A t \in Threads : pc[t] = "Waiting" ~> pc[t] = "Free"
=============================================================================
