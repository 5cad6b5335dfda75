------------------------------ MODULE ExPushLock ------------------------------
(***************************************************************************)
(* Push locks (ex/pushlock.c and the inlines of inc/ex.h): a reader/writer  *)
(* lock in one word. Contended threads push wait blocks that live on their   *)
(* own stacks onto a chain hanging off the word; the owner of the waking bit *)
(* K walks the chain, sets back and end pointers in it, and wakes waiters    *)
(* from its far end. Ownership is not handed over: a woken thread competes   *)
(* again. One step is one access to the word, to one wait block of the       *)
(* chain, or to a gate. The MP build is modelled (USE_EXP_BACKOFF).          *)
(***************************************************************************)
EXTENDS Naturals, FiniteSets

CONSTANTS
    Threads,
    NULL,           \* no wait block
    Ops             \* the operations each thread calls

ASSUME NullIsNoThread == NULL \notin Threads

VARIABLES
    PushLock,       \* the EX_PUSH_LOCK word
    WaitBlock,      \* the EX_PUSH_LOCK_WAIT_BLOCK on each thread's stack
    pc,
    mode,           \* how the thread holds the lock: none, X (exclusive), S (shared)
    want,           \* what the acquire in progress wants: none, X, S
    Old,            \* OldValue of the routine that works on the word
    Top,            \* OldValue of the waking or optimizing routine it calls
    wb,             \* WaitBlock of the walk in progress
    first           \* FirstWaitBlock of the walk, NextWaitBlock while signalling

locals == <<want, Old, Top, wb, first>>
vars == <<PushLock, WaitBlock, pc, mode, locals>>

(***************************************************************************)
(* The word: Locked, Waiting, Waking, MultipleShared, and the other bits,    *)
(* which are the share count without waiters and the address of the first   *)
(* wait block (named by its thread) with them.                              *)
(***************************************************************************)
Word == [L : BOOLEAN, W : BOOLEAN, K : BOOLEAN, M : BOOLEAN, rest : Nat \cup Threads]

Free == [L |-> FALSE, W |-> FALSE, K |-> FALSE, M |-> FALSE, rest |-> 0]
LockOnly == [Free EXCEPT !.L = TRUE]
SharedBy(n) == [LockOnly EXCEPT !.rest = n]

\* The stack of a thread that is in no acquire: no wait block.
NoBlock == [Next |-> NULL, Last |-> NULL, Previous |-> NULL, ShareCount |-> 0,
            Exclusive |-> FALSE, Spinning |-> FALSE, WakeGate |-> "none"]

Init ==
    /\ PushLock = Free
    /\ WaitBlock = [t \in Threads |-> NoBlock]
    /\ pc = [t \in Threads |-> "idle"]
    /\ mode = [t \in Threads |-> "none"]
    /\ want = [t \in Threads |-> "none"]
    /\ Old = [t \in Threads |-> Free]
    /\ Top = [t \in Threads |-> Free]
    /\ wb = [t \in Threads |-> NULL]
    /\ first = [t \in Threads |-> NULL]

Goto(t, label) == pc' = [pc EXCEPT ![t] = label]

\* The operation of thread t returns with the lock held as m says.
Return(t, m) ==
    /\ Goto(t, "idle")
    /\ mode' = [mode EXCEPT ![t] = m]
    /\ want' = [want EXCEPT ![t] = "none"]
    /\ Old' = [Old EXCEPT ![t] = Free]
    /\ Top' = [Top EXCEPT ![t] = Free]
    /\ wb' = [wb EXCEPT ![t] = NULL]
    /\ first' = [first EXCEPT ![t] = NULL]

Calls(t, op, m) == op \in Ops[t] /\ pc[t] = "idle" /\ mode[t] = m

\* A compare-exchange that fails in a loop brings the current word back.
CasLost(t, local) ==
    /\ PushLock # local[t]
    /\ local' = [local EXCEPT ![t] = PushLock]
    /\ UNCHANGED <<PushLock, pc, mode, want, WaitBlock, wb, first>>

(***************************************************************************)
(* Acquisition.                                                            *)
(***************************************************************************)
\* ExAcquirePushLockExclusive: bit test and set, else the routine. (What
\* ExAcquireReleasePushLockExclusive does on a lock it sees held is this
\* acquire and ExfReleaseExclusive.)
AcquireExclusive(t) ==
    /\ Calls(t, "AcquireExclusive", "none")
    /\ \/ /\ ~PushLock.L
          /\ PushLock' = [PushLock EXCEPT !.L = TRUE]
          /\ Return(t, "X")
       \/ /\ PushLock.L
          /\ Goto(t, "ExfAcquire")
          /\ want' = [want EXCEPT ![t] = "X"]
          /\ UNCHANGED <<PushLock, mode, Old, Top, wb, first>>
    /\ UNCHANGED WaitBlock

\* Mutant: the old value of the lock bit is not looked at.
TryAcquireExclusive_AnyOld(t) ==
    /\ Calls(t, "TryAcquireExclusive", "none")
    /\ PushLock' = [PushLock EXCEPT !.L = TRUE]
    /\ Return(t, "X")
    /\ UNCHANGED WaitBlock

\* ExTryAcquirePushLockExclusive.
TryAcquireExclusive(t) ==
    /\ Calls(t, "TryAcquireExclusive", "none")
    /\ ~PushLock.L
    /\ PushLock' = [PushLock EXCEPT !.L = TRUE]
    /\ Return(t, "X")
    /\ UNCHANGED WaitBlock

\* ExAcquirePushLockShared, and the Try form: the compare-exchange on a free
\* word, else the routine.
AcquireShared(t, try) ==
    /\ Calls(t, IF try THEN "TryAcquireShared" ELSE "AcquireShared", "none")
    /\ \/ /\ PushLock = Free
          /\ PushLock' = SharedBy(1)
          /\ Return(t, "S")
       \/ /\ PushLock # Free
          /\ Goto(t, IF try THEN "ExfTry" ELSE "ExfAcquire")
          /\ want' = [want EXCEPT ![t] = "S"]
          /\ UNCHANGED <<PushLock, mode, Old, Top, wb, first>>
    /\ UNCHANGED WaitBlock

\* The read at the head of the acquiring routines and after their backoff.
AcquireRead(t) ==
    /\ \/ pc[t] = "ExfAcquire" /\ Goto(t, "Acquire")
       \/ pc[t] = "ExfTry" /\ Goto(t, "Try")
    /\ Old' = [Old EXCEPT ![t] = PushLock]
    /\ UNCHANGED <<PushLock, WaitBlock, mode, want, Top, wb, first>>

\* A failed compare-exchange of an acquire: the word is read again.
Backoff(t) ==
    /\ Goto(t, "ExfAcquire")
    /\ Old' = [Old EXCEPT ![t] = Free]

\* The word lets in a thread that wants w, and becomes the following.
Admits(v, w) == ~v.L \/ (w = "S" /\ ~v.W /\ v.rest > 0)

Admitted(v, w) ==
    IF w = "S" /\ ~v.W THEN [v EXCEPT !.L = TRUE, !.rest = @ + 1] ELSE [v EXCEPT !.L = TRUE]

\* A turn of the loop that takes the lock.
AcquireCas(t) ==
    /\ pc[t] \in {"Acquire", "Try"}
    /\ Admits(Old[t], want[t])
    /\ \/ /\ PushLock = Old[t]
          /\ PushLock' = Admitted(Old[t], want[t])
          /\ Return(t, want[t])
          /\ UNCHANGED WaitBlock
       \/ /\ pc[t] = "Acquire"
          /\ PushLock # Old[t]
          /\ Backoff(t)
          /\ UNCHANGED <<PushLock, WaitBlock, mode, want, Top, wb, first>>
       \/ /\ pc[t] = "Try"
          /\ CasLost(t, Old)
          /\ UNCHANGED Top

\* ExfTryAcquirePushLockShared returns FALSE.
TryRefused(t) ==
    /\ pc[t] = "Try"
    /\ ~Admits(Old[t], want[t])
    /\ Return(t, "none")
    /\ UNCHANGED <<PushLock, WaitBlock>>

\* Mutant: the share count is saved from three owners on.
PushedBlock_OffByOne(t) ==
    [Next |-> IF Old[t].W THEN Old[t].rest ELSE NULL,
     Last |-> IF Old[t].W THEN NULL ELSE t,
     Previous |-> NULL,
     ShareCount |-> IF want[t] = "X" /\ ~Old[t].W /\ Old[t].rest > 2 THEN Old[t].rest ELSE 0,
     Exclusive |-> want[t] = "X",
     Spinning |-> TRUE,
     WakeGate |-> "none"]

\* The block a waiter fills in, and the word that would put it on the chain.
\* The first waiter, if it is exclusive, takes over a share count above one.
PushedBlock(t) ==
    [Next |-> IF Old[t].W THEN Old[t].rest ELSE NULL,
     Last |-> IF Old[t].W THEN NULL ELSE t,
     Previous |-> NULL,
     ShareCount |-> IF want[t] = "X" /\ ~Old[t].W /\ Old[t].rest > 1 THEN Old[t].rest ELSE 0,
     Exclusive |-> want[t] = "X",
     Spinning |-> TRUE,
     WakeGate |-> "none"]

PushedWord(t) ==
    IF Old[t].W
      THEN [Old[t] EXCEPT !.K = TRUE, !.rest = t]
      ELSE [L |-> TRUE, W |-> TRUE, K |-> FALSE, rest |-> t,
            M |-> want[t] = "X" /\ Old[t].rest > 1]

\* A turn of the loop that queues. Whoever sets K goes on to optimize. What a
\* failed turn wrote into the block is overwritten before anybody can see it.
AcquirePush(t) ==
    /\ pc[t] = "Acquire"
    /\ ~Admits(Old[t], want[t])
    /\ \/ /\ PushLock = Old[t]
          /\ PushLock' = PushedWord(t)
          /\ WaitBlock' = [WaitBlock EXCEPT ![t] = PushedBlock(t)]
          /\ IF Old[t].W /\ ~Old[t].K
               THEN /\ Top' = [Top EXCEPT ![t] = PushedWord(t)]
                    /\ Goto(t, "Optimize")
               ELSE /\ Goto(t, "InitGate")
                    /\ UNCHANGED Top
          /\ UNCHANGED Old
       \/ /\ PushLock # Old[t]
          /\ Backoff(t)
          /\ UNCHANGED <<PushLock, WaitBlock, Top>>
    /\ UNCHANGED <<mode, want, wb, first>>

InitGate(t) ==
    /\ pc[t] = "InitGate"
    /\ WaitBlock' = [WaitBlock EXCEPT ![t].WakeGate = "closed"]
    /\ Goto(t, "Spin")
    /\ UNCHANGED <<PushLock, mode, locals>>

\* The spin ends: the bit is still set and the thread clears it and blocks, or
\* a waker has cleared it. Woken, the thread has a block on no chain, and the
\* loop goes on with the OldValue of before the push.
Spin(t) ==
    /\ pc[t] = "Spin"
    /\ \/ /\ WaitBlock[t].Spinning
          /\ WaitBlock' = [WaitBlock EXCEPT ![t].Spinning = FALSE]
          /\ Goto(t, "GateWait")
       \/ /\ ~WaitBlock[t].Spinning
          /\ WaitBlock' = [WaitBlock EXCEPT ![t] = NoBlock]
          /\ Goto(t, "Acquire")
    /\ UNCHANGED <<PushLock, mode, locals>>

GateWait(t) ==
    /\ pc[t] = "GateWait"
    /\ WaitBlock[t].WakeGate = "open"
    /\ WaitBlock' = [WaitBlock EXCEPT ![t] = NoBlock]
    /\ Goto(t, "Acquire")
    /\ UNCHANGED <<PushLock, mode, locals>>

(***************************************************************************)
(* The owner of K.                                                         *)
(***************************************************************************)
\* The waking or optimizing routine returns: into the wait that called it, or
\* out of the release that did.
OwnerReturns(t) ==
    \/ /\ want[t] # "none"
       /\ Goto(t, "InitGate")
       /\ Top' = [Top EXCEPT ![t] = Free]
       /\ wb' = [wb EXCEPT ![t] = NULL]
       /\ first' = [first EXCEPT ![t] = NULL]
       /\ UNCHANGED <<mode, want, Old>>
    \/ /\ want[t] = "none"
       /\ Return(t, "none")

\* A walk from the head of the chain Top points to begins.
BeginWalk(t, label) ==
    /\ Goto(t, label)
    /\ wb' = [wb EXCEPT ![t] = Top[t].rest]
    /\ first' = [first EXCEPT ![t] = Top[t].rest]
    /\ UNCHANGED <<PushLock, WaitBlock, mode, want, Old, Top>>

\* A compare-exchange of the word Top for the word new.
OwnerCas(t, new, label) ==
    \/ /\ PushLock = Top[t]
       /\ PushLock' = new
       /\ UNCHANGED WaitBlock
       /\ IF label = "return"
            THEN OwnerReturns(t)
            ELSE /\ Goto(t, label)
                 /\ UNCHANGED <<mode, locals>>
    \/ /\ CasLost(t, Top)
       /\ UNCHANGED Old

\* ExpOptimizePushLockList: an unlocked lock is a case for ExfWakePushLock.
Optimize(t) ==
    /\ pc[t] = "Optimize"
    /\ \/ /\ ~Top[t].L
          /\ Goto(t, "Wake")
          /\ UNCHANGED <<PushLock, WaitBlock, mode, locals>>
       \/ /\ Top[t].L
          /\ BeginWalk(t, "OptimizeWalk")

\* One block of a walk: on to the next one, setting its back pointer ...
WalkNext(t) ==
    /\ pc[t] \in {"OptimizeWalk", "WakeWalk"}
    /\ WaitBlock[wb[t]].Last = NULL
    /\ LET next == WaitBlock[wb[t]].Next
       IN  /\ WaitBlock' = [WaitBlock EXCEPT ![next].Previous = wb[t]]
           /\ wb' = [wb EXCEPT ![t] = next]
    /\ UNCHANGED <<PushLock, pc, mode, want, Old, Top, first>>

\* ... until a block knows the last: the head gets to know it as well.
OptimizeLast(t) ==
    /\ pc[t] = "OptimizeWalk"
    /\ WaitBlock[wb[t]].Last # NULL
    /\ WaitBlock' = [WaitBlock EXCEPT ![first[t]].Last = WaitBlock[wb[t]].Last]
    /\ Goto(t, "OptimizeCas")
    /\ UNCHANGED <<PushLock, mode, locals>>

\* The word has changed: the routine begins again with the new one.
StartOver(t, label) ==
    /\ Goto(t, label)
    /\ Top' = [Top EXCEPT ![t] = PushLock]
    /\ wb' = [wb EXCEPT ![t] = NULL]
    /\ first' = [first EXCEPT ![t] = NULL]

\* Mutant: the optimizer leaves without clearing K.
OptimizeCas_KeepsWaking(t) ==
    /\ pc[t] = "OptimizeCas"
    /\ OwnerReturns(t)
    /\ UNCHANGED <<PushLock, WaitBlock>>

\* K is cleared if nothing has changed, else the routine starts over.
OptimizeCas(t) ==
    /\ pc[t] = "OptimizeCas"
    /\ \/ /\ PushLock = Top[t]
          /\ PushLock' = [Top[t] EXCEPT !.K = FALSE]
          /\ OwnerReturns(t)
       \/ /\ PushLock # Top[t]
          /\ StartOver(t, "Optimize")
          /\ UNCHANGED <<PushLock, mode, want, Old>>
    /\ UNCHANGED WaitBlock

\* ExfWakePushLock: K is only cleared if the lock is held ...
WakeLocked(t) ==
    /\ pc[t] = "Wake"
    /\ Top[t].L
    /\ OwnerCas(t, [Top[t] EXCEPT !.K = FALSE], "return")

\* ... else the chain is walked to its last block.
WakeUnlocked(t) ==
    /\ pc[t] = "Wake"
    /\ ~Top[t].L
    /\ BeginWalk(t, "WakeWalk")

WakeLast(t) ==
    /\ pc[t] = "WakeWalk"
    /\ WaitBlock[wb[t]].Last # NULL
    /\ wb' = [wb EXCEPT ![t] = WaitBlock[wb[t]].Last]
    /\ Goto(t, "WakeTail")
    /\ UNCHANGED <<PushLock, WaitBlock, mode, want, Old, Top, first>>

\* The list is done with; what is left is to signal from the block wb on.
BeginSignal(t) ==
    /\ Goto(t, "Signal")
    /\ Top' = [Top EXCEPT ![t] = Free]
    /\ first' = [first EXCEPT ![t] = NULL]

\* Mutant: the woken waiter stays the last of the chain.
WakeOne_NotUnlinked(t) ==
    /\ pc[t] = "WakeTail"
    /\ WaitBlock[wb[t]].Exclusive /\ WaitBlock[wb[t]].Previous # NULL
    /\ WaitBlock' = [WaitBlock EXCEPT ![wb[t]].Previous = NULL]
    /\ Goto(t, "WakeAnd")
    /\ UNCHANGED <<PushLock, mode, locals>>

\* An exclusive waiter at the end is taken off the chain and woken alone ...
WakeOne(t) ==
    LET last == wb[t]
        prev == WaitBlock[last].Previous
    IN  /\ pc[t] = "WakeTail"
        /\ WaitBlock[last].Exclusive /\ prev # NULL
        /\ WaitBlock' = [WaitBlock EXCEPT ![first[t]].Last = prev, ![last].Previous = NULL]
        /\ Goto(t, "WakeAnd")
        /\ UNCHANGED <<PushLock, mode, locals>>

WakeAnd(t) ==
    /\ pc[t] = "WakeAnd"
    /\ PushLock' = [PushLock EXCEPT !.K = FALSE]
    /\ BeginSignal(t)
    /\ UNCHANGED <<WaitBlock, mode, want, Old, wb>>

\* ... else the whole chain is taken off the word, if it has not changed.
WakeAll(t) ==
    /\ pc[t] = "WakeTail"
    /\ ~(WaitBlock[wb[t]].Exclusive /\ WaitBlock[wb[t]].Previous # NULL)
    /\ \/ /\ PushLock = Top[t]
          /\ PushLock' = Free
          /\ BeginSignal(t)
          /\ UNCHANGED wb
       \/ /\ PushLock # Top[t]
          /\ StartOver(t, "Wake")
          /\ UNCHANGED PushLock
    /\ UNCHANGED <<WaitBlock, mode, want, Old>>

\* The block before this one, if any, is the next to be woken.
SignalNext(t, prev) ==
    \/ /\ prev # NULL
       /\ wb' = [wb EXCEPT ![t] = prev]
       /\ Goto(t, "Signal")
       /\ UNCHANGED <<mode, want, Old, Top, first>>
    \/ /\ prev = NULL
       /\ OwnerReturns(t)

\* Previous is read, then the spinning bit taken: a waiter that still spins
\* is awake with that, one that has stopped needs its gate signalled.
Signal(t) ==
    /\ pc[t] = "Signal"
    /\ LET prev == WaitBlock[wb[t]].Previous
       IN  \/ /\ WaitBlock[wb[t]].Spinning
              /\ WaitBlock' = [WaitBlock EXCEPT ![wb[t]].Spinning = FALSE]
              /\ SignalNext(t, prev)
           \/ /\ ~WaitBlock[wb[t]].Spinning
              /\ first' = [first EXCEPT ![t] = prev]
              /\ Goto(t, "SignalGate")
              /\ UNCHANGED <<WaitBlock, mode, want, Old, Top, wb>>
    /\ UNCHANGED PushLock

SignalGate(t) ==
    /\ pc[t] = "SignalGate"
    /\ WaitBlock' = [WaitBlock EXCEPT ![wb[t]].WakeGate = "open"]
    /\ SignalNext(t, first[t])
    /\ UNCHANGED PushLock

(***************************************************************************)
(* Release.                                                                *)
(***************************************************************************)
\* Mutant: the inline release leaves the waiters to somebody else.
ReleaseExclusive_NoWake(t) ==
    /\ Calls(t, "ReleaseExclusive", "X")
    /\ PushLock' = [PushLock EXCEPT !.L = FALSE]
    /\ Return(t, "none")
    /\ UNCHANGED WaitBlock

\* ExReleasePushLockExclusive: the lock bit is subtracted, and waiters that
\* nobody is about to wake are left to ExfTryToWakePushLock.
ReleaseExclusive(t) ==
    /\ Calls(t, "ReleaseExclusive", "X")
    /\ PushLock' = [PushLock EXCEPT !.L = FALSE]
    /\ \/ /\ PushLock.W /\ ~PushLock.K
          /\ Goto(t, "TryToWake")
          /\ mode' = [mode EXCEPT ![t] = "none"]
          /\ UNCHANGED locals
       \/ /\ ~PushLock.W \/ PushLock.K
          /\ Return(t, "none")
    /\ UNCHANGED WaitBlock

TryToWake(t) ==
    /\ pc[t] = "TryToWake"
    /\ \/ /\ PushLock.W /\ ~PushLock.K /\ ~PushLock.L
          /\ Top' = [Top EXCEPT ![t] = [PushLock EXCEPT !.K = TRUE]]
          /\ Goto(t, "TryToWakeCas")
          /\ UNCHANGED <<mode, want, Old, wb, first>>
       \/ /\ PushLock.K \/ PushLock.L \/ ~PushLock.W
          /\ Return(t, "none")
    /\ UNCHANGED <<PushLock, WaitBlock>>

TryToWakeCas(t) ==
    /\ pc[t] = "TryToWakeCas"
    /\ \/ /\ PushLock = [Top[t] EXCEPT !.K = FALSE]
          /\ PushLock' = Top[t]
          /\ Goto(t, "Wake")
          /\ UNCHANGED <<mode, locals>>
       \/ /\ PushLock # [Top[t] EXCEPT !.K = FALSE]
          /\ Return(t, "none")
          /\ UNCHANGED PushLock
    /\ UNCHANGED WaitBlock

\* The other releases begin with a read of the word: the routine for an
\* exclusive owner, and the two for a shared one and for an owner of either
\* kind, which come to the same loop.
ReleaseRead(t) ==
    /\ \/ Calls(t, "ExfReleaseExclusive", "X") /\ Goto(t, "ReleaseX")
       \/ Calls(t, "ReleaseShared", "S") /\ Goto(t, "Release")
       \/ Calls(t, "Release", "S") /\ Goto(t, "Release")
       \/ Calls(t, "Release", "X") /\ Goto(t, "Release")
    /\ Old' = [Old EXCEPT ![t] = PushLock]
    /\ UNCHANGED <<PushLock, WaitBlock, mode, want, Top, wb, first>>

\* A compare-exchange that gives the lock up, leaving the word new: with it
\* comes the duty to wake if it sets K.
ReleaseCas(t, new) ==
    \/ /\ PushLock = Old[t]
       /\ PushLock' = new
       /\ IF new.K /\ ~Old[t].K
            THEN /\ Goto(t, "Wake")
                 /\ mode' = [mode EXCEPT ![t] = "none"]
                 /\ Top' = [Top EXCEPT ![t] = new]
                 /\ Old' = [Old EXCEPT ![t] = Free]
                 /\ wb' = [wb EXCEPT ![t] = NULL]
                 /\ UNCHANGED <<want, first>>
            ELSE Return(t, "none")
       /\ UNCHANGED WaitBlock
    \/ /\ CasLost(t, Old)
       /\ UNCHANGED Top

\* ExfReleasePushLockExclusive.
ExfReleaseExclusive(t) ==
    /\ pc[t] = "ReleaseX"
    /\ ReleaseCas(t, [Old[t] EXCEPT !.L = FALSE, !.K = @ \/ Old[t].W])

\* ExfReleasePushLockShared and ExfReleasePushLock: without waiters the share
\* count or the whole word is taken back.
ReleaseNoWaiters(t) ==
    /\ pc[t] = "Release"
    /\ ~Old[t].W
    /\ ReleaseCas(t, IF Old[t].rest > 1 THEN [Old[t] EXCEPT !.rest = @ - 1] ELSE Free)

\* With waiters, the share count of several owners is looked up in the chain.
ReleaseWaiters(t) ==
    /\ pc[t] = "Release"
    /\ Old[t].W
    /\ IF Old[t].M
         THEN Goto(t, "ShareWalk") /\ wb' = [wb EXCEPT ![t] = Old[t].rest]
         ELSE Goto(t, "ReleaseLast") /\ UNCHANGED wb
    /\ UNCHANGED <<PushLock, WaitBlock, mode, want, Old, Top, first>>

ShareWalk(t) ==
    /\ pc[t] = "ShareWalk"
    /\ \/ /\ WaitBlock[wb[t]].Last = NULL
          /\ wb' = [wb EXCEPT ![t] = WaitBlock[wb[t]].Next]
          /\ UNCHANGED pc
       \/ /\ WaitBlock[wb[t]].Last # NULL
          /\ wb' = [wb EXCEPT ![t] = WaitBlock[wb[t]].Last]
          /\ Goto(t, "ShareDecrement")
    /\ UNCHANGED <<PushLock, WaitBlock, mode, want, Old, Top, first>>

\* Only the last of the shared owners goes on to give the lock up. (That the
\* count is above zero here, which ExfReleasePushLockShared asserts and
\* ExfReleasePushLock tests, is part of ChainAccessSafe.)
ShareDecrement(t) ==
    /\ pc[t] = "ShareDecrement"
    /\ WaitBlock' = [WaitBlock EXCEPT ![wb[t]].ShareCount = @ - 1]
    /\ \/ /\ WaitBlock[wb[t]].ShareCount > 1
          /\ Return(t, "none")
       \/ /\ WaitBlock[wb[t]].ShareCount <= 1
          /\ Goto(t, "ReleaseLast")
          /\ mode' = [mode EXCEPT ![t] = "none"]
          /\ wb' = [wb EXCEPT ![t] = NULL]
          /\ UNCHANGED <<want, Old, Top, first>>
    /\ UNCHANGED PushLock

ReleaseLast(t) ==
    /\ pc[t] = "ReleaseLast"
    /\ ReleaseCas(t, [Old[t] EXCEPT !.L = FALSE, !.M = FALSE, !.K = TRUE])

(***************************************************************************)
(* Conversion.                                                             *)
(***************************************************************************)
\* ExConvertPushLockExclusiveToShared and its routine: a word without waiters
\* is rewritten; with waiters it stands as it is, good for one shared owner.
ConvertToShared(t) ==
    /\ Calls(t, "ConvertToShared", "X")
    /\ PushLock' = IF PushLock.W THEN PushLock ELSE SharedBy(1)
    /\ Return(t, "S")
    /\ UNCHANGED WaitBlock

\* ExTryConvertPushLockSharedToExclusive.
TryConvertToExclusive(t) ==
    /\ Calls(t, "TryConvertToExclusive", "S")
    /\ PushLock = SharedBy(1)
    /\ PushLock' = LockOnly
    /\ Return(t, "X")
    /\ UNCHANGED WaitBlock

(***************************************************************************)
(* The specification.                                                      *)
(***************************************************************************)
\* A thread that neither holds nor waits calls an acquire.
Begin(t) ==
    \/ AcquireExclusive(t) \/ TryAcquireExclusive(t)
    \/ \E try \in BOOLEAN : AcquireShared(t, try)

Convert(t) == ConvertToShared(t) \/ TryConvertToExclusive(t)

\* The steps of an acquire or release in progress, and the call of a release.
Continue(t) ==
    \/ AcquireRead(t) \/ AcquireCas(t) \/ TryRefused(t) \/ AcquirePush(t)
    \/ InitGate(t) \/ Spin(t) \/ GateWait(t)
    \/ Optimize(t) \/ WalkNext(t) \/ OptimizeLast(t) \/ OptimizeCas(t)
    \/ WakeLocked(t) \/ WakeUnlocked(t) \/ WakeLast(t) \/ WakeOne(t) \/ WakeAnd(t) \/ WakeAll(t)
    \/ Signal(t) \/ SignalGate(t)
    \/ ReleaseExclusive(t) \/ TryToWake(t) \/ TryToWakeCas(t)
    \/ ReleaseRead(t) \/ ExfReleaseExclusive(t)
    \/ ReleaseNoWaiters(t) \/ ReleaseWaiters(t) \/ ShareWalk(t) \/ ShareDecrement(t) \/ ReleaseLast(t)

Next == \E t \in Threads : Begin(t) \/ Convert(t) \/ Continue(t)

Spec == Init /\ [][Next]_vars

\* Every thread runs, and an owner of the lock releases it.
FairSpec == Spec /\ \A t \in Threads : WF_vars(Continue(t))

(***************************************************************************)
(* Properties.                                                             *)
(***************************************************************************)
\* The places at which a thread owns the waking bit.
OwnerPCs == {"Optimize", "OptimizeWalk", "OptimizeCas", "Wake", "WakeWalk", "WakeTail", "WakeAnd"}

\* A wait block is live from the push to the moment its thread is awake.
Live(b) == b \in Threads /\ WaitBlock[b] # NoBlock

SharedOwners == {t \in Threads : mode[t] = "S"}

\* Every variable has its type; the word holds an address just with waiters.
TypeOK ==
    /\ PushLock \in Word
    /\ PushLock.W => PushLock.rest \in Threads
    /\ ~PushLock.W => PushLock.rest \in Nat
    /\ \A t \in Threads :
         /\ WaitBlock[t].Next \in Threads \cup {NULL}
         /\ WaitBlock[t].Last \in Threads \cup {NULL}
         /\ WaitBlock[t].Previous \in Threads \cup {NULL}
         /\ WaitBlock[t].ShareCount \in Nat
         /\ WaitBlock[t].WakeGate \in {"none", "closed", "open"}
    /\ pc \in [Threads -> {"idle", "ExfAcquire", "ExfTry", "Acquire", "Try", "InitGate", "Spin",
                           "GateWait", "Signal", "SignalGate", "TryToWake", "TryToWakeCas",
                           "ReleaseX", "Release", "ShareWalk", "ShareDecrement", "ReleaseLast"}
                          \cup OwnerPCs]
    /\ mode \in [Threads -> {"none", "X", "S"}]
    /\ want \in [Threads -> {"none", "X", "S"}]
    /\ Old \in [Threads -> Word]
    /\ Top \in [Threads -> Word]
    /\ wb \in [Threads -> Threads \cup {NULL}]
    /\ first \in [Threads -> Threads \cup {NULL}]

\* The push lock is a reader/writer lock, through every path of acquire,
\* release and conversion: an acquire succeeds only when the owners allow it.
RW == INSTANCE RWLock

ImplementsRWLock == RW!Spec

\* The word knows its owners: it is locked while there is one; without
\* waiters its count is the number of shared owners; with waiters and M the
\* count saved in the chain is, and without M there is at most one owner.
OwnersCounted ==
    LET saved == {b \in Threads : WaitBlock[b].ShareCount > 0}
    IN  /\ (\E t \in Threads : mode[t] # "none") => PushLock.L
        /\ ~PushLock.W => /\ PushLock.rest = Cardinality(SharedOwners)
                          /\ PushLock.L => \E t \in Threads : mode[t] # "none"
        /\ PushLock.W /\ PushLock.M =>
             IF saved = {} THEN SharedOwners = {}
             ELSE \E b \in saved : saved = {b} /\ WaitBlock[b].ShareCount = Cardinality(SharedOwners)
        /\ PushLock.W /\ ~PushLock.M => saved = {} /\ Cardinality(SharedOwners) <= 1

\* Whoever walks the chain, sets pointers in it, counts in it or signals
\* through it touches a block whose thread is still waiting on it.
ChainAccessSafe ==
    \A t \in Threads :
        /\ pc[t] \in {"OptimizeWalk", "WakeWalk", "ShareWalk"} =>
             /\ Live(wb[t])
             /\ LET block == WaitBlock[wb[t]]
                IN  Live(IF block.Last = NULL THEN block.Next ELSE block.Last)
        /\ pc[t] \in {"OptimizeWalk", "WakeTail"} => Live(first[t])
        /\ pc[t] \in {"WakeTail", "WakeAnd", "Signal", "SignalGate", "ShareDecrement"} => Live(wb[t])
        /\ pc[t] = "ShareDecrement" =>
             WaitBlock[wb[t]].Exclusive /\ WaitBlock[wb[t]].ShareCount > 0

\* The waking bit has one owner, exactly while it is set.  "Only one owner is
\* needed at any time"; the asserts of ExfWakePushLock: whoever breaks the list
\* up never finds M set, and nobody walks it for the share count meanwhile; and
\* a gate is signalled once, after its initialisation, with its count spent.
WakeProtocol ==
    /\ Cardinality({t \in Threads : pc[t] \in OwnerPCs}) = IF PushLock.K THEN 1 ELSE 0
    /\ PushLock.K => PushLock.W
    /\ \A t \in Threads :
        /\ pc[t] \in {"Wake", "WakeWalk", "WakeTail", "WakeAnd"} =>
             /\ ~Top[t].M
             /\ Top[t].W /\ Top[t].K
             /\ \A u \in Threads : pc[u] \notin {"ShareWalk", "ShareDecrement"}
        /\ pc[t] = "SignalGate" =>
             /\ pc[wb[t]] = "GateWait"
             /\ WaitBlock[wb[t]].WakeGate = "closed"
             /\ WaitBlock[wb[t]].ShareCount = 0

\* Waiters are served once the traffic ends: ownership is not handed over, so
\* a waiter may lose to newcomers for ever, but if from some point on nobody
\* calls an acquire, every waiter gets the lock.
WaitersServed ==
    <>[][\A t \in Threads : ~Begin(t)]_vars
    => \A t \in Threads : pc[t] = "GateWait" ~> mode[t] # "none"
=============================================================================
