---------------------------- MODULE ExHandleLock ----------------------------
(***************************************************************************)
(* The lock of a handle table entry (ex/handle.c) and the push lock used as  *)
(* an event that its waiters block on (ExBlockPushLock and the Unblock       *)
(* routines of ex/pushlock.c). An entry is locked by clearing the low bit of *)
(* its object pointer. One HandleContentionEvent serves all the entries of a *)
(* table: a waiter pushes a wait block on it, looks at its entry again, and  *)
(* waits; every unlock pops the whole chain and wakes all of it. Waits are   *)
(* untimed, as in every call of the handle code.                            *)
(***************************************************************************)
EXTENDS ExHandle

CONSTANTS
    Entries,        \* table entries
    Objects         \* what they may point to

ASSUME HandleLockAssumptions == NULL \notin Threads \cup Entries \cup Objects

VARIABLES
    Entry,          \* HandleTableEntry->Value: 0, or an object and the lock bit
    FreeEntries,    \* entries the allocator may hand out
    HandleContentionEvent,  \* the head of the chain of wait blocks
    WaitBlock,      \* the wait block on each thread's stack
    at,             \* the entry the thread works on
    CurrentValue,   \* the value of the entry the thread read
    Old,            \* OldValue.Ptr: the head it read, or the next block to wake
    tWaitBlock,     \* the block it is waking
    then            \* where its unblock returns to

locals == <<at, CurrentValue, Old, tWaitBlock, then>>
vars == <<Entry, FreeEntries, HandleContentionEvent, WaitBlock, pc, locals>>

(***************************************************************************)
(* The value of an entry: zero when it is free; its low bit, set, means it   *)
(* is not locked.                                                          *)
(***************************************************************************)
Free == [Object |-> NULL, bit |-> 0]
Locked(o) == [Object |-> o, bit |-> 0]
Unlocked(o) == [Object |-> o, bit |-> 1]
EntryValue == [Object : Objects \cup {NULL}, bit : {0, 1}]

NoBlock == [Next |-> NULL, Spinning |-> FALSE, WakeEvent |-> "none"]

Init ==
    /\ Entry = [e \in Entries |-> Free]
    /\ FreeEntries = Entries
    /\ HandleContentionEvent = NULL
    /\ WaitBlock = [t \in Threads |-> NoBlock]
    /\ pc = [t \in Threads |-> "idle"]
    /\ at = [t \in Threads |-> NULL]
    /\ CurrentValue = [t \in Threads |-> Free]
    /\ Old = [t \in Threads |-> NULL]
    /\ tWaitBlock = [t \in Threads |-> NULL]
    /\ then = [t \in Threads |-> "idle"]

Return(t) ==
    /\ Goto(t, "idle")
    /\ at' = [at EXCEPT ![t] = NULL]
    /\ CurrentValue' = [CurrentValue EXCEPT ![t] = Free]
    /\ Old' = [Old EXCEPT ![t] = NULL]
    /\ tWaitBlock' = [tWaitBlock EXCEPT ![t] = NULL]
    /\ then' = [then EXCEPT ![t] = "idle"]

(***************************************************************************)
(* ExpLockHandleTableEntry.                                                *)
(***************************************************************************)
\* ExMapHandleToPointer, ExChangeHandle, ExDestroyHandle: a thread that holds
\* no entry goes to lock one.
LockEntry(t, e) ==
    /\ pc[t] = "idle"
    /\ at' = [at EXCEPT ![t] = e]
    /\ Goto(t, "Lock")
    /\ UNCHANGED <<Entry, FreeEntries, HandleContentionEvent, WaitBlock, CurrentValue, Old, tWaitBlock, then>>

\* The read at the head of the loop; a free entry ends it.
LockRead(t) ==
    LET value == Entry[at[t]]
    IN  /\ pc[t] = "Lock"
        /\ \/ /\ value = Free                       \* return FALSE
              /\ Return(t)
           \/ /\ value # Free
              /\ CurrentValue' = [CurrentValue EXCEPT ![t] = value]
              /\ Goto(t, IF value.bit = 1 THEN "LockCas" ELSE "Block")
              /\ UNCHANGED <<at, Old, tWaitBlock, then>>
        /\ UNCHANGED <<Entry, FreeEntries, HandleContentionEvent, WaitBlock>>

\* Mutant: the bit is cleared without a compare.
LockCas_NoCompare(t) ==
    /\ pc[t] = "LockCas"
    /\ CurrentValue' = [CurrentValue EXCEPT ![t] = Free]
    /\ Entry' = [Entry EXCEPT ![at[t]].bit = 0]
    /\ Goto(t, "holds")
    /\ UNCHANGED <<FreeEntries, HandleContentionEvent, WaitBlock, at, Old, tWaitBlock, then>>

\* The compare-exchange; who loses it blocks as well.
LockCas(t) ==
    /\ pc[t] = "LockCas"
    /\ CurrentValue' = [CurrentValue EXCEPT ![t] = Free]
    /\ \/ /\ Entry[at[t]] = CurrentValue[t]
          /\ Entry' = [Entry EXCEPT ![at[t]].bit = 0]
          /\ Goto(t, "holds")
       \/ /\ Entry[at[t]] # CurrentValue[t]
          /\ Goto(t, "Block")
          /\ UNCHANGED Entry
    /\ UNCHANGED <<FreeEntries, HandleContentionEvent, WaitBlock, at, Old, tWaitBlock, then>>

(***************************************************************************)
(* ExpBlockOnLockedHandleEntry.                                            *)
(***************************************************************************)
\* ExBlockPushLock: the flag, the read of the head ...
BlockRead(t) ==
    /\ pc[t] = "Block"
    /\ WaitBlock' = [WaitBlock EXCEPT ![t] = [NoBlock EXCEPT !.Spinning = TRUE]]
    /\ Old' = [Old EXCEPT ![t] = HandleContentionEvent]
    /\ CurrentValue' = [CurrentValue EXCEPT ![t] = Free]
    /\ Goto(t, "BlockCas")
    /\ UNCHANGED <<Entry, FreeEntries, HandleContentionEvent, at, tWaitBlock, then>>

\* ... and the push.
BlockCas(t) ==
    /\ pc[t] = "BlockCas"
    /\ \/ /\ HandleContentionEvent = Old[t]
          /\ HandleContentionEvent' = t
          /\ WaitBlock' = [WaitBlock EXCEPT ![t].Next = Old[t]]
          /\ Old' = [Old EXCEPT ![t] = NULL]
          /\ Goto(t, "Recheck")
       \/ /\ HandleContentionEvent # Old[t]
          /\ Old' = [Old EXCEPT ![t] = HandleContentionEvent]
          /\ UNCHANGED <<HandleContentionEvent, WaitBlock, pc>>
    /\ UNCHANGED <<Entry, FreeEntries, at, CurrentValue, tWaitBlock, then>>

\* Mutant: the entry is not looked at again.
Recheck_Never(t) ==
    /\ pc[t] = "Recheck"
    /\ Goto(t, "InitEvent")
    /\ then' = [then EXCEPT ![t] = "OwnBlock"]
    /\ UNCHANGED <<Entry, FreeEntries, HandleContentionEvent, WaitBlock, at, CurrentValue, Old, tWaitBlock>>

\* The entry is looked at once more, now that an unlock would see the block.
Recheck(t) ==
    LET value == Entry[at[t]]
    IN  /\ pc[t] = "Recheck"
        /\ Goto(t, IF value = Free \/ value.bit = 1 THEN "Pop" ELSE "InitEvent")
        /\ then' = [then EXCEPT ![t] = "OwnBlock"]
        /\ UNCHANGED <<Entry, FreeEntries, HandleContentionEvent, WaitBlock, at, CurrentValue, Old, tWaitBlock>>

\* The block goes out of scope, and the loop of the lock starts over.
Awake(t) ==
    /\ WaitBlock' = [WaitBlock EXCEPT ![t] = NoBlock]
    /\ then' = [then EXCEPT ![t] = "idle"]
    /\ Goto(t, "Lock")

\* ExTimedWaitForUnblockPushLock without a timeout: the event is initialised,
\* and the spinning ends as in the push lock's own wait.
InitEvent(t) ==
    /\ pc[t] = "InitEvent"
    /\ WaitBlock' = [WaitBlock EXCEPT ![t].WakeEvent = "reset"]
    /\ Goto(t, "Spin")
    /\ UNCHANGED <<Entry, FreeEntries, HandleContentionEvent, locals>>

Spin(t) ==
    /\ pc[t] = "Spin"
    /\ \/ /\ WaitBlock[t].Spinning
          /\ WaitBlock' = [WaitBlock EXCEPT ![t].Spinning = FALSE]
          /\ Goto(t, "KeWait")
          /\ UNCHANGED then
       \/ /\ ~WaitBlock[t].Spinning
          /\ Awake(t)
    /\ UNCHANGED <<Entry, FreeEntries, HandleContentionEvent, at, CurrentValue, Old, tWaitBlock>>

KeWait(t) ==
    /\ pc[t] = "KeWait"
    /\ WaitBlock[t].WakeEvent = "set"
    /\ Awake(t)
    /\ UNCHANGED <<Entry, FreeEntries, HandleContentionEvent, at, CurrentValue, Old, tWaitBlock>>

(***************************************************************************)
(* Unlocking and unblocking.                                               *)
(***************************************************************************)
\* ExUnlockHandleTableEntry gives the bit back, ...
UnlockEntry(t) ==
    /\ pc[t] = "holds"
    /\ Entry' = [Entry EXCEPT ![at[t]].bit = 1]
    /\ Goto(t, "Unblock")
    /\ UNCHANGED <<FreeEntries, HandleContentionEvent, WaitBlock, locals>>

\* ... ExDestroyHandle clears the entry, to free it after the unblock.
DestroyHandle(t) ==
    /\ pc[t] = "holds"
    /\ Entry' = [Entry EXCEPT ![at[t]] = Free]
    /\ then' = [then EXCEPT ![t] = "FreeEntry"]
    /\ Goto(t, "Unblock")
    /\ UNCHANGED <<FreeEntries, HandleContentionEvent, WaitBlock, at, CurrentValue, Old, tWaitBlock>>

\* Mutant: the thread does not wait for whoever popped its block before it.
Unblocked_NoWait(t) ==
    \/ /\ then[t] = "OwnBlock"
       /\ Awake(t)
       /\ UNCHANGED <<FreeEntries, at, CurrentValue, Old, tWaitBlock>>
    \/ /\ then[t] # "OwnBlock"
       /\ FreeEntries' = IF then[t] = "FreeEntry" THEN FreeEntries \cup {at[t]} ELSE FreeEntries
       /\ Return(t)
       /\ UNCHANGED WaitBlock

\* The unblock is over: for a block of its own that is still to be woken the
\* thread waits; a destroyed entry is freed.
Unblocked(t) ==
    \/ /\ then[t] = "OwnBlock"
       /\ WaitBlock[t].Spinning
       /\ Goto(t, "InitEvent")
       /\ UNCHANGED <<FreeEntries, WaitBlock, locals>>
    \/ /\ then[t] = "OwnBlock"
       /\ ~WaitBlock[t].Spinning
       /\ Awake(t)
       /\ UNCHANGED <<FreeEntries, at, CurrentValue, Old, tWaitBlock>>
    \/ /\ then[t] # "OwnBlock"
       /\ FreeEntries' = IF then[t] = "FreeEntry" THEN FreeEntries \cup {at[t]} ELSE FreeEntries
       /\ Return(t)
       /\ UNCHANGED WaitBlock

\* ExUnblockPushLock without a block looks whether there is a chain at all.
UnblockTest(t) ==
    /\ pc[t] = "Unblock"
    /\ \/ /\ HandleContentionEvent # NULL
          /\ Goto(t, "Pop")
          /\ UNCHANGED <<FreeEntries, WaitBlock, locals>>
       \/ /\ HandleContentionEvent = NULL
          /\ Unblocked(t)
    /\ UNCHANGED <<Entry, HandleContentionEvent>>

\* ExfUnblockPushLock pops the entire chain ...
Pop(t) ==
    /\ pc[t] = "Pop"
    /\ HandleContentionEvent' = NULL
    /\ tWaitBlock' = [tWaitBlock EXCEPT ![t] = HandleContentionEvent]
    /\ Goto(t, "WakeLoop")
    /\ UNCHANGED <<Entry, FreeEntries, WaitBlock, at, CurrentValue, Old, then>>

\* ... and wakes it block by block: Next is read before the bit is taken, for
\* the block may be gone after that; a waiter that has stopped spinning still
\* needs its event, and is there to get it.
WakeLoop(t) ==
    LET b == tWaitBlock[t]
    IN  /\ pc[t] = "WakeLoop"
        /\ b # NULL
        /\ \/ /\ WaitBlock[b].Spinning
              /\ WaitBlock' = [WaitBlock EXCEPT ![b].Spinning = FALSE]
              /\ tWaitBlock' = [tWaitBlock EXCEPT ![t] = WaitBlock[b].Next]
              /\ UNCHANGED <<pc, Old>>
           \/ /\ ~WaitBlock[b].Spinning
              /\ Old' = [Old EXCEPT ![t] = WaitBlock[b].Next]
              /\ Goto(t, "KeSetEvent")
              /\ UNCHANGED <<WaitBlock, tWaitBlock>>
        /\ UNCHANGED <<Entry, FreeEntries, HandleContentionEvent, at, CurrentValue, then>>

SetEvent(t) ==
    /\ pc[t] = "KeSetEvent"
    /\ WaitBlock' = [WaitBlock EXCEPT ![tWaitBlock[t]].WakeEvent = "set"]
    /\ tWaitBlock' = [tWaitBlock EXCEPT ![t] = Old[t]]
    /\ Old' = [Old EXCEPT ![t] = NULL]
    /\ Goto(t, "WakeLoop")
    /\ UNCHANGED <<Entry, FreeEntries, HandleContentionEvent, at, CurrentValue, then>>

WakeDone(t) ==
    /\ pc[t] = "WakeLoop"
    /\ tWaitBlock[t] = NULL
    /\ Unblocked(t)
    /\ UNCHANGED <<Entry, HandleContentionEvent>>

(***************************************************************************)
(* ExCreateHandle: an entry from the free list is filled in, locked, and     *)
(* then unlocked. The free lists are the matter of ExHandleFree.            *)
(***************************************************************************)
CreateHandle(t, e, o) ==
    /\ pc[t] = "idle"
    /\ e \in FreeEntries
    /\ FreeEntries' = FreeEntries \ {e}
    /\ Entry' = [Entry EXCEPT ![e] = Locked(o)]
    /\ at' = [at EXCEPT ![t] = e]
    /\ Goto(t, "creates")
    /\ UNCHANGED <<HandleContentionEvent, WaitBlock, CurrentValue, Old, tWaitBlock, then>>

CreateUnlock(t) ==
    /\ pc[t] = "creates"
    /\ Entry' = [Entry EXCEPT ![at[t]].bit = 1]
    /\ Goto(t, "Unblock")
    /\ UNCHANGED <<FreeEntries, HandleContentionEvent, WaitBlock, locals>>

(***************************************************************************)
(* The specification.                                                      *)
(***************************************************************************)
Begin(t) ==
    \/ \E e \in Entries : LockEntry(t, e)
    \/ \E e \in Entries, o \in Objects : CreateHandle(t, e, o)

Continue(t) ==
    \/ LockRead(t) \/ LockCas(t)
    \/ BlockRead(t) \/ BlockCas(t) \/ Recheck(t)
    \/ InitEvent(t) \/ Spin(t) \/ KeWait(t)
    \/ UnlockEntry(t) \/ DestroyHandle(t) \/ CreateUnlock(t)
    \/ UnblockTest(t) \/ Pop(t) \/ WakeLoop(t) \/ SetEvent(t) \/ WakeDone(t)

Next == \E t \in Threads : Begin(t) \/ Continue(t)

Spec == Init /\ [][Next]_vars

\* Every thread runs, and a thread that holds an entry unlocks or destroys it.
FairSpec == Spec /\ \A t \in Threads : WF_vars(Continue(t))

(***************************************************************************)
(* Properties.                                                             *)
(***************************************************************************)
\* The threads that hold an entry locked.
Holders(e) == {t \in Threads : at[t] = e /\ pc[t] \in {"holds", "creates"}}

\* Every variable has its type; no entry is free and not locked.
TypeOK ==
    /\ Entry \in [Entries -> EntryValue]
    /\ \A e \in Entries : Entry[e].Object = NULL => Entry[e] = Free
    /\ FreeEntries \subseteq Entries
    /\ HandleContentionEvent \in Threads \cup {NULL}
    /\ WaitBlock \in [Threads -> [Next : Threads \cup {NULL}, Spinning : BOOLEAN,
                                  WakeEvent : {"none", "reset", "set"}]]
    /\ pc \in [Threads -> {"idle", "Lock", "LockCas", "Block", "BlockCas", "Recheck", "InitEvent",
                           "Spin", "KeWait", "holds", "creates", "Unblock", "Pop", "WakeLoop",
                           "KeSetEvent"}]
    /\ at \in [Threads -> Entries \cup {NULL}]
    /\ CurrentValue \in [Threads -> EntryValue]
    /\ Old \in [Threads -> Threads \cup {NULL}]
    /\ tWaitBlock \in [Threads -> Threads \cup {NULL}]
    /\ then \in [Threads -> {"idle", "OwnBlock", "FreeEntry"}]

\* An entry in use is locked by exactly one thread while its bit is clear, by
\* none while it is set; a free one, on the free list or on its way there, by
\* none.
EntryLock ==
    \A e \in Entries :
        Cardinality(Holders(e)) = IF Entry[e] = Free \/ Entry[e].bit = 1 THEN 0 ELSE 1

\* The blocks reachable from block b along Next: those in every set that holds
\* b and, with a block, the one after it.
From(b) ==
    {x \in Threads :
        /\ b # NULL
        /\ \A S \in SUBSET Threads :
              b \in S /\ (\A y \in S : WaitBlock[y].Next \in S \cup {NULL}) => x \in S}

\* The blocks a thread has popped and not yet woken.
Popped(t) ==
    CASE pc[t] = "WakeLoop" -> From(tWaitBlock[t])
      [] pc[t] = "KeSetEvent" -> {tWaitBlock[t]} \cup From(Old[t])
      [] OTHER -> {}

\* A thread's wait block is in scope from its push to its return.
Live(b) == b \in Threads /\ (then[b] = "OwnBlock" \/ pc[b] = "Recheck")

\* Every block on the chain or in the hands of a waker belongs to a thread
\* that has not returned, and to one of them only: no waker follows a pointer
\* into a stack that is gone, and none wakes a block twice.
BlocksLive ==
    /\ \A b \in From(HandleContentionEvent) : Live(b)
    /\ \A t \in Threads : \A b \in Popped(t) :
         /\ Live(b)
         /\ b \notin From(HandleContentionEvent)
         /\ \A u \in Threads \ {t} : b \notin Popped(u)

\* A thread that waits for an entry is woken, however many others come and go.
WaitersWake == \A t \in Threads : pc[t] = "KeWait" ~> pc[t] # "KeWait"
=============================================================================
