--------------------------- MODULE ExHandleProofs ---------------------------
(***************************************************************************)
(* Proofs about handle tables: the entry locks, for any number of threads,  *)
(* entries and objects, and the tree of the table, for any number of        *)
(* threads, any pool and tables of any size.                                *)
(***************************************************************************)
EXTENDS ExHandleLock, ExHandleTable, FiniteSetTheorems, TLAPS

(***************************************************************************)
(* The entry locks.                                                        *)
(***************************************************************************)
\* Where a thread is in its call.
CallInv ==
    \A t \in Threads :
        /\ pc[t] # "idle" => at[t] \in Entries
        /\ then[t] = "FreeEntry" => pc[t] \in {"Unblock", "Pop", "WakeLoop", "KeSetEvent"}
        /\ then[t] = "OwnBlock" =>
              pc[t] \in {"InitEvent", "Spin", "KeWait", "Pop", "WakeLoop", "KeSetEvent"}
        /\ pc[t] = "LockCas" => CurrentValue[t].Object # NULL /\ CurrentValue[t].bit = 1

Holds(t, e) == at[t] = e /\ pc[t] \in {"holds", "creates"}
Destroys(t, e) == at[t] = e /\ then[t] = "FreeEntry"

\* The clear bit of an entry in use stands for one thread; an entry that is on
\* the free list or on its way there has no holder and one thread at most that
\* brings it there.
LockInv ==
    \A e \in Entries :
        /\ \A t \in Threads : Holds(t, e) => Entry[e].Object # NULL /\ Entry[e].bit = 0
        /\ \A t, u \in Threads : Holds(t, e) /\ Holds(u, e) => t = u
        /\ Entry[e].Object # NULL /\ Entry[e].bit = 0 => \E t \in Threads : Holds(t, e)
        /\ e \in FreeEntries => Entry[e] = Free /\ \A t \in Threads : ~Destroys(t, e)
        /\ \A t \in Threads : Destroys(t, e) => Entry[e] = Free
        /\ \A t, u \in Threads : Destroys(t, e) /\ Destroys(u, e) => t = u

\* B are the blocks that have been pushed and not been woken, and own[b] is the
\* thread that has popped b, NULL while it is on the chain.  The blocks of one
\* owner are one list: no two have the same successor and nothing precedes the
\* head.  A block in B is spinning, or its thread waits for the event.
ListInv(B, own) ==
    /\ HandleContentionEvent # NULL => HandleContentionEvent \in B /\ own[HandleContentionEvent] = NULL
    /\ \A b \in B : WaitBlock[b].Next # NULL =>
          /\ WaitBlock[b].Next \in B
          /\ own[WaitBlock[b].Next] = own[b]
          /\ WaitBlock[b].Next # HandleContentionEvent
    /\ \A b, c \in B : WaitBlock[b].Next # NULL /\ WaitBlock[b].Next = WaitBlock[c].Next => b = c

WakerInv(B, own) ==
    \A t \in Threads :
        /\ pc[t] \in {"WakeLoop", "KeSetEvent"} /\ tWaitBlock[t] # NULL =>
              /\ tWaitBlock[t] \in B
              /\ own[tWaitBlock[t]] = t
              /\ \A b \in B : WaitBlock[b].Next # tWaitBlock[t]
        /\ pc[t] = "KeSetEvent" =>
              /\ tWaitBlock[t] # NULL
              /\ Old[t] = WaitBlock[tWaitBlock[t]].Next
              /\ ~WaitBlock[tWaitBlock[t]].Spinning

SleepInv(B) ==
    /\ \A b \in B :
          /\ pc[b] = "Recheck" \/ then[b] = "OwnBlock"
          /\ WaitBlock[b].Spinning <=> pc[b] # "KeWait"
          /\ pc[b] \in {"Spin", "KeWait"} => WaitBlock[b].WakeEvent # "set"
    /\ \A t \in Threads : pc[t] = "BlockCas" => WaitBlock[t].Spinning

Chained(B, own) == ListInv(B, own) /\ WakerInv(B, own) /\ SleepInv(B)

BlockInv == \E B \in SUBSET Threads, own \in [Threads -> Threads \cup {NULL}] : Chained(B, own)

IInv == TypeOK /\ CallInv /\ LockInv /\ BlockInv

----------------------------------------------------------------------------
Labels == {"idle", "Lock", "LockCas", "Block", "BlockCas", "Recheck", "InitEvent",
           "Spin", "KeWait", "holds", "creates", "Unblock", "Pop", "WakeLoop", "KeSetEvent"}
BlockType == [Next : Threads \cup {NULL}, Spinning : BOOLEAN, WakeEvent : {"none", "reset", "set"}]

\* The step of one thread changes no other thread's place.
OthersStay(t) ==
    \A u \in Threads \ {t} :
        /\ pc'[u] = pc[u] /\ at'[u] = at[u] /\ CurrentValue'[u] = CurrentValue[u]
        /\ Old'[u] = Old[u] /\ tWaitBlock'[u] = tWaitBlock[u] /\ then'[u] = then[u]

\* The special values and their types.
LEMMA Values ==
    /\ Free \in EntryValue
    /\ Free.Object = NULL /\ Free.bit = 0
    /\ NoBlock \in BlockType
    /\ NULL \notin Threads /\ NULL \notin Entries /\ NULL \notin Objects
    /\ \A v \in EntryValue : v = Free <=> v.Object = NULL /\ v.bit = 0
  BY HandleLockAssumptions DEF Free, EntryValue, NoBlock, BlockType

\* Setting one field of a wait block, of whatever thread, keeps the blocks' types.
LEMMA FieldSet ==
    ASSUME NEW W \in [Threads -> BlockType], NEW b
    PROVE  /\ [W EXCEPT ![b].Spinning = FALSE] \in [Threads -> BlockType]
           /\ [W EXCEPT ![b].WakeEvent = "set"] \in [Threads -> BlockType]
           /\ [W EXCEPT ![b].WakeEvent = "reset"] \in [Threads -> BlockType]
<1>1. CASE b \in Threads
  <2>1. W[b] \in BlockType
    BY <1>1
  <2>2. [W[b] EXCEPT !.Spinning = FALSE] \in BlockType
    BY <2>1 DEF BlockType
  <2>3. [W[b] EXCEPT !.WakeEvent = "set"] \in BlockType
    BY <2>1 DEF BlockType
  <2>4. [W[b] EXCEPT !.WakeEvent = "reset"] \in BlockType
    BY <2>1 DEF BlockType
  <2>5. [W EXCEPT ![b].Spinning = FALSE] \in [Threads -> BlockType]
    BY <2>2
  <2>6. [W EXCEPT ![b].WakeEvent = "set"] \in [Threads -> BlockType]
    BY <2>3
  <2>7. [W EXCEPT ![b].WakeEvent = "reset"] \in [Threads -> BlockType]
    BY <2>4
  <2> QED  BY <2>5, <2>6, <2>7
<1>2. CASE b \notin Threads
  <2>1. [W EXCEPT ![b].Spinning = FALSE] = W
    BY <1>2
  <2>2. [W EXCEPT ![b].WakeEvent = "set"] = W
    BY <1>2
  <2>3. [W EXCEPT ![b].WakeEvent = "reset"] = W
    BY <1>2
  <2> QED  BY <2>1, <2>2, <2>3
<1> QED  BY <1>1, <1>2

\* Setting the lock bit of an entry in use leaves its object and the other entries.
LEMMA BitSet ==
    ASSUME NEW E \in [Entries -> EntryValue], NEW a \in Entries, NEW n \in {0, 1},
           NEW G, G = [E EXCEPT ![a].bit = n]
    PROVE  /\ G \in [Entries -> EntryValue]
           /\ G[a].Object = E[a].Object
           /\ \A e \in Entries : e # a => G[e] = E[e]
<1>1. E[a] \in EntryValue
  OBVIOUS
<1>2. PICK v \in EntryValue : v = [E[a] EXCEPT !.bit = n] /\ v.Object = E[a].Object
  <2>1. [E[a] EXCEPT !.bit = n] \in EntryValue /\ [E[a] EXCEPT !.bit = n].Object = E[a].Object
    BY <1>1 DEF EntryValue
  <2> QED  BY <2>1
<1>3. G = [E EXCEPT ![a] = v]
  BY <1>2
<1> QED  BY <1>2, <1>3

\* What each kind of step does to the threads' own variables and their types.
LEMMA StepTypes ==
    ASSUME TypeOK, CallInv, NEW t \in Threads, Begin(t) \/ Continue(t)
    PROVE  /\ pc' \in [Threads -> Labels]
           /\ at' \in [Threads -> Entries \cup {NULL}]
           /\ then' \in [Threads -> {"idle", "OwnBlock", "FreeEntry"}]
           /\ OthersStay(t)
<1> USE DEF TypeOK, Labels, OthersStay, Goto, Return, Awake
<1>1. CASE Begin(t)
  BY <1>1 DEF Begin, LockEntry, CreateHandle
<1>2. CASE LockRead(t) \/ LockCas(t) \/ BlockRead(t) \/ BlockCas(t) \/ Recheck(t)
  BY <1>2, Values DEF LockRead, LockCas, BlockRead, BlockCas, Recheck
<1>3. CASE InitEvent(t) \/ Spin(t) \/ KeWait(t)
  BY <1>3, Values DEF InitEvent, Spin, KeWait, locals
<1>4. CASE UnlockEntry(t) \/ DestroyHandle(t) \/ CreateUnlock(t)
  BY <1>4, Values DEF UnlockEntry, DestroyHandle, CreateUnlock, locals
<1>5. CASE UnblockTest(t)
  BY <1>5, Values DEF UnblockTest, Unblocked, locals
<1>6. CASE Pop(t) \/ WakeLoop(t) \/ SetEvent(t)
  BY <1>6, Values DEF Pop, WakeLoop, SetEvent
<1>7. CASE WakeDone(t)
  BY <1>7, Values DEF WakeDone, Unblocked, locals
<1> QED  BY <1>1, <1>2, <1>3, <1>4, <1>5, <1>6, <1>7 DEF Continue

\* Every step keeps the types.
LEMMA TypeStep ==
    ASSUME TypeOK, CallInv, LockInv, NEW t \in Threads, Begin(t) \/ Continue(t)
    PROVE  TypeOK'
<1>1. /\ pc' \in [Threads -> Labels]
      /\ at' \in [Threads -> Entries \cup {NULL}]
      /\ then' \in [Threads -> {"idle", "OwnBlock", "FreeEntry"}]
  BY StepTypes
<1>2. /\ Entry' \in [Entries -> EntryValue]
      /\ \A e \in Entries : Entry'[e].Object = NULL => Entry'[e] = Free
  <2>1. ASSUME NEW e \in Entries, NEW o \in Objects, CreateHandle(t, e, o)
        PROVE  <1>2!:
    <3>1. Locked(o) \in EntryValue /\ Locked(o).Object # NULL
      BY Values DEF Locked, EntryValue
    <3> QED  BY <2>1, <3>1 DEF CreateHandle, TypeOK
  <2>2. ASSUME NEW n \in {0, 1}, at[t] \in Entries, Entry[at[t]].Object # NULL,
               Entry' = [Entry EXCEPT ![at[t]].bit = n]
        PROVE  <1>2!:
    <3>1. Entry \in [Entries -> EntryValue] /\ \A e \in Entries : Entry[e].Object = NULL => Entry[e] = Free
      BY DEF TypeOK
    <3>2. PICK a \in Entries : a = at[t]
      BY <2>2
    <3>3. PICK G : G = Entry' /\ G = [Entry EXCEPT ![a].bit = n]
      BY <2>2, <3>2
    <3>4. /\ G \in [Entries -> EntryValue]
          /\ G[a].Object = Entry[a].Object
          /\ \A e \in Entries : e # a => G[e] = Entry[e]
      BY <3>1, <3>3, BitSet
    <3> QED  BY <2>2, <3>1, <3>2, <3>3, <3>4
  <2>3. CASE LockCas(t)
    <3>1. at[t] \in Entries /\ CurrentValue[t].Object # NULL
      BY <2>3 DEF LockCas, CallInv
    <3> QED  BY <2>3, <2>2, <3>1 DEF LockCas, TypeOK
  <2>4. CASE UnlockEntry(t) \/ CreateUnlock(t)
    <3>1. at[t] \in Entries /\ Holds(t, at[t])
      BY <2>4 DEF UnlockEntry, CreateUnlock, CallInv, Holds
    <3>2. Entry[at[t]].Object # NULL
      BY <3>1 DEF LockInv
    <3> QED  BY <2>4, <2>2, <3>1, <3>2 DEF UnlockEntry, CreateUnlock
  <2>5. CASE DestroyHandle(t)
    BY <2>5, Values DEF DestroyHandle, CallInv, TypeOK
  <2>6. ASSUME Entry' = Entry
        PROVE  <1>2!:
    BY <2>6 DEF TypeOK
  <2> QED
    BY <2>1, <2>3, <2>4, <2>5, <2>6
       DEF Begin, Continue, LockEntry, LockRead, BlockRead, BlockCas, Recheck, InitEvent, Spin, KeWait,
           UnblockTest, Pop, WakeLoop, SetEvent, WakeDone
<1>3. FreeEntries' \subseteq Entries
  BY DEF TypeOK, CallInv, Begin, Continue, CreateHandle, LockEntry, LockRead, LockCas, BlockRead, BlockCas,
         Recheck, InitEvent, Spin, KeWait, UnlockEntry, DestroyHandle, CreateUnlock,
         UnblockTest, Unblocked, Pop, WakeLoop, SetEvent, WakeDone
<1>4. HandleContentionEvent' \in Threads \cup {NULL}
  BY DEF TypeOK, Begin, Continue, CreateHandle, LockEntry, LockRead, LockCas, BlockRead, BlockCas,
         Recheck, InitEvent, Spin, KeWait, UnlockEntry, DestroyHandle, CreateUnlock,
         UnblockTest, Pop, WakeLoop, SetEvent, WakeDone
<1>5. WaitBlock' \in [Threads -> BlockType]
  <2>1. WaitBlock \in [Threads -> BlockType]
    BY DEF TypeOK, BlockType
  <2>2. ASSUME Awake(t)
        PROVE  WaitBlock' \in [Threads -> BlockType]
    BY <2>1, <2>2, Values DEF Awake
  <2>3. CASE BlockRead(t)
    BY <2>1, <2>3, Values DEF BlockRead, BlockType
  <2>4. CASE BlockCas(t)
    BY <2>1, <2>4 DEF BlockCas, BlockType, TypeOK
  <2>5. CASE InitEvent(t)
    BY <2>1, <2>5, FieldSet DEF InitEvent
  <2>6. CASE Spin(t) \/ KeWait(t)
    <3>1. Awake(t) \/ WaitBlock' = [WaitBlock EXCEPT ![t].Spinning = FALSE]
      BY <2>6 DEF Spin, KeWait
    <3>2. [WaitBlock EXCEPT ![t].Spinning = FALSE] \in [Threads -> BlockType]
      BY <2>1, FieldSet
    <3> QED  BY <2>2, <3>1, <3>2
  <2>7. CASE UnblockTest(t) \/ WakeDone(t)
    BY <2>1, <2>2, <2>7 DEF UnblockTest, WakeDone, Unblocked
  <2>8. CASE WakeLoop(t) \/ SetEvent(t)
    <3>1. PICK b \in Threads \cup {NULL} : b = tWaitBlock[t]
      BY DEF TypeOK
    <3>2. CASE WakeLoop(t)
      <4>1. WaitBlock' = [WaitBlock EXCEPT ![b].Spinning = FALSE] \/ WaitBlock' = WaitBlock
        BY <3>1, <3>2 DEF WakeLoop
      <4>2. [WaitBlock EXCEPT ![b].Spinning = FALSE] \in [Threads -> BlockType]
        BY <2>1, FieldSet
      <4> QED  BY <2>1, <4>1, <4>2
    <3>3. CASE SetEvent(t)
      <4>1. WaitBlock' = [WaitBlock EXCEPT ![b].WakeEvent = "set"]
        BY <3>1, <3>3 DEF SetEvent
      <4> QED  BY <2>1, <4>1, FieldSet
    <3> QED  BY <2>8, <3>2, <3>3
  <2> QED
    BY <2>1, <2>3, <2>4, <2>5, <2>6, <2>7, <2>8
       DEF Begin, Continue, CreateHandle, LockEntry, LockRead, LockCas, Recheck,
           UnlockEntry, DestroyHandle, CreateUnlock, Pop
<1>6. /\ CurrentValue' \in [Threads -> EntryValue]
      /\ Old' \in [Threads -> Threads \cup {NULL}]
      /\ tWaitBlock' \in [Threads -> Threads \cup {NULL}]
  <2> USE DEF TypeOK, Goto, Return, Awake
  <2>1. CASE Begin(t)
    BY <2>1 DEF Begin, LockEntry, CreateHandle
  <2>2. CASE LockRead(t)
    BY <2>2, Values DEF LockRead, CallInv
  <2>3. CASE LockCas(t) \/ BlockRead(t) \/ BlockCas(t) \/ Recheck(t)
    BY <2>3, Values DEF LockCas, BlockRead, BlockCas, Recheck
  <2>4. CASE InitEvent(t) \/ Spin(t) \/ KeWait(t) \/ UnlockEntry(t) \/ DestroyHandle(t) \/ CreateUnlock(t)
    BY <2>4 DEF InitEvent, Spin, KeWait, UnlockEntry, DestroyHandle, CreateUnlock, locals
  <2>5. CASE UnblockTest(t) \/ WakeDone(t)
    BY <2>5, Values DEF UnblockTest, WakeDone, Unblocked, locals
  <2>6. CASE Pop(t) \/ SetEvent(t)
    BY <2>6 DEF Pop, SetEvent
  <2>7. CASE WakeLoop(t)
    BY <2>7 DEF WakeLoop
  <2> QED  BY <2>1, <2>2, <2>3, <2>4, <2>5, <2>6, <2>7 DEF Continue
<1> QED  BY <1>1, <1>2, <1>3, <1>4, <1>5, <1>6 DEF TypeOK, Labels, BlockType

\* Every step keeps what is known of the calls.
LEMMA CallStep ==
    ASSUME TypeOK, CallInv, NEW t \in Threads, Begin(t) \/ Continue(t)
    PROVE  CallInv'
<1> DEFINE Call(u) ==
        /\ pc'[u] # "idle" => at'[u] \in Entries
        /\ then'[u] = "FreeEntry" => pc'[u] \in {"Unblock", "Pop", "WakeLoop", "KeSetEvent"}
        /\ then'[u] = "OwnBlock" =>
              pc'[u] \in {"InitEvent", "Spin", "KeWait", "Pop", "WakeLoop", "KeSetEvent"}
        /\ pc'[u] = "LockCas" => CurrentValue'[u].Object # NULL /\ CurrentValue'[u].bit = 1
<1>1. ASSUME NEW u \in Threads \ {t}
      PROVE  Call(u)
  BY <1>1, StepTypes DEF OthersStay, CallInv
<1>2. Call(t)
  <2> USE DEF TypeOK, CallInv, Goto, Return, Awake
  <2>1. CASE Begin(t)
    BY <2>1 DEF Begin, LockEntry, CreateHandle
  <2>2. CASE LockRead(t)
    BY <2>2, Values DEF LockRead, EntryValue
  <2>3. CASE LockCas(t) \/ BlockRead(t) \/ BlockCas(t) \/ Recheck(t)
    BY <2>3 DEF LockCas, BlockRead, BlockCas, Recheck
  <2>4. CASE InitEvent(t) \/ Spin(t) \/ KeWait(t) \/ UnlockEntry(t) \/ DestroyHandle(t) \/ CreateUnlock(t)
    BY <2>4 DEF InitEvent, Spin, KeWait, UnlockEntry, DestroyHandle, CreateUnlock, locals
  <2>5. CASE UnblockTest(t) \/ WakeDone(t)
    BY <2>5 DEF UnblockTest, WakeDone, Unblocked, locals
  <2>6. CASE Pop(t) \/ SetEvent(t)
    BY <2>6 DEF Pop, SetEvent
  <2>7. CASE WakeLoop(t)
    BY <2>7 DEF WakeLoop
  <2> QED  BY <2>1, <2>2, <2>3, <2>4, <2>5, <2>6, <2>7 DEF Continue
<1> QED  BY <1>1, <1>2 DEF CallInv

----------------------------------------------------------------------------
(* The lock.                                                               *)

\* A step that leaves the entries alone and neither takes nor gives one up.
LEMMA LockFrame ==
    ASSUME LockInv, NEW t \in Threads, OthersStay(t),
           Entry' = Entry, FreeEntries' = FreeEntries,
           pc[t] \notin {"holds", "creates"}, pc'[t] \notin {"holds", "creates"},
           then'[t] = "FreeEntry" => then[t] = "FreeEntry" /\ at'[t] = at[t]
    PROVE  LockInv'
<1>1. ASSUME NEW u \in Threads, NEW e \in Entries
      PROVE  /\ Holds(u, e)' <=> Holds(u, e)
             /\ Destroys(u, e)' => Destroys(u, e)
  BY DEF OthersStay, Holds, Destroys
<1> QED  BY <1>1 DEF LockInv

\* A step of a thread that works on entry e alone.
LEMMA LockOther ==
    ASSUME LockInv, NEW t \in Threads, OthersStay(t), NEW x \in Entries,
           \A e \in Entries \ {x} : Entry'[e] = Entry[e] /\ (e \in FreeEntries' <=> e \in FreeEntries),
           \A e \in Entries \ {x} : ~Holds(t, e) /\ ~Destroys(t, e) /\ ~Holds(t, e)' /\ ~Destroys(t, e)',
           /\ \A u \in Threads : Holds(u, x)' => Entry'[x].Object # NULL /\ Entry'[x].bit = 0
           /\ \A u, v \in Threads : Holds(u, x)' /\ Holds(v, x)' => u = v
           /\ Entry'[x].Object # NULL /\ Entry'[x].bit = 0 => \E u \in Threads : Holds(u, x)'
           /\ x \in FreeEntries' => Entry'[x] = Free /\ \A u \in Threads : ~Destroys(u, x)'
           /\ \A u \in Threads : Destroys(u, x)' => Entry'[x] = Free
           /\ \A u, v \in Threads : Destroys(u, x)' /\ Destroys(v, x)' => u = v
    PROVE  LockInv'
<1>1. ASSUME NEW u \in Threads, NEW e \in Entries \ {x}
      PROVE  (Holds(u, e)' <=> Holds(u, e)) /\ (Destroys(u, e)' <=> Destroys(u, e))
  BY DEF OthersStay, Holds, Destroys
<1> QED  BY <1>1 DEF LockInv

\* A created handle is locked by its creator alone.
LEMMA CreateLock ==
    ASSUME TypeOK, CallInv, LockInv, NEW t \in Threads, NEW e \in Entries, NEW o \in Objects,
           CreateHandle(t, e, o)
    PROVE  LockInv'
<1>1. OthersStay(t)
  BY StepTypes DEF Begin
<1>2. /\ pc[t] = "idle" /\ pc'[t] = "creates" /\ at'[t] = e /\ then'[t] = then[t]
      /\ e \in FreeEntries /\ FreeEntries' = FreeEntries \ {e}
      /\ Entry'[e] = Locked(o) /\ \A x \in Entries \ {e} : Entry'[x] = Entry[x]
  BY DEF CreateHandle, Goto, TypeOK
<1>3. Locked(o).Object # NULL /\ Locked(o).bit = 0
  BY Values DEF Locked
<1>4. then[t] # "FreeEntry"
  BY <1>2 DEF CallInv
<1>5. ASSUME NEW u \in Threads \ {t}
      PROVE  ~Holds(u, e)' /\ ~Destroys(u, e)'
  BY <1>1, <1>2, Values DEF OthersStay, Holds, Destroys, LockInv
<1>6. Holds(t, e)' /\ ~Destroys(t, e)'
  BY <1>2, <1>4 DEF Holds, Destroys
<1>7. \A x \in Entries \ {e} : ~Holds(t, x) /\ ~Destroys(t, x) /\ ~Holds(t, x)' /\ ~Destroys(t, x)'
  BY <1>2, <1>4 DEF Holds, Destroys
<1> QED  BY <1>1, <1>2, <1>3, <1>5, <1>6, <1>7, LockOther

\* Who wins the compare-exchange found the bit set: nobody held the entry.
LEMMA CasLock ==
    ASSUME TypeOK, CallInv, LockInv, NEW t \in Threads, LockCas(t)
    PROVE  LockInv'
<1> DEFINE e == at[t]
<1>1. OthersStay(t) /\ pc[t] = "LockCas" /\ e \in Entries /\ at'[t] = e /\ then'[t] = then[t]
      /\ FreeEntries' = FreeEntries
  BY StepTypes DEF Continue, LockCas, CallInv
<1>2. then[t] # "FreeEntry"
  BY <1>1 DEF CallInv
<1>3. CASE Entry' = Entry /\ pc'[t] = "Block"
  BY <1>1, <1>2, <1>3, LockFrame
<1>4. CASE Entry[e] = CurrentValue[t] /\ Entry' = [Entry EXCEPT ![e].bit = 0] /\ pc'[t] = "holds"
  <2>1. Entry[e].Object # NULL /\ Entry[e].bit = 1
    BY <1>1, <1>4 DEF CallInv
  <2>2. /\ Entry'[e].Object # NULL /\ Entry'[e].bit = 0
        /\ \A x \in Entries \ {e} : Entry'[x] = Entry[x]
    BY <1>1, <1>4, <2>1 DEF TypeOK, EntryValue
  <2>3. ASSUME NEW u \in Threads \ {t}
        PROVE  ~Holds(u, e)' /\ ~Destroys(u, e)'
    BY <1>1, <2>1, Values DEF OthersStay, Holds, Destroys, LockInv
  <2>4. Holds(t, e)' /\ ~Destroys(t, e)'
    BY <1>1, <1>2, <1>4 DEF Holds, Destroys
  <2>5. e \notin FreeEntries
    BY <1>1, <2>1, Values DEF LockInv
  <2>6. \A x \in Entries \ {e} : ~Holds(t, x) /\ ~Destroys(t, x) /\ ~Holds(t, x)' /\ ~Destroys(t, x)'
    BY <1>1, <1>2 DEF Holds, Destroys
  <2> QED  BY <1>1, <2>2, <2>3, <2>4, <2>5, <2>6, LockOther
<1> QED  BY <1>3, <1>4, <1>1 DEF LockCas, Goto, TypeOK

\* A holder that unlocks or destroys an entry was its one holder.
LEMMA UnlockLock ==
    ASSUME TypeOK, CallInv, LockInv, NEW t \in Threads,
           UnlockEntry(t) \/ CreateUnlock(t) \/ DestroyHandle(t)
    PROVE  LockInv'
<1> DEFINE e == at[t]
<1>1. /\ OthersStay(t) /\ pc[t] \in {"holds", "creates"} /\ pc'[t] = "Unblock"
      /\ e \in Entries /\ at'[t] = e /\ FreeEntries' = FreeEntries
  BY StepTypes DEF Continue, UnlockEntry, CreateUnlock, DestroyHandle, CallInv, Goto, TypeOK, locals
<1>2. then[t] # "FreeEntry"
  BY <1>1 DEF CallInv
<1>3. Holds(t, e) /\ Entry[e].Object # NULL /\ Entry[e].bit = 0
  BY <1>1 DEF Holds, LockInv
<1>4. e \notin FreeEntries /\ \A u \in Threads \ {t} : ~Holds(u, e) /\ ~Destroys(u, e)
  BY <1>1, <1>3, Values DEF LockInv
<1>5. \A u \in Threads \ {t} : ~Holds(u, e)' /\ ~Destroys(u, e)'
  BY <1>1, <1>4 DEF OthersStay, Holds, Destroys
<1>6. \A x \in Entries \ {e} : ~Holds(t, x) /\ ~Destroys(t, x) /\ ~Holds(t, x)' /\ ~Destroys(t, x)'
  BY <1>1 DEF Holds, Destroys
<1>7. ~Holds(t, e)'
  BY <1>1 DEF Holds
<1>8. CASE UnlockEntry(t) \/ CreateUnlock(t)
  <2>1. Entry' = [Entry EXCEPT ![e].bit = 1] /\ then' = then
    BY <1>8 DEF UnlockEntry, CreateUnlock, locals
  <2>2. Entry'[e].bit = 1 /\ \A x \in Entries \ {e} : Entry'[x] = Entry[x]
    BY <1>1, <2>1 DEF TypeOK, EntryValue
  <2>3. ~Destroys(t, e)'
    BY <1>2, <2>1 DEF Destroys
  <2> QED  BY <1>1, <1>4, <1>5, <1>6, <1>7, <2>2, <2>3, LockOther
<1>9. CASE DestroyHandle(t)
  <2>1. Entry'[e] = Free /\ \A x \in Entries \ {e} : Entry'[x] = Entry[x]
    BY <1>1, <1>9 DEF DestroyHandle, TypeOK
  <2> QED  BY <1>1, <1>4, <1>5, <1>6, <1>7, <2>1, LockOther, Values
<1> QED  BY <1>8, <1>9

\* The end of an unblock, which gives a destroyed entry back.
LEMMA UnblockedLock ==
    ASSUME TypeOK, CallInv, LockInv, NEW t \in Threads, UnblockTest(t) \/ WakeDone(t)
    PROVE  LockInv'
<1>1. OthersStay(t) /\ Entry' = Entry /\ pc[t] \in {"Unblock", "WakeLoop"}
      /\ at[t] \in Entries
  BY StepTypes DEF Continue, UnblockTest, WakeDone, CallInv
<1>2. CASE FreeEntries' = FreeEntries
  <2>1. pc'[t] \notin {"holds", "creates"} /\ (then'[t] = "FreeEntry" => then[t] = "FreeEntry" /\ at'[t] = at[t])
    BY DEF UnblockTest, WakeDone, Unblocked, Return, Awake, Goto, TypeOK, locals
  <2> QED  BY <1>1, <1>2, <2>1, LockFrame
<1>3. CASE FreeEntries' # FreeEntries
  <2>1. /\ then[t] = "FreeEntry" /\ FreeEntries' = FreeEntries \cup {at[t]}
        /\ pc'[t] = "idle" /\ then'[t] = "idle" /\ at'[t] = NULL
    BY <1>3 DEF UnblockTest, WakeDone, Unblocked, Return, Awake, Goto, TypeOK
  <2>2. PICK e \in Entries : e = at[t]
    BY <1>1
  <2>3. Destroys(t, e) /\ Entry[e] = Free
    BY <2>1, <2>2 DEF Destroys, LockInv
  <2>4. \A u \in Threads \ {t} : ~Holds(u, e) /\ ~Destroys(u, e)
    BY <2>3, Values DEF LockInv
  <2>5. \A u \in Threads : ~Holds(u, e)' /\ ~Destroys(u, e)'
    BY <1>1, <2>1, <2>4 DEF Holds, Destroys, OthersStay
  <2>6. \A x \in Entries \ {e} : ~Holds(t, x) /\ ~Destroys(t, x) /\ ~Holds(t, x)' /\ ~Destroys(t, x)'
    BY <2>1, <2>2 DEF Holds, Destroys
  <2> QED  BY <1>1, <2>1, <2>2, <2>3, <2>5, <2>6, LockOther, Values
<1> QED  BY <1>2, <1>3

\* Every step keeps what is known of the entries' locks.
LEMMA LockStep ==
    ASSUME TypeOK, CallInv, LockInv, NEW t \in Threads, Begin(t) \/ Continue(t)
    PROVE  LockInv'
<1>1. CASE \E e \in Entries, o \in Objects : CreateHandle(t, e, o)
  BY <1>1, CreateLock
<1>2. CASE LockCas(t) \/ UnlockEntry(t) \/ CreateUnlock(t) \/ DestroyHandle(t) \/ UnblockTest(t) \/ WakeDone(t)
  BY <1>2, CasLock, UnlockLock, UnblockedLock
<1>3. CASE \/ \E e \in Entries : LockEntry(t, e)
           \/ LockRead(t) \/ BlockRead(t) \/ BlockCas(t) \/ Recheck(t)
           \/ InitEvent(t) \/ Spin(t) \/ KeWait(t) \/ Pop(t) \/ WakeLoop(t) \/ SetEvent(t)
  <2>1. OthersStay(t)
    BY StepTypes
  <2>2. Entry' = Entry /\ FreeEntries' = FreeEntries /\ pc[t] \notin {"holds", "creates"}
    BY <1>3 DEF LockEntry, LockRead, BlockRead, BlockCas, Recheck, InitEvent, Spin, KeWait, Pop, WakeLoop, SetEvent
  <2>3. pc'[t] \notin {"holds", "creates"}
    BY <1>3, <2>2 DEF LockEntry, LockRead, BlockRead, BlockCas, Recheck, InitEvent, Spin, KeWait, Pop, WakeLoop, SetEvent,
                 Goto, Return, Awake, TypeOK
  <2>4. then'[t] = "FreeEntry" => then[t] = "FreeEntry" /\ at'[t] = at[t]
    BY <1>3 DEF LockEntry, LockRead, BlockRead, BlockCas, Recheck, InitEvent, Spin, KeWait, Pop, WakeLoop, SetEvent,
                 Goto, Return, Awake, TypeOK, CallInv, locals
  <2> QED  BY <2>1, <2>2, <2>3, <2>4, LockFrame
<1> QED  BY <1>1, <1>2, <1>3 DEF Begin, Continue

----------------------------------------------------------------------------
(* The wait blocks.                                                        *)

\* A step that wakes nobody and touches no list: the thread's own block keeps
\* its place if it has one.
LEMMA QuietBlocks ==
    ASSUME TypeOK, NEW t \in Threads, OthersStay(t),
           NEW B \in SUBSET Threads, NEW own \in [Threads -> Threads \cup {NULL}], Chained(B, own),
           HandleContentionEvent' = HandleContentionEvent,
           \A u \in Threads \ {t} : WaitBlock'[u] = WaitBlock[u],
           pc'[t] \notin {"WakeLoop", "KeSetEvent"},
           pc'[t] = "BlockCas" => WaitBlock'[t].Spinning,
           t \in B => /\ pc[t] # "KeWait" /\ pc'[t] # "KeWait"
                      /\ pc'[t] = "Recheck" \/ then'[t] = "OwnBlock"
                      /\ WaitBlock'[t].Next = WaitBlock[t].Next
                      /\ WaitBlock'[t].Spinning = WaitBlock[t].Spinning
                      /\ pc'[t] = "Spin" => WaitBlock'[t].WakeEvent # "set"
    PROVE  BlockInv'
<1>1. \A b \in B : WaitBlock'[b].Next = WaitBlock[b].Next /\ WaitBlock'[b].Spinning = WaitBlock[b].Spinning
  OBVIOUS
<1>2. ListInv(B, own)'
  BY <1>1 DEF Chained, ListInv
<1>3. WakerInv(B, own)'
  <2> SUFFICES ASSUME NEW u \in Threads
               PROVE  /\ pc'[u] \in {"WakeLoop", "KeSetEvent"} /\ tWaitBlock'[u] # NULL =>
                            /\ tWaitBlock'[u] \in B
                            /\ own[tWaitBlock'[u]] = u
                            /\ \A b \in B : WaitBlock'[b].Next # tWaitBlock'[u]
                      /\ pc'[u] = "KeSetEvent" =>
                            /\ tWaitBlock'[u] # NULL
                            /\ Old'[u] = WaitBlock'[tWaitBlock'[u]].Next
                            /\ ~WaitBlock'[tWaitBlock'[u]].Spinning
    BY DEF WakerInv
  <2>1. CASE u = t
    BY <2>1
  <2>2. CASE u # t
    BY <2>2, <1>1 DEF OthersStay, Chained, WakerInv
  <2> QED  BY <2>1, <2>2
<1>4. SleepInv(B)'
  <2>1. ASSUME NEW b \in B
        PROVE  /\ pc'[b] = "Recheck" \/ then'[b] = "OwnBlock"
               /\ WaitBlock'[b].Spinning <=> pc'[b] # "KeWait"
               /\ pc'[b] \in {"Spin", "KeWait"} => WaitBlock'[b].WakeEvent # "set"
    BY <1>1 DEF OthersStay, Chained, SleepInv
  <2>2. ASSUME NEW u \in Threads, pc'[u] = "BlockCas"
        PROVE  WaitBlock'[u].Spinning
    BY <2>2 DEF OthersStay, Chained, SleepInv
  <2> QED  BY <2>1, <2>2 DEF SleepInv
<1> QED  BY <1>2, <1>3, <1>4 DEF BlockInv, Chained

\* The steps that touch no listed block keep the chains.
LEMMA QuietStep ==
    ASSUME TypeOK, CallInv, NEW t \in Threads, OthersStay(t),
           NEW B \in SUBSET Threads, NEW own \in [Threads -> Threads \cup {NULL}], Chained(B, own),
           \/ Begin(t)
           \/ LockRead(t) \/ LockCas(t) \/ BlockRead(t) \/ Recheck(t) \/ InitEvent(t)
           \/ KeWait(t) \/ UnlockEntry(t) \/ DestroyHandle(t) \/ CreateUnlock(t)
           \/ UnblockTest(t) \/ WakeDone(t)
    PROVE  BlockInv'
<1>0. /\ WaitBlock \in [Threads -> BlockType]
      /\ t \in B => /\ pc[t] = "Recheck" \/ then[t] = "OwnBlock"
                    /\ WaitBlock[t].Spinning <=> pc[t] # "KeWait"
                    /\ pc[t] \in {"Spin", "KeWait"} => WaitBlock[t].WakeEvent # "set"
  BY DEF Chained, SleepInv, TypeOK, BlockType
<1>1. CASE Begin(t) \/ LockRead(t) \/ LockCas(t) \/ UnlockEntry(t) \/ DestroyHandle(t) \/ CreateUnlock(t)
  <2>1. t \notin B
    BY <1>0, <1>1 DEF Begin, LockEntry, CreateHandle, LockRead, LockCas, UnlockEntry, DestroyHandle, CreateUnlock, CallInv
  <2>2. HandleContentionEvent' = HandleContentionEvent /\ WaitBlock' = WaitBlock
    BY <1>1 DEF Begin, LockEntry, CreateHandle, LockRead, LockCas, UnlockEntry, DestroyHandle, CreateUnlock
  <2>3. pc'[t] \notin {"WakeLoop", "KeSetEvent", "BlockCas"}
    BY <1>1 DEF Begin, LockEntry, CreateHandle, LockRead, LockCas, UnlockEntry, DestroyHandle, CreateUnlock,
                Goto, Return, TypeOK
  <2> QED  BY <2>1, <2>2, <2>3, QuietBlocks
<1>2. CASE BlockRead(t)
  <2>1. t \notin B
    BY <1>0, <1>2 DEF BlockRead, CallInv
  <2>2. /\ HandleContentionEvent' = HandleContentionEvent
        /\ \A u \in Threads \ {t} : WaitBlock'[u] = WaitBlock[u]
        /\ WaitBlock'[t].Spinning
        /\ pc'[t] = "BlockCas"
    BY <1>0, <1>2 DEF BlockRead, Goto, TypeOK, NoBlock
  <2> QED  BY <2>1, <2>2, QuietBlocks
<1>3. CASE Recheck(t)
  <2>1. /\ HandleContentionEvent' = HandleContentionEvent /\ WaitBlock' = WaitBlock
        /\ pc[t] = "Recheck" /\ pc'[t] \in {"Pop", "InitEvent"} /\ then'[t] = "OwnBlock"
    BY <1>3 DEF Recheck, Goto, TypeOK
  <2> QED  BY <2>1, QuietBlocks
<1>4. CASE InitEvent(t)
  <2>1. /\ HandleContentionEvent' = HandleContentionEvent
        /\ \A u \in Threads \ {t} : WaitBlock'[u] = WaitBlock[u]
        /\ pc[t] = "InitEvent" /\ pc'[t] = "Spin" /\ then' = then
        /\ WaitBlock'[t].Next = WaitBlock[t].Next /\ WaitBlock'[t].Spinning = WaitBlock[t].Spinning
        /\ WaitBlock'[t].WakeEvent = "reset"
    BY <1>0, <1>4 DEF InitEvent, Goto, TypeOK, BlockType, locals
  <2> QED  BY <1>0, <2>1, QuietBlocks
<1>5. CASE KeWait(t)
  <2>1. t \notin B
    BY <1>0, <1>5 DEF KeWait
  <2>2. /\ HandleContentionEvent' = HandleContentionEvent
        /\ \A u \in Threads \ {t} : WaitBlock'[u] = WaitBlock[u]
        /\ pc'[t] = "Lock"
    BY <1>0, <1>5 DEF KeWait, Awake, Goto, TypeOK
  <2> QED  BY <2>1, <2>2, QuietBlocks
<1>6. CASE UnblockTest(t) \/ WakeDone(t)
  <2>1. /\ HandleContentionEvent' = HandleContentionEvent
        /\ \A u \in Threads \ {t} : WaitBlock'[u] = WaitBlock[u]
        /\ pc'[t] \in {"Pop", "InitEvent", "Lock", "idle"}
    BY <1>0, <1>6 DEF UnblockTest, WakeDone, Unblocked, Awake, Return, Goto, TypeOK
  <2>2. ASSUME t \in B
        PROVE  /\ pc[t] # "KeWait" /\ pc'[t] # "KeWait" /\ then'[t] = "OwnBlock"
               /\ WaitBlock' = WaitBlock
    BY <1>0, <1>6, <2>2 DEF UnblockTest, WakeDone, Unblocked, CallInv, Goto, TypeOK, locals
  <2> QED  BY <2>1, <2>2, QuietBlocks
<1> QED  BY <1>1, <1>2, <1>3, <1>4, <1>5, <1>6

\* The end of a spin keeps the chains.
LEMMA SpinBlocks ==
    ASSUME TypeOK, CallInv, NEW t \in Threads, OthersStay(t),
           NEW B \in SUBSET Threads, NEW own \in [Threads -> Threads \cup {NULL}], Chained(B, own),
           Spin(t)
    PROVE  BlockInv'
<1>0. /\ WaitBlock \in [Threads -> BlockType] /\ pc[t] = "Spin"
      /\ HandleContentionEvent' = HandleContentionEvent
      /\ t \in B => WaitBlock[t].Spinning /\ then[t] = "OwnBlock" /\ WaitBlock[t].WakeEvent # "set"
  BY DEF Chained, SleepInv, TypeOK, BlockType, Spin
<1>1. CASE ~WaitBlock[t].Spinning
  <2>1. t \notin B
    BY <1>0, <1>1
  <2>2. /\ \A u \in Threads \ {t} : WaitBlock'[u] = WaitBlock[u]
        /\ pc'[t] = "Lock"
    BY <1>0, <1>1 DEF Spin, Awake, Goto, TypeOK
  <2> QED  BY <1>0, <2>1, <2>2, QuietBlocks
<1>2. CASE WaitBlock[t].Spinning
  <2>1. /\ pc'[t] = "KeWait" /\ then' = then
        /\ WaitBlock' = [WaitBlock EXCEPT ![t].Spinning = FALSE]
    BY <1>2 DEF Spin, Goto, TypeOK
  <2>2. /\ \A b \in Threads : WaitBlock'[b].Next = WaitBlock[b].Next
        /\ \A b \in Threads : WaitBlock'[b].WakeEvent = WaitBlock[b].WakeEvent
        /\ \A b \in Threads \ {t} : WaitBlock'[b] = WaitBlock[b]
        /\ ~WaitBlock'[t].Spinning
    BY <1>0, <2>1 DEF BlockType
  <2>3. ListInv(B, own)'
    BY <1>0, <2>2 DEF Chained, ListInv
  <2>4. WakerInv(B, own)'
    <3> SUFFICES ASSUME NEW u \in Threads
                 PROVE  /\ pc'[u] \in {"WakeLoop", "KeSetEvent"} /\ tWaitBlock'[u] # NULL =>
                              /\ tWaitBlock'[u] \in B
                              /\ own[tWaitBlock'[u]] = u
                              /\ \A b \in B : WaitBlock'[b].Next # tWaitBlock'[u]
                        /\ pc'[u] = "KeSetEvent" =>
                              /\ tWaitBlock'[u] # NULL
                              /\ Old'[u] = WaitBlock'[tWaitBlock'[u]].Next
                              /\ ~WaitBlock'[tWaitBlock'[u]].Spinning
      BY DEF WakerInv
    <3>1. CASE u = t
      BY <3>1, <2>1
    <3>2. CASE u # t
      BY <3>2, <2>2 DEF OthersStay, Chained, WakerInv
    <3> QED  BY <3>1, <3>2
  <2>5. SleepInv(B)'
    BY <1>0, <2>1, <2>2 DEF OthersStay, Chained, SleepInv
  <2> QED  BY <2>3, <2>4, <2>5 DEF BlockInv, Chained
<1> QED  BY <1>1, <1>2

\* A block is pushed: it becomes the head, with the old head behind it.
LEMMA PushBlocks ==
    ASSUME TypeOK, CallInv, NEW t \in Threads, OthersStay(t),
           NEW B \in SUBSET Threads, NEW own \in [Threads -> Threads \cup {NULL}], Chained(B, own),
           BlockCas(t)
    PROVE  BlockInv'
<1>0. /\ WaitBlock \in [Threads -> BlockType] /\ pc[t] = "BlockCas"
      /\ t \notin B /\ WaitBlock[t].Spinning /\ then[t] # "OwnBlock"
  BY DEF Chained, SleepInv, TypeOK, BlockType, BlockCas, CallInv
<1>1. CASE HandleContentionEvent # Old[t]
  <2>1. HandleContentionEvent' = HandleContentionEvent /\ WaitBlock' = WaitBlock /\ pc' = pc
    BY <1>1 DEF BlockCas
  <2> QED  BY <1>0, <2>1, QuietBlocks
<1>2. CASE HandleContentionEvent = Old[t]
  <2> DEFINE C == B \cup {t}
             new == [own EXCEPT ![t] = NULL]
  <2>0. C \in SUBSET Threads /\ new \in [Threads -> Threads \cup {NULL}]
        /\ new[t] = NULL /\ \A b \in B : new[b] = own[b]
    BY <1>0
  <2>1. /\ HandleContentionEvent' = t
        /\ WaitBlock' = [WaitBlock EXCEPT ![t].Next = HandleContentionEvent]
        /\ pc'[t] = "Recheck"
    BY <1>2 DEF BlockCas, Goto, TypeOK
  <2>2. /\ WaitBlock'[t].Next = HandleContentionEvent /\ WaitBlock'[t].Spinning
        /\ \A b \in Threads \ {t} : WaitBlock'[b] = WaitBlock[b]
    BY <1>0, <2>1 DEF BlockType
  <2> HIDE DEF C, new
  <2>3. ASSUME NEW b \in B
        PROVE  WaitBlock[b].Next # NULL =>
                  /\ WaitBlock[b].Next \in B /\ WaitBlock[b].Next # HandleContentionEvent
                  /\ own[WaitBlock[b].Next] = own[b]
    BY DEF Chained, ListInv
  <2>4. HandleContentionEvent # NULL => HandleContentionEvent \in B /\ own[HandleContentionEvent] = NULL
    BY DEF Chained, ListInv
  <2>5. ListInv(C, new)'
    <3>1. HandleContentionEvent' # NULL => HandleContentionEvent' \in C /\ new[HandleContentionEvent'] = NULL
      BY <2>0, <2>1 DEF C
    <3>2. ASSUME NEW b \in C, WaitBlock'[b].Next # NULL
          PROVE  /\ WaitBlock'[b].Next \in C
                 /\ new[WaitBlock'[b].Next] = new[b]
                 /\ WaitBlock'[b].Next # HandleContentionEvent'
      <4>1. CASE b = t
        BY <4>1, <3>2, <1>0, <2>0, <2>1, <2>2, <2>4 DEF C
      <4>2. CASE b \in B
        <5>1. WaitBlock'[b].Next = WaitBlock[b].Next
          BY <4>2, <1>0, <2>2
        <5> QED  BY <4>2, <3>2, <5>1, <1>0, <2>0, <2>1, <2>3 DEF C
      <4> QED  BY <4>1, <4>2 DEF C
    <3>3. ASSUME NEW b \in C, NEW c \in C,
                 WaitBlock'[b].Next # NULL, WaitBlock'[b].Next = WaitBlock'[c].Next
          PROVE  b = c
      <4>1. CASE b \in B /\ c \in B
        BY <4>1, <3>3, <1>0, <2>2 DEF Chained, ListInv
      <4>2. CASE b = t \/ c = t
        BY <4>2, <3>3, <1>0, <2>2, <2>3 DEF C
      <4> QED  BY <4>1, <4>2 DEF C
    <3> QED  BY <3>1, <3>2, <3>3 DEF ListInv
  <2>6. WakerInv(C, new)'
    <3> SUFFICES ASSUME NEW u \in Threads
                 PROVE  /\ pc'[u] \in {"WakeLoop", "KeSetEvent"} /\ tWaitBlock'[u] # NULL =>
                              /\ tWaitBlock'[u] \in C
                              /\ new[tWaitBlock'[u]] = u
                              /\ \A b \in C : WaitBlock'[b].Next # tWaitBlock'[u]
                        /\ pc'[u] = "KeSetEvent" =>
                              /\ tWaitBlock'[u] # NULL
                              /\ Old'[u] = WaitBlock'[tWaitBlock'[u]].Next
                              /\ ~WaitBlock'[tWaitBlock'[u]].Spinning
      BY DEF WakerInv
    <3>1. CASE u = t
      BY <3>1, <2>1
    <3>2. ASSUME u # t, pc'[u] \in {"WakeLoop", "KeSetEvent"}, tWaitBlock'[u] # NULL
          PROVE  /\ tWaitBlock'[u] = tWaitBlock[u] /\ tWaitBlock[u] \in B /\ own[tWaitBlock[u]] = u
                 /\ \A b \in B : WaitBlock[b].Next # tWaitBlock[u]
                 /\ tWaitBlock[u] # HandleContentionEvent
      BY <3>2, <2>4, Values DEF OthersStay, Chained, WakerInv
    <3>3. ASSUME u # t, pc'[u] = "KeSetEvent"
          PROVE  /\ tWaitBlock'[u] = tWaitBlock[u] /\ tWaitBlock[u] # NULL
                 /\ Old'[u] = WaitBlock[tWaitBlock[u]].Next /\ ~WaitBlock[tWaitBlock[u]].Spinning
      BY <3>3 DEF OthersStay, Chained, WakerInv
    <3> QED  BY <3>1, <3>2, <3>3, <1>0, <2>0, <2>2 DEF C
  <2>7. SleepInv(C)'
    BY <1>0, <2>1, <2>2 DEF OthersStay, Chained, SleepInv, C
  <2> QED  BY <2>0, <2>5, <2>6, <2>7 DEF BlockInv, Chained
<1> QED  BY <1>1, <1>2

\* The whole chain changes hands.
LEMMA PopBlocks ==
    ASSUME TypeOK, CallInv, NEW t \in Threads, OthersStay(t),
           NEW B \in SUBSET Threads, NEW own \in [Threads -> Threads \cup {NULL}], Chained(B, own),
           Pop(t)
    PROVE  BlockInv'
<1> DEFINE new == [b \in Threads |-> IF own[b] = NULL THEN t ELSE own[b]]
<1>1. /\ HandleContentionEvent' = NULL /\ tWaitBlock'[t] = HandleContentionEvent
      /\ WaitBlock' = WaitBlock /\ then' = then
      /\ pc[t] = "Pop" /\ pc'[t] = "WakeLoop"
  BY DEF Pop, Goto, TypeOK
<1>2. /\ new \in [Threads -> Threads \cup {NULL}]
      /\ \A b, c \in B : own[b] = own[c] => new[b] = new[c]
      /\ \A b \in Threads : own[b] # NULL => new[b] = own[b]
      /\ \A b \in Threads : own[b] = NULL => new[b] = t
  OBVIOUS
<1> HIDE DEF new
<1>3. ListInv(B, new)'
  BY <1>1, <1>2, Values DEF Chained, ListInv
<1>4. WakerInv(B, new)'
  <2> SUFFICES ASSUME NEW u \in Threads
               PROVE  /\ pc'[u] \in {"WakeLoop", "KeSetEvent"} /\ tWaitBlock'[u] # NULL =>
                            /\ tWaitBlock'[u] \in B
                            /\ new[tWaitBlock'[u]] = u
                            /\ \A b \in B : WaitBlock'[b].Next # tWaitBlock'[u]
                      /\ pc'[u] = "KeSetEvent" =>
                            /\ tWaitBlock'[u] # NULL
                            /\ Old'[u] = WaitBlock'[tWaitBlock'[u]].Next
                            /\ ~WaitBlock'[tWaitBlock'[u]].Spinning
    BY DEF WakerInv
  <2>1. CASE u = t
    BY <2>1, <1>1, <1>2 DEF Chained, ListInv
  <2>2. CASE u # t
    BY <2>2, <1>1, <1>2, Values DEF OthersStay, Chained, WakerInv
  <2> QED  BY <2>1, <2>2
<1>5. SleepInv(B)'
  BY <1>1 DEF OthersStay, Chained, SleepInv
<1> QED  BY <1>2, <1>3, <1>4, <1>5 DEF BlockInv, Chained

\* The head of the popped list is woken and left behind, by the bit or by the
\* event; the waker goes on to the block after it.
LEMMA WakeHead ==
    ASSUME TypeOK, CallInv, NEW t \in Threads, OthersStay(t),
           NEW B \in SUBSET Threads, NEW own \in [Threads -> Threads \cup {NULL}], Chained(B, own),
           pc[t] \in {"WakeLoop", "KeSetEvent"}, NEW b \in Threads, b = tWaitBlock[t],
           HandleContentionEvent' = HandleContentionEvent, then' = then,
           \A c \in Threads \ {b} : WaitBlock'[c] = WaitBlock[c],
           pc'[t] = "WakeLoop", tWaitBlock'[t] = WaitBlock[b].Next
    PROVE  BlockInv'
<1> DEFINE C == B \ {b}
<1>0. C \in SUBSET Threads /\ WaitBlock \in [Threads -> BlockType]
  BY DEF TypeOK, BlockType
<1>1. /\ b \in B /\ own[b] = t /\ b # HandleContentionEvent
      /\ \A c \in B : WaitBlock[c].Next # b
  BY Values DEF Chained, WakerInv, ListInv
<1>2. \A c \in C : c \in B /\ c \in Threads /\ WaitBlock'[c] = WaitBlock[c]
  OBVIOUS
<1>3. ListInv(C, own)'
  <2>1. HandleContentionEvent # NULL => HandleContentionEvent \in C /\ own[HandleContentionEvent] = NULL
    BY <1>1 DEF Chained, ListInv
  <2>2. ASSUME NEW c \in C, WaitBlock[c].Next # NULL
        PROVE  /\ WaitBlock[c].Next \in C
               /\ own[WaitBlock[c].Next] = own[c]
               /\ WaitBlock[c].Next # HandleContentionEvent
    BY <1>1, <2>2 DEF Chained, ListInv
  <2>3. \A c, d \in C : WaitBlock[c].Next # NULL /\ WaitBlock[c].Next = WaitBlock[d].Next => c = d
    BY DEF Chained, ListInv
  <2> QED  BY <1>2, <2>1, <2>2, <2>3 DEF ListInv
<1>4. WakerInv(C, own)'
  <2> SUFFICES ASSUME NEW u \in Threads
               PROVE  /\ pc'[u] \in {"WakeLoop", "KeSetEvent"} /\ tWaitBlock'[u] # NULL =>
                            /\ tWaitBlock'[u] \in C
                            /\ own[tWaitBlock'[u]] = u
                            /\ \A c \in C : WaitBlock'[c].Next # tWaitBlock'[u]
                      /\ pc'[u] = "KeSetEvent" =>
                            /\ tWaitBlock'[u] # NULL
                            /\ Old'[u] = WaitBlock'[tWaitBlock'[u]].Next
                            /\ ~WaitBlock'[tWaitBlock'[u]].Spinning
    BY DEF WakerInv
  <2>1. CASE u = t
    <3>1. ASSUME WaitBlock[b].Next # NULL
          PROVE  /\ WaitBlock[b].Next \in C
                 /\ own[WaitBlock[b].Next] = t
                 /\ \A c \in C : WaitBlock[c].Next # WaitBlock[b].Next
      BY <1>1, <3>1 DEF Chained, ListInv
    <3> QED  BY <2>1, <3>1, <1>2
  <2>2. CASE u # t
    <3>1. tWaitBlock'[u] = tWaitBlock[u] /\ pc'[u] = pc[u] /\ Old'[u] = Old[u]
      BY <2>2 DEF OthersStay
    <3>2. ASSUME pc[u] \in {"WakeLoop", "KeSetEvent"}, tWaitBlock[u] # NULL
          PROVE  /\ tWaitBlock[u] \in C /\ own[tWaitBlock[u]] = u
                 /\ \A c \in C : WaitBlock[c].Next # tWaitBlock[u]
      BY <1>1, <2>2, <3>2 DEF Chained, WakerInv
    <3>3. pc[u] = "KeSetEvent" => /\ tWaitBlock[u] # NULL
                                  /\ Old[u] = WaitBlock[tWaitBlock[u]].Next
                                  /\ ~WaitBlock[tWaitBlock[u]].Spinning
      BY DEF Chained, WakerInv
    <3> QED  BY <3>1, <3>2, <3>3, <1>2
  <2> QED  BY <2>1, <2>2
<1>5. SleepInv(C)'
  <2>1. ASSUME NEW c \in C
        PROVE  /\ pc'[c] = "Recheck" \/ then'[c] = "OwnBlock"
               /\ WaitBlock'[c].Spinning <=> pc'[c] # "KeWait"
               /\ pc'[c] \in {"Spin", "KeWait"} => WaitBlock'[c].WakeEvent # "set"
    BY <1>2 DEF OthersStay, Chained, SleepInv
  <2>2. ASSUME NEW u \in Threads, pc'[u] = "BlockCas"
        PROVE  WaitBlock'[u].Spinning
    <3>1. u # t /\ pc[u] = "BlockCas"
      BY <2>2 DEF OthersStay
    <3>2. WaitBlock[u].Spinning
      BY <3>1 DEF Chained, SleepInv
    <3>3. CASE u = b
      BY <3>1, <3>3, <1>1 DEF Chained, SleepInv, CallInv
    <3> QED  BY <3>2, <3>3
  <2> QED  BY <2>1, <2>2 DEF SleepInv
<1> QED  BY <1>0, <1>3, <1>4, <1>5 DEF BlockInv, Chained

\* A block's spinning bit taken by a waker: the chains are kept.
LEMMA WakeLoopBlocks ==
    ASSUME TypeOK, CallInv, NEW t \in Threads, OthersStay(t),
           NEW B \in SUBSET Threads, NEW own \in [Threads -> Threads \cup {NULL}], Chained(B, own),
           WakeLoop(t)
    PROVE  BlockInv'
<1>0. PICK b \in Threads : b = tWaitBlock[t]
  BY DEF WakeLoop, TypeOK
<1>1. /\ WaitBlock \in [Threads -> BlockType] /\ pc[t] = "WakeLoop" /\ then' = then
      /\ HandleContentionEvent' = HandleContentionEvent
  BY DEF TypeOK, BlockType, WakeLoop
<1>2. CASE WaitBlock[b].Spinning
  <2>1. /\ WaitBlock' = [WaitBlock EXCEPT ![b].Spinning = FALSE]
        /\ tWaitBlock'[t] = WaitBlock[b].Next /\ pc'[t] = "WakeLoop"
    BY <1>0, <1>1, <1>2 DEF WakeLoop, TypeOK
  <2>2. \A c \in Threads \ {b} : WaitBlock'[c] = WaitBlock[c]
    BY <1>1, <2>1
  <2> QED  BY <1>0, <1>1, <2>1, <2>2, WakeHead
<1>3. CASE ~WaitBlock[b].Spinning
  <2>1. /\ WaitBlock' = WaitBlock /\ tWaitBlock' = tWaitBlock
        /\ Old'[t] = WaitBlock[b].Next /\ pc'[t] = "KeSetEvent"
    BY <1>0, <1>3 DEF WakeLoop, Goto, TypeOK
  <2>2. ListInv(B, own)'
    BY <1>1, <2>1 DEF Chained, ListInv
  <2>3. WakerInv(B, own)'
    BY <1>0, <1>1, <1>3, <2>1, Values DEF OthersStay, Chained, WakerInv
  <2>4. SleepInv(B)'
    BY <1>1, <2>1 DEF OthersStay, Chained, SleepInv
  <2> QED  BY <2>2, <2>3, <2>4 DEF BlockInv, Chained
<1> QED  BY <1>2, <1>3

\* The event of a block set: the chains are kept.
LEMMA SetEventBlocks ==
    ASSUME TypeOK, CallInv, NEW t \in Threads, OthersStay(t),
           NEW B \in SUBSET Threads, NEW own \in [Threads -> Threads \cup {NULL}], Chained(B, own),
           SetEvent(t)
    PROVE  BlockInv'
<1>0. PICK b \in Threads : b = tWaitBlock[t] /\ Old[t] = WaitBlock[b].Next
  BY DEF SetEvent, TypeOK, Chained, WakerInv
<1>1. /\ WaitBlock \in [Threads -> BlockType] /\ pc[t] = "KeSetEvent" /\ pc'[t] = "WakeLoop" /\ then' = then
      /\ HandleContentionEvent' = HandleContentionEvent
      /\ WaitBlock' = [WaitBlock EXCEPT ![b].WakeEvent = "set"]
      /\ tWaitBlock'[t] = WaitBlock[b].Next
  BY <1>0 DEF TypeOK, BlockType, SetEvent, Goto
<1>2. \A c \in Threads \ {b} : WaitBlock'[c] = WaitBlock[c]
  BY <1>1
<1> QED  BY <1>0, <1>1, <1>2, WakeHead

\* Every step keeps what is known of the blocks.
LEMMA BlockStep ==
    ASSUME TypeOK, CallInv, BlockInv, NEW t \in Threads, Begin(t) \/ Continue(t)
    PROVE  BlockInv'
<1>1. PICK B \in SUBSET Threads, own \in [Threads -> Threads \cup {NULL}] : Chained(B, own)
  BY DEF BlockInv
<1>2. OthersStay(t)
  BY StepTypes
<1>3. CASE BlockCas(t)
  BY <1>1, <1>2, <1>3, PushBlocks
<1>4. CASE Spin(t)
  BY <1>1, <1>2, <1>4, SpinBlocks
<1>5. CASE Pop(t)
  BY <1>1, <1>2, <1>5, PopBlocks
<1>6. CASE WakeLoop(t)
  BY <1>1, <1>2, <1>6, WakeLoopBlocks
<1>7. CASE SetEvent(t)
  BY <1>1, <1>2, <1>7, SetEventBlocks
<1> QED  BY <1>1, <1>2, <1>3, <1>4, <1>5, <1>6, <1>7, QuietStep DEF Continue

----------------------------------------------------------------------------
(* The theorems.                                                           *)

\* The invariant holds initially.
LEMMA InitInv == Init => IInv
<1> SUFFICES ASSUME Init PROVE IInv
  OBVIOUS
<1>1. TypeOK
  BY Values DEF Init, TypeOK, BlockType
<1>2. CallInv
  BY DEF Init, CallInv
<1>3. LockInv
  BY Values DEF Init, LockInv, Holds, Destroys
<1>4. BlockInv
  <2> DEFINE own == [t \in Threads |-> NULL]
  <2>1. ListInv({}, own) /\ WakerInv({}, own) /\ SleepInv({})
    BY DEF Init, ListInv, WakerInv, SleepInv
  <2>2. own \in [Threads -> Threads \cup {NULL}]
    OBVIOUS
  <2> QED  BY <2>1, <2>2 DEF BlockInv, Chained
<1> QED  BY <1>1, <1>2, <1>3, <1>4 DEF IInv

\* Every step keeps the invariant.
LEMMA NextInv == IInv /\ [Next]_vars => IInv'
<1> SUFFICES ASSUME IInv, [Next]_vars PROVE IInv'
  OBVIOUS
<1>1. CASE Next
  BY <1>1, TypeStep, CallStep, LockStep, BlockStep DEF Next, IInv
<1>2. CASE UNCHANGED vars
  <2>1. TypeOK'
    BY <1>2 DEF vars, locals, IInv, TypeOK
  <2>2. CallInv'
    BY <1>2 DEF vars, locals, IInv, CallInv
  <2>3. LockInv'
    BY <1>2 DEF vars, locals, IInv, LockInv, Holds, Destroys
  <2>4. BlockInv'
    <3>1. PICK B \in SUBSET Threads, own \in [Threads -> Threads \cup {NULL}] :
              ListInv(B, own) /\ WakerInv(B, own) /\ SleepInv(B)
      BY DEF IInv, BlockInv, Chained
    <3>2. ListInv(B, own)'
      BY <1>2, <3>1 DEF vars, ListInv
    <3>3. WakerInv(B, own)'
      BY <1>2, <3>1 DEF vars, locals, WakerInv
    <3>4. SleepInv(B)'
      BY <1>2, <3>1 DEF vars, locals, SleepInv
    <3> QED  BY <3>2, <3>3, <3>4 DEF BlockInv, Chained
  <2> QED  BY <2>1, <2>2, <2>3, <2>4 DEF IInv
<1> QED  BY <1>1, <1>2

\* The inductive invariant of the entry locks and of the contention event.
THEOREM HandleLockInvariant == Spec => []IInv
  BY InitInv, NextInv, PTL DEF Spec

\* Entries, wait blocks and the threads' own variables keep their types; no
\* entry is free and unlocked.
THEOREM TypeCorrect == Spec => []TypeOK
<1>1. IInv => TypeOK
  BY DEF IInv
<1> QED  BY <1>1, HandleLockInvariant, PTL

\* ExpLockHandleTableEntry excludes: the clear bit of an entry in use stands for
\* exactly one thread, and a set bit or a free entry for none, whoever creates,
\* locks, unlocks and destroys handles meanwhile.
THEOREM EntryLocked == Spec => []EntryLock
<1>1. IInv => EntryLock
  <2> SUFFICES ASSUME IInv, NEW e \in Entries
               PROVE  Cardinality(Holders(e)) = IF Entry[e] = Free \/ Entry[e].bit = 1 THEN 0 ELSE 1
    BY DEF EntryLock
  <2>1. Holders(e) = {t \in Threads : Holds(t, e)}
    BY DEF Holders, Holds
  <2>2. Entry[e] \in EntryValue /\ (Entry[e].Object = NULL => Entry[e] = Free)
    BY DEF IInv, TypeOK
  <2>3. CASE Entry[e] = Free \/ Entry[e].bit = 1
    <3>1. Holders(e) = {}
      BY <2>1, <2>3, Values DEF IInv, LockInv
    <3> QED  BY <2>3, <3>1, FS_EmptySet
  <2>4. CASE ~(Entry[e] = Free \/ Entry[e].bit = 1)
    <3>1. Entry[e].Object # NULL /\ Entry[e].bit = 0
      BY <2>2, <2>4 DEF EntryValue
    <3>2. PICK t \in Threads : Holds(t, e)
      BY <3>1 DEF IInv, LockInv
    <3>3. Holders(e) = {t}
      BY <2>1, <3>2 DEF IInv, LockInv
    <3> QED  BY <2>4, <3>3, FS_Singleton
  <2> QED  BY <2>3, <2>4
<1> QED  BY <1>1, HandleLockInvariant, PTL

\* Every block a pushed pointer leads to is in scope, and in the hands of one
\* waker at most: ExfUnblockPushLock follows no pointer into a stack that is
\* gone and wakes no block twice.
THEOREM BlocksAreLive == Spec => []BlocksLive
<1>1. IInv => BlocksLive
  <2> SUFFICES ASSUME IInv PROVE BlocksLive
    OBVIOUS
  <2>1. PICK B \in SUBSET Threads, own \in [Threads -> Threads \cup {NULL}] : Chained(B, own)
    BY DEF IInv, BlockInv
  <2> DEFINE Of(o) == {x \in B : own[x] = o}
  <2>2. ASSUME NEW o, NEW b, b # NULL => b \in Of(o)
        PROVE  From(b) \subseteq Of(o)
    <3>1. \A y \in Of(o) : WaitBlock[y].Next \in Of(o) \cup {NULL}
      BY <2>1 DEF Chained, ListInv
    <3>2. Of(o) \in SUBSET Threads
      OBVIOUS
    <3> HIDE DEF Of
    <3> QED  BY <2>2, <3>1, <3>2 DEF From
  <2>3. From(HandleContentionEvent) \subseteq Of(NULL)
    BY <2>1, <2>2 DEF Chained, ListInv
  <2>4. ASSUME NEW t \in Threads
        PROVE  Popped(t) \subseteq Of(t)
    <3>1. CASE pc[t] = "WakeLoop"
      <4>1. From(tWaitBlock[t]) \subseteq Of(t)
        BY <2>1, <2>2, <3>1 DEF Chained, WakerInv
      <4> QED  BY <3>1, <4>1 DEF Popped
    <3>2. CASE pc[t] = "KeSetEvent"
      <4>1. tWaitBlock[t] \in Of(t) /\ Old[t] = WaitBlock[tWaitBlock[t]].Next
        BY <2>1, <3>2 DEF Chained, WakerInv
      <4>2. Old[t] # NULL => Old[t] \in Of(t)
        BY <2>1, <4>1 DEF Chained, ListInv
      <4>3. From(Old[t]) \subseteq Of(t)
        BY <2>2, <4>2
      <4> HIDE DEF Of
      <4> QED  BY <3>2, <4>1, <4>3 DEF Popped
    <3>3. CASE pc[t] \notin {"WakeLoop", "KeSetEvent"}
      BY <3>3 DEF Popped
    <3> QED  BY <3>1, <3>2, <3>3
  <2>5. \A b \in B : Live(b)
    BY <2>1 DEF Chained, SleepInv, Live
  <2> QED  BY <2>3, <2>4, <2>5, Values DEF BlocksLive
<1> QED  BY <1>1, HandleLockInvariant, PTL

(***************************************************************************)
(* The tree of the table.                                                  *)
(***************************************************************************)
\* A pointer to a block, or none.
Pointer == Blocks \cup {NULL}

\* What a block can hold.
PoolType ==
    {Unallocated, Info}
    \cup [kind : {"low"}, base : Handles, info : Pointer]
    \cup [kind : {"mid"}, slot : [Slots("mid") -> Pointer]]
    \cup [kind : {"high"}, slot : [Slots("high") -> Pointer]]

\* Where lookups and growths are.
WalkPCs == {"Bound", "Capture", "WalkTwo", "WalkThree", "WalkMid", "Found", "InfoAllocate", "InfoCas",
            "InfoCount", "InfoWrite"}
GrowPCs == {"AllocateHigh", "AllocateMid", "AllocateLow", "Publish", "AddPage"}

\* The types of the variables.
TableTypes ==
    /\ Pool \in [Blocks -> PoolType]
    /\ TableCode \in [Level : 0 .. 2, Ptr : Pointer]
    /\ NextHandleNeedingPool \in Nat
    /\ ExtraInfoPages \in Nat
    /\ pc \in [Threads -> {"idle"} \cup WalkPCs \cup GrowPCs]
    /\ Handle \in [Threads -> Handles]
    /\ TableLevel \in [Threads -> Pointer]
    /\ NewHighLevel \in [Threads -> Pointer]
    /\ NewMidLevel \in [Threads -> Pointer]
    /\ NewLowLevel \in [Threads -> Pointer]
    /\ InfoTable \in [Threads -> Pointer]

\* The number of pages of the table, and of pages that hang in the tree: a
\* growth links its page before it counts it.
Pages == PageOf(NextHandleNeedingPool)
Linked == IF \E t \in Threads : pc[t] = "AddPage" THEN Pages + 1 ELSE Pages

\* The place of a page in the two upper levels.
Hi(p) == p \div MIDLEVEL_COUNT
Lo(p) == p % MIDLEVEL_COUNT

\* b is the page p.
IsPage(b, p) == IsA(b, "low") /\ Pool[b].base = p * LOWLEVEL_COUNT

\* Two levels: the pages in their order.
LevelOne ==
    LET root == TableCode.Ptr
    IN  /\ IsA(root, "mid")
        /\ Linked > 1 /\ Linked <= MIDLEVEL_COUNT
        /\ \A p \in Slots("mid") : IF p < Linked THEN IsPage(Pool[root].slot[p], p) ELSE Pool[root].slot[p] = NULL

\* Three levels: a page hangs in the mid level table its number tells.
LevelTwo ==
    LET root == TableCode.Ptr
        Mid(j) == Pool[root].slot[j]
    IN  /\ IsA(root, "high")
        /\ Linked > MIDLEVEL_COUNT /\ Hi(Linked - 1) < HIGHLEVEL_COUNT
        /\ \A j \in Slots("high") : Mid(j) # NULL => IsA(Mid(j), "mid") /\ Pool[Mid(j)].slot[0] # NULL
        /\ \A i, j \in Slots("high") : Mid(i) = Mid(j) /\ Mid(i) # NULL => i = j
        /\ \A p \in 0 .. Linked - 1 : Mid(Hi(p)) # NULL /\ IsPage(Pool[Mid(Hi(p))].slot[Lo(p)], p)
        /\ \A p \in Nat : p >= Linked /\ Hi(p) < HIGHLEVEL_COUNT =>
              Mid(Hi(p)) = NULL \/ Pool[Mid(Hi(p))].slot[Lo(p)] = NULL

\* The tree.
TreeInv ==
    IF TableCode.Ptr = NULL
    THEN TableCode = NoTable /\ NextHandleNeedingPool = 0 /\ \A t \in Threads : pc[t] = "idle"
    ELSE /\ NextHandleNeedingPool = Pages * LOWLEVEL_COUNT
         /\ Pages > 0
         /\ TableCode.Level = 0 => IsPage(TableCode.Ptr, 0) /\ Linked = 1
         /\ TableCode.Level = 1 => LevelOne
         /\ TableCode.Level = 2 => LevelTwo

\* A lookup that has passed the bound is on a way that leads to its page.
WalkInv(t) ==
    LET b == TableLevel[t]
        p == PageOf(Handle[t])
    IN  /\ pc[t] \in WalkPCs \ {"Bound"} => Handle[t] < NextHandleNeedingPool
        /\ pc[t] = "WalkTwo" => IsA(b, "mid") /\ p \in Slots("mid") /\ IsPage(Pool[b].slot[p], p)
        /\ pc[t] = "WalkThree" =>
              /\ IsA(b, "high") /\ Hi(p) \in Slots("high")
              /\ IsA(Pool[b].slot[Hi(p)], "mid")
              /\ IsPage(Pool[Pool[b].slot[Hi(p)]].slot[Lo(p)], p)
        /\ pc[t] = "WalkMid" => IsA(b, "mid") /\ IsPage(Pool[b].slot[Lo(p)], p)
        /\ pc[t] \in {"Found", "InfoAllocate", "InfoCas", "InfoCount", "InfoWrite"} => IsPage(b, p)
        /\ pc[t] \in {"InfoCount", "InfoWrite"} => Pool[b].info = InfoTable[t] /\ InfoTable[t] # NULL

\* The information tables: those that are linked, and those about to be.
InfoInv ==
    /\ \A b \in Blocks : Pool[b].kind = "low" /\ Pool[b].info # NULL => Pool[Pool[b].info].kind = "info"
    /\ \A b, c \in Blocks :
          Pool[b].kind = "low" /\ Pool[c].kind = "low" /\ Pool[b].info = Pool[c].info /\ Pool[b].info # NULL => b = c
    /\ \A t \in Threads : pc[t] = "InfoCas" =>
          /\ IsA(InfoTable[t], "info")
          /\ \A b \in Blocks : Pool[b].kind = "low" => Pool[b].info # InfoTable[t]
          /\ \A u \in Threads : pc[u] = "InfoCas" /\ InfoTable[u] = InfoTable[t] => u = t

\* What a growth has in hand, and why it needs it.
GrowInv(t) ==
    LET high == NewHighLevel[t]
        mid == NewMidLevel[t]
        low == NewLowLevel[t]
    IN  /\ Growing(t) => \A u \in Threads : Growing(u) => u = t
        /\ pc[t] = "AllocateHigh" => TableCode.Level = 1 /\ Pages = MIDLEVEL_COUNT
        /\ pc[t] \notin GrowPCs \/ pc[t] = "AllocateHigh" => high = NULL
        /\ pc[t] \notin GrowPCs \/ pc[t] \in {"AllocateHigh", "AllocateMid"} => mid = NULL
        /\ pc[t] \in {"AllocateMid", "AllocateLow", "Publish"} =>
              /\ high # NULL => Pool[high] = Zeroed("high") /\ TableCode.Level = 1 /\ Pages = MIDLEVEL_COUNT
              /\ pc[t] = "AllocateMid" \/ mid # NULL =>
                    \/ TableCode.Level = 0
                    \/ TableCode.Level = 1 /\ high # NULL
                    \/ /\ TableCode.Level = 2 /\ Hi(Pages) < HIGHLEVEL_COUNT
                       /\ Pool[TableCode.Ptr].slot[Hi(Pages)] = NULL
        /\ pc[t] \in {"AllocateLow", "Publish"} =>
              /\ mid # NULL => Pool[mid] = Zeroed("mid")
              /\ mid = NULL =>
                    \/ TableCode.Level = 1 /\ Pages < MIDLEVEL_COUNT /\ high = NULL
                    \/ /\ TableCode.Level = 2 /\ Hi(Pages) < HIGHLEVEL_COUNT
                       /\ Pool[TableCode.Ptr].slot[Hi(Pages)] # NULL
        /\ pc[t] = "Publish" => low # NULL /\ Pool[low] = LowLevel(NextHandleNeedingPool)

\* The invariant of the tree, the lookups and the growth.
TableInv ==
    /\ TableTypes
    /\ TreeInv
    /\ InfoInv
    /\ \A t \in Threads : WalkInv(t) /\ GrowInv(t)

\* The places of the tree.
TreeHigh(b) == TableCode.Level = 2 /\ b = TableCode.Ptr
TreeMid(b) ==
    \/ TableCode.Level = 1 /\ b = TableCode.Ptr
    \/ TableCode.Level = 2 /\ \E j \in Slots("high") : Pool[TableCode.Ptr].slot[j] = b
TreeLow(b) ==
    LET root == TableCode.Ptr
    IN  \/ TableCode.Level = 0 /\ b = root
        \/ TableCode.Level = 1 /\ \E i \in Slots("mid") : Pool[root].slot[i] = b
        \/ TableCode.Level = 2 /\ \E j \in Slots("high") : /\ Pool[root].slot[j] # NULL
                                                        /\ \E i \in Slots("mid") : Pool[Pool[root].slot[j]].slot[i] = b

\* The hands of a growth.
HandHigh(b) == \E t \in Threads : pc[t] \in {"AllocateMid", "AllocateLow", "Publish"} /\ NewHighLevel[t] = b
HandMid(b) == \E t \in Threads : pc[t] \in {"AllocateLow", "Publish"} /\ NewMidLevel[t] = b
HandLow(b) == \E t \in Threads : pc[t] = "Publish" /\ NewLowLevel[t] = b

\* What the pool has handed out for the levels of the tree is in one of them or
\* in the hands of a growth.
LevelsHeld ==
    /\ \A b \in Blocks : Pool[b].kind = "high" => TreeHigh(b) \/ HandHigh(b)
    /\ \A b \in Blocks : Pool[b].kind = "mid" => TreeMid(b) \/ HandMid(b)
    /\ \A b \in Blocks : Pool[b].kind = "low" => TreeLow(b) \/ HandLow(b)
    /\ \A t \in Threads : pc[t] \notin {"Publish", "AddPage"} => NewLowLevel[t] = NULL

\* The same of the information tables.
InfoHeld ==
    \A b \in Blocks : Pool[b].kind = "info" =>
        \/ \E c \in Blocks : Pool[c].kind = "low" /\ Pool[c].info = b
        \/ \E t \in Threads : pc[t] = "InfoCas" /\ InfoTable[t] = b

\* The account of the pool.
PoolInv == LevelsHeld /\ InfoHeld /\ InfoCounted

(***************************************************************************)
(* The arithmetic of pages.                                                *)
(***************************************************************************)
\* Quotient and remainder.
LEMMA DivMod ==
    ASSUME NEW n \in Nat, NEW d \in Nat \ {0}
    PROVE  /\ n \div d \in Nat
           /\ (n % d) \in 0 .. d - 1
           /\ n = ((n \div d) * d) + (n % d)
    OBVIOUS

\* A number has one quotient and one remainder.
LEMMA DivUnique ==
    ASSUME NEW q \in Nat, NEW d \in Nat \ {0}, NEW r \in 0 .. d - 1
    PROVE  ((q * d) + r) \div d = q /\ ((q * d) + r) % d = r
    OBVIOUS

\* Multiples of different numbers are apart.
LEMMA MultiplesApart ==
    ASSUME NEW p \in Nat, NEW q \in Nat, NEW d \in Nat \ {0}, p < q
    PROVE  (p * d) + d <= q * d
<1>1. q - (p + 1) \in Nat /\ q = p + 1 + (q - (p + 1))
    OBVIOUS
<1>2. PICK k \in Nat : q = p + 1 + k
    BY <1>1
<1>3. q * d = (p * d) + d + (k * d)
    BY <1>2
<1>4. k * d \in Nat
    OBVIOUS
<1>5. QED
    BY <1>3, <1>4

\* Multiples of different numbers differ, in the same order.
LEMMA Multiples ==
    ASSUME NEW p \in Nat, NEW q \in Nat, NEW d \in Nat \ {0}
    PROVE  /\ p * d \in Nat
           /\ p * d = q * d => p = q
           /\ p * d < q * d => p < q
<1>1. p * d \in Nat /\ q * d \in Nat
    OBVIOUS
<1>2. p < q => (p * d) + d <= q * d
    BY MultiplesApart
<1>3. q < p => (q * d) + d <= p * d
    BY MultiplesApart
<1>4. QED
    BY <1>1, <1>2, <1>3

\* The page of a handle.
LEMMA PageFacts ==
    ASSUME NEW h \in Nat
    PROVE  /\ PageOf(h) \in Nat
           /\ PageOf(h) * LOWLEVEL_COUNT \in Nat
           /\ PageOf(h) * LOWLEVEL_COUNT <= h
           /\ h < (PageOf(h) * LOWLEVEL_COUNT) + LOWLEVEL_COUNT
<1>1. LOWLEVEL_COUNT \in Nat \ {0}
    BY HandleTableAssumptions
<1>2. QED
    BY <1>1, DivMod, Multiples DEF PageOf

\* A page is known by its first handle.
LEMMA PageOfFirst ==
    ASSUME NEW p \in Nat
    PROVE  PageOf(p * LOWLEVEL_COUNT) = p
<1>1. LOWLEVEL_COUNT \in Nat \ {0} /\ 0 \in 0 .. LOWLEVEL_COUNT - 1
    BY HandleTableAssumptions
<1>2. ((p * LOWLEVEL_COUNT) + 0) \div LOWLEVEL_COUNT = p
    BY <1>1, DivUnique
<1>3. p * LOWLEVEL_COUNT \in Nat
    BY <1>1, Multiples
<1>4. QED
    BY <1>2, <1>3 DEF PageOf

\* A handle below the first one of page p is on an earlier page.
LEMMA PageBelow ==
    ASSUME NEW h \in Nat, NEW p \in Nat, h < p * LOWLEVEL_COUNT
    PROVE  PageOf(h) < p
<1>1. LOWLEVEL_COUNT \in Nat \ {0}
    BY HandleTableAssumptions
<1>2. PageOf(h) * LOWLEVEL_COUNT < p * LOWLEVEL_COUNT
    BY <1>1, PageFacts, Multiples
<1>3. QED
    BY <1>1, <1>2, PageFacts, Multiples

\* The next page.
LEMMA PageNext ==
    ASSUME NEW p \in Nat
    PROVE  (p * LOWLEVEL_COUNT) + LOWLEVEL_COUNT = (p + 1) * LOWLEVEL_COUNT
<1>1. LOWLEVEL_COUNT \in Nat
    BY HandleTableAssumptions
<1>2. QED
    BY <1>1

\* The place of a page in the upper levels.
LEMMA PlaceFacts ==
    ASSUME NEW p \in Nat
    PROVE  /\ Hi(p) \in Nat /\ Lo(p) \in Slots("mid")
           /\ p < MIDLEVEL_COUNT => Hi(p) = 0 /\ Lo(p) = p
           /\ Hi(MIDLEVEL_COUNT) = 1 /\ Lo(MIDLEVEL_COUNT) = 0
           /\ Hi(p) = 0 => p < MIDLEVEL_COUNT
<1> DEFINE M == MIDLEVEL_COUNT
<1>1. M \in Nat \ {0} /\ M > 1
    BY HandleTableAssumptions
<1>2. Slots("mid") = 0 .. M - 1
    BY DEF Slots
<1>3. Hi(p) \in Nat /\ Lo(p) \in 0 .. M - 1 /\ p = (Hi(p) * M) + Lo(p)
    BY <1>1, DivMod DEF Hi, Lo
<1>4. ASSUME p < M PROVE Hi(p) = 0 /\ Lo(p) = p
    <2>1. p \in 0 .. M - 1 /\ (0 * M) + p = p
        BY <1>1, <1>4
    <2>2. QED
        BY <1>1, <2>1, DivUnique DEF Hi, Lo
<1>5. Hi(M) = 1 /\ Lo(M) = 0
    <2>1. 0 \in 0 .. M - 1 /\ (1 * M) + 0 = M
        BY <1>1
    <2>2. QED
        BY <1>1, <2>1, DivUnique DEF Hi, Lo
<1>6. Hi(p) = 0 => p < M
    BY <1>1, <1>3
<1>7. QED
    BY <1>2, <1>3, <1>4, <1>5, <1>6

\* Different pages have different places.
LEMMA PlaceUnique ==
    ASSUME NEW p \in Nat, NEW q \in Nat, Hi(p) = Hi(q), Lo(p) = Lo(q)
    PROVE  p = q
<1>1. MIDLEVEL_COUNT \in Nat \ {0}
    BY HandleTableAssumptions
<1>2. p = (Hi(p) * MIDLEVEL_COUNT) + Lo(p) /\ q = (Hi(q) * MIDLEVEL_COUNT) + Lo(q)
    BY <1>1, DivMod DEF Hi, Lo
<1>3. QED
    BY <1>2

\* Places are in the order of the pages.
LEMMA PlaceOrder ==
    ASSUME NEW p \in Nat, NEW q \in Nat, p <= q
    PROVE  Hi(p) <= Hi(q) /\ (Hi(p) = Hi(q) => Lo(p) <= Lo(q))
<1> DEFINE M == MIDLEVEL_COUNT
<1>1. M \in Nat \ {0}
    BY HandleTableAssumptions
<1>2. /\ p = (Hi(p) * M) + Lo(p) /\ q = (Hi(q) * M) + Lo(q)
      /\ Hi(p) \in Nat /\ Hi(q) \in Nat
      /\ Lo(p) \in 0 .. M - 1 /\ Lo(q) \in 0 .. M - 1
    BY <1>1, DivMod DEF Hi, Lo
<1>3. Hi(q) < Hi(p) => (Hi(q) * M) + M <= Hi(p) * M
    BY <1>1, <1>2, MultiplesApart
<1>4. Hi(p) * M \in Nat /\ Hi(q) * M \in Nat
    BY <1>1, <1>2, Multiples
<1>5. Hi(p) <= Hi(q)
    BY <1>1, <1>2, <1>3, <1>4
<1>6. Hi(p) = Hi(q) => Lo(p) <= Lo(q)
    <2>1. SUFFICES ASSUME Hi(p) = Hi(q) PROVE Lo(p) <= Lo(q)
        OBVIOUS
    <2>2. Hi(p) * M = Hi(q) * M
        BY <2>1
    <2>3. QED
        BY <1>1, <1>2, <1>4, <2>2
<1>7. QED
    BY <1>5, <1>6

\* Every place is that of a page.
LEMMA PlaceOfPage ==
    ASSUME NEW j \in Nat, NEW k \in Slots("mid")
    PROVE  \E p \in Nat : Hi(p) = j /\ Lo(p) = k
<1>1. MIDLEVEL_COUNT \in Nat \ {0} /\ Slots("mid") = 0 .. MIDLEVEL_COUNT - 1
    BY HandleTableAssumptions DEF Slots
<1>2. (j * MIDLEVEL_COUNT) + k \in Nat
    BY <1>1, Multiples
<1>3. QED
    BY <1>1, <1>2, DivUnique DEF Hi, Lo

\* A page that is not the first of its mid level table comes after one of the
\* same table.
LEMMA PlaceBefore ==
    ASSUME NEW p \in Nat, Lo(p) # 0
    PROVE  p > 0 /\ Hi(p - 1) = Hi(p)
<1> DEFINE M == MIDLEVEL_COUNT
<1>1. M \in Nat \ {0}
    BY HandleTableAssumptions
<1>2. p = (Hi(p) * M) + Lo(p) /\ Hi(p) \in Nat /\ Lo(p) \in 0 .. M - 1
    BY <1>1, DivMod DEF Hi, Lo
<1>3. Lo(p) - 1 \in 0 .. M - 1 /\ p - 1 = (Hi(p) * M) + (Lo(p) - 1)
    <2>1. Hi(p) * M \in Nat
        BY <1>1, <1>2, Multiples
    <2>2. QED
        BY <1>1, <1>2, <2>1
<1>4. ((Hi(p) * M) + (Lo(p) - 1)) \div M = Hi(p)
    BY <1>1, <1>2, <1>3, DivUnique
<1>5. p > 0
    <2>1. Hi(p) * M \in Nat
        BY <1>1, <1>2, Multiples
    <2>2. QED
        BY <1>1, <1>2, <2>1
<1>6. QED
    BY <1>3, <1>4, <1>5 DEF Hi

(***************************************************************************)
(* The contents of blocks.                                                 *)
(***************************************************************************)
LEMMA Kind ==
    ASSUME NEW r \in PoolType
    PROVE  /\ r.kind \in {"none", "info", "low", "mid", "high"}
           /\ r.kind = "none" => r = Unallocated
           /\ r.kind = "info" => r = Info
           /\ r.kind = "low" => r \in [kind : {"low"}, base : Handles, info : Pointer]
           /\ r.kind = "mid" => r \in [kind : {"mid"}, slot : [Slots("mid") -> Pointer]]
           /\ r.kind = "high" => r \in [kind : {"high"}, slot : [Slots("high") -> Pointer]]
    BY DEF PoolType, Unallocated, Info

\* NULL is no block.
LEMMA NullIsNoBlock == NULL \notin Blocks
    BY HandleTableAssumptions DEF Blocks

\* What the allocations put into a block.
LEMMA Contents ==
    /\ Unallocated \in PoolType /\ Unallocated.kind = "none"
    /\ Info \in PoolType /\ Info.kind = "info"
    /\ \A h \in Handles : LowLevel(h) \in PoolType
    /\ \A h : LowLevel(h).kind = "low" /\ LowLevel(h).base = h /\ LowLevel(h).info = NULL
    /\ \A k \in {"mid", "high"} : /\ Zeroed(k) \in PoolType /\ Zeroed(k).kind = k
                                  /\ Zeroed(k).slot \in [Slots(k) -> Pointer]
                                  /\ \A i \in Slots(k) : Zeroed(k).slot[i] = NULL
<1>1. \A k \in {"mid", "high"} : Zeroed(k) \in [kind : {k}, slot : [Slots(k) -> Pointer]]
    BY DEF Zeroed, Pointer
<1>2. Zeroed("mid") \in PoolType /\ Zeroed("high") \in PoolType
    BY <1>1 DEF PoolType
<1>3. \A k \in {"mid", "high"} : /\ Zeroed(k).kind = k
                                 /\ Zeroed(k).slot \in [Slots(k) -> Pointer]
                                 /\ \A i \in Slots(k) : Zeroed(k).slot[i] = NULL
    BY <1>1 DEF Zeroed
<1>4. /\ \A h \in Handles : LowLevel(h) \in PoolType
      /\ \A h : LowLevel(h).kind = "low" /\ LowLevel(h).base = h /\ LowLevel(h).info = NULL
    BY DEF LowLevel, PoolType, Pointer
<1>5. Unallocated \in PoolType /\ Unallocated.kind = "none" /\ Info \in PoolType /\ Info.kind = "info"
    BY DEF PoolType, Unallocated, Info
<1>6. QED
    BY <1>2, <1>3, <1>4, <1>5

\* Slots have places to begin with.
LEMMA FirstSlots ==
    /\ 0 \in Slots("mid") /\ 1 \in Slots("mid") /\ 0 \in Slots("high") /\ 1 \in Slots("high")
    /\ \A p \in Nat : p \in Slots("mid") <=> p < MIDLEVEL_COUNT
    /\ \A p \in Nat : p \in Slots("high") <=> p < HIGHLEVEL_COUNT
    /\ Slots("mid") \subseteq Nat /\ Slots("high") \subseteq Nat
    BY HandleTableAssumptions DEF Slots

\* An allocation takes a block that was not allocated.
LEMMA AllocateFresh ==
    ASSUME Pool \in [Blocks -> PoolType], NEW k \in Kinds, Available(k) # {}, NEW r \in PoolType,
           Pool' = [Pool EXCEPT ![NewBlock(k)] = r]
    PROVE  /\ NewBlock(k) \in Blocks /\ NewBlock(k) # NULL
           /\ Pool[NewBlock(k)].kind = "none"
           /\ Pool' \in [Blocks -> PoolType]
           /\ Pool'[NewBlock(k)] = r
           /\ \A b \in Blocks : b # NewBlock(k) => Pool'[b] = Pool[b]
<1>1. NewBlock(k) \in Available(k)
    BY DEF NewBlock
<1>2. NewBlock(k) \in Blocks
    BY <1>1 DEF Available, Blocks
<1>3. Pool[NewBlock(k)].kind = "none"
    BY <1>1 DEF Available, Unallocated
<1>4. QED
    BY <1>2, <1>3, NullIsNoBlock

\* Freeing.
LEMMA FreedBlocks ==
    ASSUME Pool \in [Blocks -> PoolType], NEW S, Pool' = Without(S)
    PROVE  /\ Pool' \in [Blocks -> PoolType]
           /\ \A b \in Blocks : Pool'[b] = IF b \in S THEN Unallocated ELSE Pool[b]
    BY Contents DEF Without

(***************************************************************************)
(* What a step leaves alone.                                               *)
(***************************************************************************)
\* The other threads do nothing.
Alone(t) ==
    \A u \in Threads \ {t} :
        /\ pc'[u] = pc[u] /\ Handle'[u] = Handle[u] /\ TableLevel'[u] = TableLevel[u]
        /\ NewHighLevel'[u] = NewHighLevel[u] /\ NewMidLevel'[u] = NewMidLevel[u]
        /\ NewLowLevel'[u] = NewLowLevel[u] /\ InfoTable'[u] = InfoTable[u]

\* A page stays a page with its information; a pointer in a table stays.
Grows ==
    \A b \in Blocks :
        /\ Pool[b].kind = "low" =>
              /\ Pool'[b].kind = "low" /\ Pool'[b].base = Pool[b].base
              /\ Pool[b].info # NULL => Pool'[b].info = Pool[b].info
        /\ Pool[b].kind = "mid" => \A i \in Slots("mid") :
              Pool[b].slot[i] # NULL => Pool'[b].kind = "mid" /\ Pool'[b].slot[i] = Pool[b].slot[i]
        /\ Pool[b].kind = "high" => \A i \in Slots("high") :
              Pool[b].slot[i] # NULL => Pool'[b].kind = "high" /\ Pool'[b].slot[i] = Pool[b].slot[i]

\* The tables that have pointers stay as they are, and so does the root.
Quiet ==
    /\ TableCode' = TableCode /\ NextHandleNeedingPool' = NextHandleNeedingPool
    /\ Linked' = Linked
    /\ \A b \in Blocks :
          /\ Pool[b].kind = "mid" /\ (\E i \in Slots("mid") : Pool[b].slot[i] # NULL) => Pool'[b] = Pool[b]
          /\ Pool[b].kind = "high" /\ (\E i \in Slots("high") : Pool[b].slot[i] # NULL) => Pool'[b] = Pool[b]

\* The tree grows under its root, or above it.
Stays ==
    /\ Grows
    /\ \/ TableCode' = TableCode
       \/ TableCode'.Level = TableCode.Level + 1 /\ Pool'[TableCode'.Ptr].slot[0] = TableCode.Ptr

\* A thread that does nothing stays on its way while the tree grows.
LEMMA WalkKept ==
    ASSUME TableTypes, TableTypes', Grows, NEW u \in Threads, WalkInv(u), InfoInv,
           pc'[u] = pc[u], Handle'[u] = Handle[u], TableLevel'[u] = TableLevel[u], InfoTable'[u] = InfoTable[u],
           NextHandleNeedingPool' >= NextHandleNeedingPool
    PROVE  WalkInv(u)'
<1> DEFINE b == TableLevel[u]
           p == PageOf(Handle[u])
<1>0. p \in Nat /\ Hi(p) \in Nat /\ Lo(p) \in Slots("mid")
    <2>1. Handle[u] \in Nat
        BY DEF TableTypes, Handles
    <2>2. QED
        BY <2>1, PageFacts, PlaceFacts
<1>1. Pool \in [Blocks -> PoolType] /\ b \in Pointer /\ InfoTable[u] \in Pointer
    BY DEF TableTypes
<1>2. ASSUME NEW c \in Pointer, IsPage(c, p) PROVE IsPage(c, p)'
    BY <1>2 DEF IsPage, IsA, Grows, Pointer, PageOf
<1>3. ASSUME NEW c \in Pointer, IsA(c, "mid"), NEW i \in Slots("mid"), Pool[c].slot[i] # NULL
      PROVE  IsA(c, "mid")' /\ Pool'[c].slot[i] = Pool[c].slot[i] /\ Pool[c].slot[i] \in Pointer
    <2>1. c \in Blocks
        BY <1>3 DEF IsA, Pointer
    <2>2. Pool[c] \in [kind : {"mid"}, slot : [Slots("mid") -> Pointer]]
        BY <1>1, <1>3, <2>1, Kind DEF IsA
    <2>3. QED
        BY <1>3, <2>1, <2>2 DEF IsA, Grows
<1>4. ASSUME NEW c \in Pointer, IsA(c, "high"), NEW i \in Slots("high"), Pool[c].slot[i] # NULL
      PROVE  IsA(c, "high")' /\ Pool'[c].slot[i] = Pool[c].slot[i] /\ Pool[c].slot[i] \in Pointer
    <2>1. c \in Blocks
        BY <1>4 DEF IsA, Pointer
    <2>2. Pool[c] \in [kind : {"high"}, slot : [Slots("high") -> Pointer]]
        BY <1>1, <1>4, <2>1, Kind DEF IsA
    <2>3. QED
        BY <1>4, <2>1, <2>2 DEF IsA, Grows
<1>5. ASSUME NEW c \in Pointer, IsA(c, "mid"), NEW i \in Slots("mid"), IsPage(Pool[c].slot[i], p)
      PROVE  IsA(c, "mid")' /\ IsPage(Pool[c].slot[i], p)'
    <2>1. Pool[c].slot[i] # NULL
        BY <1>5 DEF IsPage, IsA
    <2>2. IsA(c, "mid")' /\ Pool'[c].slot[i] = Pool[c].slot[i] /\ Pool[c].slot[i] \in Pointer
        BY <1>3, <1>5, <2>1
    <2>3. QED
        BY <1>2, <1>5, <2>2 DEF IsPage, IsA, Grows, Pointer
<1>6. pc[u] = "WalkTwo" => /\ IsA(b, "mid")' /\ p \in Slots("mid") /\ IsPage(Pool[b].slot[p], p)'
    BY <1>0, <1>1, <1>5 DEF WalkInv
<1>7. pc[u] = "WalkThree" => /\ IsA(b, "high")' /\ Hi(p) \in Slots("high")
                             /\ IsA(Pool[b].slot[Hi(p)], "mid")'
                             /\ IsPage(Pool[Pool[b].slot[Hi(p)]].slot[Lo(p)], p)'
    <2>1. SUFFICES ASSUME pc[u] = "WalkThree" PROVE /\ IsA(b, "high")' /\ Hi(p) \in Slots("high")
                             /\ IsA(Pool[b].slot[Hi(p)], "mid")'
                             /\ IsPage(Pool[Pool[b].slot[Hi(p)]].slot[Lo(p)], p)'
        OBVIOUS
    <2> DEFINE c == Pool[b].slot[Hi(p)]
    <2>2. IsA(b, "high") /\ Hi(p) \in Slots("high") /\ IsA(c, "mid") /\ IsPage(Pool[c].slot[Lo(p)], p)
        BY <2>1 DEF WalkInv
    <2>3. IsA(b, "high")' /\ Pool'[b].slot[Hi(p)] = c /\ c \in Pointer
        BY <1>1, <1>4, <2>2 DEF IsA
    <2>4. IsA(c, "mid") /\ IsPage(Pool[c].slot[Lo(p)], p) /\ Lo(p) \in Slots("mid") /\ c \in Pointer
        BY <1>0, <2>2, <2>3
    <2>5. PICK d \in Pointer : d = c
        BY <2>3
    <2>6. IsA(d, "mid")' /\ IsPage(Pool[d].slot[Lo(p)], p)'
        BY <1>5, <2>4, <2>5
    <2>7. QED
        BY <2>2, <2>3, <2>5, <2>6, Zenon
<1>8. pc[u] = "WalkMid" => IsA(b, "mid")' /\ IsPage(Pool[b].slot[Lo(p)], p)'
    BY <1>0, <1>1, <1>5 DEF WalkInv
<1>9. pc[u] \in {"Found", "InfoAllocate", "InfoCas", "InfoCount", "InfoWrite"} => IsPage(b, p)'
    BY <1>1, <1>2 DEF WalkInv
<1>10. pc[u] \in {"InfoCount", "InfoWrite"} => Pool'[b].info = InfoTable[u] /\ InfoTable[u] # NULL
    BY <1>1, Zenon DEF WalkInv, Grows, IsPage, IsA, Pointer
<1>11. pc[u] \in WalkPCs \ {"Bound"} => Handle[u] < NextHandleNeedingPool'
    BY DEF WalkInv, TableTypes, Handles
<1>12. QED
    BY <1>6, <1>7, <1>8, <1>9, <1>10, <1>11 DEF WalkInv

\* A place of the tree tells where a pointer is: those facts of the tree that a
\* step that is quiet keeps.
LEMMA TreeKept ==
    ASSUME TableTypes, TableTypes', TreeInv, Grows, Quiet,
           TableCode.Ptr = NULL => \A t \in Threads : pc'[t] = "idle"
    PROVE  TreeInv'
<1>r. PICK root \in Pointer : root = TableCode.Ptr /\ root = TableCode'.Ptr
    BY DEF TableTypes, Quiet
<1>0. /\ Pool \in [Blocks -> PoolType] /\ TableCode \in [Level : 0 .. 2, Ptr : Pointer]
      /\ TableCode' = TableCode /\ NextHandleNeedingPool' = NextHandleNeedingPool /\ Linked' = Linked
      /\ Pages' = Pages /\ Linked \in Nat /\ Pages \in Nat
    BY PageFacts DEF TableTypes, Quiet, Pages, Linked
<1>1. CASE root = NULL
    BY <1>r, <1>0, <1>1 DEF TreeInv
<1>2. CASE root # NULL
    <2>0. root \in Blocks
        BY <1>2 DEF Pointer
    <2>1. ASSUME NEW c, NEW p, c \in Pointer, IsPage(c, p) PROVE IsPage(c, p)'
        BY <2>1 DEF IsPage, IsA, Grows, Pointer
    <2>2. TableCode.Level = 0 => IsPage(root, 0)' /\ Linked' = 1
        BY <1>r, <1>0, <1>2, <2>1 DEF TreeInv
    <2>3. TableCode.Level = 1 => LevelOne'
        <3>1. SUFFICES ASSUME TableCode.Level = 1, LevelOne PROVE LevelOne'
            BY <1>r, <1>2 DEF TreeInv
        <3>2. IsA(root, "mid") /\ IsPage(Pool[root].slot[0], 0) /\ 0 \in Slots("mid")
            BY <1>r, <1>0, <3>1, FirstSlots DEF LevelOne
        <3>3. Pool'[root] = Pool[root]
            BY <2>0, <3>2 DEF Quiet, IsA, IsPage
        <3>4. Pool[root].slot \in [Slots("mid") -> Pointer]
            BY <1>0, <2>0, <3>2, Kind DEF IsA
        <3>5. ASSUME NEW p \in Slots("mid")
              PROVE  IF p < Linked THEN IsPage(Pool[root].slot[p], p)' ELSE Pool'[root].slot[p] = NULL
            <4>1. PICK c \in Pointer : c = Pool[root].slot[p]
                BY <3>4
            <4>2. p < Linked => IsPage(c, p)
                BY <1>r, <3>1, <4>1 DEF LevelOne
            <4>3. p < Linked => IsPage(c, p)'
                BY <2>1, <4>2
            <4>4. QED
                BY <1>r, <1>0, <3>1, <3>3, <4>1, <4>3 DEF LevelOne
        <3>6. QED
            BY <1>r, <1>0, <3>1, <3>2, <3>3, <3>5 DEF LevelOne, IsA
    <2>4. TableCode.Level = 2 => LevelTwo'
        <3>1. SUFFICES ASSUME TableCode.Level = 2, LevelTwo PROVE LevelTwo'
            BY <1>r, <1>2 DEF TreeInv
        <3>2. IsA(root, "high") /\ Linked > MIDLEVEL_COUNT /\ MIDLEVEL_COUNT \in Nat
            BY <1>r, <3>1, HandleTableAssumptions DEF LevelTwo
        <3>3. Pool[root].slot \in [Slots("high") -> Pointer]
            BY <1>0, <2>0, <3>2, Kind DEF IsA
        <3>4. Pool[root].slot[0] # NULL /\ 0 \in Slots("high")
            <4>1. 0 \in 0 .. Linked - 1 /\ Hi(0) = 0 /\ 0 < MIDLEVEL_COUNT
                BY <1>0, <3>2, PlaceFacts, FirstSlots
            <4>2. QED
                BY <1>r, <3>1, <4>1, FirstSlots DEF LevelTwo
        <3>5. Pool'[root] = Pool[root]
            BY <2>0, <3>2, <3>4 DEF Quiet, IsA
        <3>6. ASSUME NEW j \in Slots("high"), Pool[root].slot[j] # NULL
              PROVE  /\ Pool[root].slot[j] \in Blocks
                     /\ IsA(Pool[root].slot[j], "mid")
                     /\ Pool'[Pool[root].slot[j]] = Pool[Pool[root].slot[j]]
                     /\ Pool[Pool[root].slot[j]].slot \in [Slots("mid") -> Pointer]
            <4>1. PICK m \in Blocks : m = Pool[root].slot[j]
                BY <3>3, <3>6 DEF Pointer
            <4>2. IsA(m, "mid") /\ Pool[m].slot[0] # NULL /\ 0 \in Slots("mid")
                BY <1>r, <3>1, <3>6, <4>1, FirstSlots DEF LevelTwo
            <4>3. Pool'[m] = Pool[m]
                BY <4>2 DEF Quiet, IsA
            <4>4. Pool[m].slot \in [Slots("mid") -> Pointer]
                BY <1>0, <4>2, Kind DEF IsA
            <4>5. QED
                BY <4>1, <4>2, <4>3, <4>4
        <3>7. \A j \in Slots("high") : Pool'[root].slot[j] # NULL =>
                  IsA(Pool[root].slot[j], "mid")' /\ Pool'[Pool'[root].slot[j]].slot[0] # NULL
            <4>1. ASSUME NEW j \in Slots("high"), Pool[root].slot[j] # NULL
                  PROVE  IsA(Pool[root].slot[j], "mid") /\ Pool[Pool[root].slot[j]].slot[0] # NULL
                BY <1>r, <3>1, <4>1 DEF LevelTwo
            <4>2. ASSUME NEW j \in Slots("high"), Pool[root].slot[j] # NULL
                  PROVE  IsA(Pool[root].slot[j], "mid")' /\ Pool'[Pool'[root].slot[j]].slot[0] # NULL
                BY <3>5, <3>6, <4>1, <4>2 DEF IsA
            <4>3. QED
                BY <3>5, <4>2
        <3>8. ASSUME NEW p \in 0 .. Linked - 1
              PROVE  Pool'[root].slot[Hi(p)] # NULL /\ IsPage(Pool[Pool[root].slot[Hi(p)]].slot[Lo(p)], p)'
            <4>1. p \in Nat /\ Hi(p) \in Nat /\ Lo(p) \in Slots("mid") /\ p <= Linked - 1
                BY <1>0, PlaceFacts
            <4>2. Hi(p) \in Slots("high")
                <5>1. Hi(p) <= Hi(Linked - 1) /\ Hi(Linked - 1) < HIGHLEVEL_COUNT /\ Hi(Linked - 1) \in Nat
                    <6>1. Hi(Linked - 1) < HIGHLEVEL_COUNT
                        BY <1>r, <3>1 DEF LevelTwo
                    <6>2. PICK q \in Nat : q = Linked - 1 /\ p <= q
                        BY <1>0, <4>1
                    <6>3. Hi(p) <= Hi(q) /\ Hi(q) \in Nat
                        BY <4>1, <6>2, PlaceOrder, PlaceFacts
                    <6>4. QED
                        BY <6>1, <6>2, <6>3
                <5>2. QED
                    BY <4>1, <5>1, FirstSlots, HandleTableAssumptions
            <4>3. PICK m \in Blocks : m = Pool[root].slot[Hi(p)]
                BY <1>r, <3>1, <3>6, <4>2 DEF LevelTwo
            <4>4. Pool'[m] = Pool[m] /\ Pool[m].slot[Lo(p)] \in Pointer
                BY <3>1, <3>6, <4>1, <4>2, <4>3, NullIsNoBlock
            <4>5. PICK c \in Pointer : c = Pool[m].slot[Lo(p)]
                BY <4>4
            <4>6. IsPage(c, p)
                BY <1>r, <3>1, <4>3, <4>5 DEF LevelTwo
            <4>7. IsPage(c, p)'
                BY <2>1, <4>6
            <4>8. QED
                BY <3>5, <4>3, <4>4, <4>5, <4>7, NullIsNoBlock
        <3>9. ASSUME NEW p \in Nat, p >= Linked, Hi(p) < HIGHLEVEL_COUNT
              PROVE  Pool'[root].slot[Hi(p)] = NULL \/ Pool'[Pool'[root].slot[Hi(p)]].slot[Lo(p)] = NULL
            <4>1. Hi(p) \in Slots("high")
                BY <3>9, PlaceFacts, FirstSlots
            <4>2. Pool[root].slot[Hi(p)] = NULL \/ Pool[Pool[root].slot[Hi(p)]].slot[Lo(p)] = NULL
                BY <1>r, <3>1, <3>9 DEF LevelTwo
            <4>3. QED
                BY <3>5, <3>6, <4>1, <4>2
        <3>10. IsA(root, "high")'
            BY <3>2, <3>5 DEF IsA
        <3>11. \A i, j \in Slots("high") : Pool'[root].slot[i] = Pool'[root].slot[j] /\ Pool'[root].slot[i] # NULL => i = j
            BY <1>r, <3>1, <3>5 DEF LevelTwo
        <3>12. QED
            BY <1>r, <1>0, <3>1, <3>7, <3>8, <3>9, <3>10, <3>11 DEF LevelTwo
    <2>5. QED
        BY <1>r, <1>0, <1>2, <2>2, <2>3, <2>4 DEF TreeInv
<1>3. QED
    BY <1>1, <1>2

\* Information tables that stay linked, or to be linked.
LEMMA InfoKept ==
    ASSUME TableTypes, TableTypes', InfoInv,
           \A b \in Blocks : Pool'[b].kind = "low" =>
              Pool'[b].info = NULL \/ (Pool[b].kind = "low" /\ Pool'[b].info = Pool[b].info),
           \A b \in Blocks : Pool[b].kind = "info" => Pool'[b].kind = "info",
           \A u \in Threads : pc'[u] = "InfoCas" => pc[u] = "InfoCas" /\ InfoTable'[u] = InfoTable[u]
    PROVE  InfoInv'
<1>0. Pool \in [Blocks -> PoolType] /\ InfoTable \in [Threads -> Pointer]
    BY DEF TableTypes
<1>1. ASSUME NEW b \in Blocks, Pool'[b].kind = "low", Pool'[b].info # NULL
      PROVE  Pool'[Pool'[b].info].kind = "info"
    <2>1. Pool[b].kind = "low" /\ Pool'[b].info = Pool[b].info
        BY <1>1
    <2>2. PICK c \in Blocks : c = Pool[b].info
        BY <1>0, <1>1, <2>1, Kind DEF Pointer
    <2>3. Pool[c].kind = "info"
        BY <1>1, <2>1, <2>2 DEF InfoInv
    <2>4. QED
        BY <2>1, <2>2, <2>3
<1>2. \A b, c \in Blocks :
          Pool'[b].kind = "low" /\ Pool'[c].kind = "low" /\ Pool'[b].info = Pool'[c].info /\ Pool'[b].info # NULL => b = c
    BY DEF InfoInv
<1>3. ASSUME NEW t \in Threads, pc'[t] = "InfoCas"
      PROVE  /\ IsA(InfoTable[t], "info")'
             /\ \A b \in Blocks : Pool'[b].kind = "low" => Pool'[b].info # InfoTable'[t]
             /\ \A u \in Threads : pc'[u] = "InfoCas" /\ InfoTable'[u] = InfoTable'[t] => u = t
    <2>1. pc[t] = "InfoCas" /\ InfoTable'[t] = InfoTable[t]
        BY <1>3
    <2>2. InfoTable[t] \in Blocks /\ Pool[InfoTable[t]].kind = "info"
        BY <1>0, <2>1 DEF InfoInv, IsA, Pointer
    <2>3. IsA(InfoTable[t], "info")'
        BY <2>1, <2>2, NullIsNoBlock DEF IsA
    <2>4. QED
        BY <1>3, <2>1, <2>2, <2>3, NullIsNoBlock DEF InfoInv
<1>4. QED
    BY <1>1, <1>2, <1>3 DEF InfoInv

\* The count of the pages stays.
LEMMA LinkedKept ==
    ASSUME NEW t \in Threads, Alone(t), pc[t] # "AddPage", pc'[t] # "AddPage",
           NextHandleNeedingPool' = NextHandleNeedingPool
    PROVE  Linked' = Linked
    BY DEF Alone, Linked, Pages, PageOf

\* Types of the numbers.
LEMMA Numbers ==
    ASSUME TableTypes
    PROVE  /\ Pages \in Nat /\ Linked \in Nat /\ Hi(Pages) \in Nat /\ Lo(Pages) \in Slots("mid")
           /\ Pool \in [Blocks -> PoolType] /\ TableCode \in [Level : 0 .. 2, Ptr : Pointer]
           /\ \A t \in Threads : /\ Handle[t] \in Nat /\ PageOf(Handle[t]) \in Nat
                                 /\ Hi(PageOf(Handle[t])) \in Nat /\ Lo(PageOf(Handle[t])) \in Slots("mid")
<1>1. NextHandleNeedingPool \in Nat /\ \A t \in Threads : Handle[t] \in Nat
    BY DEF TableTypes, Handles
<1>2. Pages \in Nat /\ \A t \in Threads : PageOf(Handle[t]) \in Nat
    BY <1>1, PageFacts DEF Pages
<1>3. Linked \in Nat
    BY <1>2 DEF Linked
<1>4. QED
    BY <1>1, <1>2, <1>3, PlaceFacts DEF TableTypes

\* A growth that does nothing keeps what it has in hand while lookups go on.
LEMMA GrowKept ==
    ASSUME TableInv, TableTypes', NEW t \in Threads, Alone(t), pc'[t] \notin GrowPCs,
           TableCode' = TableCode, NextHandleNeedingPool' = NextHandleNeedingPool,
           \A b \in Blocks : Pool[b].kind \in {"mid", "high"} => Pool'[b] = Pool[b],
           \A b \in Blocks : Pool[b].kind = "low" /\ Pool[b].base = NextHandleNeedingPool => Pool'[b] = Pool[b],
           NEW u \in Threads \ {t}
    PROVE  GrowInv(u)'
<1> DEFINE high == NewHighLevel[u]
           mid == NewMidLevel[u]
           low == NewLowLevel[u]
<1>0. Pool \in [Blocks -> PoolType] /\ GrowInv(u) /\ high \in Pointer /\ mid \in Pointer /\ low \in Pointer
    BY DEF TableInv, TableTypes
<1>1. /\ pc'[u] = pc[u] /\ NewHighLevel'[u] = high
      /\ NewMidLevel'[u] = mid /\ NewLowLevel'[u] = low
    BY DEF Alone
<1>2. Pages' = Pages
    BY DEF Pages, PageOf
<1>3. high # NULL /\ Pool[high] = Zeroed("high") => Pool'[high] = Zeroed("high")
    BY <1>0, Contents DEF Pointer
<1>4. mid # NULL /\ Pool[mid] = Zeroed("mid") => Pool'[mid] = Zeroed("mid")
    BY <1>0, Contents DEF Pointer
<1>5. low # NULL /\ Pool[low] = LowLevel(NextHandleNeedingPool) => Pool'[low] = LowLevel(NextHandleNeedingPool)
    <2>1. NextHandleNeedingPool \in Nat
        BY DEF TableInv, TableTypes
    <2>2. QED
        BY <1>0, <2>1, Contents DEF Pointer
<1>6. pc[u] \in GrowPCs /\ TableCode.Level = 2 => Pool'[TableCode.Ptr] = Pool[TableCode.Ptr]
    <2>1. pc[u] \in GrowPCs => TableCode.Ptr # NULL
        BY DEF TableInv, TreeInv, GrowPCs
    <2>2. TableCode.Ptr # NULL /\ TableCode.Level = 2 => TableCode.Ptr \in Blocks /\ Pool[TableCode.Ptr].kind = "high"
        BY DEF TableInv, TreeInv, LevelTwo, IsA, TableTypes, Pointer
    <2>3. QED
        BY <2>1, <2>2
<1>7. Growing(u)' => \A v \in Threads : Growing(v)' => v = u
    <2>1. \A v \in Threads : Growing(v)' => Growing(v)
        BY DEF Alone, Growing, GrowPCs
    <2>2. QED
        BY <1>0, <1>1, <2>1 DEF GrowInv, Growing
<1>8. LowLevel(NextHandleNeedingPool)' = LowLevel(NextHandleNeedingPool) /\ Zeroed("high")' = Zeroed("high") /\ Zeroed("mid")' = Zeroed("mid")
    BY DEF LowLevel, Zeroed, Slots
<1> HIDE DEF high, mid, low
<1>9. /\ pc'[u] = "AllocateHigh" => TableCode'.Level = 1 /\ Pages' = MIDLEVEL_COUNT
      /\ pc'[u] \notin GrowPCs \/ pc'[u] = "AllocateHigh" => high = NULL
      /\ pc'[u] \notin GrowPCs \/ pc'[u] \in {"AllocateHigh", "AllocateMid"} => mid = NULL
    BY <1>0, <1>1, <1>2 DEF GrowInv, high, mid
<1>10. pc'[u] \in {"AllocateMid", "AllocateLow", "Publish"} =>
              /\ high # NULL => Pool'[high] = Zeroed("high") /\ TableCode'.Level = 1 /\ Pages' = MIDLEVEL_COUNT
              /\ pc'[u] = "AllocateMid" \/ mid # NULL =>
                    \/ TableCode'.Level = 0
                    \/ TableCode'.Level = 1 /\ high # NULL
                    \/ /\ TableCode'.Level = 2 /\ Hi(Pages') < HIGHLEVEL_COUNT
                       /\ Pool'[TableCode'.Ptr].slot[Hi(Pages')] = NULL
    BY <1>0, <1>1, <1>2, <1>3, <1>6 DEF GrowInv, high, mid, GrowPCs
<1>11. pc'[u] \in {"AllocateLow", "Publish"} =>
              /\ mid # NULL => Pool'[mid] = Zeroed("mid")
              /\ mid = NULL =>
                    \/ TableCode'.Level = 1 /\ Pages' < MIDLEVEL_COUNT /\ high = NULL
                    \/ /\ TableCode'.Level = 2 /\ Hi(Pages') < HIGHLEVEL_COUNT
                       /\ Pool'[TableCode'.Ptr].slot[Hi(Pages')] # NULL
    BY <1>0, <1>1, <1>2, <1>4, <1>6 DEF GrowInv, high, mid, GrowPCs
<1>12. pc'[u] = "Publish" => low # NULL /\ Pool'[low] = LowLevel(NextHandleNeedingPool)
    BY <1>0, <1>1, <1>5 DEF GrowInv, low
<1>13. QED
    BY <1>1, <1>7, <1>8, <1>9, <1>10, <1>11, <1>12 DEF GrowInv, high, mid, low

\* The lookups, and what they do with information tables, leave the tree alone.
Steady ==
    /\ TableCode' = TableCode /\ NextHandleNeedingPool' = NextHandleNeedingPool
    /\ \A b \in Blocks : Pool[b].kind \in {"mid", "high"} => Pool'[b] = Pool[b]
    /\ \A b \in Blocks : Pool[b].kind = "low" =>
          /\ Pool'[b].kind = "low" /\ Pool'[b].base = Pool[b].base
          /\ Pool[b].info # NULL => Pool'[b].info = Pool[b].info
          /\ Pool[b].base = NextHandleNeedingPool => Pool'[b] = Pool[b]

\* A step that leaves the levels of the tree as they are keeps the invariant when
\* it keeps what the invariant says of the thread that takes it.
LEMMA SteadyStep ==
    ASSUME TableInv, TableTypes', NEW t \in Threads, Alone(t), Steady,
           pc[t] \notin GrowPCs, pc'[t] \notin GrowPCs,
           TableCode.Ptr = NULL => pc'[t] = "idle",
           InfoInv', WalkInv(t)',
           NewHighLevel'[t] = NULL /\ NewMidLevel'[t] = NULL
    PROVE  TableInv' /\ Stays
<1>1. Grows
    BY DEF Grows, Steady
<1>2. TreeInv'
    <2>1. Linked' = Linked
        BY LinkedKept DEF Steady, GrowPCs
    <2>2. Quiet
        BY <2>1 DEF Quiet, Steady
    <2>3. TableCode.Ptr = NULL => \A u \in Threads : pc'[u] = "idle"
        BY DEF TableInv, TreeInv, Alone
    <2>4. QED
        BY <1>1, <2>2, <2>3, TreeKept DEF TableInv
<1>3. ASSUME NEW u \in Threads \ {t} PROVE WalkInv(u)' /\ GrowInv(u)'
    <2>1. GrowInv(u)'
        BY GrowKept DEF Steady
    <2>2. /\ pc'[u] = pc[u] /\ Handle'[u] = Handle[u] /\ TableLevel'[u] = TableLevel[u] /\ InfoTable'[u] = InfoTable[u]
        BY DEF Alone
    <2>3. WalkInv(u) /\ InfoInv /\ TableTypes /\ NextHandleNeedingPool' >= NextHandleNeedingPool
        BY DEF TableInv, TableTypes, Steady
    <2>4. WalkInv(u)'
        BY <1>1, <2>2, <2>3, WalkKept
    <2>5. QED
        BY <2>1, <2>4
<1>4. GrowInv(t)'
    BY DEF GrowInv, Growing, GrowPCs
<1>5. QED
    BY <1>1, <1>2, <1>3, <1>4 DEF TableInv, Stays, Steady

(***************************************************************************)
(* The lookups.                                                            *)
(***************************************************************************)
\* A return.
LEMMA Returned ==
    ASSUME TableTypes, NEW t \in Threads, TableReturn(t)
    PROVE  /\ Alone(t) /\ pc'[t] = "idle"
           /\ NewHighLevel'[t] = NULL /\ NewMidLevel'[t] = NULL /\ NewLowLevel'[t] = NULL
           /\ pc' \in [Threads -> {"idle"} \cup WalkPCs \cup GrowPCs]
           /\ Handle' \in [Threads -> Handles]
           /\ TableLevel' \in [Threads -> Pointer]
           /\ NewHighLevel' \in [Threads -> Pointer]
           /\ NewMidLevel' \in [Threads -> Pointer]
           /\ NewLowLevel' \in [Threads -> Pointer]
           /\ InfoTable' \in [Threads -> Pointer]
<1>1. 0 \in Handles
    <2>1. LOWLEVEL_COUNT * MIDLEVEL_COUNT \in Nat
        BY HandleTableAssumptions
    <2>2. LOWLEVEL_COUNT * MIDLEVEL_COUNT * HIGHLEVEL_COUNT \in Nat
        BY <2>1, HandleTableAssumptions
    <2>3. QED
        BY <2>2 DEF Handles
<1>2. QED
    BY <1>1 DEF TableTypes, TableReturn, Goto, Alone, Pointer

\* A lookup or an information call that returns and changes nothing shared.
LEMMA WalkReturns ==
    ASSUME TableInv, NEW t \in Threads, pc[t] \in WalkPCs, TableReturn(t), UNCHANGED shared
    PROVE  TableInv' /\ Stays
<1>1. TableTypes
    BY DEF TableInv
<1>2. /\ Pool' = Pool /\ TableCode' = TableCode /\ NextHandleNeedingPool' = NextHandleNeedingPool
      /\ ExtraInfoPages' = ExtraInfoPages
    BY DEF shared
<1>3. Alone(t) /\ pc'[t] = "idle" /\ NewHighLevel'[t] = NULL /\ NewMidLevel'[t] = NULL /\ TableTypes'
    BY <1>1, <1>2, Returned DEF TableTypes
<1>4. Steady
    BY <1>2 DEF Steady
<1>5. WalkInv(t)'
    BY <1>3 DEF WalkInv, WalkPCs
<1>6. InfoInv'
    <2>1. \A u \in Threads : pc'[u] = "InfoCas" => pc[u] = "InfoCas" /\ InfoTable'[u] = InfoTable[u]
        BY <1>3 DEF Alone
    <2>2. QED
        BY <1>1, <1>2, <1>3, <2>1, InfoKept DEF TableInv
<1>7. QED
    BY <1>3, <1>4, <1>5, <1>6, SteadyStep DEF WalkPCs, GrowPCs

\* A step of a lookup that moves on in the tree.
LEMMA WalkMoves ==
    ASSUME TableInv, NEW t \in Threads, pc[t] \in {"idle"} \cup WalkPCs, TableCode.Ptr # NULL,
           NEW label \in WalkPCs \ {"InfoCas"}, Goto(t, label), UNCHANGED <<shared, growth>>,
           NEW h \in Handles, Handle' = [Handle EXCEPT ![t] = h],
           NEW b \in Pointer, TableLevel' = [TableLevel EXCEPT ![t] = b],
           NEW i \in Pointer, InfoTable' = [InfoTable EXCEPT ![t] = i],
           WalkInv(t)'
    PROVE  TableInv' /\ Stays
<1>1. TableTypes
    BY DEF TableInv
<1>2. /\ Pool' = Pool /\ TableCode' = TableCode /\ NextHandleNeedingPool' = NextHandleNeedingPool
      /\ ExtraInfoPages' = ExtraInfoPages /\ NewHighLevel' = NewHighLevel /\ NewMidLevel' = NewMidLevel
      /\ NewLowLevel' = NewLowLevel /\ pc' = [pc EXCEPT ![t] = label]
    BY DEF shared, growth, Goto
<1>3. TableTypes' /\ Alone(t) /\ pc'[t] = label
    BY <1>1, <1>2 DEF TableTypes, Alone
<1>4. NewHighLevel'[t] = NULL /\ NewMidLevel'[t] = NULL
    BY <1>2 DEF TableInv, GrowInv, GrowPCs, WalkPCs
<1>5. Steady
    BY <1>2 DEF Steady
<1>6. InfoInv'
    <2>1. \A u \in Threads : pc'[u] = "InfoCas" => pc[u] = "InfoCas" /\ InfoTable'[u] = InfoTable[u]
        BY <1>3 DEF Alone
    <2>2. QED
        BY <1>1, <1>2, <1>3, <2>1, InfoKept DEF TableInv
<1>7. QED
    BY <1>3, <1>4, <1>5, <1>6, SteadyStep DEF WalkPCs, GrowPCs

\* A lookup begins.
LEMMA LookupInv ==
    ASSUME TableInv, NEW t \in Threads, NEW h \in Handles, Lookup(t, h)
    PROVE  TableInv' /\ Stays
<1>1. /\ TableCode.Ptr # NULL /\ Goto(t, "Bound") /\ UNCHANGED <<shared, growth>>
      /\ Handle' = [Handle EXCEPT ![t] = h] /\ pc[t] = "idle"
      /\ TableLevel' = TableLevel /\ InfoTable' = InfoTable
    BY DEF Lookup, TableInv, TreeInv, NoTable
<1>2. /\ TableLevel' = [TableLevel EXCEPT ![t] = TableLevel[t]] /\ TableLevel[t] \in Pointer
      /\ InfoTable' = [InfoTable EXCEPT ![t] = InfoTable[t]] /\ InfoTable[t] \in Pointer
    BY <1>1 DEF TableInv, TableTypes
<1>3. WalkInv(t)'
    <2>1. pc'[t] = "Bound"
        BY <1>1 DEF Goto, TableInv, TableTypes
    <2>2. QED
        BY <2>1 DEF WalkInv
<1>4. QED
    BY <1>1, <1>2, <1>3, WalkMoves DEF WalkPCs

\* A handle within the bound has a page, which nothing takes away.
LEMMA BoundInv ==
    ASSUME TableInv, NEW t \in Threads, Bound(t)
    PROVE  TableInv' /\ Stays
<1>1. CASE TableReturn(t)
    BY <1>1, WalkReturns DEF Bound, WalkPCs
<1>2. CASE Handle[t] < NextHandleNeedingPool /\ Goto(t, "Capture") /\ UNCHANGED walk
    <2>1. /\ Goto(t, "Capture") /\ UNCHANGED <<shared, growth>> /\ pc[t] = "Bound"
          /\ Handle' = Handle /\ TableLevel' = TableLevel /\ InfoTable' = InfoTable
        BY <1>2 DEF Bound, walk
    <2>2. TableCode.Ptr # NULL
        BY <2>1 DEF TableInv, TreeInv
    <2>3. /\ TableLevel' = [TableLevel EXCEPT ![t] = TableLevel[t]] /\ TableLevel[t] \in Pointer
          /\ InfoTable' = [InfoTable EXCEPT ![t] = InfoTable[t]] /\ InfoTable[t] \in Pointer
          /\ Handle' = [Handle EXCEPT ![t] = Handle[t]] /\ Handle[t] \in Handles
        BY <2>1 DEF TableInv, TableTypes
    <2>4. WalkInv(t)'
        <3>1. pc'[t] = "Capture" /\ Handle'[t] < NextHandleNeedingPool'
            BY <1>2, <2>1 DEF Goto, TableInv, TableTypes, shared
        <3>2. QED
            BY <3>1 DEF WalkInv
    <2>5. QED
        BY <2>1, <2>2, <2>3, <2>4, WalkMoves DEF WalkPCs
<1>3. QED
    BY <1>1, <1>2 DEF Bound

\* A handle below the bound has its page in the tree, wherever the root was.
LEMMA TreeHasPage ==
    ASSUME TableTypes, TreeInv, TableCode.Ptr # NULL, NEW h \in Nat, h < NextHandleNeedingPool
    PROVE  LET root == TableCode.Ptr
               p == PageOf(h)
           IN  /\ p \in 0 .. Linked - 1
               /\ TableCode.Level = 0 => IsPage(root, p)
               /\ TableCode.Level = 1 => IsA(root, "mid") /\ p \in Slots("mid") /\ IsPage(Pool[root].slot[p], p)
               /\ TableCode.Level = 2 =>
                     /\ IsA(root, "high") /\ Hi(p) \in Slots("high")
                     /\ IsA(Pool[root].slot[Hi(p)], "mid")
                     /\ IsPage(Pool[Pool[root].slot[Hi(p)]].slot[Lo(p)], p)
<1> DEFINE root == TableCode.Ptr
           p == PageOf(h)
<1>1. Pages \in Nat /\ Linked \in Nat /\ Pages <= Linked
    BY Numbers DEF Linked
<1>2. NextHandleNeedingPool = Pages * LOWLEVEL_COUNT
    BY DEF TreeInv
<1>3. p \in Nat /\ p < Pages
    BY <1>1, <1>2, PageFacts, PageBelow
<1>4. p \in 0 .. Linked - 1
    BY <1>1, <1>3
<1>5. TableCode.Level = 0 => IsPage(root, p)
    <2>1. TableCode.Level = 0 => p = 0 /\ IsPage(root, 0)
        BY <1>1, <1>3 DEF TreeInv
    <2>2. QED
        BY <2>1
<1>6. TableCode.Level = 1 => IsA(root, "mid") /\ p \in Slots("mid") /\ IsPage(Pool[root].slot[p], p)
    <2>1. SUFFICES ASSUME LevelOne PROVE IsA(root, "mid") /\ p \in Slots("mid") /\ IsPage(Pool[root].slot[p], p)
        BY DEF TreeInv
    <2>2. p < Linked /\ p < MIDLEVEL_COUNT
        BY <1>1, <1>3, <2>1, HandleTableAssumptions DEF LevelOne
    <2>3. p \in Slots("mid")
        BY <1>3, <2>2, FirstSlots
    <2>4. QED
        BY <2>1, <2>2, <2>3 DEF LevelOne
<1>7. TableCode.Level = 2 => /\ IsA(root, "high") /\ Hi(p) \in Slots("high")
                             /\ IsA(Pool[root].slot[Hi(p)], "mid")
                             /\ IsPage(Pool[Pool[root].slot[Hi(p)]].slot[Lo(p)], p)
    <2>1. SUFFICES ASSUME LevelTwo PROVE /\ IsA(root, "high") /\ Hi(p) \in Slots("high")
                             /\ IsA(Pool[root].slot[Hi(p)], "mid")
                             /\ IsPage(Pool[Pool[root].slot[Hi(p)]].slot[Lo(p)], p)
        BY DEF TreeInv
    <2>2. Hi(p) \in Slots("high")
        <3>1. Hi(p) <= Hi(Linked - 1) /\ Hi(Linked - 1) < HIGHLEVEL_COUNT /\ Hi(Linked - 1) \in Nat /\ Hi(p) \in Nat
            <4>1. Linked - 1 \in Nat /\ p <= Linked - 1
                BY <1>1, <1>4
            <4>2. QED
                BY <1>3, <2>1, <4>1, PlaceOrder, PlaceFacts DEF LevelTwo
        <3>2. QED
            BY <3>1, FirstSlots, HandleTableAssumptions
    <2>3. QED
        BY <1>4, <2>1, <2>2 DEF LevelTwo
<1>8. QED
    BY <1>4, <1>5, <1>6, <1>7

\* The root a lookup captures leads to the page, whatever the level.
LEMMA CaptureInv ==
    ASSUME TableInv, NEW t \in Threads, Capture(t)
    PROVE  TableInv' /\ Stays
<1>1. PICK label \in {"Found", "WalkTwo", "WalkThree"} :
          /\ Goto(t, label)
          /\ label = CASE TableCode.Level = 0 -> "Found"
                       [] TableCode.Level = 1 -> "WalkTwo"
                       [] TableCode.Level = 2 -> "WalkThree"
    BY DEF Capture, TableInv, TableTypes
<1>2. /\ UNCHANGED <<shared, growth>> /\ pc[t] = "Capture"
      /\ Handle' = Handle /\ TableLevel' = [TableLevel EXCEPT ![t] = TableCode.Ptr] /\ InfoTable' = InfoTable
    BY DEF Capture
<1>3. TableCode.Ptr # NULL /\ TableCode.Ptr \in Pointer
    BY <1>2 DEF TableInv, TreeInv, TableTypes
<1>4. /\ InfoTable' = [InfoTable EXCEPT ![t] = InfoTable[t]] /\ InfoTable[t] \in Pointer
      /\ Handle' = [Handle EXCEPT ![t] = Handle[t]] /\ Handle[t] \in Handles
    BY <1>2 DEF TableInv, TableTypes
<1>5. WalkInv(t)'
    <2>1. Handle[t] < NextHandleNeedingPool /\ Handle[t] \in Nat
        BY <1>2, Numbers DEF TableInv, WalkInv, WalkPCs
    <2>2. pc'[t] = label /\ Handle'[t] = Handle[t] /\ TableLevel'[t] = TableCode.Ptr /\ Pool' = Pool
          /\ NextHandleNeedingPool' = NextHandleNeedingPool
        BY <1>1, <1>2, <1>3 DEF Goto, TableInv, TableTypes, shared
    <2>3. TableTypes /\ TreeInv
        BY DEF TableInv
    <2>4. PICK root \in Pointer, p \in Nat :
              /\ root = TableCode.Ptr /\ p = PageOf(Handle[t])
              /\ TableCode.Level = 0 => IsPage(root, p)
              /\ TableCode.Level = 1 => IsA(root, "mid") /\ p \in Slots("mid") /\ IsPage(Pool[root].slot[p], p)
              /\ TableCode.Level = 2 =>
                    /\ IsA(root, "high") /\ Hi(p) \in Slots("high")
                    /\ IsA(Pool[root].slot[Hi(p)], "mid")
                    /\ IsPage(Pool[Pool[root].slot[Hi(p)]].slot[Lo(p)], p)
        BY <1>3, <2>1, <2>3, TreeHasPage, PageFacts
    <2>5. PageOf(Handle'[t]) = p
        BY <2>2, <2>4
    <2>6. /\ label = "Found" => TableCode.Level = 0
          /\ label = "WalkTwo" => TableCode.Level = 1
          /\ label = "WalkThree" => TableCode.Level = 2
        BY <1>1, <2>3 DEF TableTypes
    <2>7. QED
        BY <1>1, <2>1, <2>2, <2>4, <2>5, <2>6, Zenon DEF WalkInv, IsPage, IsA
<1>6. QED
    BY <1>1, <1>2, <1>3, <1>4, <1>5, WalkMoves, Zenon DEF WalkPCs

\* A pointer of a table.
LEMMA SlotPointer ==
    ASSUME TableTypes, NEW b \in Pointer, NEW k \in {"mid", "high"}, IsA(b, k), NEW i \in Slots(k)
    PROVE  b \in Blocks /\ Pool[b].slot \in [Slots(k) -> Pointer] /\ Pool[b].slot[i] \in Pointer
<1>1. b \in Blocks /\ Pool[b] \in PoolType
    BY DEF TableTypes, IsA, Pointer
<1>2. QED
    BY <1>1, Kind DEF IsA

\* A lookup goes one level down.
LEMMA WalkStepInv ==
    ASSUME TableInv, NEW t \in Threads, WalkTwo(t) \/ WalkThree(t) \/ WalkMid(t)
    PROVE  TableInv' /\ Stays
<1> DEFINE b == TableLevel[t]
           p == PageOf(Handle[t])
<1>1. TableTypes /\ b \in Pointer /\ p \in Nat /\ Hi(p) \in Nat /\ Lo(p) \in Slots("mid") /\ WalkInv(t)
    BY Numbers DEF TableInv, TableTypes
<1>2. PICK x \in Pointer, label \in {"Found", "WalkMid"} :
          /\ Goto(t, label) /\ TableLevel' = [TableLevel EXCEPT ![t] = x]
          /\ label = "Found" => IsPage(x, p)
          /\ label = "WalkMid" => IsA(x, "mid") /\ IsPage(Pool[x].slot[Lo(p)], p)
    <2>1. CASE WalkTwo(t)
        <3>1. IsA(b, "mid") /\ p \in Slots("mid") /\ IsPage(Pool[b].slot[p], p)
            BY <1>1, <2>1 DEF WalkTwo, WalkInv
        <3>2. Pool[b].slot[p] \in Pointer
            BY <1>1, <3>1, SlotPointer
        <3>3. QED
            BY <2>1, <3>1, <3>2 DEF WalkTwo
    <2>2. CASE WalkThree(t)
        <3>1. /\ IsA(b, "high") /\ Hi(p) \in Slots("high")
              /\ IsA(Pool[b].slot[Hi(p)], "mid") /\ IsPage(Pool[Pool[b].slot[Hi(p)]].slot[Lo(p)], p)
            BY <1>1, <2>2 DEF WalkThree, WalkInv
        <3>2. Pool[b].slot[Hi(p)] \in Pointer
            BY <1>1, <3>1, SlotPointer
        <3>3. HighIndex(Handle[t]) = Hi(p)
            BY DEF HighIndex, Hi
        <3>4. QED
            BY <2>2, <3>1, <3>2, <3>3 DEF WalkThree
    <2>3. CASE WalkMid(t)
        <3>1. IsA(b, "mid") /\ IsPage(Pool[b].slot[Lo(p)], p)
            BY <1>1, <2>3 DEF WalkMid, WalkInv
        <3>2. Pool[b].slot[Lo(p)] \in Pointer
            BY <1>1, <3>1, SlotPointer
        <3>3. MidIndex(Handle[t]) = Lo(p)
            BY DEF MidIndex, Lo
        <3>4. QED
            BY <2>3, <3>1, <3>2, <3>3 DEF WalkMid
    <2>4. QED
        BY <2>1, <2>2, <2>3
<1>3. /\ UNCHANGED <<shared, growth>> /\ pc[t] \in {"WalkTwo", "WalkThree", "WalkMid"}
      /\ Handle' = Handle /\ InfoTable' = InfoTable
    BY DEF WalkTwo, WalkThree, WalkMid
<1>4. TableCode.Ptr # NULL /\ Handle[t] < NextHandleNeedingPool
    BY <1>3 DEF TableInv, TreeInv, WalkInv, WalkPCs
<1>5. /\ InfoTable' = [InfoTable EXCEPT ![t] = InfoTable[t]] /\ InfoTable[t] \in Pointer
      /\ Handle' = [Handle EXCEPT ![t] = Handle[t]] /\ Handle[t] \in Handles
    BY <1>3 DEF TableInv, TableTypes
<1>6. WalkInv(t)'
    <2>1. pc'[t] = label /\ Handle'[t] = Handle[t] /\ TableLevel'[t] = x /\ Pool' = Pool
          /\ NextHandleNeedingPool' = NextHandleNeedingPool
        BY <1>2, <1>3 DEF Goto, TableInv, TableTypes, shared
    <2>2. QED
        BY <1>2, <1>4, <2>1 DEF WalkInv, IsPage, IsA
<1>7. QED
    BY <1>2, <1>3, <1>4, <1>5, <1>6, WalkMoves DEF WalkPCs

\* ExSetHandleInfo reads the information of the page it has found.
LEMMA InfoReadInv ==
    ASSUME TableInv, NEW t \in Threads, InfoRead(t)
    PROVE  TableInv' /\ Stays
<1> DEFINE b == TableLevel[t]
           p == PageOf(Handle[t])
<1>1. TableTypes /\ b \in Pointer /\ WalkInv(t) /\ pc[t] = "Found"
    BY DEF TableInv, TableTypes, InfoRead
<1>2. IsPage(b, p) /\ Handle[t] < NextHandleNeedingPool
    BY <1>1 DEF WalkInv, WalkPCs
<1>3. PICK i \in Pointer : i = Pool[b].info
    BY <1>1, <1>2, Kind DEF IsPage, IsA, TableTypes, Pointer
<1>4. PICK label \in {"InfoAllocate", "InfoWrite"} : Goto(t, label) /\ (label = "InfoWrite" => i # NULL)
    BY <1>3 DEF InfoRead
<1>5. /\ InfoTable' = [InfoTable EXCEPT ![t] = i] /\ UNCHANGED <<shared, growth>>
      /\ Handle' = Handle /\ TableLevel' = TableLevel
    BY <1>3 DEF InfoRead
<1>6. TableCode.Ptr # NULL
    BY <1>1 DEF TableInv, TreeInv
<1>7. /\ TableLevel' = [TableLevel EXCEPT ![t] = b] /\ Handle' = [Handle EXCEPT ![t] = Handle[t]] /\ Handle[t] \in Handles
    BY <1>1, <1>5 DEF TableTypes
<1>8. WalkInv(t)'
    <2>1. pc'[t] = label /\ Handle'[t] = Handle[t] /\ TableLevel'[t] = b /\ Pool' = Pool /\ InfoTable'[t] = i
          /\ NextHandleNeedingPool' = NextHandleNeedingPool
        BY <1>1, <1>4, <1>5, <1>7 DEF Goto, TableTypes, shared
    <2>2. QED
        BY <1>2, <1>3, <1>4, <2>1 DEF WalkInv, IsPage, IsA
<1>9. QED
    BY <1>1, <1>4, <1>5, <1>6, <1>7, <1>8, WalkMoves DEF WalkPCs

\* It counts the table it has linked.
LEMMA InfoCountInv ==
    ASSUME TableInv, NEW t \in Threads, InfoCount(t)
    PROVE  TableInv' /\ Stays
<1>1. /\ pc[t] = "InfoCount" /\ pc' = [pc EXCEPT ![t] = "InfoWrite"] /\ ExtraInfoPages' = ExtraInfoPages + 1
      /\ Pool' = Pool /\ TableCode' = TableCode /\ NextHandleNeedingPool' = NextHandleNeedingPool
      /\ Handle' = Handle /\ TableLevel' = TableLevel /\ InfoTable' = InfoTable
      /\ NewHighLevel' = NewHighLevel /\ NewMidLevel' = NewMidLevel /\ NewLowLevel' = NewLowLevel
    BY DEF InfoCount, Goto, walk, growth
<1>2. TableTypes /\ WalkInv(t) /\ GrowInv(t) /\ InfoInv
    BY DEF TableInv
<1>3. TableTypes' /\ Alone(t) /\ pc'[t] = "InfoWrite"
    BY <1>1, <1>2 DEF TableTypes, Alone, WalkPCs
<1>4. Steady
    BY <1>1 DEF Steady
<1>5. WalkInv(t)'
    BY <1>1, <1>2, <1>3, Zenon DEF WalkInv, WalkPCs, IsPage, IsA
<1>6. InfoInv'
    <2>1. \A u \in Threads : pc'[u] = "InfoCas" => pc[u] = "InfoCas" /\ InfoTable'[u] = InfoTable[u]
        BY <1>1, <1>3 DEF Alone
    <2>2. QED
        BY <1>1, <1>2, <1>3, <2>1, InfoKept
<1>7. NewHighLevel'[t] = NULL /\ NewMidLevel'[t] = NULL
    BY <1>1, <1>2 DEF GrowInv, GrowPCs
<1>8. TableCode.Ptr # NULL
    BY <1>1 DEF TableInv, TreeInv
<1>9. QED
    BY <1>1, <1>3, <1>4, <1>5, <1>6, <1>7, <1>8, SteadyStep DEF GrowPCs

\* It allocates an information table, or fails.
LEMMA InfoAllocateInv ==
    ASSUME TableInv, NEW t \in Threads, InfoAllocate(t)
    PROVE  TableInv' /\ Stays
<1>0. pc[t] = "InfoAllocate" /\ TableTypes /\ WalkInv(t) /\ GrowInv(t) /\ InfoInv /\ TableCode.Ptr # NULL
    BY DEF TableInv, InfoAllocate, TreeInv
<1>1. CASE TableReturn(t) /\ UNCHANGED Pool
    BY <1>0, <1>1, WalkReturns DEF InfoAllocate, WalkPCs, shared
<1>2. CASE ~(TableReturn(t) /\ UNCHANGED Pool)
    <2>1. PICK b : b = NewBlock("info")
        OBVIOUS
    <2>2. /\ Available("info") # {} /\ Pool' = [Pool EXCEPT ![NewBlock("info")] = Info]
          /\ InfoTable' = [InfoTable EXCEPT ![t] = b] /\ pc' = [pc EXCEPT ![t] = "InfoCas"]
          /\ TableCode' = TableCode /\ NextHandleNeedingPool' = NextHandleNeedingPool
          /\ ExtraInfoPages' = ExtraInfoPages
          /\ Handle' = Handle /\ TableLevel' = TableLevel
          /\ NewHighLevel' = NewHighLevel /\ NewMidLevel' = NewMidLevel /\ NewLowLevel' = NewLowLevel
        BY <1>2, <2>1 DEF InfoAllocate, Goto, growth
    <2>3. /\ b \in Blocks /\ b # NULL /\ Pool[b].kind = "none" /\ Pool' \in [Blocks -> PoolType]
          /\ Pool'[b] = Info /\ \A c \in Blocks : c # b => Pool'[c] = Pool[c]
        BY <1>0, <2>1, <2>2, AllocateFresh, Contents, Zenon DEF TableTypes, Kinds
    <2>4. TableTypes' /\ Alone(t) /\ pc'[t] = "InfoCas" /\ InfoTable'[t] = b
        BY <1>0, <2>2, <2>3 DEF TableTypes, Alone, WalkPCs, Pointer
    <2>5. Steady
        BY <2>2, <2>3 DEF Steady
    <2>6. WalkInv(t)'
        <3>1. IsPage(TableLevel[t], PageOf(Handle[t])) /\ Handle[t] < NextHandleNeedingPool /\ TableLevel[t] \in Blocks
            BY <1>0 DEF WalkInv, WalkPCs, IsPage, IsA, TableTypes, Pointer
        <3>2. Pool'[TableLevel[t]] = Pool[TableLevel[t]]
            BY <2>3, <3>1 DEF IsPage, IsA
        <3>3. QED
            BY <2>2, <2>4, <3>1, <3>2, Zenon DEF WalkInv, WalkPCs, IsPage, IsA
    <2>7. InfoInv'
        <3>0. Info.kind = "info" /\ Pool \in [Blocks -> PoolType]
            BY <1>0, Contents DEF TableTypes
        <3>1. \A c \in Blocks : Pool'[c].kind = "low" => c # b /\ Pool'[c] = Pool[c] /\ Pool[c].kind = "low"
            BY <2>3, <3>0
        <3>2. ASSUME NEW c \in Blocks, Pool[c].kind = "low", Pool[c].info # NULL
              PROVE  Pool[c].info \in Blocks /\ Pool[c].info # b /\ Pool'[Pool[c].info].kind = "info"
            <4>1. PICK d \in Blocks : d = Pool[c].info
                BY <3>0, <3>2, Kind DEF Pointer
            <4>2. Pool[d].kind = "info"
                BY <1>0, <3>2, <4>1 DEF InfoInv
            <4>3. QED
                BY <2>3, <4>1, <4>2
        <3>3. \A u \in Threads \ {t} : pc'[u] = "InfoCas" =>
                  /\ pc[u] = "InfoCas" /\ InfoTable'[u] = InfoTable[u]
                  /\ InfoTable[u] \in Blocks /\ Pool[InfoTable[u]].kind = "info"
            BY <1>0, <2>4 DEF Alone, InfoInv, IsA, TableTypes, Pointer
        <3>4. ASSUME NEW u \in Threads, pc'[u] = "InfoCas"
              PROVE  /\ IsA(InfoTable[u], "info")'
                     /\ \A c \in Blocks : Pool'[c].kind = "low" => Pool'[c].info # InfoTable'[u]
                     /\ \A v \in Threads : pc'[v] = "InfoCas" /\ InfoTable'[v] = InfoTable'[u] => v = u
            <4>1. CASE u = t
                BY <2>3, <2>4, <3>0, <3>1, <3>2, <3>3, <4>1 DEF IsA
            <4>2. CASE u # t
                <5>1. InfoTable[u] # b /\ pc[u] = "InfoCas" /\ InfoTable'[u] = InfoTable[u] /\ InfoTable[u] \in Blocks
                    BY <2>3, <3>3, <3>4, <4>2
                <5>2. IsA(InfoTable[u], "info")'
                    BY <2>3, <3>3, <3>4, <4>2, <5>1, NullIsNoBlock DEF IsA
                <5>3. \A c \in Blocks : Pool'[c].kind = "low" => Pool'[c].info # InfoTable'[u]
                    BY <1>0, <3>1, <5>1 DEF InfoInv
                <5>4. ASSUME NEW v \in Threads, pc'[v] = "InfoCas", InfoTable'[v] = InfoTable'[u] PROVE v = u
                    <6>1. v # t
                        BY <2>4, <5>1, <5>4
                    <6>2. pc[v] = "InfoCas" /\ InfoTable[v] = InfoTable[u]
                        BY <3>3, <5>1, <5>4, <6>1
                    <6>3. QED
                        BY <1>0, <5>1, <6>2 DEF InfoInv
                <5>5. QED
                    BY <5>2, <5>3, <5>4
            <4>3. QED
                BY <4>1, <4>2
        <3>5. \A c \in Blocks : Pool'[c].kind = "low" /\ Pool'[c].info # NULL => Pool'[Pool'[c].info].kind = "info"
            BY <3>1, <3>2
        <3>6. \A c, d \in Blocks : Pool'[c].kind = "low" /\ Pool'[d].kind = "low" /\ Pool'[c].info = Pool'[d].info
                                      /\ Pool'[c].info # NULL => c = d
            BY <1>0, <3>1 DEF InfoInv
        <3>7. QED
            BY <3>4, <3>5, <3>6 DEF InfoInv
    <2>8. NewHighLevel'[t] = NULL /\ NewMidLevel'[t] = NULL
        BY <1>0, <2>2 DEF GrowInv, GrowPCs
    <2>9. QED
        BY <1>0, <2>4, <2>5, <2>6, <2>7, <2>8, SteadyStep DEF GrowPCs
<1>3. QED
    BY <1>1, <1>2

\* It links its table, or frees it and takes the one that is there.
LEMMA InfoCasInv ==
    ASSUME TableInv, NEW t \in Threads, InfoCas(t)
    PROVE  TableInv' /\ Stays
<1>0. /\ pc[t] = "InfoCas" /\ TableTypes /\ WalkInv(t) /\ GrowInv(t) /\ InfoInv /\ TableCode.Ptr # NULL
      /\ Pool \in [Blocks -> PoolType]
    BY DEF TableInv, InfoCas, TreeInv, TableTypes
<1>1. PICK b \in Blocks : b = TableLevel[t]
    BY <1>0 DEF WalkInv, IsPage, IsA, TableTypes, Pointer
<1>2. PICK i \in Blocks : i = InfoTable[t] /\ Pool[i].kind = "info" /\ i # NULL
    BY <1>0 DEF InfoInv, IsA, TableTypes, Pointer
<1>3. /\ IsPage(b, PageOf(Handle[t])) /\ Pool[b].kind = "low" /\ Handle[t] < NextHandleNeedingPool
      /\ Pool[b] \in [kind : {"low"}, base : Handles, info : Pointer]
    <2>1. IsPage(b, PageOf(Handle[t])) /\ Handle[t] < NextHandleNeedingPool
        BY <1>0, <1>1 DEF WalkInv, WalkPCs
    <2>2. QED
        BY <1>0, <2>1, Kind DEF IsPage, IsA
<1>4. Pool[b].base # NextHandleNeedingPool
    <2>1. Handle[t] \in Nat /\ NextHandleNeedingPool \in Nat
        BY <1>0, Numbers DEF TableTypes
    <2>2. QED
        BY <1>3, <2>1, PageFacts DEF IsPage
<1>5. /\ TableCode' = TableCode /\ NextHandleNeedingPool' = NextHandleNeedingPool
      /\ ExtraInfoPages' = ExtraInfoPages /\ Handle' = Handle /\ TableLevel' = TableLevel
      /\ NewHighLevel' = NewHighLevel /\ NewMidLevel' = NewMidLevel /\ NewLowLevel' = NewLowLevel
    BY DEF InfoCas, growth
<1>6. NewHighLevel'[t] = NULL /\ NewMidLevel'[t] = NULL
    BY <1>0, <1>5 DEF GrowInv, GrowPCs
<1>7. \A c \in Blocks : Pool[c].kind = "low" => Pool[c].info \in Pointer /\ Pool[c].info # i
    BY <1>0, <1>2, Kind DEF InfoInv
<1>8. \A u \in Threads \ {t} : pc[u] = "InfoCas" => InfoTable[u] \in Blocks /\ Pool[InfoTable[u]].kind = "info" /\ InfoTable[u] # i
    BY <1>0, <1>2 DEF InfoInv, IsA, TableTypes, Pointer
<1>9. CASE Pool[b].info = NULL
    <2>1. /\ Pool' = [Pool EXCEPT ![b].info = i] /\ pc' = [pc EXCEPT ![t] = "InfoCount"] /\ InfoTable' = InfoTable
        BY <1>1, <1>2, <1>9 DEF InfoCas, Goto
    <2>2. /\ \A c \in Blocks : c # b => Pool'[c] = Pool[c]
          /\ Pool'[b].kind = "low" /\ Pool'[b].base = Pool[b].base /\ Pool'[b].info = i
        BY <1>0, <1>3, <2>1
    <2>3. Pool' \in [Blocks -> PoolType]
        <3>1. [Pool[b] EXCEPT !.info = i] \in [kind : {"low"}, base : Handles, info : Pointer]
            BY <1>3 DEF Pointer
        <3>2. [Pool[b] EXCEPT !.info = i] \in PoolType
            BY <3>1 DEF PoolType
        <3>3. QED
            BY <1>0, <2>1, <3>2
    <2>4. TableTypes' /\ Alone(t) /\ pc'[t] = "InfoCount" /\ InfoTable'[t] = i
        BY <1>0, <1>2, <1>5, <2>1, <2>3 DEF TableTypes, Alone, WalkPCs
    <2>5. Steady
        BY <1>3, <1>4, <1>5, <1>9, <2>2 DEF Steady
    <2>6. WalkInv(t)'
        BY <1>1, <1>2, <1>3, <1>5, <2>2, <2>4 DEF WalkInv, WalkPCs, IsPage, IsA
    <2>7. InfoInv'
        <3>1. Pool'[i] = Pool[i]
            BY <1>2, <1>3, <2>2
        <3>2. ASSUME NEW c \in Blocks, Pool'[c].kind = "low", Pool'[c].info # NULL
              PROVE  Pool'[Pool'[c].info].kind = "info"
            <4>1. CASE c = b
                BY <1>2, <2>2, <3>1, <4>1
            <4>2. CASE c # b
                <5>1. PICK d \in Blocks : d = Pool[c].info
                    BY <1>7, <2>2, <3>2, <4>2 DEF Pointer
                <5>2. Pool[d].kind = "info" /\ d # b
                    BY <1>0, <1>3, <2>2, <3>2, <4>2, <5>1 DEF InfoInv
                <5>3. QED
                    BY <2>2, <4>2, <5>1, <5>2
            <4>3. QED
                BY <4>1, <4>2
        <3>3. \A c, d \in Blocks : Pool'[c].kind = "low" /\ Pool'[d].kind = "low" /\ Pool'[c].info = Pool'[d].info
                                      /\ Pool'[c].info # NULL => c = d
            BY <1>0, <1>7, <2>2 DEF InfoInv
        <3>4. ASSUME NEW u \in Threads, pc'[u] = "InfoCas"
              PROVE  /\ IsA(InfoTable[u], "info")'
                     /\ \A c \in Blocks : Pool'[c].kind = "low" => Pool'[c].info # InfoTable'[u]
                     /\ \A v \in Threads : pc'[v] = "InfoCas" /\ InfoTable'[v] = InfoTable'[u] => v = u
            <4>1. u # t /\ pc[u] = "InfoCas" /\ InfoTable'[u] = InfoTable[u]
                BY <2>1, <2>4, <3>4 DEF Alone
            <4>2. InfoTable[u] \in Blocks /\ Pool[InfoTable[u]].kind = "info" /\ InfoTable[u] # i /\ InfoTable[u] # b
                BY <1>3, <1>8, <4>1
            <4>3. IsA(InfoTable[u], "info")'
                BY <2>2, <4>1, <4>2, NullIsNoBlock DEF IsA
            <4>4. \A c \in Blocks : Pool'[c].kind = "low" => Pool'[c].info # InfoTable'[u]
                BY <1>0, <2>2, <4>1, <4>2 DEF InfoInv
            <4>5. \A v \in Threads : pc'[v] = "InfoCas" /\ InfoTable'[v] = InfoTable'[u] => v = u
                BY <1>0, <2>1, <2>4, <4>1 DEF InfoInv, Alone
            <4>6. QED
                BY <4>3, <4>4, <4>5
        <3>5. QED
            BY <3>2, <3>3, <3>4 DEF InfoInv
    <2>8. QED
        BY <1>0, <1>6, <2>4, <2>5, <2>6, <2>7, SteadyStep DEF GrowPCs
<1>10. CASE Pool[b].info # NULL
    <2>1. PICK j \in Blocks : j = Pool[b].info /\ Pool[j].kind = "info" /\ j # i
        BY <1>0, <1>3, <1>7, <1>10 DEF Pointer, InfoInv
    <2>2. Pool' = Without({i}) /\ pc' = [pc EXCEPT ![t] = "InfoWrite"] /\ InfoTable' = [InfoTable EXCEPT ![t] = j]
        BY <1>1, <1>2, <1>10, <2>1 DEF InfoCas, Goto
    <2>3. /\ Pool' \in [Blocks -> PoolType] /\ Pool'[i] = Unallocated /\ Unallocated.kind = "none"
          /\ \A c \in Blocks : c # i => Pool'[c] = Pool[c]
        BY <1>0, <2>2, Contents DEF Without
    <2>4. TableTypes' /\ Alone(t) /\ pc'[t] = "InfoWrite" /\ InfoTable'[t] = j
        BY <1>0, <1>5, <2>2, <2>3 DEF TableTypes, Alone, WalkPCs, Pointer
    <2>5. Steady
        BY <1>2, <1>5, <2>3 DEF Steady
    <2>6. WalkInv(t)'
        <3>1. Pool'[b] = Pool[b] /\ j # NULL
            BY <1>2, <1>3, <1>10, <2>1, <2>3
        <3>2. QED
            BY <1>1, <1>3, <1>5, <2>1, <2>4, <3>1 DEF WalkInv, WalkPCs, IsPage, IsA
    <2>7. InfoInv'
        <3>1. \A c \in Blocks : Pool'[c].kind = "low" => c # i /\ Pool'[c] = Pool[c]
            BY <2>3
        <3>2. ASSUME NEW c \in Blocks, Pool'[c].kind = "low", Pool'[c].info # NULL
              PROVE  Pool'[Pool'[c].info].kind = "info"
            <4>1. PICK d \in Blocks : d = Pool[c].info /\ d # i
                BY <1>7, <3>1, <3>2 DEF Pointer
            <4>2. Pool[d].kind = "info"
                BY <1>0, <3>1, <3>2, <4>1 DEF InfoInv
            <4>3. QED
                BY <2>3, <3>1, <3>2, <4>1, <4>2
        <3>3. \A c, d \in Blocks : Pool'[c].kind = "low" /\ Pool'[d].kind = "low" /\ Pool'[c].info = Pool'[d].info
                                      /\ Pool'[c].info # NULL => c = d
            BY <1>0, <3>1 DEF InfoInv
        <3>4. ASSUME NEW u \in Threads, pc'[u] = "InfoCas"
              PROVE  /\ IsA(InfoTable[u], "info")'
                     /\ \A c \in Blocks : Pool'[c].kind = "low" => Pool'[c].info # InfoTable'[u]
                     /\ \A v \in Threads : pc'[v] = "InfoCas" /\ InfoTable'[v] = InfoTable'[u] => v = u
            <4>1. u # t /\ pc[u] = "InfoCas" /\ InfoTable'[u] = InfoTable[u]
                BY <2>4, <3>4 DEF Alone
            <4>2. InfoTable[u] \in Blocks /\ Pool[InfoTable[u]].kind = "info" /\ InfoTable[u] # i
                BY <1>8, <4>1
            <4>3. IsA(InfoTable[u], "info")'
                BY <2>3, <4>1, <4>2, NullIsNoBlock DEF IsA
            <4>4. \A c \in Blocks : Pool'[c].kind = "low" => Pool'[c].info # InfoTable'[u]
                BY <1>0, <3>1, <4>1, <4>2 DEF InfoInv
            <4>5. \A v \in Threads : pc'[v] = "InfoCas" /\ InfoTable'[v] = InfoTable'[u] => v = u
                BY <1>0, <2>4, <4>1 DEF InfoInv, Alone
            <4>6. QED
                BY <4>3, <4>4, <4>5
        <3>5. QED
            BY <3>2, <3>3, <3>4 DEF InfoInv
    <2>8. QED
        BY <1>0, <1>6, <2>4, <2>5, <2>6, <2>7, SteadyStep DEF GrowPCs
<1>11. QED
    BY <1>9, <1>10

(***************************************************************************)
(* The growth.                                                             *)
(***************************************************************************)
LEMMA BeginGrowthInv ==
    ASSUME TableInv, NEW t \in Threads, BeginGrowth(t)
    PROVE  TableInv' /\ Stays
<1> DEFINE i == HighIndex(NextHandleNeedingPool)
<1>0. TableTypes /\ GrowInv(t) /\ InfoInv /\ TreeInv /\ Pool \in [Blocks -> PoolType]
    BY DEF TableInv, TableTypes
<1>1. /\ pc[t] = "idle" /\ TableCode.Ptr # NULL
      /\ \A u \in Threads : ~Growing(u)
      /\ TableCode.Level = 2 => Hi(Pages) < HIGHLEVEL_COUNT
      /\ UNCHANGED <<shared, walk>>
    BY <1>0 DEF BeginGrowth, TreeInv, HighIndex, Hi, Pages
<1>2. PICK label \in {"AllocateMid", "AllocateLow", "AllocateHigh"} :
         /\ Goto(t, label)
         /\ label = "AllocateHigh" => TableCode.Level = 1 /\ ~(Pages < MIDLEVEL_COUNT)
         /\ label = "AllocateMid" => TableCode.Level = 0 \/ (TableCode.Level = 2 /\ Pool[TableCode.Ptr].slot[Hi(Pages)] = NULL)
         /\ label = "AllocateLow" =>
              \/ TableCode.Level = 1 /\ Pages < MIDLEVEL_COUNT
              \/ TableCode.Level = 2 /\ Pool[TableCode.Ptr].slot[Hi(Pages)] # NULL
    <2>1. TableCode.Level \in {0, 1, 2}
        BY <1>0 DEF TableTypes
    <2>2. HighIndex(NextHandleNeedingPool) = Hi(Pages) /\ PageOf(NextHandleNeedingPool) = Pages
        BY DEF HighIndex, Hi, Pages
    <2>3. QED
        BY <2>1, <2>2 DEF BeginGrowth
<1>3. /\ Pool' = Pool /\ TableCode' = TableCode /\ NextHandleNeedingPool' = NextHandleNeedingPool
      /\ ExtraInfoPages' = ExtraInfoPages /\ Handle' = Handle /\ TableLevel' = TableLevel /\ InfoTable' = InfoTable
      /\ NewHighLevel' = NewHighLevel /\ NewMidLevel' = NewMidLevel /\ NewLowLevel' = NewLowLevel
      /\ pc' = [pc EXCEPT ![t] = label]
    BY <1>1, <1>2 DEF shared, walk, growth, Goto
<1>4. TableTypes' /\ Alone(t) /\ pc'[t] = label
    BY <1>0, <1>3 DEF TableTypes, Alone, GrowPCs
<1>5. Linked' = Linked /\ Pages' = Pages /\ Linked = Pages
    <2>1. \A u \in Threads : pc[u] # "AddPage" /\ pc'[u] # "AddPage"
        BY <1>1, <1>4 DEF Growing, Alone
    <2>2. QED
        BY <1>3, <2>1 DEF Linked, Pages
<1>6. TreeInv'
    <2>1. Grows /\ Quiet
        BY <1>3, <1>5 DEF Grows, Quiet
    <2>2. QED
        BY <1>0, <1>1, <1>4, <2>1, TreeKept
<1>7. InfoInv'
    <2>1. \A u \in Threads : pc'[u] = "InfoCas" => pc[u] = "InfoCas" /\ InfoTable'[u] = InfoTable[u]
        BY <1>3, <1>4 DEF Alone
    <2>2. QED
        BY <1>0, <1>3, <1>4, <2>1, InfoKept
<1>8. ASSUME NEW u \in Threads \ {t} PROVE WalkInv(u)' /\ GrowInv(u)'
    <2>1. WalkInv(u) /\ GrowInv(u) /\ pc'[u] = pc[u] /\ ~Growing(u)
        BY <1>1, <1>4 DEF TableInv, Alone
    <2>2. WalkInv(u)'
        BY <1>3, <2>1, Zenon DEF WalkInv, IsPage, IsA
    <2>3. GrowInv(u)'
        BY <1>3, <2>1 DEF GrowInv, Growing, GrowPCs
    <2>4. QED
        BY <2>2, <2>3
<1>9. WalkInv(t)'
    BY <1>4 DEF WalkInv, WalkPCs
<1>10. GrowInv(t)'
    <2>1. \A u \in Threads : Growing(u)' => u = t
        BY <1>1, <1>4 DEF Growing, Alone
    <2>2. NewHighLevel'[t] = NULL /\ NewMidLevel'[t] = NULL
        BY <1>0, <1>1, <1>3 DEF GrowInv, GrowPCs
    <2>3. TableCode.Level = 1 => Pages <= MIDLEVEL_COUNT /\ Pages \in Nat /\ MIDLEVEL_COUNT \in Nat
        BY <1>0, <1>1, <1>5, Numbers, HandleTableAssumptions DEF TreeInv, LevelOne
    <2>4. QED
        BY <1>1, <1>2, <1>3, <1>4, <1>5, <2>1, <2>2, <2>3 DEF GrowInv, GrowPCs
<1>11. Stays
    BY <1>3 DEF Stays, Grows
<1>12. QED
    BY <1>4, <1>6, <1>7, <1>8, <1>9, <1>10, <1>11 DEF TableInv

\* The others while a thread grows the table.
LEMMA OthersDoNotGrow ==
    ASSUME TableInv, NEW t \in Threads, Growing(t), Alone(t), NEW u \in Threads \ {t}
    PROVE  GrowInv(u)'
<1>1. ~Growing(u) /\ GrowInv(u)
    BY DEF TableInv, GrowInv
<1>2. /\ pc'[u] = pc[u] /\ NewHighLevel'[u] = NewHighLevel[u] /\ NewMidLevel'[u] = NewMidLevel[u]
    BY DEF Alone
<1>3. QED
    BY <1>1, <1>2 DEF GrowInv, Growing, GrowPCs

\* A growth that allocates, or gives back what it has.
LEMMA AllocationStep ==
    ASSUME TableInv, TableTypes', NEW t \in Threads, Growing(t), pc[t] # "AddPage", Alone(t),
           pc'[t] \in {"idle", "AllocateMid", "AllocateLow", "Publish"},
           TableCode' = TableCode, NextHandleNeedingPool' = NextHandleNeedingPool,
           \A b \in Blocks :
              \/ Pool'[b] = Pool[b]
              \/ Pool[b].kind = "none" /\ Pool'[b] \in {Zeroed("mid"), Zeroed("high"), LowLevel(NextHandleNeedingPool)}
              \/ Pool[b] \in {Zeroed("mid"), Zeroed("high")} /\ Pool'[b] = Unallocated,
           GrowInv(t)'
    PROVE  TableInv' /\ Stays
<1>0. TableTypes /\ TreeInv /\ InfoInv /\ NextHandleNeedingPool \in Nat
    BY DEF TableInv, TableTypes
<1>1. ASSUME NEW b \in Blocks
      PROVE  /\ Pool[b].kind = "low" => Pool'[b] = Pool[b]
             /\ Pool[b].kind = "info" => Pool'[b] = Pool[b]
             /\ Pool[b].kind = "mid" /\ (\E i \in Slots("mid") : Pool[b].slot[i] # NULL) => Pool'[b] = Pool[b]
             /\ Pool[b].kind = "high" /\ (\E i \in Slots("high") : Pool[b].slot[i] # NULL) => Pool'[b] = Pool[b]
             /\ Pool'[b].kind = "low" => Pool'[b] = Pool[b] \/ Pool'[b].info = NULL
             /\ Pool'[b].kind = "info" => Pool'[b] = Pool[b]
    BY <1>0, Contents
<1>2. Grows
    BY <1>1 DEF Grows
<1>3. Linked' = Linked
    BY LinkedKept
<1>4. Quiet
    BY <1>1, <1>3 DEF Quiet
<1>5. TableCode.Ptr # NULL
    BY <1>0 DEF TreeInv, Growing
<1>6. TreeInv'
    BY <1>0, <1>2, <1>4, <1>5, TreeKept
<1>7. InfoInv'
    <2>1. \A u \in Threads : pc'[u] = "InfoCas" => pc[u] = "InfoCas" /\ InfoTable'[u] = InfoTable[u]
        BY DEF Alone
    <2>2. \A b \in Blocks : Pool'[b].kind = "low" =>
              Pool'[b].info = NULL \/ (Pool[b].kind = "low" /\ Pool'[b].info = Pool[b].info)
        BY <1>1
    <2>3. \A b \in Blocks : Pool[b].kind = "info" => Pool'[b].kind = "info"
        BY <1>1
    <2>4. QED
        BY <1>0, <2>1, <2>2, <2>3, InfoKept
<1>8. ASSUME NEW u \in Threads \ {t} PROVE WalkInv(u)' /\ GrowInv(u)'
    <2>1. WalkInv(u) /\ NextHandleNeedingPool' >= NextHandleNeedingPool
        BY <1>0 DEF TableInv
    <2>2. /\ pc'[u] = pc[u] /\ Handle'[u] = Handle[u] /\ TableLevel'[u] = TableLevel[u] /\ InfoTable'[u] = InfoTable[u]
        BY DEF Alone
    <2>3. WalkInv(u)'
        BY <1>0, <1>2, <2>1, <2>2, WalkKept
    <2>4. QED
        BY <2>3, OthersDoNotGrow
<1>9. WalkInv(t)'
    BY DEF WalkInv, WalkPCs
<1>10. QED
    BY <1>2, <1>6, <1>7, <1>8, <1>9 DEF TableInv, Stays

\* A growth allocates the top level, or fails.
LEMMA AllocateHighInv ==
    ASSUME TableInv, NEW t \in Threads, AllocateHigh(t)
    PROVE  TableInv' /\ Stays
<1>0. /\ TableTypes /\ GrowInv(t) /\ pc[t] = "AllocateHigh" /\ Pool \in [Blocks -> PoolType] /\ Growing(t)
      /\ TableCode' = TableCode /\ NextHandleNeedingPool' = NextHandleNeedingPool /\ ExtraInfoPages' = ExtraInfoPages
      /\ Pages' = Pages
    BY DEF TableInv, TableTypes, AllocateHigh, Growing, Pages, PageOf
<1>1. CASE TableReturn(t) /\ UNCHANGED Pool
    <2>1. Alone(t) /\ pc'[t] = "idle" /\ NewHighLevel'[t] = NULL /\ NewMidLevel'[t] = NULL /\ TableTypes'
        BY <1>0, <1>1, Returned DEF TableTypes
    <2>2. GrowInv(t)'
        BY <2>1 DEF GrowInv, Growing, GrowPCs
    <2>3. QED
        BY <1>0, <1>1, <2>1, <2>2, AllocationStep
<1>2. CASE ~(TableReturn(t) /\ UNCHANGED Pool)
    <2>1. PICK b : b = NewBlock("high")
        OBVIOUS
    <2>2. /\ Available("high") # {} /\ Pool' = [Pool EXCEPT ![NewBlock("high")] = Zeroed("high")]
          /\ NewHighLevel' = [NewHighLevel EXCEPT ![t] = b] /\ pc' = [pc EXCEPT ![t] = "AllocateMid"]
          /\ Handle' = Handle /\ TableLevel' = TableLevel /\ InfoTable' = InfoTable
          /\ NewMidLevel' = NewMidLevel /\ NewLowLevel' = NewLowLevel
        BY <1>2, <2>1 DEF AllocateHigh, Goto
    <2>3. /\ b \in Blocks /\ b # NULL /\ Pool[b].kind = "none" /\ Pool' \in [Blocks -> PoolType]
          /\ Pool'[b] = Zeroed("high") /\ \A c \in Blocks : c # b => Pool'[c] = Pool[c]
        BY <1>0, <2>1, <2>2, AllocateFresh, Contents DEF Kinds
    <2>4. TableTypes' /\ Alone(t) /\ pc'[t] = "AllocateMid" /\ NewHighLevel'[t] = b
        BY <1>0, <2>2, <2>3 DEF TableTypes, Alone, GrowPCs, Pointer
    <2>5. GrowInv(t)'
        <3>1. TableCode.Level = 1 /\ Pages = MIDLEVEL_COUNT /\ NewMidLevel[t] = NULL
            BY <1>0 DEF GrowInv, GrowPCs
        <3>2. \A u \in Threads : Growing(u)' => u = t
            BY <1>0, <2>4 DEF Growing, Alone, GrowInv
        <3>3. Pool'[b] = Zeroed("high")'
            BY <2>3 DEF Zeroed, Slots
        <3>4. QED
            BY <1>0, <2>2, <2>3, <2>4, <3>1, <3>2, <3>3 DEF GrowInv, GrowPCs
    <2>6. QED
        BY <1>0, <2>3, <2>4, <2>5, AllocationStep
<1>3. QED
    BY <1>1, <1>2

\* It allocates a mid level table, or fails and frees the top level.
LEMMA AllocateMidInv ==
    ASSUME TableInv, NEW t \in Threads, AllocateMid(t)
    PROVE  TableInv' /\ Stays
<1>0. /\ TableTypes /\ GrowInv(t) /\ TreeInv /\ pc[t] = "AllocateMid" /\ Pool \in [Blocks -> PoolType] /\ Growing(t)
      /\ TableCode' = TableCode /\ NextHandleNeedingPool' = NextHandleNeedingPool /\ ExtraInfoPages' = ExtraInfoPages
      /\ Pages' = Pages
    BY DEF TableInv, TableTypes, AllocateMid, Growing, Pages, PageOf
<1>1. PICK high \in Pointer : high = NewHighLevel[t] /\ (high # NULL => high \in Blocks /\ Pool[high] = Zeroed("high"))
    BY <1>0 DEF TableTypes, GrowInv, Pointer
<1>2. CASE Pool' = Without({NewHighLevel[t]}) /\ TableReturn(t)
    <2>1. /\ Pool' \in [Blocks -> PoolType] /\ \A b \in Blocks : Pool'[b] = IF b = high THEN Unallocated ELSE Pool[b]
        BY <1>0, <1>1, <1>2, Contents DEF Without
    <2>2. Alone(t) /\ pc'[t] = "idle" /\ NewHighLevel'[t] = NULL /\ NewMidLevel'[t] = NULL /\ TableTypes'
        BY <1>0, <1>2, <2>1, Returned DEF TableTypes
    <2>3. GrowInv(t)'
        BY <2>2 DEF GrowInv, Growing, GrowPCs
    <2>4. \A b \in Blocks : Pool'[b] = Pool[b] \/ (Pool[b] = Zeroed("high") /\ Pool'[b] = Unallocated)
        BY <1>1, <2>1, NullIsNoBlock
    <2>5. QED
        BY <1>0, <2>2, <2>3, <2>4, AllocationStep
<1>3. CASE ~(Pool' = Without({NewHighLevel[t]}) /\ TableReturn(t))
    <2>1. PICK b : b = NewBlock("mid")
        OBVIOUS
    <2>2. /\ Available("mid") # {} /\ Pool' = [Pool EXCEPT ![NewBlock("mid")] = Zeroed("mid")]
          /\ NewMidLevel' = [NewMidLevel EXCEPT ![t] = b] /\ pc' = [pc EXCEPT ![t] = "AllocateLow"]
          /\ Handle' = Handle /\ TableLevel' = TableLevel /\ InfoTable' = InfoTable
          /\ NewHighLevel' = NewHighLevel /\ NewLowLevel' = NewLowLevel
        BY <1>3, <2>1 DEF AllocateMid, Goto
    <2>3. /\ b \in Blocks /\ b # NULL /\ Pool[b].kind = "none" /\ Pool' \in [Blocks -> PoolType]
          /\ Pool'[b] = Zeroed("mid") /\ \A c \in Blocks : c # b => Pool'[c] = Pool[c]
        BY <1>0, <2>1, <2>2, AllocateFresh, Contents DEF Kinds
    <2>4. TableTypes' /\ Alone(t) /\ pc'[t] = "AllocateLow" /\ NewMidLevel'[t] = b
        BY <1>0, <2>2, <2>3 DEF TableTypes, Alone, GrowPCs, Pointer
    <2>5. GrowInv(t)'
        <3>1. \A u \in Threads : Growing(u)' => u = t
            BY <1>0, <2>4 DEF Growing, Alone, GrowInv
        <3>2. Pool'[b] = Zeroed("mid")' /\ Zeroed("high")' = Zeroed("high")
            BY <2>3 DEF Zeroed, Slots
        <3>3. high # NULL => Pool'[high] = Zeroed("high")
            BY <1>1, <2>3, Contents
        <3>4. TableCode.Level = 2 => Pool'[TableCode.Ptr] = Pool[TableCode.Ptr]
            <4>1. TableCode.Ptr \in Pointer /\ TableCode.Ptr # NULL
                BY <1>0 DEF TableTypes, TreeInv
            <4>2. TableCode.Level = 2 => Pool[TableCode.Ptr].kind = "high"
                BY <1>0, <4>1 DEF TreeInv, LevelTwo, IsA
            <4>3. QED
                BY <2>3, <4>1, <4>2 DEF Pointer
        <3>5. /\ high # NULL => TableCode.Level = 1 /\ Pages = MIDLEVEL_COUNT
              /\ \/ TableCode.Level = 0
                 \/ TableCode.Level = 1 /\ high # NULL
                 \/ /\ TableCode.Level = 2 /\ Hi(Pages) < HIGHLEVEL_COUNT
                    /\ Pool[TableCode.Ptr].slot[Hi(Pages)] = NULL
            BY <1>0, <1>1 DEF GrowInv
        <3>6. QED
            BY <1>0, <1>1, <2>2, <2>3, <2>4, <3>1, <3>2, <3>3, <3>4, <3>5 DEF GrowInv, GrowPCs
    <2>6. QED
        BY <1>0, <2>3, <2>4, <2>5, AllocationStep
<1>4. QED
    BY <1>2, <1>3

\* A number that is not larger has a multiple that is not larger.
LEMMA MultiplesGrow ==
    ASSUME NEW p \in Nat, NEW q \in Nat, NEW d \in Nat \ {0}, p <= q
    PROVE  p * d <= q * d
<1>1. CASE p = q
    BY <1>1, Multiples
<1>2. CASE p < q
    BY <1>2, Multiples, MultiplesApart
<1>3. QED
    BY <1>1, <1>2

\* The table never has more handles than the three levels hold.
LEMMA NextIsHandle ==
    ASSUME TableTypes, TreeInv
    PROVE  NextHandleNeedingPool \in Handles
<1> DEFINE L == LOWLEVEL_COUNT
           M == MIDLEVEL_COUNT
           H == HIGHLEVEL_COUNT
<1>1. /\ L \in Nat \ {0} /\ M \in Nat \ {0} /\ H \in Nat \ {0} /\ M > 1 /\ H > 1
      /\ Pages \in Nat /\ Linked \in Nat /\ Pages <= Linked /\ NextHandleNeedingPool \in Nat
    BY HandleTableAssumptions, Numbers DEF Linked, TableTypes
<1>2. M * H \in Nat /\ H * M = M * H /\ (M * H) * L = L * M * H /\ (M * H) * L \in Nat
    <2>1. M * H \in Nat
        BY <1>1, Multiples
    <2>2. (M * H) * L \in Nat
        BY <1>1, <2>1, Multiples
    <2>3. H * M = M * H /\ (M * H) * L = L * M * H
        BY <1>1
    <2>4. QED
        BY <2>1, <2>2, <2>3
<1>3. Handles = 0 .. (M * H) * L
    BY <1>2 DEF Handles
<1>4. CASE TableCode.Ptr = NULL
    BY <1>2, <1>3, <1>4 DEF TreeInv
<1>5. CASE TableCode.Ptr # NULL
    <2>1. M <= M * H
        <3>1. 1 * M <= H * M
            BY <1>1, MultiplesGrow
        <3>2. QED
            BY <1>1, <1>2, <3>1
    <2>2. Linked <= M * H
        <3>1. CASE TableCode.Level = 0
            BY <1>1, <1>2, <1>5, <2>1, <3>1 DEF TreeInv
        <3>2. CASE TableCode.Level = 1
            BY <1>1, <1>2, <1>5, <2>1, <3>2 DEF TreeInv, LevelOne
        <3>3. CASE TableCode.Level = 2
            <4>1. Linked > M /\ Hi(Linked - 1) < H
                BY <1>5, <3>3 DEF TreeInv, LevelTwo
            <4>2. PICK q \in Nat : q = Linked - 1
                BY <1>1, <4>1
            <4>3. Hi(q) \in Nat /\ Lo(q) \in 0 .. M - 1 /\ q = (Hi(q) * M) + Lo(q)
                BY <1>1, DivMod DEF Hi, Lo
            <4>4. (Hi(q) * M) + M <= H * M
                BY <1>1, <4>1, <4>2, <4>3, MultiplesApart
            <4>5. Hi(q) * M \in Nat
                BY <1>1, <4>3, Multiples
            <4>6. q < M * H
                BY <1>1, <1>2, <4>3, <4>4, <4>5
            <4>7. QED
                BY <1>1, <1>2, <4>2, <4>6
        <3>4. QED
            BY <3>1, <3>2, <3>3 DEF TableTypes
    <2>3. Pages * L <= (M * H) * L
        BY <1>1, <1>2, <2>2, MultiplesGrow
    <2>4. NextHandleNeedingPool = Pages * L
        BY <1>5 DEF TreeInv
    <2>5. QED
        BY <1>1, <1>2, <1>3, <2>3, <2>4
<1>6. QED
    BY <1>4, <1>5

\* It allocates the page, or fails and frees the other two.
LEMMA AllocateLowInv ==
    ASSUME TableInv, NEW t \in Threads, AllocateLow(t)
    PROVE  TableInv' /\ Stays
<1>0. /\ TableTypes /\ GrowInv(t) /\ TreeInv /\ pc[t] = "AllocateLow" /\ Pool \in [Blocks -> PoolType] /\ Growing(t)
      /\ TableCode' = TableCode /\ NextHandleNeedingPool' = NextHandleNeedingPool /\ ExtraInfoPages' = ExtraInfoPages
      /\ Pages' = Pages /\ NextHandleNeedingPool \in Handles
    BY NextIsHandle DEF TableInv, TableTypes, AllocateLow, Growing, Pages, PageOf
<1>1. PICK high \in Pointer : high = NewHighLevel[t] /\ (high # NULL => high \in Blocks /\ Pool[high] = Zeroed("high"))
    BY <1>0 DEF TableTypes, GrowInv, Pointer
<1>2. PICK mid \in Pointer : mid = NewMidLevel[t] /\ (mid # NULL => mid \in Blocks /\ Pool[mid] = Zeroed("mid"))
    BY <1>0 DEF TableTypes, GrowInv, Pointer
<1>3. CASE Pool' = Without({NewHighLevel[t], NewMidLevel[t]}) /\ TableReturn(t)
    <2>1. /\ Pool' \in [Blocks -> PoolType]
          /\ \A b \in Blocks : Pool'[b] = IF b = high \/ b = mid THEN Unallocated ELSE Pool[b]
        BY <1>0, <1>1, <1>2, <1>3, Contents DEF Without
    <2>2. Alone(t) /\ pc'[t] = "idle" /\ NewHighLevel'[t] = NULL /\ NewMidLevel'[t] = NULL /\ TableTypes'
        BY <1>0, <1>3, <2>1, Returned DEF TableTypes
    <2>3. GrowInv(t)'
        BY <2>2 DEF GrowInv, Growing, GrowPCs
    <2>4. \A b \in Blocks : Pool'[b] = Pool[b] \/ (Pool[b] \in {Zeroed("mid"), Zeroed("high")} /\ Pool'[b] = Unallocated)
        BY <1>1, <1>2, <2>1, NullIsNoBlock
    <2>5. QED
        BY <1>0, <2>2, <2>3, <2>4, AllocationStep
<1>4. CASE ~(Pool' = Without({NewHighLevel[t], NewMidLevel[t]}) /\ TableReturn(t))
    <2>1. PICK b : b = NewBlock("low")
        OBVIOUS
    <2>2. /\ Available("low") # {} /\ Pool' = [Pool EXCEPT ![NewBlock("low")] = LowLevel(NextHandleNeedingPool)]
          /\ NewLowLevel' = [NewLowLevel EXCEPT ![t] = b] /\ pc' = [pc EXCEPT ![t] = "Publish"]
          /\ Handle' = Handle /\ TableLevel' = TableLevel /\ InfoTable' = InfoTable
          /\ NewHighLevel' = NewHighLevel /\ NewMidLevel' = NewMidLevel
        BY <1>4, <2>1 DEF AllocateLow, Goto
    <2>3. /\ b \in Blocks /\ b # NULL /\ Pool[b].kind = "none" /\ Pool' \in [Blocks -> PoolType]
          /\ Pool'[b] = LowLevel(NextHandleNeedingPool) /\ \A c \in Blocks : c # b => Pool'[c] = Pool[c]
        BY <1>0, <2>1, <2>2, AllocateFresh, Contents DEF Kinds
    <2>4. TableTypes' /\ Alone(t) /\ pc'[t] = "Publish" /\ NewLowLevel'[t] = b
        BY <1>0, <2>2, <2>3 DEF TableTypes, Alone, GrowPCs, Pointer
    <2>5. GrowInv(t)'
        <3>1. \A u \in Threads : Growing(u)' => u = t
            BY <1>0, <2>4 DEF Growing, Alone, GrowInv
        <3>2. /\ Pool'[b] = LowLevel(NextHandleNeedingPool)' /\ Zeroed("high")' = Zeroed("high")
              /\ Zeroed("mid")' = Zeroed("mid")
            BY <1>0, <2>3 DEF Zeroed, Slots, LowLevel
        <3>3. (high # NULL => Pool'[high] = Zeroed("high")) /\ (mid # NULL => Pool'[mid] = Zeroed("mid"))
            BY <1>1, <1>2, <2>3, Contents
        <3>4. TableCode.Level = 2 => Pool'[TableCode.Ptr] = Pool[TableCode.Ptr]
            <4>1. TableCode.Ptr \in Pointer /\ TableCode.Ptr # NULL
                BY <1>0 DEF TableTypes, TreeInv
            <4>2. TableCode.Level = 2 => Pool[TableCode.Ptr].kind = "high"
                BY <1>0, <4>1 DEF TreeInv, LevelTwo, IsA
            <4>3. QED
                BY <2>3, <4>1, <4>2 DEF Pointer
        <3>5. /\ high # NULL => TableCode.Level = 1 /\ Pages = MIDLEVEL_COUNT
              /\ mid # NULL =>
                 \/ TableCode.Level = 0
                 \/ TableCode.Level = 1 /\ high # NULL
                 \/ /\ TableCode.Level = 2 /\ Hi(Pages) < HIGHLEVEL_COUNT
                    /\ Pool[TableCode.Ptr].slot[Hi(Pages)] = NULL
              /\ mid = NULL =>
                 \/ TableCode.Level = 1 /\ Pages < MIDLEVEL_COUNT /\ high = NULL
                 \/ /\ TableCode.Level = 2 /\ Hi(Pages) < HIGHLEVEL_COUNT
                    /\ Pool[TableCode.Ptr].slot[Hi(Pages)] # NULL
            BY <1>0, <1>1, <1>2 DEF GrowInv
        <3>6. QED
            BY <1>0, <1>1, <1>2, <2>2, <2>3, <2>4, <3>1, <3>2, <3>3, <3>4, <3>5 DEF GrowInv, GrowPCs
    <2>6. QED
        BY <1>0, <2>3, <2>4, <2>5, AllocationStep
<1>5. QED
    BY <1>3, <1>4

\* A page stays a page.
LEMMA PageKept ==
    ASSUME Grows, NEW c \in Pointer, NEW p, IsPage(c, p)
    PROVE  IsPage(c, p)'
    BY DEF IsPage, IsA, Grows, Pointer

\* A link changes no block but tables of pointers, and no block becomes another.
KindsKept ==
    \A b \in Blocks :
        /\ Pool[b].kind \notin {"mid", "high"} => Pool'[b] = Pool[b]
        /\ Pool'[b].kind = Pool[b].kind

\* What a growth had in hand is in the tree.
Placed(t) ==
    \E low, mid, high \in Pointer :
        /\ low = NewLowLevel[t] /\ mid = NewMidLevel[t] /\ high = NewHighLevel[t]
        /\ TreeLow(low)'
        /\ mid # NULL => TreeMid(mid)'
        /\ high # NULL => TreeHigh(high)'

\* A growth that has linked its page.
LEMMA PublishStep ==
    ASSUME TableInv, NEW t \in Threads, pc[t] = "Publish", pc' = [pc EXCEPT ![t] = "AddPage"],
           Pool' \in [Blocks -> PoolType], TableCode' \in [Level : 0 .. 2, Ptr : Pointer],
           UNCHANGED <<NextHandleNeedingPool, ExtraInfoPages, walk>>,
           Stays, TreeInv',
           \A b \in Blocks : Pool[b].kind \notin {"mid", "high"} => Pool'[b] = Pool[b],
           \A b \in Blocks : Pool[b].kind \in {"mid", "high"} => Pool'[b].kind = Pool[b].kind
    PROVE  TableInv' /\ Stays
<1>0. /\ TableTypes /\ InfoInv /\ Growing(t)
      /\ NextHandleNeedingPool' = NextHandleNeedingPool /\ ExtraInfoPages' = ExtraInfoPages
      /\ Handle' = Handle /\ TableLevel' = TableLevel /\ InfoTable' = InfoTable
      /\ NewHighLevel' = NewHighLevel /\ NewMidLevel' = NewMidLevel /\ NewLowLevel' = NewLowLevel
    BY DEF TableInv, Growing, walk, growth
<1>1. TableTypes' /\ Alone(t) /\ pc'[t] = "AddPage" /\ Grows
    BY <1>0 DEF Stays, TableTypes, Alone, GrowPCs
<1>2. InfoInv'
    <2>1. \A u \in Threads : pc'[u] = "InfoCas" => pc[u] = "InfoCas" /\ InfoTable'[u] = InfoTable[u]
        BY <1>0, <1>1 DEF Alone
    <2>2. \A b \in Blocks : Pool'[b].kind = "low" => Pool[b].kind = "low" /\ Pool'[b].info = Pool[b].info
        OBVIOUS
    <2>3. \A b \in Blocks : Pool[b].kind = "info" => Pool'[b].kind = "info"
        OBVIOUS
    <2>4. QED
        BY <1>0, <1>1, <2>1, <2>2, <2>3, InfoKept
<1>3. ASSUME NEW u \in Threads \ {t} PROVE WalkInv(u)' /\ GrowInv(u)'
    <2>1. WalkInv(u) /\ NextHandleNeedingPool' >= NextHandleNeedingPool
        BY <1>0 DEF TableInv, TableTypes
    <2>2. /\ pc'[u] = pc[u] /\ Handle'[u] = Handle[u] /\ TableLevel'[u] = TableLevel[u] /\ InfoTable'[u] = InfoTable[u]
        BY <1>1 DEF Alone
    <2>3. WalkInv(u)'
        BY <1>0, <1>1, <2>1, <2>2, WalkKept
    <2>4. QED
        BY <1>0, <1>1, <2>3, OthersDoNotGrow
<1>4. WalkInv(t)'
    BY <1>1 DEF WalkInv, WalkPCs
<1>5. GrowInv(t)'
    <2>1. \A u \in Threads : Growing(u)' => u = t
        BY <1>0, <1>1 DEF TableInv, GrowInv, Growing, Alone
    <2>2. QED
        BY <1>1, <2>1 DEF GrowInv, GrowPCs
<1>6. QED
    BY <1>1, <1>2, <1>3, <1>4, <1>5 DEF TableInv

\* What a growth has when it links its page: the new page, and the tables above
\* it that the page needs.
LEMMA InHandAtPublish ==
    ASSUME TableInv, NEW t \in Threads, pc[t] = "Publish"
    PROVE  /\ TableTypes /\ TreeInv /\ TableCode.Ptr \in Blocks /\ Linked = Pages
           /\ NextHandleNeedingPool = Pages * LOWLEVEL_COUNT /\ Pages > 0
           /\ NewLowLevel[t] \in Blocks /\ Pool[NewLowLevel[t]].kind = "low" /\ IsPage(NewLowLevel[t], Pages)
           /\ NewMidLevel[t] # NULL => NewMidLevel[t] \in Blocks /\ Pool[NewMidLevel[t]] = Zeroed("mid")
           /\ NewHighLevel[t] # NULL => NewHighLevel[t] \in Blocks /\ Pool[NewHighLevel[t]] = Zeroed("high")
<1>1. TableTypes /\ TreeInv /\ GrowInv(t) /\ TableCode.Ptr # NULL /\ NextHandleNeedingPool \in Nat
    BY DEF TableInv, TreeInv, TableTypes
<1>2. TableCode.Ptr \in Blocks /\ NextHandleNeedingPool = Pages * LOWLEVEL_COUNT /\ Pages > 0
    BY <1>1 DEF TreeInv, TableTypes, Pointer
<1>3. \A u \in Threads : pc[u] # "AddPage"
    BY <1>1 DEF GrowInv, Growing
<1>4. Linked = Pages
    BY <1>3 DEF Linked
<1>5. NewLowLevel[t] \in Blocks /\ Pool[NewLowLevel[t]] = LowLevel(NextHandleNeedingPool)
    BY <1>1 DEF GrowInv, TableTypes, Pointer
<1>6. Pool[NewLowLevel[t]].kind = "low" /\ IsPage(NewLowLevel[t], Pages)
    BY <1>1, <1>2, <1>5, Contents, NullIsNoBlock DEF IsPage, IsA
<1>7. QED
    BY <1>1, <1>2, <1>4, <1>5, <1>6 DEF GrowInv, TableTypes, Pointer

\* The link counts.
LEMMA PublishLinks ==
    ASSUME TableInv, NEW t \in Threads, pc[t] = "Publish", pc' = [pc EXCEPT ![t] = "AddPage"],
           UNCHANGED <<NextHandleNeedingPool, ExtraInfoPages, walk>>
    PROVE  Pages' = Pages /\ Linked' = Pages + 1 /\ Pages \in Nat /\ NextHandleNeedingPool' = Pages * LOWLEVEL_COUNT
<1>1. pc'[t] = "AddPage"
    BY DEF TableInv, TableTypes
<1>2. NextHandleNeedingPool' = NextHandleNeedingPool
    OBVIOUS
<1>3. NextHandleNeedingPool = Pages * LOWLEVEL_COUNT
    BY InHandAtPublish
<1>4. Pages' = Pages
    BY <1>2 DEF Pages, PageOf
<1>5. QED
    BY <1>1, <1>2, <1>3, <1>4, Numbers DEF TableInv, Linked

\* The five ways to link a page, as Publish writes the pool: the first mid level
\* table, its next place, the high level table, its next place, and the next place
\* of the mid level table at hand.
LinkFirst(t) ==
    Pool' = [Pool EXCEPT ![NewMidLevel[t]].slot = FirstMid(t)]

LinkSecond(t) ==
    Pool' = [Pool EXCEPT ![TableCode.Ptr].slot[PageOf(NextHandleNeedingPool)] = NewLowLevel[t]]

LinkThird(t) ==
    Pool' = [Pool EXCEPT ![NewMidLevel[t]].slot = LaterMid(t),
                         ![NewHighLevel[t]].slot[0] = TableCode.Ptr,
                         ![NewHighLevel[t]].slot[1] = NewMidLevel[t]]

LinkFourth(t) ==
    Pool' = [Pool EXCEPT ![NewMidLevel[t]].slot = LaterMid(t),
                         ![TableCode.Ptr].slot[HighIndex(NextHandleNeedingPool)] = NewMidLevel[t]]

LinkFifth(t) ==
    Pool' = [Pool EXCEPT ![Pool[TableCode.Ptr].slot[HighIndex(NextHandleNeedingPool)]].slot[MidIndex(NextHandleNeedingPool)] = NewLowLevel[t]]

\* From one level to two: the only page becomes the first of two.
LEMMA PublishFirst ==
    ASSUME TableInv, NEW t \in Threads, pc[t] = "Publish", pc' = [pc EXCEPT ![t] = "AddPage"],
           UNCHANGED <<NextHandleNeedingPool, ExtraInfoPages, walk>>,
           TableCode.Level = 0,
           LinkFirst(t),
           TableCode' = [Level |-> 1, Ptr |-> NewMidLevel[t]]
    PROVE  TableInv' /\ Stays /\ KindsKept /\ Placed(t)
<1>0. /\ TableTypes /\ TreeInv /\ TableCode.Ptr \in Blocks /\ Linked = Pages
      /\ NextHandleNeedingPool = Pages * LOWLEVEL_COUNT /\ Pages > 0
      /\ Pool \in [Blocks -> PoolType]
    BY InHandAtPublish, Numbers
<1>1. PICK root \in Blocks : root = TableCode.Ptr
    BY <1>0
<1>2. Pages = 1 /\ IsPage(root, 0)
    BY <1>0, <1>1, NullIsNoBlock DEF TreeInv
<1>3. PICK low \in Blocks : low = NewLowLevel[t] /\ Pool[low].kind = "low" /\ IsPage(low, 1)
    BY <1>2, InHandAtPublish
<1>4. PICK mid \in Blocks : mid = NewMidLevel[t] /\ Pool[mid] = Zeroed("mid")
    <2>1. NewMidLevel[t] # NULL
        BY DEF TableInv, GrowInv
    <2>2. QED
        BY <2>1, InHandAtPublish
<1>5. PICK first \in [Slots("mid") -> Pointer] :
          /\ first = FirstMid(t)
          /\ first[0] = root /\ first[1] = low /\ \A i \in Slots("mid") : i # 0 /\ i # 1 => first[i] = NULL
    <2>1. FirstMid(t) = [i \in Slots("mid") |-> IF i = 0 THEN root ELSE IF i = 1 THEN low ELSE NULL]
        BY <1>1, <1>3, FirstSlots DEF FirstMid
    <2>2. root \in Pointer /\ low \in Pointer /\ NULL \in Pointer
        BY DEF Pointer
    <2>3. QED
        BY <2>1, <2>2, FirstSlots
<1>6. /\ Pool'[mid].kind = "mid" /\ Pool'[mid].slot = first /\ Pool'[mid] \in PoolType
      /\ \A b \in Blocks : b # mid => Pool'[b] = Pool[b]
      /\ Pool' \in [Blocks -> PoolType]
    <2>1. Pool[mid] \in [kind : {"mid"}, slot : [Slots("mid") -> Pointer]]
        BY <1>4, Contents DEF Zeroed
    <2>2. Pool' = [Pool EXCEPT ![mid] = [Pool[mid] EXCEPT !.slot = first]]
        BY <1>0, <1>4, <1>5 DEF LinkFirst
    <2>3. [Pool[mid] EXCEPT !.slot = first] \in [kind : {"mid"}, slot : [Slots("mid") -> Pointer]]
        BY <2>1
    <2>4. [Pool[mid] EXCEPT !.slot = first] \in PoolType
        BY <2>3 DEF PoolType
    <2>5. QED
        BY <1>0, <2>1, <2>2, <2>4
<1>7. Pool' \in [Blocks -> PoolType] /\ TableCode' \in [Level : 0 .. 2, Ptr : Pointer]
    <2>1. Pool' \in [Blocks -> PoolType]
        BY <1>6
    <2>2. mid \in Pointer /\ 1 \in 0 .. 2 /\ TableCode' = [Level |-> 1, Ptr |-> mid]
        BY <1>4 DEF Pointer
    <2>3. QED
        BY <2>1, <2>2
<1>8. Grows
    BY <1>4, <1>6, Contents DEF Grows
<1>9. TreeInv'
    <2>0. Pages' = Pages /\ Linked' = Pages + 1 /\ Pages \in Nat /\ NextHandleNeedingPool' = Pages * LOWLEVEL_COUNT
        BY PublishLinks
    <2>1. Pages' = 1 /\ Linked' = 2 /\ NextHandleNeedingPool' = Pages' * LOWLEVEL_COUNT
        BY <1>2, <2>0
    <2>2. IsPage(root, 0)' /\ IsPage(low, 1)'
        BY <1>2, <1>3, <1>8, PageKept DEF Pointer
    <2>3. ASSUME NEW p \in Slots("mid")
          PROVE  IF p < 2 THEN IsPage(first[p], p)' ELSE first[p] = NULL
        <3>1. p \in Nat
            BY FirstSlots
        <3>2. CASE p = 0
            BY <1>5, <2>2, <3>2
        <3>3. CASE p = 1
            BY <1>5, <2>2, <3>3
        <3>4. CASE p > 1
            BY <1>5, <3>1, <3>4
        <3>5. QED
            BY <3>1, <3>2, <3>3, <3>4
    <2>4. TableCode'.Ptr = mid /\ TableCode'.Level = 1 /\ mid # NULL
        BY <1>4, NullIsNoBlock
    <2>5. IsA(mid, "mid")'
        BY <1>6, <2>4 DEF IsA
    <2>6. LevelOne'
        BY <1>6, <2>1, <2>3, <2>4, <2>5, HandleTableAssumptions DEF LevelOne
    <2>7. QED
        BY <2>1, <2>4, <2>6 DEF TreeInv
<1>10. /\ \A b \in Blocks : Pool[b].kind \notin {"mid", "high"} => Pool'[b] = Pool[b]
       /\ \A b \in Blocks : Pool[b].kind \in {"mid", "high"} => Pool'[b].kind = Pool[b].kind
    <2>1. Pool[mid].kind = "mid"
        BY <1>4, Contents
    <2>2. QED
        BY <1>6, <2>1
<1>11. Stays
    BY <1>1, <1>4, <1>5, <1>6, <1>8 DEF Stays
<1>12. Placed(t)
    <2>1. NewHighLevel[t] = NULL
        BY DEF TableInv, GrowInv
    <2>2. TableCode'.Level = 1 /\ TableCode'.Ptr = mid
        BY <1>4
    <2>3. TreeLow(low)' /\ TreeMid(mid)'
        BY <1>5, <1>6, <2>2, FirstSlots DEF TreeLow, TreeMid
    <2>4. QED
        BY <1>3, <1>4, <2>1, <2>3 DEF Placed, Pointer
<1>13. QED
    BY <1>7, <1>9, <1>10, <1>11, <1>12, PublishStep DEF KindsKept

\* Two levels: the page goes to the next place of the mid level table.
LEMMA PublishSecond ==
    ASSUME TableInv, NEW t \in Threads, pc[t] = "Publish", pc' = [pc EXCEPT ![t] = "AddPage"],
           UNCHANGED <<NextHandleNeedingPool, ExtraInfoPages, walk>>,
           TableCode.Level = 1, NewHighLevel[t] = NULL,
           LinkSecond(t),
           TableCode' = TableCode
    PROVE  TableInv' /\ Stays /\ KindsKept /\ Placed(t)
<1>0. /\ TableTypes /\ TreeInv /\ TableCode.Ptr \in Blocks /\ Linked = Pages
      /\ NextHandleNeedingPool = Pages * LOWLEVEL_COUNT /\ Pages > 0
      /\ Pool \in [Blocks -> PoolType] /\ Pages \in Nat /\ MIDLEVEL_COUNT \in Nat
    BY InHandAtPublish, Numbers, HandleTableAssumptions
<1>1. PICK root \in Blocks : root = TableCode.Ptr
    BY <1>0
<1>2. PICK n \in Slots("mid") : n = Pages /\ n < MIDLEVEL_COUNT /\ n > 0 /\ n \in Nat
    <2>1. NewMidLevel[t] = NULL /\ Pages < MIDLEVEL_COUNT
        BY DEF TableInv, GrowInv
    <2>2. QED
        BY <1>0, <2>1, FirstSlots
<1>3. PICK low \in Blocks : low = NewLowLevel[t] /\ Pool[low].kind = "low" /\ IsPage(low, n)
    BY <1>2, InHandAtPublish
<1>4. LevelOne /\ Pool[root].kind = "mid"
    BY <1>0, <1>1, NullIsNoBlock DEF TreeInv, LevelOne, IsA
<1>5. PICK old \in [Slots("mid") -> Pointer] : old = Pool[root].slot
    BY <1>0, <1>4, Kind
<1>6. \A p \in Slots("mid") : IF p < n THEN IsPage(old[p], p) ELSE old[p] = NULL
    BY <1>0, <1>1, <1>2, <1>4, <1>5 DEF LevelOne
<1>7. PICK new \in [Slots("mid") -> Pointer] : new = [old EXCEPT ![n] = low] /\ new[n] = low /\ \A p \in Slots("mid") : p # n => new[p] = old[p]
    <2>1. low \in Pointer
        BY DEF Pointer
    <2>2. [old EXCEPT ![n] = low] \in [Slots("mid") -> Pointer]
        BY <2>1
    <2>3. [old EXCEPT ![n] = low][n] = low /\ \A p \in Slots("mid") : p # n => [old EXCEPT ![n] = low][p] = old[p]
        OBVIOUS
    <2>4. QED
        BY <2>2, <2>3
<1>8. /\ Pool'[root].kind = "mid" /\ Pool'[root].slot = new /\ Pool'[root] \in PoolType
      /\ \A b \in Blocks : b # root => Pool'[b] = Pool[b]
      /\ Pool' \in [Blocks -> PoolType]
    <2>1. Pool[root] \in [kind : {"mid"}, slot : [Slots("mid") -> Pointer]]
        BY <1>0, <1>4, Kind
    <2>2. Pool' = [Pool EXCEPT ![root] = [Pool[root] EXCEPT !.slot = new]]
        <3>1. PageOf(NextHandleNeedingPool) = n
            BY <1>2 DEF Pages
        <3>2. Pool' = [Pool EXCEPT ![root].slot[n] = low]
            BY <1>1, <1>3, <3>1 DEF LinkSecond
        <3>3. QED
            BY <1>5, <1>7, <3>2
    <2>3. [Pool[root] EXCEPT !.slot = new] \in [kind : {"mid"}, slot : [Slots("mid") -> Pointer]]
        BY <2>1
    <2>4. [Pool[root] EXCEPT !.slot = new] \in PoolType
        BY <2>3 DEF PoolType
    <2>5. QED
        BY <1>0, <2>1, <2>2, <2>4
<1>9. Pool' \in [Blocks -> PoolType] /\ TableCode' \in [Level : 0 .. 2, Ptr : Pointer]
    <2>1. Pool' \in [Blocks -> PoolType]
        BY <1>8
    <2>2. QED
        BY <1>0, <2>1 DEF TableTypes
<1>10. Grows
    <2>1. old[n] = NULL
        BY <1>2, <1>6
    <2>2. \A i \in Slots("mid") : Pool[root].slot[i] # NULL => Pool'[root].slot[i] = Pool[root].slot[i]
        BY <1>5, <1>7, <1>8, <2>1
    <2>3. QED
        BY <1>4, <1>8, <2>2 DEF Grows
<1>11. TreeInv'
    <2>0. Pages' = Pages /\ Linked' = Pages + 1 /\ Pages \in Nat /\ NextHandleNeedingPool' = Pages * LOWLEVEL_COUNT
        BY PublishLinks
    <2>1. Pages' = n /\ Linked' = n + 1 /\ NextHandleNeedingPool' = Pages' * LOWLEVEL_COUNT
        BY <1>2, <2>0
    <2>2. ASSUME NEW p \in Slots("mid")
          PROVE  IF p < n + 1 THEN IsPage(new[p], p)' ELSE new[p] = NULL
        <3>1. p \in Nat /\ old[p] \in Pointer
            BY FirstSlots
        <3>2. CASE p = n
            <4>1. IsPage(low, n)'
                BY <1>3, <1>10, PageKept DEF Pointer
            <4>2. QED
                BY <1>7, <3>1, <3>2, <4>1
        <3>3. CASE p < n
            <4>1. IsPage(old[p], p)
                BY <1>6, <3>3
            <4>2. IsPage(old[p], p)'
                BY <1>10, <3>1, <4>1, PageKept
            <4>3. QED
                BY <1>2, <1>7, <3>1, <3>3, <4>2
        <3>4. CASE p > n
            BY <1>2, <1>6, <1>7, <3>1, <3>4
        <3>5. QED
            BY <1>2, <3>1, <3>2, <3>3, <3>4
    <2>3. TableCode'.Ptr = root /\ TableCode'.Level = 1 /\ root # NULL
        BY <1>1, NullIsNoBlock
    <2>4. IsA(root, "mid")'
        BY <1>8, <2>3 DEF IsA
    <2>5. n + 1 > 1 /\ n + 1 <= MIDLEVEL_COUNT
        BY <1>0, <1>2
    <2>6. LevelOne'
        BY <1>8, <2>1, <2>2, <2>3, <2>4, <2>5 DEF LevelOne
    <2>7. QED
        BY <1>2, <2>1, <2>3, <2>6 DEF TreeInv
<1>12. /\ \A b \in Blocks : Pool[b].kind \notin {"mid", "high"} => Pool'[b] = Pool[b]
       /\ \A b \in Blocks : Pool[b].kind \in {"mid", "high"} => Pool'[b].kind = Pool[b].kind
    BY <1>4, <1>8
<1>13. Stays
    BY <1>10 DEF Stays
<1>14. Placed(t)
    <2>1. NewHighLevel[t] = NULL /\ NewMidLevel[t] = NULL
        BY DEF TableInv, GrowInv
    <2>2. TableCode'.Level = 1 /\ TableCode'.Ptr = root
        BY <1>1
    <2>3. TreeLow(low)'
        BY <1>7, <1>8, <2>2, Zenon DEF TreeLow
    <2>4. QED
        BY <1>3, <2>1, <2>3 DEF Placed, Pointer
<1>15. QED
    BY <1>9, <1>11, <1>12, <1>13, <1>14, PublishStep DEF KindsKept

\* From two levels to three: the full mid level table becomes the first of two.
LEMMA PublishThird ==
    ASSUME TableInv, NEW t \in Threads, pc[t] = "Publish", pc' = [pc EXCEPT ![t] = "AddPage"],
           UNCHANGED <<NextHandleNeedingPool, ExtraInfoPages, walk>>,
           TableCode.Level = 1, NewHighLevel[t] # NULL,
           LinkThird(t),
           TableCode' = [Level |-> 2, Ptr |-> NewHighLevel[t]]
    PROVE  TableInv' /\ Stays /\ KindsKept /\ Placed(t)
<1> DEFINE M == MIDLEVEL_COUNT
<1>0. /\ TableTypes /\ TreeInv /\ TableCode.Ptr \in Blocks /\ Linked = Pages
      /\ NextHandleNeedingPool = Pages * LOWLEVEL_COUNT /\ Pages > 0
      /\ Pool \in [Blocks -> PoolType] /\ Pages \in Nat /\ M \in Nat /\ M > 1
    BY InHandAtPublish, Numbers, HandleTableAssumptions
<1>1. PICK root \in Blocks : root = TableCode.Ptr
    BY <1>0
<1>2. Pages = M /\ NewMidLevel[t] # NULL
    BY DEF TableInv, GrowInv
<1>3. PICK low \in Blocks : low = NewLowLevel[t] /\ Pool[low].kind = "low" /\ IsPage(low, M)
    BY <1>2, InHandAtPublish
<1>4. PICK mid \in Blocks : mid = NewMidLevel[t] /\ Pool[mid] = Zeroed("mid")
    BY <1>2, InHandAtPublish
<1>5. PICK high \in Blocks : high = NewHighLevel[t] /\ Pool[high] = Zeroed("high")
    BY InHandAtPublish
<1>6. LevelOne /\ Pool[root].kind = "mid"
    BY <1>0, <1>1, NullIsNoBlock DEF TreeInv, LevelOne, IsA
<1>7. PICK old \in [Slots("mid") -> Pointer] : old = Pool[root].slot
    BY <1>0, <1>6, Kind
<1>8. \A p \in Slots("mid") : IsPage(old[p], p) /\ old[p] # NULL
    BY <1>0, <1>1, <1>2, <1>6, <1>7, FirstSlots DEF LevelOne, IsPage, IsA
<1>9. root # mid /\ root # high /\ mid # high
    BY <1>4, <1>5, <1>6, <1>7, <1>8, Contents, FirstSlots
<1>10. PICK later \in [Slots("mid") -> Pointer] :
          later = LaterMid(t) /\ later[0] = low /\ \A i \in Slots("mid") : i # 0 => later[i] = NULL
    <2>1. low \in Pointer /\ Zeroed("mid").slot \in [Slots("mid") -> Pointer] /\ \A i \in Slots("mid") : Zeroed("mid").slot[i] = NULL
        BY Contents DEF Pointer
    <2>2. PICK z \in [Slots("mid") -> Pointer] : z = Zeroed("mid").slot /\ \A i \in Slots("mid") : z[i] = NULL
        BY <2>1
    <2>3. LaterMid(t) = [z EXCEPT ![0] = low]
        BY <1>3, <2>2 DEF LaterMid
    <2>4. [z EXCEPT ![0] = low] \in [Slots("mid") -> Pointer]
        BY <2>1
    <2>5. [z EXCEPT ![0] = low][0] = low /\ \A i \in Slots("mid") : i # 0 => [z EXCEPT ![0] = low][i] = NULL
        BY <2>2, FirstSlots
    <2>6. QED
        BY <2>3, <2>4, <2>5
<1>11. PICK top \in [Slots("high") -> Pointer] :
          /\ top = [[Zeroed("high").slot EXCEPT ![0] = root] EXCEPT ![1] = mid]
          /\ top[0] = root /\ top[1] = mid /\ \A i \in Slots("high") : i # 0 /\ i # 1 => top[i] = NULL
    <2>1. root \in Pointer /\ mid \in Pointer /\ Zeroed("high").slot \in [Slots("high") -> Pointer] /\ \A i \in Slots("high") : Zeroed("high").slot[i] = NULL
        BY Contents DEF Pointer
    <2>2. PICK z \in [Slots("high") -> Pointer] : z = Zeroed("high").slot /\ \A i \in Slots("high") : z[i] = NULL
        BY <2>1
    <2>3. [[z EXCEPT ![0] = root] EXCEPT ![1] = mid] \in [Slots("high") -> Pointer]
        BY <2>1
    <2>4. \A i \in Slots("high") : [[z EXCEPT ![0] = root] EXCEPT ![1] = mid][i] = IF i = 1 THEN mid ELSE IF i = 0 THEN root ELSE NULL
        BY <2>2
    <2>5. PICK w \in [Slots("high") -> Pointer] : w = [[z EXCEPT ![0] = root] EXCEPT ![1] = mid]
        BY <2>3
    <2>6. w = [[Zeroed("high").slot EXCEPT ![0] = root] EXCEPT ![1] = mid]
        BY <2>2, <2>5
    <2>7. w[0] = root /\ w[1] = mid /\ \A i \in Slots("high") : i # 0 /\ i # 1 => w[i] = NULL
        BY <2>4, <2>5, FirstSlots
    <2>8. QED
        BY <2>6, <2>7
<1>12. /\ Pool'[mid].kind = "mid" /\ Pool'[mid].slot = later /\ Pool'[mid] \in PoolType
       /\ Pool'[high].kind = "high" /\ Pool'[high].slot = top /\ Pool'[high] \in PoolType
       /\ \A b \in Blocks : b # mid /\ b # high => Pool'[b] = Pool[b]
       /\ Pool' \in [Blocks -> PoolType]
    <2>1. /\ Pool[mid] \in [kind : {"mid"}, slot : [Slots("mid") -> Pointer]]
          /\ Pool[high] \in [kind : {"high"}, slot : [Slots("high") -> Pointer]]
        BY <1>4, <1>5, Contents DEF Zeroed
    <2>2. PICK x \in PoolType : x = [Pool[mid] EXCEPT !.slot = later] /\ x.kind = "mid" /\ x.slot = later
        <3>1. [Pool[mid] EXCEPT !.slot = later] \in [kind : {"mid"}, slot : [Slots("mid") -> Pointer]]
            BY <2>1
        <3>2. [Pool[mid] EXCEPT !.slot = later] \in PoolType
            BY <3>1 DEF PoolType
        <3>3. QED
            BY <2>1, <3>2
    <2>3. PICK y \in PoolType : y = [[Pool[high] EXCEPT !.slot[0] = root] EXCEPT !.slot[1] = mid] /\ y.kind = "high" /\ y.slot = top
        <3>1. /\ [[Pool[high] EXCEPT !.slot[0] = root] EXCEPT !.slot[1] = mid].slot = top
              /\ [[Pool[high] EXCEPT !.slot[0] = root] EXCEPT !.slot[1] = mid].kind = "high"
              /\ [[Pool[high] EXCEPT !.slot[0] = root] EXCEPT !.slot[1] = mid] = [Pool[high] EXCEPT !.slot = top]
            BY <1>5, <1>11, <2>1
        <3>2. [Pool[high] EXCEPT !.slot = top] \in [kind : {"high"}, slot : [Slots("high") -> Pointer]]
            BY <2>1
        <3>3. [Pool[high] EXCEPT !.slot = top] \in PoolType
            BY <3>2 DEF PoolType
        <3>4. QED
            BY <3>1, <3>3
    <2>4. Pool' = [[Pool EXCEPT ![mid] = x] EXCEPT ![high] = y]
        <3>1. Pool' = [[[Pool EXCEPT ![mid].slot = later] EXCEPT ![high].slot[0] = root] EXCEPT ![high].slot[1] = mid]
            BY <1>1, <1>4, <1>5, <1>10 DEF LinkThird
        <3>2. PICK Q \in [Blocks -> PoolType] : Q = [Pool EXCEPT ![mid] = x] /\ Q[high] = Pool[high]
            <4>1. [Pool EXCEPT ![mid] = x] \in [Blocks -> PoolType]
                BY <1>0
            <4>2. [Pool EXCEPT ![mid] = x][high] = Pool[high]
                BY <1>0, <1>9
            <4>3. QED
                BY <4>1, <4>2
        <3>3. [Pool EXCEPT ![mid].slot = later] = Q
            BY <2>2, <3>2
        <3>4. [[Q EXCEPT ![high].slot[0] = root] EXCEPT ![high].slot[1] = mid]
              = [Q EXCEPT ![high] = [[Q[high] EXCEPT !.slot[0] = root] EXCEPT !.slot[1] = mid]]
            OBVIOUS
        <3>5. [[Q EXCEPT ![high].slot[0] = root] EXCEPT ![high].slot[1] = mid] = [Q EXCEPT ![high] = y]
            BY <2>3, <3>2, <3>4
        <3>6. QED
            BY <3>1, <3>2, <3>3, <3>5
    <2>5. Pool' \in [Blocks -> PoolType]
        BY <1>0, <2>4
    <2>6. Pool'[mid] = x /\ Pool'[high] = y /\ \A b \in Blocks : b # mid /\ b # high => Pool'[b] = Pool[b]
        BY <1>0, <1>9, <2>4
    <2>7. QED
        BY <2>2, <2>3, <2>5, <2>6
<1>13. TableCode' \in [Level : 0 .. 2, Ptr : Pointer] /\ TableCode'.Ptr = high /\ TableCode'.Level = 2 /\ high # NULL
    <2>1. high \in Pointer /\ 2 \in 0 .. 2 /\ TableCode' = [Level |-> 2, Ptr |-> high] /\ high # NULL
        BY <1>5, NullIsNoBlock DEF Pointer
    <2>2. QED
        BY <2>1
<1>14. Grows
    BY <1>4, <1>5, <1>12, Contents DEF Grows
<1>15. TreeInv'
    <2>0. Pages' = Pages /\ Linked' = Pages + 1 /\ Pages \in Nat /\ NextHandleNeedingPool' = Pages * LOWLEVEL_COUNT
        BY PublishLinks
    <2>1. Pages' = M /\ Linked' = M + 1 /\ NextHandleNeedingPool' = Pages' * LOWLEVEL_COUNT
        BY <1>2, <2>0
    <2>2. IsA(high, "high")' /\ Linked' > M /\ Hi(Linked' - 1) < HIGHLEVEL_COUNT
        <3>1. Hi(M) = 1 /\ HIGHLEVEL_COUNT > 1 /\ (M + 1) - 1 = M
            BY <1>0, PlaceFacts, HandleTableAssumptions
        <3>2. QED
            BY <1>0, <1>12, <1>13, <2>1, <3>1 DEF IsA
    <2>3. Pool'[root] = Pool[root] /\ IsA(root, "mid")' /\ IsA(mid, "mid")'
        BY <1>6, <1>9, <1>12, NullIsNoBlock DEF IsA
    <2>4. ASSUME NEW j \in Slots("high"), top[j] # NULL PROVE IsA(top[j], "mid")' /\ Pool'[top[j]].slot[0] # NULL
        <3>1. j = 0 \/ j = 1
            BY <1>11, <2>4
        <3>2. old[0] # NULL /\ later[0] # NULL
            BY <1>8, <1>10, FirstSlots, NullIsNoBlock
        <3>3. QED
            BY <1>7, <1>11, <1>12, <2>3, <3>1, <3>2, Zenon
    <2>5. \A i, j \in Slots("high") : top[i] = top[j] /\ top[i] # NULL => i = j
        BY <1>9, <1>11
    <2>6. ASSUME NEW p \in 0 .. M PROVE top[Hi(p)] # NULL /\ IsPage(Pool[top[Hi(p)]].slot[Lo(p)], p)'
        <3>1. p \in Nat
            BY <1>0
        <3>2. CASE p < M
            <4>1. Hi(p) = 0 /\ Lo(p) = p /\ p \in Slots("mid")
                BY <3>1, <3>2, PlaceFacts, FirstSlots
            <4>2. IsPage(old[p], p)'
                BY <1>8, <1>14, <4>1, PageKept
            <4>3. QED
                BY <1>7, <1>11, <2>3, <4>1, <4>2, NullIsNoBlock
        <3>3. CASE p = M
            <4>1. Hi(p) = 1 /\ Lo(p) = 0
                BY <1>0, <3>3, PlaceFacts
            <4>2. IsPage(low, M)'
                BY <1>3, <1>14, PageKept DEF Pointer
            <4>3. top[Hi(p)] = mid /\ mid # NULL
                BY <1>11, <4>1, NullIsNoBlock
            <4>4. Pool'[mid].slot[Lo(p)] = low
                BY <1>10, <1>12, <4>1
            <4>5. QED
                BY <3>3, <4>2, <4>3, <4>4, Zenon DEF IsPage, IsA
        <3>4. QED
            BY <1>0, <3>1, <3>2, <3>3
    <2>7. ASSUME NEW p \in Nat, p >= M + 1, Hi(p) < HIGHLEVEL_COUNT PROVE top[Hi(p)] = NULL \/ Pool'[top[Hi(p)]].slot[Lo(p)] = NULL
        <3>1. Hi(p) \in Slots("high") /\ Hi(p) # 0 /\ Lo(p) \in Slots("mid")
            BY <1>0, <2>7, PlaceFacts, FirstSlots
        <3>2. CASE Hi(p) = 1
            <4>1. Lo(p) # 0
                <5>1. SUFFICES ASSUME Lo(p) = 0 PROVE p = M
                    BY <1>0, <2>7
                <5>2. Hi(M) = 1 /\ Lo(M) = 0
                    BY <1>0, PlaceFacts
                <5>3. QED
                    BY <1>0, <3>2, <5>1, <5>2, PlaceUnique
            <4>2. QED
                BY <1>10, <1>11, <1>12, <3>1, <3>2, <4>1
        <3>3. CASE Hi(p) # 1
            BY <1>11, <3>1, <3>3
        <3>4. QED
            BY <3>2, <3>3
    <2>8. 0 .. Linked' - 1 = 0 .. M
        BY <1>0, <2>1
    <2>9. LevelTwo'
        <3>1. Pool'[TableCode'.Ptr].slot = top
            BY <1>12, <1>13
        <3>2. \A p \in Nat : p >= Linked' /\ Hi(p) < HIGHLEVEL_COUNT => top[Hi(p)] = NULL \/ Pool'[top[Hi(p)]].slot[Lo(p)] = NULL
            BY <2>1, <2>7
        <3>3. \A p \in 0 .. Linked' - 1 : top[Hi(p)] # NULL /\ IsPage(Pool[top[Hi(p)]].slot[Lo(p)], p)'
            BY <2>6, <2>8
        <3>4. \A j \in Slots("high") : top[j] # NULL => IsA(top[j], "mid")' /\ Pool'[top[j]].slot[0] # NULL
            BY <2>4
        <3> HIDE DEF M
        <3>5. QED
            BY <1>13, <2>2, <2>5, <3>1, <3>2, <3>3, <3>4, Zenon DEF LevelTwo, M
    <2>10. QED
        BY <1>0, <1>13, <2>1, <2>9 DEF TreeInv
<1>16. /\ \A b \in Blocks : Pool[b].kind \notin {"mid", "high"} => Pool'[b] = Pool[b]
       /\ \A b \in Blocks : Pool[b].kind \in {"mid", "high"} => Pool'[b].kind = Pool[b].kind
    <2>1. Pool[mid].kind = "mid" /\ Pool[high].kind = "high"
        BY <1>4, <1>5, Contents
    <2>2. QED
        BY <1>12, <2>1
<1>17. Stays
    <2>1. Pool'[TableCode'.Ptr].slot[0] = TableCode.Ptr
        BY <1>1, <1>11, <1>12, <1>13
    <2>2. TableCode'.Level = TableCode.Level + 1
        BY <1>13
    <2>3. QED
        BY <1>14, <2>1, <2>2 DEF Stays
<1>18. Placed(t)
    <2>1. top[1] = mid /\ 1 \in Slots("high") /\ 0 \in Slots("mid") /\ mid # NULL
        BY <1>11, FirstSlots, NullIsNoBlock
    <2>2. Pool'[high].slot = top /\ Pool'[mid].slot[0] = low
        BY <1>10, <1>12, Zenon
    <2>3. TreeLow(low)'
        BY <1>13, <2>1, <2>2, Zenon DEF TreeLow
    <2>4. TreeMid(mid)' /\ TreeHigh(high)'
        BY <1>13, <2>1, <2>2 DEF TreeMid, TreeHigh
    <2>5. QED
        BY <1>3, <1>4, <1>5, <2>3, <2>4 DEF Placed, Pointer
<1>19. QED
    BY <1>12, <1>13, <1>15, <1>16, <1>17, <1>18, PublishStep, Zenon DEF KindsKept

\* The tree of three levels, in the terms the growth needs.
LEMMA TopLevel ==
    ASSUME TableInv, TableCode.Level = 2, TableCode.Ptr \in Blocks, Linked = Pages
    PROVE  \E root \in Blocks : \E top \in [Slots("high") -> Pointer] :
              /\ root = TableCode.Ptr /\ Pool[root].kind = "high" /\ Pool[root].slot = top
              /\ Pages > MIDLEVEL_COUNT
              /\ \A j \in Slots("high") : top[j] # NULL =>
                    /\ top[j] \in Blocks /\ Pool[top[j]].kind = "mid" /\ Pool[top[j]].slot \in [Slots("mid") -> Pointer]
                    /\ Pool[top[j]].slot[0] # NULL
              /\ \A i, j \in Slots("high") : top[i] = top[j] /\ top[i] # NULL => i = j
              /\ \A p \in Nat : p < Pages =>
                    /\ Hi(p) \in Slots("high") /\ top[Hi(p)] # NULL
                    /\ IsPage(Pool[top[Hi(p)]].slot[Lo(p)], p)
              /\ \A p \in Nat : p >= Pages /\ Hi(p) < HIGHLEVEL_COUNT =>
                    top[Hi(p)] = NULL \/ Pool[top[Hi(p)]].slot[Lo(p)] = NULL
<1>0. TableTypes /\ Pages \in Nat /\ MIDLEVEL_COUNT \in Nat /\ HIGHLEVEL_COUNT \in Nat /\ Pool \in [Blocks -> PoolType]
    BY Numbers, HandleTableAssumptions DEF TableInv
<1>1. PICK root \in Blocks : root = TableCode.Ptr
    OBVIOUS
<1>2. LevelTwo /\ Pool[root].kind = "high"
    BY <1>1, NullIsNoBlock DEF TableInv, TreeInv, LevelTwo, IsA
<1>3. PICK top \in [Slots("high") -> Pointer] : top = Pool[root].slot
    BY <1>0, <1>2, Kind
<1>4. ASSUME NEW j \in Slots("high"), top[j] # NULL
      PROVE  /\ top[j] \in Blocks /\ Pool[top[j]].kind = "mid" /\ Pool[top[j]].slot \in [Slots("mid") -> Pointer]
             /\ Pool[top[j]].slot[0] # NULL
    <2>1. top[j] \in Blocks
        BY <1>4 DEF Pointer
    <2>2. Pool[top[j]].kind = "mid" /\ Pool[top[j]].slot[0] # NULL
        BY <1>1, <1>2, <1>3, <1>4 DEF LevelTwo, IsA
    <2>3. QED
        BY <1>0, <2>1, <2>2, Kind
<1>5. Pages > MIDLEVEL_COUNT /\ \A i, j \in Slots("high") : top[i] = top[j] /\ top[i] # NULL => i = j
    BY <1>1, <1>2, <1>3 DEF LevelTwo
<1>6. ASSUME NEW p \in Nat, p < Pages
      PROVE  Hi(p) \in Slots("high") /\ top[Hi(p)] # NULL /\ IsPage(Pool[top[Hi(p)]].slot[Lo(p)], p)
    <2>1. p \in 0 .. Pages - 1 /\ Pages - 1 \in Nat /\ p <= Pages - 1
        BY <1>0, <1>6
    <2>2. Hi(Pages - 1) < HIGHLEVEL_COUNT
        BY <1>2 DEF LevelTwo
    <2>3. Hi(p) \in Nat /\ Hi(Pages - 1) \in Nat /\ Hi(p) <= Hi(Pages - 1)
        BY <2>1, PlaceOrder, PlaceFacts
    <2>4. Hi(p) \in Slots("high")
        BY <1>0, <2>2, <2>3, FirstSlots
    <2>5. QED
        BY <1>1, <1>2, <1>3, <2>1, <2>4 DEF LevelTwo
<1>7. \A p \in Nat : p >= Pages /\ Hi(p) < HIGHLEVEL_COUNT =>
                    top[Hi(p)] = NULL \/ Pool[top[Hi(p)]].slot[Lo(p)] = NULL
    BY <1>1, <1>2, <1>3 DEF LevelTwo
<1>8. QED
    BY <1>1, <1>2, <1>3, <1>4, <1>5, <1>6, <1>7

\* Three levels, and the page is the first of a new mid level table.
LEMMA PublishFourth ==
    ASSUME TableInv, NEW t \in Threads, pc[t] = "Publish", pc' = [pc EXCEPT ![t] = "AddPage"],
           UNCHANGED <<NextHandleNeedingPool, ExtraInfoPages, walk>>,
           TableCode.Level = 2, NewMidLevel[t] # NULL,
           LinkFourth(t),
           TableCode' = TableCode
    PROVE  TableInv' /\ Stays /\ KindsKept /\ Placed(t)
<1> DEFINE M == MIDLEVEL_COUNT
<1>0. /\ TableTypes /\ TreeInv /\ TableCode.Ptr \in Blocks /\ Linked = Pages
      /\ NextHandleNeedingPool = Pages * LOWLEVEL_COUNT /\ Pages > 0
      /\ Pool \in [Blocks -> PoolType] /\ Pages \in Nat /\ M \in Nat /\ M > 1
    BY InHandAtPublish, Numbers, HandleTableAssumptions
<1>n. PICK n \in Nat : n = Pages /\ n > 0
    BY <1>0
<1>1. PICK root \in Blocks, top \in [Slots("high") -> Pointer] :
              /\ root = TableCode.Ptr /\ Pool[root].kind = "high" /\ Pool[root].slot = top
              /\ n > M
              /\ \A j \in Slots("high") : top[j] # NULL =>
                    /\ top[j] \in Blocks /\ Pool[top[j]].kind = "mid" /\ Pool[top[j]].slot \in [Slots("mid") -> Pointer]
                    /\ Pool[top[j]].slot[0] # NULL
              /\ \A i, j \in Slots("high") : top[i] = top[j] /\ top[i] # NULL => i = j
              /\ \A p \in Nat : p < n =>
                    /\ Hi(p) \in Slots("high") /\ top[Hi(p)] # NULL
                    /\ IsPage(Pool[top[Hi(p)]].slot[Lo(p)], p)
              /\ \A p \in Nat : p >= n /\ Hi(p) < HIGHLEVEL_COUNT =>
                    top[Hi(p)] = NULL \/ Pool[top[Hi(p)]].slot[Lo(p)] = NULL
    BY <1>0, <1>n, TopLevel
<1>2. PICK j \in Slots("high") : j = Hi(n) /\ j = HighIndex(NextHandleNeedingPool) /\ top[j] = NULL
    <2>1. Hi(Pages) < HIGHLEVEL_COUNT /\ Pool[root].slot[Hi(Pages)] = NULL
        BY <1>1 DEF TableInv, GrowInv
    <2>2. Hi(Pages) = HighIndex(NextHandleNeedingPool) /\ Hi(Pages) \in Nat
        BY <1>0, PlaceFacts DEF Hi, HighIndex, Pages
    <2>3. QED
        BY <1>n, <1>1, <2>1, <2>2, FirstSlots
<1>3. PICK low \in Blocks : low = NewLowLevel[t] /\ Pool[low].kind = "low" /\ IsPage(low, n)
    BY <1>n, InHandAtPublish
<1>4. PICK mid \in Blocks : mid = NewMidLevel[t] /\ Pool[mid] = Zeroed("mid") /\ Pool[mid].kind = "mid"
    BY InHandAtPublish, Contents
<1>5. Lo(n) = 0
    <2>1. SUFFICES ASSUME Lo(n) # 0 PROVE FALSE
        OBVIOUS
    <2>2. Hi(n - 1) = Hi(n) /\ n - 1 \in Nat /\ n - 1 < n
        BY <1>n, <2>1, PlaceBefore
    <2>3. QED
        BY <1>1, <1>2, <2>2
<1>6. root # mid /\ \A i \in Slots("high") : top[i] # mid
    BY <1>1, <1>4, Contents, FirstSlots, NullIsNoBlock
<1>7. PICK later \in [Slots("mid") -> Pointer] :
          later = LaterMid(t) /\ later[0] = low /\ \A i \in Slots("mid") : i # 0 => later[i] = NULL
    <2>1. low \in Pointer /\ Zeroed("mid").slot \in [Slots("mid") -> Pointer] /\ \A i \in Slots("mid") : Zeroed("mid").slot[i] = NULL
        BY Contents DEF Pointer
    <2>2. PICK z \in [Slots("mid") -> Pointer] : z = Zeroed("mid").slot /\ \A i \in Slots("mid") : z[i] = NULL
        BY <2>1
    <2>3. LaterMid(t) = [z EXCEPT ![0] = low]
        BY <1>3, <2>2 DEF LaterMid
    <2>4. [z EXCEPT ![0] = low] \in [Slots("mid") -> Pointer]
        BY <2>1
    <2>5. [z EXCEPT ![0] = low][0] = low /\ \A i \in Slots("mid") : i # 0 => [z EXCEPT ![0] = low][i] = NULL
        BY <2>2, FirstSlots
    <2>6. QED
        BY <2>3, <2>4, <2>5
<1>8. PICK new \in [Slots("high") -> Pointer] : new = [top EXCEPT ![j] = mid] /\ new[j] = mid /\ \A i \in Slots("high") : i # j => new[i] = top[i]
    <2>1. mid \in Pointer
        BY DEF Pointer
    <2>2. [top EXCEPT ![j] = mid] \in [Slots("high") -> Pointer]
        BY <2>1
    <2>3. [top EXCEPT ![j] = mid][j] = mid /\ \A i \in Slots("high") : i # j => [top EXCEPT ![j] = mid][i] = top[i]
        OBVIOUS
    <2>4. QED
        BY <2>2, <2>3
<1>9. /\ Pool'[mid].kind = "mid" /\ Pool'[mid].slot = later
      /\ Pool'[root].kind = "high" /\ Pool'[root].slot = new
      /\ \A b \in Blocks : b # mid /\ b # root => Pool'[b] = Pool[b]
      /\ Pool' \in [Blocks -> PoolType]
    <2>1. /\ Pool[mid] \in [kind : {"mid"}, slot : [Slots("mid") -> Pointer]]
          /\ Pool[root] \in [kind : {"high"}, slot : [Slots("high") -> Pointer]]
        BY <1>0, <1>1, <1>4, Kind
    <2>2. PICK x \in PoolType : x = [Pool[mid] EXCEPT !.slot = later] /\ x.kind = "mid" /\ x.slot = later
        <3>1. [Pool[mid] EXCEPT !.slot = later] \in [kind : {"mid"}, slot : [Slots("mid") -> Pointer]]
            BY <2>1
        <3>2. [Pool[mid] EXCEPT !.slot = later] \in PoolType
            BY <3>1 DEF PoolType
        <3>3. QED
            BY <2>1, <3>2
    <2>3. PICK y \in PoolType : y = [Pool[root] EXCEPT !.slot = new] /\ y.kind = "high" /\ y.slot = new
        <3>1. [Pool[root] EXCEPT !.slot = new] \in [kind : {"high"}, slot : [Slots("high") -> Pointer]]
            BY <2>1
        <3>2. [Pool[root] EXCEPT !.slot = new] \in PoolType
            BY <3>1 DEF PoolType
        <3>3. QED
            BY <2>1, <3>2
    <2>4. Pool' = [[Pool EXCEPT ![mid] = x] EXCEPT ![root] = y]
        <3>1. Pool' = [[Pool EXCEPT ![mid].slot = later] EXCEPT ![root].slot[j] = mid]
            BY <1>1, <1>2, <1>4, <1>7 DEF LinkFourth
        <3>2. [Pool[root] EXCEPT !.slot[j] = mid] = y
            BY <1>1, <1>8, <2>1, <2>3
        <3>3. QED
            BY <1>0, <1>6, <2>2, <3>1, <3>2
    <2>5. Pool' \in [Blocks -> PoolType]
        BY <1>0, <2>4
    <2>6. Pool'[mid] = x /\ Pool'[root] = y /\ \A b \in Blocks : b # mid /\ b # root => Pool'[b] = Pool[b]
        BY <1>0, <1>6, <2>4
    <2>7. QED
        BY <2>2, <2>3, <2>5, <2>6
<1>10. Grows
    <2>0. Pool[root].slot = top /\ Pool'[root].slot = new
        BY <1>1, <1>9
    <2>1. \A i \in Slots("high") : Pool[root].slot[i] # NULL => Pool'[root].slot[i] = Pool[root].slot[i]
        BY <1>2, <1>8, <2>0
    <2>2. \A i \in Slots("mid") : Pool[mid].slot[i] = NULL
        BY <1>4, Contents
    <2>3. QED
        BY <1>1, <1>4, <1>9, <2>1, <2>2 DEF Grows
<1>11. TreeInv'
    <2>0. Pages' = Pages /\ Linked' = Pages + 1 /\ Pages \in Nat /\ NextHandleNeedingPool' = Pages * LOWLEVEL_COUNT
        BY PublishLinks
    <2>1. Pages' = n /\ Linked' = n + 1 /\ NextHandleNeedingPool' = Pages' * LOWLEVEL_COUNT
        BY <1>n, <2>0
    <2>2. TableCode'.Ptr = root /\ TableCode'.Level = 2 /\ root # NULL /\ mid # NULL /\ low # NULL
        BY <1>1, NullIsNoBlock
    <2>3. IsA(root, "high")' /\ Linked' > M /\ Hi(Linked' - 1) < HIGHLEVEL_COUNT
        <3>1. Hi(n) < HIGHLEVEL_COUNT /\ (n + 1) - 1 = n /\ Hi(n) \in Nat
            BY <1>2, PlaceFacts, FirstSlots
        <3>2. QED
            BY <1>0, <1>1, <1>9, <2>1, <2>2, <3>1 DEF IsA
    <2>4. ASSUME NEW i \in Slots("high"), i # j, top[i] # NULL PROVE top[i] \in Blocks /\ Pool'[top[i]] = Pool[top[i]]
        BY <1>1, <1>6, <1>9, <2>4
    <2>5. ASSUME NEW i \in Slots("high"), new[i] # NULL PROVE IsA(new[i], "mid")' /\ Pool'[new[i]].slot[0] # NULL
        <3>1. CASE i = j
            BY <1>7, <1>8, <1>9, <2>2, <3>1 DEF IsA
        <3>2. CASE i # j
            <4>1. new[i] = top[i] /\ top[i] # NULL
                BY <1>8, <2>5, <3>2
            <4>2. Pool'[top[i]] = Pool[top[i]] /\ Pool[top[i]].kind = "mid" /\ Pool[top[i]].slot[0] # NULL
                BY <1>1, <2>4, <3>2, <4>1
            <4>3. QED
                BY <4>1, <4>2 DEF IsA
        <3>3. QED
            BY <3>1, <3>2
    <2>6. \A i, k \in Slots("high") : new[i] = new[k] /\ new[i] # NULL => i = k
        BY <1>1, <1>6, <1>8
    <2>7. ASSUME NEW p \in 0 .. n PROVE new[Hi(p)] # NULL /\ IsPage(Pool[new[Hi(p)]].slot[Lo(p)], p)'
        <3>1. p \in Nat
            OBVIOUS
        <3>2. CASE p < n
            <4>1. Hi(p) \in Slots("high") /\ top[Hi(p)] # NULL /\ IsPage(Pool[top[Hi(p)]].slot[Lo(p)], p) /\ Lo(p) \in Slots("mid")
                BY <1>1, <3>1, <3>2, PlaceFacts
            <4>2. Hi(p) # j
                BY <1>2, <4>1
            <4>3. new[Hi(p)] = top[Hi(p)] /\ Pool'[top[Hi(p)]] = Pool[top[Hi(p)]]
                BY <1>8, <2>4, <4>1, <4>2
            <4>4. PICK c \in Pointer : c = Pool[top[Hi(p)]].slot[Lo(p)]
                BY <1>1, <4>1
            <4>5. IsPage(c, p)'
                BY <1>10, <4>1, <4>4, PageKept
            <4>6. QED
                BY <4>1, <4>3, <4>4, <4>5
        <3>3. CASE p = n
            <4>1. Hi(p) = j /\ Lo(p) = 0
                BY <1>2, <1>5, <3>3
            <4>2. IsPage(low, n)'
                BY <1>3, <1>10, PageKept DEF Pointer
            <4>3. new[Hi(p)] = mid /\ Pool'[mid].slot[Lo(p)] = low
                BY <1>7, <1>8, <1>9, <4>1
            <4>4. QED
                BY <2>2, <3>3, <4>2, <4>3 DEF IsPage, IsA
        <3>4. QED
            BY <3>1, <3>2, <3>3
    <2>8. ASSUME NEW p \in Nat, p >= n + 1, Hi(p) < HIGHLEVEL_COUNT PROVE new[Hi(p)] = NULL \/ Pool'[new[Hi(p)]].slot[Lo(p)] = NULL
        <3>1. Hi(p) \in Slots("high") /\ Lo(p) \in Slots("mid") /\ p # n /\ p >= n
            BY <2>8, PlaceFacts, FirstSlots
        <3>2. CASE Hi(p) = j
            <4>1. Lo(p) # 0
                BY <1>2, <1>5, <3>1, <3>2, PlaceUnique
            <4>2. QED
                BY <1>7, <1>8, <1>9, <3>1, <3>2, <4>1
        <3>3. CASE Hi(p) # j
            <4>1. new[Hi(p)] = top[Hi(p)] /\ (top[Hi(p)] # NULL => Pool'[top[Hi(p)]] = Pool[top[Hi(p)]])
                BY <1>8, <2>4, <3>1, <3>3
            <4>2. top[Hi(p)] = NULL \/ Pool[top[Hi(p)]].slot[Lo(p)] = NULL
                BY <1>1, <2>8, <3>1
            <4>3. QED
                BY <4>1, <4>2
        <3>4. QED
            BY <3>2, <3>3
    <2>9. LevelTwo'
        <3>1. Pool'[TableCode'.Ptr].slot = new
            BY <1>9, <2>2
        <3>2. \A p \in Nat : p >= Linked' /\ Hi(p) < HIGHLEVEL_COUNT => new[Hi(p)] = NULL \/ Pool'[new[Hi(p)]].slot[Lo(p)] = NULL
            BY <2>1, <2>8
        <3>3. \A p \in 0 .. Linked' - 1 : new[Hi(p)] # NULL /\ IsPage(Pool[new[Hi(p)]].slot[Lo(p)], p)'
            <4>1. 0 .. Linked' - 1 = 0 .. n
                BY <2>1
            <4>2. QED
                BY <2>7, <4>1
        <3>4. \A i \in Slots("high") : new[i] # NULL => IsA(new[i], "mid")' /\ Pool'[new[i]].slot[0] # NULL
            BY <2>5
        <3> HIDE DEF M
        <3>5. QED
            BY <2>2, <2>3, <2>6, <3>1, <3>2, <3>3, <3>4 DEF LevelTwo, M
    <2>10. QED
        BY <1>n, <2>1, <2>2, <2>9 DEF TreeInv
<1>12. /\ \A b \in Blocks : Pool[b].kind \notin {"mid", "high"} => Pool'[b] = Pool[b]
       /\ \A b \in Blocks : Pool[b].kind \in {"mid", "high"} => Pool'[b].kind = Pool[b].kind
    BY <1>1, <1>4, <1>9
<1>13. TableCode' \in [Level : 0 .. 2, Ptr : Pointer]
    BY <1>0 DEF TableTypes
<1>14. Stays
    BY <1>10 DEF Stays
<1>15. Placed(t)
    <2>1. NewHighLevel[t] = NULL
        BY DEF TableInv, GrowInv
    <2>2. TableCode'.Level = 2 /\ TableCode'.Ptr = root /\ mid # NULL
        BY <1>1, NullIsNoBlock
    <2>3. Pool'[root].slot[j] = mid /\ Pool'[mid].slot[0] = low
        BY <1>7, <1>8, <1>9
    <2>4. TreeLow(low)' /\ TreeMid(mid)'
        BY <2>2, <2>3, FirstSlots, Zenon DEF TreeLow, TreeMid
    <2>5. QED
        BY <1>3, <1>4, <2>1, <2>4 DEF Placed, Pointer
<1>16. QED
    BY <1>9, <1>11, <1>12, <1>13, <1>14, <1>15, PublishStep DEF KindsKept

\* Three levels, and the page goes to the next place of its mid level table.
LEMMA PublishFifth ==
    ASSUME TableInv, NEW t \in Threads, pc[t] = "Publish", pc' = [pc EXCEPT ![t] = "AddPage"],
           UNCHANGED <<NextHandleNeedingPool, ExtraInfoPages, walk>>,
           TableCode.Level = 2, NewMidLevel[t] = NULL,
           LinkFifth(t),
           TableCode' = TableCode
    PROVE  TableInv' /\ Stays /\ KindsKept /\ Placed(t)
<1> DEFINE M == MIDLEVEL_COUNT
<1>0. /\ TableTypes /\ TreeInv /\ TableCode.Ptr \in Blocks /\ Linked = Pages
      /\ NextHandleNeedingPool = Pages * LOWLEVEL_COUNT /\ Pages > 0
      /\ Pool \in [Blocks -> PoolType] /\ Pages \in Nat /\ M \in Nat /\ M > 1
    BY InHandAtPublish, Numbers, HandleTableAssumptions
<1>n. PICK n \in Nat : n = Pages /\ n > 0
    BY <1>0
<1>1. PICK root \in Blocks, top \in [Slots("high") -> Pointer] :
              /\ root = TableCode.Ptr /\ Pool[root].kind = "high" /\ Pool[root].slot = top
              /\ n > M
              /\ \A j \in Slots("high") : top[j] # NULL =>
                    /\ top[j] \in Blocks /\ Pool[top[j]].kind = "mid" /\ Pool[top[j]].slot \in [Slots("mid") -> Pointer]
                    /\ Pool[top[j]].slot[0] # NULL
              /\ \A i, j \in Slots("high") : top[i] = top[j] /\ top[i] # NULL => i = j
              /\ \A p \in Nat : p < n =>
                    /\ Hi(p) \in Slots("high") /\ top[Hi(p)] # NULL
                    /\ IsPage(Pool[top[Hi(p)]].slot[Lo(p)], p)
              /\ \A p \in Nat : p >= n /\ Hi(p) < HIGHLEVEL_COUNT =>
                    top[Hi(p)] = NULL \/ Pool[top[Hi(p)]].slot[Lo(p)] = NULL
    BY <1>0, <1>n, TopLevel
<1>2. PICK j \in Slots("high"), k \in Slots("mid") :
          /\ j = Hi(n) /\ j = HighIndex(NextHandleNeedingPool) /\ top[j] # NULL
          /\ k = Lo(n) /\ k = MidIndex(NextHandleNeedingPool) /\ Hi(n) < HIGHLEVEL_COUNT
    <2>1. Hi(Pages) < HIGHLEVEL_COUNT /\ Pool[root].slot[Hi(Pages)] # NULL
        BY <1>1 DEF TableInv, GrowInv
    <2>2. /\ Hi(Pages) = HighIndex(NextHandleNeedingPool) /\ Hi(Pages) \in Nat
          /\ Lo(Pages) = MidIndex(NextHandleNeedingPool) /\ Lo(Pages) \in Slots("mid")
        BY <1>0, PlaceFacts DEF Hi, HighIndex, Pages, Lo, MidIndex
    <2>3. QED
        BY <1>n, <1>1, <2>1, <2>2, FirstSlots
<1>3. PICK low \in Blocks : low = NewLowLevel[t] /\ Pool[low].kind = "low" /\ IsPage(low, n)
    BY <1>n, InHandAtPublish
<1>4. PICK mid \in Blocks, old \in [Slots("mid") -> Pointer] :
          mid = top[j] /\ Pool[mid].kind = "mid" /\ old = Pool[mid].slot /\ old[k] = NULL
    <2>0. n >= n /\ \A p \in Nat : p >= n /\ Hi(p) < HIGHLEVEL_COUNT => top[Hi(p)] = NULL \/ Pool[top[Hi(p)]].slot[Lo(p)] = NULL
        BY <1>1
    <2>1. Pool[top[j]].slot[Lo(n)] = NULL
        BY <1>2, <2>0
    <2>2. QED
        BY <1>1, <1>2, <2>1
<1>6. root # mid /\ \A i \in Slots("high") : top[i] = mid => i = j
    BY <1>1, <1>2, <1>4
<1>8. PICK new \in [Slots("mid") -> Pointer] : new = [old EXCEPT ![k] = low] /\ new[k] = low /\ \A i \in Slots("mid") : i # k => new[i] = old[i]
    <2>1. low \in Pointer
        BY DEF Pointer
    <2>2. [old EXCEPT ![k] = low] \in [Slots("mid") -> Pointer]
        BY <2>1
    <2>3. [old EXCEPT ![k] = low][k] = low /\ \A i \in Slots("mid") : i # k => [old EXCEPT ![k] = low][i] = old[i]
        OBVIOUS
    <2>4. QED
        BY <2>2, <2>3
<1>9. /\ Pool'[mid].kind = "mid" /\ Pool'[mid].slot = new
      /\ \A b \in Blocks : b # mid => Pool'[b] = Pool[b]
      /\ Pool' \in [Blocks -> PoolType]
    <2>1. Pool[mid] \in [kind : {"mid"}, slot : [Slots("mid") -> Pointer]]
        BY <1>0, <1>4, Kind
    <2>2. PICK x \in PoolType : x = [Pool[mid] EXCEPT !.slot = new] /\ x.kind = "mid" /\ x.slot = new
        <3>1. [Pool[mid] EXCEPT !.slot = new] \in [kind : {"mid"}, slot : [Slots("mid") -> Pointer]]
            BY <2>1
        <3>2. [Pool[mid] EXCEPT !.slot = new] \in PoolType
            BY <3>1 DEF PoolType
        <3>3. QED
            BY <2>1, <3>2
    <2>3. Pool' = [Pool EXCEPT ![mid] = x]
        <3>1. Pool' = [Pool EXCEPT ![mid].slot[k] = low]
            BY <1>1, <1>2, <1>3, <1>4 DEF LinkFifth
        <3>2. [Pool[mid] EXCEPT !.slot[k] = low] = x
            BY <1>4, <1>8, <2>1, <2>2
        <3>3. QED
            BY <3>1, <3>2
    <2>4. QED
        BY <1>0, <2>2, <2>3
<1>10. Grows
    <2>1. \A i \in Slots("mid") : Pool[mid].slot[i] # NULL => Pool'[mid].slot[i] = Pool[mid].slot[i]
        BY <1>4, <1>8, <1>9, Zenon
    <2>2. QED
        BY <1>4, <1>9, <2>1, Zenon DEF Grows
<1>11. TreeInv'
    <2>0. Pages' = Pages /\ Linked' = Pages + 1 /\ Pages \in Nat /\ NextHandleNeedingPool' = Pages * LOWLEVEL_COUNT
        BY PublishLinks
    <2>1. Pages' = n /\ Linked' = n + 1 /\ NextHandleNeedingPool' = Pages' * LOWLEVEL_COUNT
        BY <1>n, <2>0
    <2>2. TableCode'.Ptr = root /\ TableCode'.Level = 2 /\ root # NULL /\ mid # NULL /\ low # NULL
        BY <1>1, NullIsNoBlock
    <2>3. IsA(root, "high")' /\ Linked' > M /\ Hi(Linked' - 1) < HIGHLEVEL_COUNT /\ Pool'[root] = Pool[root]
        <3>1. Hi(n) < HIGHLEVEL_COUNT /\ (n + 1) - 1 = n /\ Hi(n) \in Nat
            BY <1>2, PlaceFacts, FirstSlots
        <3>2. QED
            BY <1>0, <1>1, <1>6, <1>9, <2>1, <2>2, <3>1 DEF IsA
    <2>4. ASSUME NEW i \in Slots("high"), i # j, top[i] # NULL PROVE top[i] \in Blocks /\ Pool'[top[i]] = Pool[top[i]]
        BY <1>1, <1>6, <1>9, <2>4
    <2>5. ASSUME NEW i \in Slots("high"), top[i] # NULL PROVE IsA(top[i], "mid")' /\ Pool'[top[i]].slot[0] # NULL
        <3>1. CASE i = j
            <4>1. new[0] # NULL
                BY <1>1, <1>2, <1>4, <1>8, <2>2, FirstSlots
            <4>2. QED
                BY <1>4, <1>9, <2>2, <3>1, <4>1 DEF IsA
        <3>2. CASE i # j
            <4>1. Pool'[top[i]] = Pool[top[i]] /\ Pool[top[i]].kind = "mid" /\ Pool[top[i]].slot[0] # NULL
                BY <1>1, <2>4, <2>5, <3>2
            <4>2. QED
                BY <2>5, <4>1 DEF IsA
        <3>3. QED
            BY <3>1, <3>2
    <2>7. ASSUME NEW p \in 0 .. n PROVE top[Hi(p)] # NULL /\ IsPage(Pool[top[Hi(p)]].slot[Lo(p)], p)'
        <3>1. p \in Nat
            OBVIOUS
        <3>2. CASE p < n
            <4>1. Hi(p) \in Slots("high") /\ top[Hi(p)] # NULL /\ IsPage(Pool[top[Hi(p)]].slot[Lo(p)], p) /\ Lo(p) \in Slots("mid")
                BY <1>1, <3>1, <3>2, PlaceFacts
            <4>2. PICK c \in Pointer : c = Pool[top[Hi(p)]].slot[Lo(p)]
                BY <1>1, <4>1
            <4>3. IsPage(c, p)' /\ c # NULL
                BY <1>10, <4>1, <4>2, PageKept DEF IsPage, IsA
            <4>4. Pool'[top[Hi(p)]].slot[Lo(p)] = c
                <5>1. CASE Hi(p) = j
                    <6>1. top[Hi(p)] = mid
                        BY <1>4, <5>1
                    <6>2. c = old[Lo(p)]
                        BY <1>4, <4>2, <6>1
                    <6>3. Lo(p) # k
                        BY <1>4, <4>3, <6>2
                    <6>4. Pool'[mid].slot[Lo(p)] = old[Lo(p)]
                        BY <1>8, <1>9, <4>1, <6>3
                    <6>5. QED
                        BY <6>1, <6>2, <6>4
                <5>2. CASE Hi(p) # j
                    BY <2>4, <4>1, <4>2, <5>2
                <5>3. QED
                    BY <5>1, <5>2
            <4>5. QED
                BY <4>1, <4>3, <4>4
        <3>3. CASE p = n
            <4>1. Hi(p) = j /\ Lo(p) = k
                BY <1>2, <3>3
            <4>2. IsPage(low, n)'
                BY <1>3, <1>10, PageKept DEF Pointer
            <4>3. top[Hi(p)] = mid /\ Pool'[mid].slot[Lo(p)] = low
                BY <1>4, <1>8, <1>9, <4>1, Zenon
            <4>4. QED
                BY <2>2, <3>3, <4>2, <4>3 DEF IsPage, IsA
        <3>4. QED
            BY <3>1, <3>2, <3>3
    <2>8. ASSUME NEW p \in Nat, p >= n + 1, Hi(p) < HIGHLEVEL_COUNT PROVE top[Hi(p)] = NULL \/ Pool'[top[Hi(p)]].slot[Lo(p)] = NULL
        <3>1. Hi(p) \in Slots("high") /\ Lo(p) \in Slots("mid") /\ p # n /\ p >= n
            BY <2>8, PlaceFacts, FirstSlots
        <3>2. top[Hi(p)] = NULL \/ Pool[top[Hi(p)]].slot[Lo(p)] = NULL
            BY <1>1, <2>8, <3>1
        <3>3. CASE Hi(p) = j
            <4>1. Lo(p) # k
                BY <1>2, <3>1, <3>3, PlaceUnique
            <4>2. QED
                <5>1. top[Hi(p)] = mid /\ mid # NULL
                    BY <1>2, <1>4, <3>3
                <5>2. old[Lo(p)] = NULL
                    BY <1>4, <3>2, <5>1
                <5>3. Pool'[mid].slot[Lo(p)] = old[Lo(p)]
                    BY <1>8, <1>9, <3>1, <4>1
                <5>4. QED
                    BY <5>1, <5>2, <5>3
        <3>4. CASE Hi(p) # j
            BY <2>4, <3>1, <3>2, <3>4, Zenon
        <3>5. QED
            BY <3>3, <3>4
    <2>9. LevelTwo'
        <3>1. Pool'[TableCode'.Ptr].slot = top
            BY <1>1, <2>2, <2>3
        <3>2. \A p \in Nat : p >= Linked' /\ Hi(p) < HIGHLEVEL_COUNT => top[Hi(p)] = NULL \/ Pool'[top[Hi(p)]].slot[Lo(p)] = NULL
            BY <2>1, <2>8
        <3>3. \A p \in 0 .. Linked' - 1 : top[Hi(p)] # NULL /\ IsPage(Pool[top[Hi(p)]].slot[Lo(p)], p)'
            <4>1. 0 .. Linked' - 1 = 0 .. n
                BY <2>1
            <4>2. QED
                BY <2>7, <4>1
        <3>4. \A i \in Slots("high") : top[i] # NULL => IsA(top[i], "mid")' /\ Pool'[top[i]].slot[0] # NULL
            BY <2>5
        <3>5. \A i, q \in Slots("high") : top[i] = top[q] /\ top[i] # NULL => i = q
            BY <1>1
        <3> HIDE DEF M
        <3>6. QED
            BY <2>2, <2>3, <3>1, <3>2, <3>3, <3>4, <3>5, Zenon DEF LevelTwo, M
    <2>10. QED
        BY <1>n, <2>1, <2>2, <2>9 DEF TreeInv
<1>12. /\ \A b \in Blocks : Pool[b].kind \notin {"mid", "high"} => Pool'[b] = Pool[b]
       /\ \A b \in Blocks : Pool[b].kind \in {"mid", "high"} => Pool'[b].kind = Pool[b].kind
    BY <1>4, <1>9, Zenon
<1>13. TableCode' \in [Level : 0 .. 2, Ptr : Pointer]
    BY <1>0 DEF TableTypes
<1>14. Stays
    BY <1>10 DEF Stays
<1>15. Placed(t)
    <2>1. NewHighLevel[t] = NULL
        BY DEF TableInv, GrowInv
    <2>2. TableCode'.Level = 2 /\ TableCode'.Ptr = root /\ mid # NULL /\ root # mid
        BY <1>1, <1>6, NullIsNoBlock
    <2>3. Pool'[root].slot[j] = mid /\ Pool'[mid].slot[k] = low
        BY <1>1, <1>4, <1>8, <1>9, <2>2
    <2>4. TreeLow(low)'
        BY <2>2, <2>3 DEF TreeLow
    <2>5. QED
        BY <1>3, <2>1, <2>4 DEF Placed, Pointer
<1>16. QED
    BY <1>9, <1>11, <1>12, <1>13, <1>14, <1>15, PublishStep, Zenon DEF KindsKept

\* Each of the five ways to link a page keeps every lookup on its way.
LEMMA PublishInv ==
    ASSUME TableInv, NEW t \in Threads, Publish(t)
    PROVE  TableInv' /\ Stays /\ KindsKept /\ Placed(t)
<1>1. /\ pc[t] = "Publish" /\ pc' = [pc EXCEPT ![t] = "AddPage"]
      /\ UNCHANGED <<NextHandleNeedingPool, ExtraInfoPages, walk>>
    BY DEF Publish, Goto
<1>w. \/ TableCode.Level = 0 /\ LinkFirst(t) /\ TableCode' = [Level |-> 1, Ptr |-> NewMidLevel[t]]
      \/ TableCode.Level = 1 /\ NewHighLevel[t] = NULL /\ LinkSecond(t) /\ TableCode' = TableCode
      \/ TableCode.Level = 1 /\ NewHighLevel[t] # NULL /\ LinkThird(t) /\ TableCode' = [Level |-> 2, Ptr |-> NewHighLevel[t]]
      \/ TableCode.Level = 2 /\ NewMidLevel[t] # NULL /\ LinkFourth(t) /\ TableCode' = TableCode
      \/ TableCode.Level = 2 /\ NewMidLevel[t] = NULL /\ LinkFifth(t) /\ TableCode' = TableCode
    BY Zenon DEF Publish, LinkFirst, LinkSecond, LinkThird, LinkFourth, LinkFifth
<1>2. CASE TableCode.Level = 0
    <2>1. LinkFirst(t) /\ TableCode' = [Level |-> 1, Ptr |-> NewMidLevel[t]]
        BY <1>w, <1>2
    <2>2. QED
        BY <1>1, <1>2, <2>1, PublishFirst
<1>3. CASE TableCode.Level = 1 /\ NewHighLevel[t] = NULL
    <2>1. LinkSecond(t) /\ TableCode' = TableCode
        BY <1>w, <1>3
    <2>2. QED
        BY <1>1, <1>3, <2>1, PublishSecond
<1>4. CASE TableCode.Level = 1 /\ NewHighLevel[t] # NULL
    <2>1. LinkThird(t) /\ TableCode' = [Level |-> 2, Ptr |-> NewHighLevel[t]]
        BY <1>w, <1>4
    <2>2. QED
        BY <1>1, <1>4, <2>1, PublishThird
<1>5. CASE TableCode.Level = 2 /\ NewMidLevel[t] # NULL
    <2>1. LinkFourth(t) /\ TableCode' = TableCode
        BY <1>w, <1>5
    <2>2. QED
        BY <1>1, <1>5, <2>1, PublishFourth
<1>6. CASE TableCode.Level = 2 /\ NewMidLevel[t] = NULL
    <2>1. LinkFifth(t) /\ TableCode' = TableCode
        BY <1>w, <1>6
    <2>2. QED
        BY <1>1, <1>6, <2>1, PublishFifth, Zenon
<1>7. QED
    BY <1>w, <1>2, <1>3, <1>4, <1>5, <1>6, Zenon

\* The new handles become valid when their page hangs in the tree.
LEMMA AddPageInv ==
    ASSUME TableInv, NEW t \in Threads, AddPage(t)
    PROVE  TableInv' /\ Stays
<1>0. /\ TableTypes /\ TreeInv /\ InfoInv /\ Growing(t) /\ pc[t] = "AddPage" /\ TableReturn(t)
      /\ Pool' = Pool /\ TableCode' = TableCode /\ ExtraInfoPages' = ExtraInfoPages
      /\ NextHandleNeedingPool' = NextHandleNeedingPool + LOWLEVEL_COUNT
      /\ LOWLEVEL_COUNT \in Nat \ {0} /\ TableCode.Ptr # NULL
    BY HandleTableAssumptions DEF TableInv, AddPage, Growing, TreeInv
<1>1. /\ Alone(t) /\ pc'[t] = "idle" /\ NewHighLevel'[t] = NULL /\ NewMidLevel'[t] = NULL
      /\ TableTypes' /\ NextHandleNeedingPool' >= NextHandleNeedingPool
    BY <1>0, Returned DEF TableTypes
<1>2. Pages \in Nat /\ NextHandleNeedingPool = Pages * LOWLEVEL_COUNT
    BY <1>0, Numbers DEF TreeInv
<1>3. NextHandleNeedingPool' = (Pages + 1) * LOWLEVEL_COUNT
    BY <1>0, <1>2, PageNext
<1>4. Pages' = Pages + 1
    BY <1>2, <1>3, PageOfFirst DEF Pages
<1>5. Linked = Pages + 1
    BY <1>0 DEF Linked
<1>6. Linked' = Linked
    <2>1. \A u \in Threads : pc'[u] # "AddPage"
        BY <1>0, <1>1 DEF TableInv, GrowInv, Growing, Alone
    <2>2. QED
        BY <1>4, <1>5, <2>1 DEF Linked
<1>7. TreeInv'
    <2>1. TableCode.Level = 0 => IsPage(TableCode.Ptr, 0)' /\ Linked' = 1
        BY <1>0, <1>6 DEF TreeInv, IsPage, IsA
    <2>2. TableCode.Level = 1 => LevelOne'
        BY <1>0, <1>6 DEF TreeInv, LevelOne, IsPage, IsA
    <2>3. TableCode.Level = 2 => LevelTwo'
        BY <1>0, <1>6, Zenon DEF TreeInv, LevelTwo, IsPage, IsA
    <2>4. QED
        BY <1>0, <1>2, <1>3, <1>4, <2>1, <2>2, <2>3 DEF TreeInv
<1>8. InfoInv'
    <2>1. \A u \in Threads : pc'[u] = "InfoCas" => pc[u] = "InfoCas" /\ InfoTable'[u] = InfoTable[u]
        BY <1>1 DEF Alone
    <2>2. QED
        BY <1>0, <1>1, <2>1, InfoKept
<1>9. ASSUME NEW u \in Threads \ {t} PROVE WalkInv(u)' /\ GrowInv(u)'
    <2>1. WalkInv(u) /\ Grows
        BY <1>0 DEF TableInv, Grows
    <2>2. /\ pc'[u] = pc[u] /\ Handle'[u] = Handle[u] /\ TableLevel'[u] = TableLevel[u] /\ InfoTable'[u] = InfoTable[u]
        BY <1>1 DEF Alone
    <2>3. WalkInv(u)'
        BY <1>0, <1>1, <2>1, <2>2, WalkKept
    <2>4. QED
        BY <1>0, <1>1, <2>3, OthersDoNotGrow
<1>10. WalkInv(t)' /\ GrowInv(t)'
    BY <1>1 DEF WalkInv, WalkPCs, GrowInv, Growing, GrowPCs
<1>11. Stays
    BY <1>0 DEF Stays, Grows
<1>12. QED
    BY <1>1, <1>7, <1>8, <1>9, <1>10, <1>11 DEF TableInv

\* Nobody does anything.
LEMMA AllIdle ==
    ASSUME TableInv, UNCHANGED <<pc, walk>>, \A u \in Threads : pc[u] = "idle"
    PROVE  /\ \A u \in Threads : WalkInv(u)' /\ GrowInv(u)' /\ pc'[u] = "idle"
           /\ pc' = pc /\ Handle' = Handle /\ TableLevel' = TableLevel /\ InfoTable' = InfoTable
           /\ NewHighLevel' = NewHighLevel /\ NewMidLevel' = NewMidLevel /\ NewLowLevel' = NewLowLevel
           /\ Linked' = Pages'
<1>1. /\ pc' = pc /\ Handle' = Handle /\ TableLevel' = TableLevel /\ InfoTable' = InfoTable
      /\ NewHighLevel' = NewHighLevel /\ NewMidLevel' = NewMidLevel /\ NewLowLevel' = NewLowLevel
    BY DEF walk, growth
<1>2. \A u \in Threads : GrowInv(u)
    BY DEF TableInv
<1>3. \A u \in Threads : NewHighLevel[u] = NULL /\ NewMidLevel[u] = NULL
    BY <1>2 DEF GrowInv, GrowPCs
<1>4. \A u \in Threads : WalkInv(u)' /\ GrowInv(u)'
    BY <1>1, <1>3 DEF WalkInv, WalkPCs, GrowInv, Growing, GrowPCs
<1>5. Linked' = Pages'
    BY <1>1 DEF Linked
<1>6. QED
    BY <1>1, <1>4, <1>5

\* The first page makes a table.
LEMMA CreateTableInv ==
    ASSUME TableInv, NEW t \in Threads, CreateTable(t)
    PROVE  TableInv'
<1>0. /\ TableTypes /\ InfoInv /\ Pool \in [Blocks -> PoolType]
      /\ \A u \in Threads : pc[u] = "idle"
    BY DEF TableInv, TableTypes, TreeInv, CreateTable, NoTable
<1>1. PICK b : b = NewBlock("low")
    OBVIOUS
<1>2. /\ Available("low") # {} /\ Pool' = [Pool EXCEPT ![NewBlock("low")] = LowLevel(0)]
      /\ TableCode' = [Level |-> 0, Ptr |-> b]
      /\ NextHandleNeedingPool' = LOWLEVEL_COUNT
      /\ ExtraInfoPages' = 0
      /\ UNCHANGED <<pc, walk>>
    BY <1>1 DEF CreateTable
<1>3. 0 \in Handles
    <2>1. LOWLEVEL_COUNT * MIDLEVEL_COUNT \in Nat
        BY HandleTableAssumptions
    <2>2. LOWLEVEL_COUNT * MIDLEVEL_COUNT * HIGHLEVEL_COUNT \in Nat
        BY <2>1, HandleTableAssumptions
    <2>3. QED
        BY <2>2 DEF Handles
<1>4. /\ b \in Blocks /\ b # NULL /\ Pool[b].kind = "none" /\ Pool' \in [Blocks -> PoolType]
      /\ Pool'[b] = LowLevel(0) /\ \A c \in Blocks : c # b => Pool'[c] = Pool[c]
    BY <1>0, <1>1, <1>2, <1>3, AllocateFresh, Contents DEF Kinds
<1>5. /\ \A u \in Threads : WalkInv(u)' /\ GrowInv(u)' /\ pc'[u] = "idle"
      /\ pc' = pc /\ Handle' = Handle /\ TableLevel' = TableLevel /\ InfoTable' = InfoTable
      /\ NewHighLevel' = NewHighLevel /\ NewMidLevel' = NewMidLevel /\ NewLowLevel' = NewLowLevel
      /\ Linked' = Pages'
    BY <1>0, <1>2, AllIdle
<1>6. TableTypes'
    <2>1. b \in Pointer /\ LOWLEVEL_COUNT \in Nat /\ 0 \in 0 .. 2
        BY <1>4, HandleTableAssumptions DEF Pointer
    <2>2. TableCode' \in [Level : 0 .. 2, Ptr : Pointer]
        BY <1>2, <2>1
    <2>3. QED
        BY <1>0, <1>2, <1>4, <1>5, <2>1, <2>2 DEF TableTypes
<1>7. Pages' = 1 /\ NextHandleNeedingPool' = Pages' * LOWLEVEL_COUNT
    <2>1. LOWLEVEL_COUNT \in Nat /\ 1 * LOWLEVEL_COUNT = LOWLEVEL_COUNT
        BY HandleTableAssumptions
    <2>2. PageOf(1 * LOWLEVEL_COUNT) = 1
        BY PageOfFirst
    <2>3. QED
        BY <1>2, <2>1, <2>2 DEF Pages
<1>8. IsPage(b, 0)'
    <2>1. 0 * LOWLEVEL_COUNT = 0
        BY HandleTableAssumptions
    <2>2. QED
        BY <1>4, <2>1, Contents DEF IsPage, IsA
<1>9. TreeInv'
    BY <1>2, <1>4, <1>5, <1>7, <1>8 DEF TreeInv
<1>10. InfoInv'
    <2>1. \A u \in Threads : pc'[u] = "InfoCas" => pc[u] = "InfoCas" /\ InfoTable'[u] = InfoTable[u]
        BY <1>5
    <2>2. \A c \in Blocks : Pool'[c].kind = "low" =>
              Pool'[c].info = NULL \/ (Pool[c].kind = "low" /\ Pool'[c].info = Pool[c].info)
        BY <1>4, Contents
    <2>3. \A c \in Blocks : Pool[c].kind = "info" => Pool'[c].kind = "info"
        BY <1>4
    <2>4. QED
        BY <1>0, <1>6, <2>1, <2>2, <2>3, InfoKept
<1>11. QED
    BY <1>5, <1>6, <1>9, <1>10 DEF TableInv

\* The blocks that the destruction frees are those of the tree.
Freed == CASE TableCode.Level = 0 -> FreedPage(TableCode.Ptr)
           [] TableCode.Level = 1 -> FreedMid(TableCode.Ptr)
           [] TableCode.Level = 2 -> FreedHigh(TableCode.Ptr)

\* A mid level table of the tree has nothing but pages.
LEMMA MidHasPages ==
    ASSUME TableInv, TableCode.Ptr \in Blocks, TableCode.Level = 2, Linked = Pages,
           NEW m \in Blocks, NEW j \in Slots("high"), m = Pool[TableCode.Ptr].slot[j],
           NEW i \in Slots("mid"), Pool[m].slot[i] # NULL
    PROVE  \E p \in Nat : p < Pages /\ Hi(p) = j /\ Lo(p) = i /\ IsPage(Pool[m].slot[i], p)
<1>1. PICK p \in Nat : Hi(p) = j /\ Lo(p) = i
    BY PlaceOfPage, FirstSlots
<1>2. Hi(p) < HIGHLEVEL_COUNT
    BY <1>1, FirstSlots
<1>3. Pages \in Nat
    BY Numbers DEF TableInv
<1>4. p < Pages
    BY <1>1, <1>2, <1>3, TopLevel, NullIsNoBlock
<1>5. QED
    BY <1>1, <1>4, TopLevel

\* The destruction frees tables of the levels and the information of their pages.
LEMMA FreedKinds ==
    ASSUME TableInv, TableCode.Ptr \in Blocks, \A u \in Threads : pc[u] = "idle", NEW b \in Freed
    PROVE  /\ b \in Blocks
           /\ \/ Pool[b].kind \in {"low", "mid", "high"}
              \/ \E c \in Freed : c \in Blocks /\ Pool[c].kind = "low" /\ Pool[c].info = b /\ b # NULL
<1>0. TableTypes /\ TreeInv /\ Pool \in [Blocks -> PoolType] /\ TableCode.Ptr # NULL /\ Linked = Pages /\ Pages \in Nat
    BY Numbers, NullIsNoBlock DEF TableInv, Linked
<1>1. PICK root \in Blocks : root = TableCode.Ptr
    OBVIOUS
<1>2. ASSUME NEW c \in Blocks, Pool[c].kind = "low", NEW d \in FreedPage(c), FreedPage(c) \subseteq Freed
      PROVE  /\ d \in Blocks
             /\ \/ Pool[d].kind = "low"
                \/ \E e \in Freed : e \in Blocks /\ Pool[e].kind = "low" /\ Pool[e].info = d /\ d # NULL
    <2>1. c \in Freed /\ Pool[c].info \in Pointer
        BY <1>0, <1>2, Kind DEF FreedPage
    <2>2. QED
        BY <1>2, <2>1 DEF FreedPage, Pointer
<1>3. CASE TableCode.Level = 0
    <2>1. Freed = FreedPage(root) /\ Pool[root].kind = "low"
        BY <1>0, <1>1, <1>3 DEF Freed, TreeInv, IsPage, IsA
    <2>2. QED
        BY <1>2, <2>1
<1>4. CASE TableCode.Level = 1
    <2>1. Freed = FreedMid(root) /\ LevelOne /\ Pool[root].kind = "mid"
        BY <1>0, <1>1, <1>4 DEF Freed, TreeInv, LevelOne, IsA
    <2>2. Pool[root].slot \in [Slots("mid") -> Pointer]
        BY <1>0, <2>1, Kind
    <2>3. ASSUME NEW c \in Leading(root) PROVE c \in Blocks /\ Pool[c].kind = "low"
        <3>1. PICK i \in Slots("mid") : c = Pool[root].slot[i] /\ \A k \in 0 .. i : Pool[root].slot[k] # NULL
            BY <2>2, <2>3 DEF Leading
        <3>2. i \in 0 .. i
            BY FirstSlots
        <3>3. c # NULL /\ c \in Pointer
            BY <2>2, <3>1, <3>2
        <3>4. IsPage(c, i)
            BY <1>1, <2>1, <3>1, <3>3 DEF LevelOne
        <3>5. QED
            BY <3>3, <3>4 DEF IsPage, IsA, Pointer
    <2>4. CASE b = root
        BY <2>1, <2>4
    <2>5. CASE b # root
        <3>1. PICK c \in Leading(root) : b \in FreedPage(c)
            BY <2>1, <2>5 DEF FreedMid
        <3>2. FreedPage(c) \subseteq Freed
            BY <2>1, <3>1 DEF FreedMid
        <3>3. QED
            BY <1>2, <2>3, <3>1, <3>2
    <2>6. QED
        BY <2>4, <2>5
<1>5. CASE TableCode.Level = 2
    <2>0. LevelTwo
        BY <1>0, <1>1, <1>5 DEF TreeInv
    <2>1. Freed = FreedHigh(root) /\ Pool[root].kind = "high"
        <3>1. Freed = FreedHigh(root)
            BY <1>1, <1>5 DEF Freed
        <3>2. QED
            BY <1>1, <2>0, <3>1 DEF LevelTwo, IsA
    <2>2. Pool[root].slot \in [Slots("high") -> Pointer]
        BY <1>0, <2>1, Kind
    <2>3. ASSUME NEW m \in Leading(root)
          PROVE  /\ m \in Blocks /\ Pool[m].kind = "mid"
                 /\ \A c \in Leading(m) : c \in Blocks /\ Pool[c].kind = "low"
        <3>1. PICK j \in Slots("high") : m = Pool[root].slot[j] /\ \A k \in 0 .. j : Pool[root].slot[k] # NULL
            BY <2>2, <2>3 DEF Leading
        <3>2. j \in 0 .. j
            BY FirstSlots
        <3>3. m # NULL /\ m \in Blocks
            BY <2>2, <3>1, <3>2 DEF Pointer
        <3>4. Pool[m].kind = "mid" /\ Pool[m].slot \in [Slots("mid") -> Pointer]
            BY <1>0, <1>1, <1>5, <3>1, <3>3, TopLevel
        <3>5. ASSUME NEW c \in Leading(m) PROVE c \in Blocks /\ Pool[c].kind = "low"
            <4>1. PICK i \in Slots("mid") : c = Pool[m].slot[i] /\ \A k \in 0 .. i : Pool[m].slot[k] # NULL
                BY <3>4, <3>5 DEF Leading
            <4>2. i \in 0 .. i
                BY FirstSlots
            <4>3. c # NULL /\ c \in Blocks
                BY <3>4, <4>1, <4>2 DEF Pointer
            <4>4. \E p \in Nat : IsPage(c, p)
                BY <1>0, <1>1, <1>5, <3>1, <3>3, <4>1, <4>3, MidHasPages
            <4>5. QED
                BY <4>3, <4>4 DEF IsPage, IsA
        <3>6. QED
            BY <3>3, <3>4, <3>5
    <2>4. CASE b = root
        BY <2>1, <2>4
    <2>5. CASE b # root
        <3>1. PICK m \in Leading(root) : b \in FreedMid(m)
            BY <2>1, <2>5 DEF FreedHigh
        <3>2. CASE b = m
            BY <2>3, <3>1, <3>2
        <3>3. CASE b # m
            <4>1. PICK c \in Leading(m) : b \in FreedPage(c)
                BY <3>1, <3>3 DEF FreedMid
            <4>2. FreedPage(c) \subseteq FreedMid(m)
                BY <4>1 DEF FreedMid
            <4>3. FreedMid(m) \subseteq Freed
                BY <2>1, <3>1 DEF FreedHigh
            <4>4. QED
                BY <1>2, <2>3, <3>1, <4>1, <4>2, <4>3
        <3>4. QED
            BY <3>2, <3>3
    <2>6. QED
        BY <2>4, <2>5
<1>6. QED
    BY <1>0, <1>3, <1>4, <1>5 DEF TableTypes

\* The destruction leaves no table.
LEMMA FreeTableInv ==
    ASSUME TableInv, NEW t \in Threads, FreeTable(t)
    PROVE  TableInv'
<1>0. /\ TableTypes /\ InfoInv /\ Pool \in [Blocks -> PoolType]
      /\ \A u \in Threads : pc[u] = "idle"
      /\ TableCode.Ptr \in Blocks
      /\ TableCode' = NoTable /\ NextHandleNeedingPool' = 0 /\ ExtraInfoPages' = 0 /\ UNCHANGED <<pc, walk>>
    BY DEF TableInv, TableTypes, TreeInv, FreeTable, Pointer
<1>1. Pool' = Without(Freed)
    BY DEF FreeTable, Freed
<1>2. /\ Pool' \in [Blocks -> PoolType] /\ Unallocated.kind = "none"
      /\ \A b \in Blocks : Pool'[b] = IF b \in Freed THEN Unallocated ELSE Pool[b]
    BY <1>0, <1>1, FreedBlocks, Contents
<1>3. /\ \A u \in Threads : WalkInv(u)' /\ GrowInv(u)' /\ pc'[u] = "idle"
      /\ pc' = pc /\ Handle' = Handle /\ TableLevel' = TableLevel /\ InfoTable' = InfoTable
      /\ NewHighLevel' = NewHighLevel /\ NewMidLevel' = NewMidLevel /\ NewLowLevel' = NewLowLevel
    BY <1>0, AllIdle
<1>4. TableTypes'
    BY <1>0, <1>2, <1>3 DEF TableTypes, NoTable, Pointer
<1>5. TreeInv'
    BY <1>0, <1>3 DEF TreeInv, NoTable
<1>6. InfoInv'
    <2>1. \A b \in Blocks : Pool'[b].kind = "low" => b \notin Freed /\ Pool'[b] = Pool[b]
        BY <1>2
    <2>2. ASSUME NEW b \in Blocks, Pool'[b].kind = "low", Pool'[b].info # NULL
          PROVE  Pool'[Pool'[b].info].kind = "info"
        <3>1. PICK i \in Blocks : i = Pool[b].info /\ i = Pool'[b].info
            BY <1>0, <2>1, <2>2, Kind DEF Pointer
        <3>2. Pool[i].kind = "info"
            BY <1>0, <2>1, <2>2, <3>1 DEF InfoInv
        <3>3. i \notin Freed
            <4>1. SUFFICES ASSUME i \in Freed PROVE FALSE
                OBVIOUS
            <4>2. PICK c \in Freed : c \in Blocks /\ Pool[c].kind = "low" /\ Pool[c].info = i /\ i # NULL
                BY <1>0, <3>2, <4>1, FreedKinds
            <4>3. c = b
                BY <1>0, <2>1, <2>2, <3>1, <4>2 DEF InfoInv
            <4>4. QED
                BY <2>1, <2>2, <4>2, <4>3
        <3>4. QED
            BY <1>2, <3>1, <3>2, <3>3
    <2>3. \A b, c \in Blocks :
          Pool'[b].kind = "low" /\ Pool'[c].kind = "low" /\ Pool'[b].info = Pool'[c].info /\ Pool'[b].info # NULL => b = c
        BY <1>0, <2>1 DEF InfoInv
    <2>4. QED
        BY <1>3, <2>2, <2>3 DEF InfoInv
<1>7. QED
    BY <1>3, <1>4, <1>5, <1>6 DEF TableInv

\* Before the first table the invariant holds.
LEMMA InitTableInv == TableInit => TableInv
<1>1. SUFFICES ASSUME TableInit PROVE TableInv
    OBVIOUS
<1>2. 0 \in Handles
    <2>1. LOWLEVEL_COUNT * MIDLEVEL_COUNT \in Nat
        BY HandleTableAssumptions
    <2>2. LOWLEVEL_COUNT * MIDLEVEL_COUNT * HIGHLEVEL_COUNT \in Nat
        BY <2>1, HandleTableAssumptions
    <2>3. QED
        BY <2>2 DEF Handles
<1>3. Pool = [b \in Blocks |-> Unallocated] /\ Unallocated \in PoolType /\ Unallocated.kind = "none"
    BY <1>1, Contents DEF TableInit
<1>4. TableCode \in [Level : 0 .. 2, Ptr : Pointer] /\ TableCode.Ptr = NULL
    BY <1>1 DEF TableInit, NoTable, Pointer
<1>5. TableTypes
    BY <1>1, <1>2, <1>3, <1>4 DEF TableInit, TableTypes, Pointer
<1>6. TreeInv
    BY <1>1, <1>4 DEF TreeInv, TableInit
<1>7. InfoInv
    BY <1>1, <1>3 DEF InfoInv, TableInit
<1>8. \A t \in Threads : WalkInv(t) /\ GrowInv(t)
    BY <1>1 DEF WalkInv, GrowInv, TableInit, WalkPCs, GrowPCs, Growing
<1>9. QED
    BY <1>5, <1>6, <1>7, <1>8 DEF TableInv

\* Every step keeps the invariant, and as long as there is a table it leaves the
\* pages where they are.
LEMMA NextTableInv ==
    ASSUME TableInv, [TableNext]_tableVars
    PROVE  TableInv' /\ (TableCode # NoTable /\ TableCode' # NoTable => Stays)
<1>1. CASE UNCHANGED tableVars
    <2>1. /\ Pool' = Pool /\ TableCode' = TableCode /\ NextHandleNeedingPool' = NextHandleNeedingPool
          /\ ExtraInfoPages' = ExtraInfoPages /\ Handle' = Handle /\ TableLevel' = TableLevel /\ InfoTable' = InfoTable
          /\ NewHighLevel' = NewHighLevel /\ NewMidLevel' = NewMidLevel /\ NewLowLevel' = NewLowLevel /\ pc' = pc
        BY <1>1 DEF tableVars, shared, walk, growth
    <2>2. Stays
        BY <2>1 DEF Stays, Grows
    <2>3. TableTypes' /\ InfoInv'
        BY <2>1 DEF TableInv, TableTypes, InfoInv, IsA
    <2>4. TreeInv'
        BY <2>1, Zenon DEF TableInv, TreeInv, LevelOne, LevelTwo, Linked, Pages, PageOf, IsPage, IsA
    <2>5. ASSUME NEW t \in Threads PROVE WalkInv(t)' /\ GrowInv(t)'
        <3>1. WalkInv(t) /\ GrowInv(t) /\ InfoInv /\ TableTypes
            BY DEF TableInv
        <3>2. WalkInv(t)'
            BY <2>1, <2>2, <2>3, <3>1, WalkKept DEF Stays, TableTypes
        <3>3. GrowInv(t)'
            BY <2>1, <3>1 DEF GrowInv, Growing, Pages, PageOf, LowLevel
        <3>4. QED
            BY <3>2, <3>3
    <2>6. QED
        BY <2>2, <2>3, <2>4, <2>5 DEF TableInv
<1>2. CASE TableNext
    <2>1. PICK t \in Threads :
            \/ CreateTable(t) \/ FreeTable(t)
            \/ \E h \in Handles : Lookup(t, h)
            \/ Bound(t) \/ Capture(t) \/ WalkTwo(t) \/ WalkThree(t) \/ WalkMid(t) \/ LookupReturns(t)
            \/ InfoRead(t) \/ InfoAllocate(t) \/ InfoCas(t) \/ InfoCount(t) \/ InfoWrite(t)
            \/ BeginGrowth(t) \/ AllocateHigh(t) \/ AllocateMid(t) \/ AllocateLow(t) \/ Publish(t) \/ AddPage(t)
        BY <1>2 DEF TableNext
    <2>2. CASE LookupReturns(t) \/ InfoWrite(t)
        BY <2>2, WalkReturns DEF LookupReturns, InfoWrite, WalkPCs
    <2>3. CASE CreateTable(t) \/ FreeTable(t)
        BY <2>3, CreateTableInv, FreeTableInv DEF CreateTable, FreeTable
    <2>4. QED
        BY <2>1, <2>2, <2>3, LookupInv, BoundInv, CaptureInv, WalkStepInv, InfoReadInv,
           InfoAllocateInv, InfoCasInv, InfoCountInv, BeginGrowthInv, AllocateHighInv, AllocateMidInv, AllocateLowInv,
           PublishInv, AddPageInv
<1>3. QED
    BY <1>1, <1>2

\* The invariant of the tree, the lookups and the growth.
LEMMA TableInvariance == TableSpec => []TableInv
<1>1. TableInit => TableInv
    BY InitTableInv
<1>2. TableInv /\ [TableNext]_tableVars => TableInv'
    BY NextTableInv
<1>3. QED
    BY <1>1, <1>2, PTL DEF TableSpec

\* Every variable has its type.
THEOREM TableTypeCorrect == TableSpec => []TableTypeOK
<1>1. TableInv => TableTypeOK
    <2>1. SUFFICES ASSUME TableInv PROVE TableTypeOK
        OBVIOUS
    <2>2. TableTypes /\ NextHandleNeedingPool \in Handles
        BY <2>1, NextIsHandle DEF TableInv
    <2>3. ASSUME NEW b \in Blocks
          PROVE  \/ Pool[b] \in {Unallocated, Info}
                 \/ Pool[b] \in [kind : {"low"}, base : Handles, info : Blocks \cup {NULL}]
                 \/ \E k \in {"mid", "high"} : Pool[b] \in [kind : {k}, slot : [Slots(k) -> Blocks \cup {NULL}]]
        BY <2>2 DEF TableTypes, PoolType, Pointer
    <2>4. QED
        BY <2>2, <2>3 DEF TableTypeOK, TableTypes, Pointer
<1>2. QED
    BY <1>1, TableInvariance, PTL

\* A lookup without a lock goes through the right tables to its page.
THEOREM LookupIsSound == TableSpec => []LookupSound
<1>1. TableInv => LookupSound
    <2>1. SUFFICES ASSUME TableInv, NEW t \in Threads
          PROVE /\ pc[t] = "WalkTwo" => IsA(TableLevel[t], "mid") /\ PageOf(Handle[t]) \in Slots("mid")
                /\ pc[t] = "WalkThree" => IsA(TableLevel[t], "high") /\ HighIndex(Handle[t]) \in Slots("high")
                /\ pc[t] = "WalkMid" => IsA(TableLevel[t], "mid")
                /\ pc[t] = "Found" => IsA(TableLevel[t], "low") /\ Pool[TableLevel[t]].base = PageOf(Handle[t]) * LOWLEVEL_COUNT
                /\ pc[t] = "InfoWrite" => IsA(InfoTable[t], "info") /\ Pool[TableLevel[t]].info = InfoTable[t]
        BY DEF LookupSound
    <2>2. WalkInv(t) /\ TableTypes /\ InfoInv
        BY <2>1 DEF TableInv
    <2>3. HighIndex(Handle[t]) = Hi(PageOf(Handle[t]))
        BY DEF HighIndex, Hi
    <2>4. ASSUME pc[t] = "InfoWrite" PROVE IsA(InfoTable[t], "info") /\ Pool[TableLevel[t]].info = InfoTable[t]
        <3>1. /\ IsPage(TableLevel[t], PageOf(Handle[t])) /\ Pool[TableLevel[t]].info = InfoTable[t]
              /\ InfoTable[t] # NULL /\ TableLevel[t] \in Blocks
            BY <2>2, <2>4 DEF WalkInv, IsPage, IsA, TableTypes, Pointer
        <3>2. QED
            BY <2>2, <3>1 DEF InfoInv, IsPage, IsA
    <2>5. QED
        BY <2>2, <2>3, <2>4 DEF WalkInv, IsPage
<1>2. QED
    BY <1>1, TableInvariance, PTL

\* A handle that is valid keeps its page while the tree grows.
LEMMA ResolveKept ==
    ASSUME TableInv, TableInv', Stays, TableCode # NoTable, TableCode' # NoTable, NEW h \in Handles, h < NextHandleNeedingPool
    PROVE  Resolve(h)' = Resolve(h)
<1>0. TableTypes /\ TreeInv /\ TableTypes' /\ h \in Nat /\ Pool \in [Blocks -> PoolType] /\ Grows
    BY DEF TableInv, TableTypes, Handles, Stays
<1>1. PICK root \in Blocks : root = TableCode.Ptr
    BY <1>0 DEF TreeInv, TableTypes, Pointer
<1>2. PICK p \in Nat : p = PageOf(h) /\ Lo(p) \in Slots("mid") /\ MidIndex(h) = Lo(p) /\ HighIndex(h) = Hi(p)
    BY <1>0, PageFacts, PlaceFacts DEF MidIndex, HighIndex, Lo, Hi
<1>3. /\ TableCode.Level = 0 => IsPage(root, p)
      /\ TableCode.Level = 1 => IsA(root, "mid") /\ p \in Slots("mid") /\ IsPage(Pool[root].slot[p], p)
      /\ TableCode.Level = 2 =>
            /\ IsA(root, "high") /\ Hi(p) \in Slots("high")
            /\ IsA(Pool[root].slot[Hi(p)], "mid")
            /\ IsPage(Pool[Pool[root].slot[Hi(p)]].slot[Lo(p)], p)
    BY <1>0, <1>1, <1>2, NullIsNoBlock, TreeHasPage
<1>4. TableCode.Level = 1 => Pool'[root].slot[p] = Pool[root].slot[p]
    BY <1>0, <1>1, <1>3 DEF Grows, IsPage, IsA
<1>5. TableCode.Level = 2 => /\ Pool'[root].slot[Hi(p)] = Pool[root].slot[Hi(p)]
                             /\ Pool'[Pool[root].slot[Hi(p)]].slot[Lo(p)] = Pool[Pool[root].slot[Hi(p)]].slot[Lo(p)]
    <2>1. SUFFICES ASSUME TableCode.Level = 2
                   PROVE  /\ Pool'[root].slot[Hi(p)] = Pool[root].slot[Hi(p)]
                          /\ Pool'[Pool[root].slot[Hi(p)]].slot[Lo(p)] = Pool[Pool[root].slot[Hi(p)]].slot[Lo(p)]
        OBVIOUS
    <2>2. Pool[root].slot \in [Slots("high") -> Pointer]
        BY <1>0, <1>3, <2>1, Kind DEF IsA
    <2>3. PICK m \in Blocks : m = Pool[root].slot[Hi(p)] /\ Pool[m].kind = "mid" /\ m # NULL
        BY <1>3, <2>1, <2>2 DEF IsA, Pointer
    <2>4. Pool[m].slot[Lo(p)] # NULL
        BY <1>3, <2>1, <2>3 DEF IsPage, IsA
    <2>5. Pool'[m].slot[Lo(p)] = Pool[m].slot[Lo(p)]
        BY <1>0, <1>2, <2>3, <2>4 DEF Grows
    <2>6. Pool'[root].slot[Hi(p)] = m
        BY <1>0, <1>3, <2>1, <2>3 DEF Grows, IsA
    <2>7. QED
        BY <2>3, <2>5, <2>6
<1>6. CASE TableCode' = TableCode
    <2>1. TableCode.Level \in {0, 1, 2} /\ TableCode'.Ptr = root /\ TableCode'.Level = TableCode.Level
        BY <1>0, <1>1, <1>6 DEF TableTypes
    <2>2. CASE TableCode.Level = 0
        BY <1>1, <2>1, <2>2 DEF Resolve
    <2>3. CASE TableCode.Level = 1
        <3>1. Resolve(h) = Pool[root].slot[p]
            BY <1>1, <1>2, <2>3 DEF Resolve
        <3>2. Resolve(h)' = Pool'[root].slot[p]
            BY <1>2, <2>1, <2>3 DEF Resolve
        <3>3. QED
            BY <1>4, <2>3, <3>1, <3>2
    <2>4. CASE TableCode.Level = 2
        <3>1. Resolve(h) = Pool[Pool[root].slot[Hi(p)]].slot[Lo(p)]
            BY <1>1, <1>2, <2>4 DEF Resolve
        <3>2. Resolve(h)' = Pool'[Pool'[root].slot[Hi(p)]].slot[Lo(p)]
            BY <1>2, <2>1, <2>4 DEF Resolve
        <3>3. QED
            BY <1>5, <2>4, <3>1, <3>2
    <2>5. QED
        BY <2>1, <2>2, <2>3, <2>4
<1>7. CASE TableCode'.Level = TableCode.Level + 1 /\ Pool'[TableCode'.Ptr].slot[0] = root
    <2>1. PICK new : new = TableCode'.Ptr /\ Pool'[new].slot[0] = root
        BY <1>7
    <2>2. CASE TableCode.Level = 0
        <3>1. p = 0
            <4>1. Pages \in Nat /\ Linked = 1 /\ NextHandleNeedingPool = Pages * LOWLEVEL_COUNT
                BY <1>0, <1>1, <2>2, NullIsNoBlock, Numbers DEF TreeInv
            <4>2. Pages <= 1
                BY <4>1 DEF Linked
            <4>3. p < Pages
                BY <1>0, <1>2, <4>1, PageBelow
            <4>4. QED
                BY <4>1, <4>2, <4>3
        <3>2. TableCode'.Level = 1
            BY <1>7, <2>2
        <3>3. QED
            BY <1>1, <1>2, <2>1, <2>2, <3>1, <3>2 DEF Resolve, PageOf
    <2>3. CASE TableCode.Level = 1
        <3>1. Hi(p) = 0 /\ Lo(p) = p
            BY <1>2, <1>3, <2>3, PlaceFacts, FirstSlots
        <3>2. TableCode'.Level = 2
            BY <1>7, <2>3
        <3>3. Resolve(h)' = Pool'[Pool'[new].slot[Hi(p)]].slot[Lo(p)]
            BY <1>2, <2>1, <3>2 DEF Resolve
        <3>4. Resolve(h) = Pool[root].slot[p]
            BY <1>1, <1>2, <2>3 DEF Resolve
        <3>5. QED
            BY <1>4, <2>1, <2>3, <3>1, <3>3, <3>4
    <2>4. CASE TableCode.Level = 2
        BY <1>0, <1>7, <2>4 DEF TableTypes
    <2>5. QED
        BY <1>0, <2>2, <2>3, <2>4 DEF TableTypes
<1>8. QED
    BY <1>1, <1>6, <1>7 DEF Stays

\* A valid handle stays where it is until the table is freed.
THEOREM EntriesDoNotMove == TableSpec => EntriesStay
<1>1. ASSUME TableInv, TableInv', [TableNext]_tableVars
      PROVE  [TableCode # NoTable /\ TableCode' # NoTable =>
                 \A h \in Handles : h < NextHandleNeedingPool => Resolve(h)' = Resolve(h)]_tableVars
    BY <1>1, NextTableInv, ResolveKept
<1>2. QED
    BY <1>1, TableInvariance, PTL DEF TableSpec, EntriesStay

(***************************************************************************)
(* No block leaks.                                                         *)
(***************************************************************************)
\* The pages that have information, and the threads that have to count one.
Informed == {b \in Blocks : Pool[b].kind = "low" /\ Pool[b].info # NULL}
Counting == {t \in Threads : pc[t] = "InfoCount"}

\* The pool and the threads are finite.
LEMMA BlocksFinite == IsFiniteSet(Blocks) /\ IsFiniteSet(Threads)
<1>1. Blocks = ((Region["low"] \cup Region["mid"]) \cup Region["high"]) \cup Region["info"]
    BY DEF Blocks, Kinds
<1>2. /\ IsFiniteSet(Region["low"]) /\ IsFiniteSet(Region["mid"])
      /\ IsFiniteSet(Region["high"]) /\ IsFiniteSet(Region["info"]) /\ IsFiniteSet(Threads)
    BY HandleTableAssumptions DEF Kinds
<1>3. IsFiniteSet(Region["low"] \cup Region["mid"])
    BY <1>2, FS_Union
<1>4. IsFiniteSet((Region["low"] \cup Region["mid"]) \cup Region["high"])
    BY <1>2, <1>3, FS_Union
<1>5. IsFiniteSet(((Region["low"] \cup Region["mid"]) \cup Region["high"]) \cup Region["info"])
    BY <1>2, <1>4, FS_Union
<1>6. QED
    BY <1>1, <1>2, <1>5

\* So are the sets that ExtraInfoPages counts.
LEMMA CountsFinite == IsFiniteSet(Informed) /\ IsFiniteSet(Counting)
<1>1. Informed \in SUBSET Blocks /\ Counting \in SUBSET Threads
    BY DEF Informed, Counting
<1>2. QED
    BY <1>1, BlocksFinite, FS_Subset

\* A step that neither gives a page information nor counts it.
LEMMA CountKept ==
    ASSUME InfoCounted, ExtraInfoPages' = ExtraInfoPages, Informed' = Informed, Counting' = Counting
    PROVE  InfoCounted'
    BY DEF InfoCounted, Informed, Counting

\* What is in the tree stays in it.
LEMMA PlacesKept ==
    ASSUME TableInv, TableInv', Stays, NEW b \in Blocks
    PROVE  /\ TreeHigh(b) => TreeHigh(b)'
           /\ TreeMid(b) => TreeMid(b)'
           /\ TreeLow(b) => TreeLow(b)'
<1>0. /\ TableTypes /\ TableTypes' /\ TreeInv /\ Grows /\ b # NULL /\ Pool \in [Blocks -> PoolType]
      /\ TableCode.Level \in {0, 1, 2} /\ TableCode'.Level \in {0, 1, 2}
    BY NullIsNoBlock DEF TableInv, TableTypes, Stays
<1>1. CASE TableCode.Ptr = NULL
    <2>1. TableCode.Level = 0
        BY <1>0, <1>1 DEF TreeInv, NoTable
    <2>2. QED
        BY <1>0, <1>1, <2>1 DEF TreeHigh, TreeMid, TreeLow
<1>2. CASE TableCode.Ptr # NULL
    <2>1. PICK root \in Blocks : root = TableCode.Ptr
        BY <1>0, <1>2 DEF TableTypes, Pointer
    <2>2. /\ TableCode.Level = 1 => Pool[root].kind = "mid"
          /\ TableCode.Level = 2 => Pool[root].kind = "high" /\ Pool[root].slot \in [Slots("high") -> Pointer]
        <3>1. ASSUME TableCode.Level = 1 PROVE Pool[root].kind = "mid"
            <4>1. LevelOne
                BY <1>0, <1>2, <3>1 DEF TreeInv
            <4>2. QED
                BY <2>1, <4>1 DEF LevelOne, IsA
        <3>2. ASSUME TableCode.Level = 2 PROVE Pool[root].kind = "high"
            <4>1. LevelTwo
                BY <1>0, <1>2, <3>2 DEF TreeInv
            <4>2. QED
                BY <2>1, <4>1 DEF LevelTwo, IsA
        <3>3. Pool[root].kind = "high" => Pool[root].slot \in [Slots("high") -> Pointer]
            BY <1>0, <2>1, Kind
        <3>4. QED
            BY <3>1, <3>2, <3>3
    <2>3. ASSUME NEW j \in Slots("high"), TableCode.Level = 2, Pool[root].slot[j] # NULL
          PROVE  /\ Pool'[root].slot[j] = Pool[root].slot[j]
                 /\ \A i \in Slots("mid") : Pool[Pool[root].slot[j]].slot[i] # NULL =>
                       Pool'[Pool[root].slot[j]].slot[i] = Pool[Pool[root].slot[j]].slot[i]
        <3>1. PICK m \in Blocks : m = Pool[root].slot[j]
            BY <2>2, <2>3 DEF Pointer
        <3>2. Pool[m].kind = "mid"
            BY <1>0, <1>2, <2>1, <2>3, <3>1 DEF TreeInv, LevelTwo, IsA
        <3>3. QED
            BY <1>0, <2>2, <2>3, <3>1, <3>2 DEF Grows
    <2>4. ASSUME NEW i \in Slots("mid"), TableCode.Level = 1, Pool[root].slot[i] # NULL
          PROVE  Pool'[root].slot[i] = Pool[root].slot[i]
        BY <1>0, <2>2, <2>4 DEF Grows
    <2>5. CASE TableCode' = TableCode
        <3>1. TreeHigh(b) => TreeHigh(b)'
            BY <2>5 DEF TreeHigh
        <3>2. TreeMid(b) => TreeMid(b)'
            BY <1>0, <2>1, <2>3, <2>5 DEF TreeMid
        <3>3. ASSUME TreeLow(b), TableCode.Level = 2 PROVE TreeLow(b)'
            <4>1. PICK j \in Slots("high"), i \in Slots("mid") : Pool[root].slot[j] # NULL /\ Pool[Pool[root].slot[j]].slot[i] = b
                BY <2>1, <3>3 DEF TreeLow
            <4>2. Pool'[root].slot[j] # NULL /\ Pool'[Pool'[root].slot[j]].slot[i] = b
                BY <1>0, <2>3, <3>3, <4>1
            <4>3. QED
                BY <2>1, <2>5, <3>3, <4>2 DEF TreeLow
        <3>4. TreeLow(b) /\ TableCode.Level = 1 => TreeLow(b)'
            BY <1>0, <2>1, <2>4, <2>5 DEF TreeLow
        <3>5. TreeLow(b) /\ TableCode.Level = 0 => TreeLow(b)'
            BY <2>1, <2>5 DEF TreeLow
        <3>6. QED
            BY <1>0, <3>1, <3>2, <3>3, <3>4, <3>5
    <2>6. CASE TableCode'.Level = TableCode.Level + 1 /\ Pool'[TableCode'.Ptr].slot[0] = TableCode.Ptr
        <3>1. TableCode.Level # 2
            BY <1>0, <2>6
        <3>2. CASE TableCode.Level = 0
            <4>1. TableCode'.Level = 1
                BY <2>6, <3>2
            <4>2. QED
                BY <2>1, <2>6, <3>2, <4>1, FirstSlots DEF TreeHigh, TreeMid, TreeLow
        <3>3. CASE TableCode.Level = 1
            <4>1. TableCode'.Level = 2
                BY <2>6, <3>3
            <4>2. TreeMid(b) => TreeMid(b)'
                BY <2>1, <2>6, <3>3, <4>1, FirstSlots DEF TreeMid
            <4>3. ASSUME TreeLow(b) PROVE TreeLow(b)'
                <5>1. PICK i \in Slots("mid") : Pool[root].slot[i] = b
                    BY <2>1, <3>3, <4>3 DEF TreeLow
                <5>2. Pool'[root].slot[i] = b
                    BY <1>0, <2>4, <3>3, <5>1
                <5>3. Pool'[TableCode'.Ptr].slot[0] = root /\ root # NULL
                    BY <1>2, <2>1, <2>6
                <5>4. QED
                    BY <4>1, <5>2, <5>3, FirstSlots DEF TreeLow
            <4>4. QED
                BY <3>3, <4>2, <4>3 DEF TreeHigh
        <3>4. QED
            BY <1>0, <3>1, <3>2, <3>3
    <2>7. QED
        BY <2>5, <2>6 DEF Stays
<1>3. QED
    BY <1>1, <1>2

\* A step that neither allocates nor frees a block of the tree.
LEMMA LevelsKept ==
    ASSUME TableInv, TableInv', PoolInv, Stays, NEW t \in Threads, Alone(t),
           pc[t] \notin {"AllocateMid", "AllocateLow", "Publish"}, NewLowLevel'[t] = NULL,
           \A b \in Blocks : Pool'[b].kind \in {"high", "mid", "low"} => Pool[b].kind = Pool'[b].kind
    PROVE  LevelsHeld'
<1>1. ASSUME NEW b \in Blocks
      PROVE  (HandHigh(b) => HandHigh(b)') /\ (HandMid(b) => HandMid(b)') /\ (HandLow(b) => HandLow(b)')
    BY DEF HandHigh, HandMid, HandLow, Alone
<1>2. \A u \in Threads : pc'[u] \notin {"Publish", "AddPage"} => NewLowLevel'[u] = NULL
    BY DEF PoolInv, LevelsHeld, Alone
<1>3. ASSUME NEW b \in Blocks
      PROVE  /\ Pool'[b].kind = "high" => TreeHigh(b)' \/ HandHigh(b)'
             /\ Pool'[b].kind = "mid" => TreeMid(b)' \/ HandMid(b)'
             /\ Pool'[b].kind = "low" => TreeLow(b)' \/ HandLow(b)'
    BY <1>1, PlacesKept DEF PoolInv, LevelsHeld
<1>4. QED
    BY <1>2, <1>3 DEF LevelsHeld

\* The same for the information tables.
LEMMA InfoHeldKept ==
    ASSUME TableInv, PoolInv, Stays, NEW t \in Threads, Alone(t),
           \A b \in Blocks : Pool'[b].kind = "info" =>
              \/ Pool[b].kind = "info" /\ ~(pc[t] = "InfoCas" /\ InfoTable[t] = b)
              \/ \E c \in Blocks : Pool'[c].kind = "low" /\ Pool'[c].info = b
              \/ pc'[t] = "InfoCas" /\ InfoTable'[t] = b
    PROVE  InfoHeld'
<1>1. ASSUME NEW b \in Blocks, Pool'[b].kind = "info", Pool[b].kind = "info", ~(pc[t] = "InfoCas" /\ InfoTable[t] = b)
      PROVE  \/ \E c \in Blocks : Pool'[c].kind = "low" /\ Pool'[c].info = b
             \/ \E u \in Threads : pc'[u] = "InfoCas" /\ InfoTable'[u] = b
    <2>1. CASE \E c \in Blocks : Pool[c].kind = "low" /\ Pool[c].info = b
        BY <2>1, NullIsNoBlock DEF Stays, Grows
    <2>2. CASE \E u \in Threads : pc[u] = "InfoCas" /\ InfoTable[u] = b
        BY <1>1, <2>2 DEF Alone
    <2>3. QED
        BY <1>1, <2>1, <2>2 DEF PoolInv, InfoHeld
<1>2. QED
    BY <1>1 DEF InfoHeld

\* A step that leaves the pool alone.
LEMMA PoolLeftAlone ==
    ASSUME TableInv, TableInv', PoolInv, Stays, NEW t \in Threads, Alone(t), Pool' = Pool, ExtraInfoPages' = ExtraInfoPages,
           pc[t] \notin {"AllocateMid", "AllocateLow", "Publish", "InfoCas", "InfoCount"},
           pc'[t] # "InfoCount", NewLowLevel'[t] = NULL
    PROVE  PoolInv'
<1>1. LevelsHeld'
    BY LevelsKept
<1>2. InfoHeld'
    BY InfoHeldKept
<1>3. Informed' = Informed
    BY DEF Informed
<1>4. Counting' = Counting
    BY DEF Counting, Alone
<1>5. QED
    BY <1>1, <1>2, <1>3, <1>4, CountKept DEF PoolInv

\* The lookups, and the beginning and the end of a growth.
LEMMA WalkPoolInv ==
    ASSUME TableInv, TableInv', PoolInv, Stays, NEW t \in Threads,
           \/ \E h \in Handles : Lookup(t, h)
           \/ Bound(t) \/ Capture(t) \/ WalkTwo(t) \/ WalkThree(t) \/ WalkMid(t) \/ LookupReturns(t)
           \/ InfoRead(t) \/ InfoWrite(t) \/ BeginGrowth(t) \/ AddPage(t)
    PROVE  PoolInv'
<1>0. TableTypes /\ (pc[t] \notin {"Publish", "AddPage"} => NewLowLevel[t] = NULL)
    BY DEF TableInv, PoolInv, LevelsHeld
<1>1. Pool' = Pool /\ ExtraInfoPages' = ExtraInfoPages
    BY DEF Lookup, Bound, Capture, WalkTwo, WalkThree, WalkMid, LookupReturns, InfoRead, InfoWrite, BeginGrowth, AddPage, shared
<1>2. pc[t] \notin {"AllocateMid", "AllocateLow", "Publish", "InfoCas", "InfoCount"}
    BY DEF Lookup, Bound, Capture, WalkTwo, WalkThree, WalkMid, LookupReturns, InfoRead, InfoWrite, BeginGrowth, AddPage
<1>3. CASE TableReturn(t)
    <2>1. Alone(t) /\ pc'[t] = "idle" /\ NewLowLevel'[t] = NULL
        BY <1>0, <1>3, Returned
    <2>2. QED
        BY <1>1, <1>2, <2>1, PoolLeftAlone
<1>4. CASE ~TableReturn(t)
    <2>1. \/ \E h \in Handles : Lookup(t, h)
          \/ Bound(t) \/ Capture(t) \/ WalkTwo(t) \/ WalkThree(t) \/ WalkMid(t) \/ InfoRead(t) \/ BeginGrowth(t)
        BY <1>4 DEF LookupReturns, InfoWrite, AddPage
    <2>2. UNCHANGED growth /\ pc[t] # "AddPage"
        BY <1>4, <2>1 DEF Lookup, Bound, Capture, WalkTwo, WalkThree, WalkMid, InfoRead, BeginGrowth, walk
    <2>3. NewLowLevel'[t] = NULL
        BY <1>0, <1>2, <2>2 DEF growth
    <2>4. \E label \in {"Bound", "Capture", "Found", "WalkTwo", "WalkThree", "WalkMid", "InfoAllocate", "InfoWrite",
                        "AllocateMid", "AllocateLow", "AllocateHigh"} : pc' = [pc EXCEPT ![t] = label]
        <3>1. TableCode.Level \in {0, 1, 2}
            BY <1>0 DEF TableTypes
        <3>2. CASE BeginGrowth(t)
            <4>1. PICK label \in {"AllocateMid", "AllocateLow", "AllocateHigh"} : Goto(t, label)
                BY <3>1, <3>2 DEF BeginGrowth
            <4>2. QED
                BY <4>1 DEF Goto
        <3>3. CASE Capture(t)
            <4>1. PICK label \in {"Found", "WalkTwo", "WalkThree"} : Goto(t, label)
                BY <3>1, <3>3 DEF Capture
            <4>2. QED
                BY <4>1 DEF Goto
        <3>4. QED
            BY <1>4, <2>1, <3>2, <3>3 DEF Lookup, Bound, WalkTwo, WalkThree, WalkMid, InfoRead, Goto
    <2>5. pc'[t] # "InfoCount" /\ \A u \in Threads \ {t} : pc'[u] = pc[u]
        BY <1>0, <2>4 DEF TableTypes
    <2>6. \A u \in Threads \ {t} : Handle'[u] = Handle[u] /\ TableLevel'[u] = TableLevel[u] /\ InfoTable'[u] = InfoTable[u]
        BY <1>0, <1>4, <2>1 DEF Lookup, Bound, Capture, WalkTwo, WalkThree, WalkMid, InfoRead, BeginGrowth, walk, TableTypes
    <2>7. Alone(t)
        BY <2>2, <2>5, <2>6 DEF Alone, growth
    <2>8. QED
        BY <1>1, <1>2, <2>3, <2>5, <2>7, PoolLeftAlone
<1>5. QED
    BY <1>3, <1>4

\* An information table is in hand once it is allocated.
LEMMA InfoAllocatePoolInv ==
    ASSUME TableInv, TableInv', PoolInv, Stays, NEW t \in Threads, InfoAllocate(t)
    PROVE  PoolInv'
<1>0. pc[t] = "InfoAllocate" /\ TableTypes /\ NewLowLevel[t] = NULL /\ ExtraInfoPages' = ExtraInfoPages
    BY DEF TableInv, PoolInv, LevelsHeld, InfoAllocate
<1>1. CASE TableReturn(t) /\ UNCHANGED Pool
    <2>1. Alone(t) /\ pc'[t] = "idle" /\ NewLowLevel'[t] = NULL
        BY <1>0, <1>1, Returned
    <2>2. QED
        BY <1>0, <1>1, <2>1, PoolLeftAlone
<1>2. CASE ~(TableReturn(t) /\ UNCHANGED Pool)
    <2>1. PICK b : b = NewBlock("info")
        OBVIOUS
    <2>2. /\ Available("info") # {} /\ Pool' = [Pool EXCEPT ![NewBlock("info")] = Info]
          /\ InfoTable' = [InfoTable EXCEPT ![t] = b] /\ pc' = [pc EXCEPT ![t] = "InfoCas"]
          /\ Handle' = Handle /\ TableLevel' = TableLevel
          /\ NewHighLevel' = NewHighLevel /\ NewMidLevel' = NewMidLevel /\ NewLowLevel' = NewLowLevel
        BY <1>2, <2>1 DEF InfoAllocate, Goto, growth
    <2>3. /\ b \in Blocks /\ b # NULL /\ Pool[b].kind = "none"
          /\ Pool'[b] = Info /\ Info.kind = "info" /\ \A c \in Blocks : c # b => Pool'[c] = Pool[c]
        BY <1>0, <2>1, <2>2, AllocateFresh, Contents DEF TableTypes, Kinds
    <2>4. Alone(t) /\ pc'[t] = "InfoCas" /\ InfoTable'[t] = b /\ NewLowLevel'[t] = NULL
        BY <1>0, <2>2 DEF TableTypes, Alone
    <2>5. LevelsHeld'
        BY <1>0, <2>3, <2>4, LevelsKept
    <2>6. InfoHeld'
        BY <1>0, <2>3, <2>4, InfoHeldKept
    <2>7. Informed' = Informed
        BY <2>3 DEF Informed
    <2>8. Counting' = Counting
        BY <1>0, <2>4 DEF Counting, Alone
    <2>9. QED
        BY <1>0, <2>5, <2>6, <2>7, <2>8, CountKept DEF PoolInv
<1>3. QED
    BY <1>1, <1>2

\* It is linked, to be counted, or given back.
LEMMA InfoCasPoolInv ==
    ASSUME TableInv, TableInv', PoolInv, Stays, NEW t \in Threads, InfoCas(t)
    PROVE  PoolInv'
<1>0. /\ pc[t] = "InfoCas" /\ TableTypes /\ InfoInv /\ NewLowLevel[t] = NULL /\ ExtraInfoPages' = ExtraInfoPages
      /\ Pool \in [Blocks -> PoolType] /\ ExtraInfoPages \in Nat
    BY DEF TableInv, PoolInv, LevelsHeld, InfoCas, TableTypes
<1>1. PICK b \in Blocks : b = TableLevel[t] /\ Pool[b].kind = "low"
    <2>1. WalkInv(t) /\ TableLevel[t] \in Pointer
        BY <1>0 DEF TableInv, TableTypes
    <2>2. QED
        BY <1>0, <2>1 DEF WalkInv, IsPage, IsA, Pointer
<1>2. PICK i \in Blocks : i = InfoTable[t] /\ Pool[i].kind = "info" /\ i # NULL
    BY <1>0 DEF InfoInv, IsA, TableTypes, Pointer
<1>3. /\ Handle' = Handle /\ TableLevel' = TableLevel
      /\ NewHighLevel' = NewHighLevel /\ NewMidLevel' = NewMidLevel /\ NewLowLevel' = NewLowLevel
    BY DEF InfoCas, growth
<1>4. CASE Pool[b].info = NULL
    <2>1. /\ Pool' = [Pool EXCEPT ![b].info = i] /\ pc' = [pc EXCEPT ![t] = "InfoCount"] /\ InfoTable' = InfoTable
        BY <1>1, <1>2, <1>4 DEF InfoCas, Goto
    <2>2. /\ \A c \in Blocks : c # b => Pool'[c] = Pool[c]
          /\ Pool'[b].kind = "low" /\ Pool'[b].info = i
        <3>1. Pool[b] \in [kind : {"low"}, base : Handles, info : Pointer]
            BY <1>0, <1>1, Kind
        <3>2. QED
            BY <1>0, <2>1, <3>1
    <2>3. Alone(t) /\ pc'[t] = "InfoCount" /\ NewLowLevel'[t] = NULL
        BY <1>0, <1>3, <2>1 DEF TableTypes, Alone
    <2>4. LevelsHeld'
        BY <1>0, <1>1, <2>2, <2>3, LevelsKept
    <2>5. InfoHeld'
        BY <1>0, <1>1, <1>2, <2>2, <2>3, InfoHeldKept
    <2>6. InfoCounted'
        <3>1. Informed' = Informed \cup {b} /\ b \notin Informed
            BY <1>1, <1>2, <1>4, <2>2 DEF Informed
        <3>2. Counting' = Counting \cup {t} /\ t \notin Counting
            BY <1>0, <2>3 DEF Counting, Alone
        <3>3. Cardinality(Informed \cup {b}) = Cardinality(Informed) + 1
            BY <3>1, CountsFinite, FS_AddElement
        <3>4. Cardinality(Counting \cup {t}) = Cardinality(Counting) + 1
            BY <3>2, CountsFinite, FS_AddElement
        <3>5. ExtraInfoPages + Cardinality(Counting) = Cardinality(Informed)
            BY DEF PoolInv, InfoCounted, Informed, Counting
        <3>6. Cardinality(Informed) \in Nat /\ Cardinality(Counting) \in Nat
            BY CountsFinite, FS_CardinalityType
        <3>7. ExtraInfoPages' + Cardinality(Counting') = Cardinality(Informed')
            BY <1>0, <3>1, <3>2, <3>3, <3>4, <3>5, <3>6
        <3>8. QED
            BY <3>7 DEF InfoCounted, Informed, Counting
    <2>7. QED
        BY <2>4, <2>5, <2>6 DEF PoolInv
<1>5. CASE Pool[b].info # NULL
    <2>1. Pool' = Without({i}) /\ pc' = [pc EXCEPT ![t] = "InfoWrite"]
        BY <1>1, <1>2, <1>5 DEF InfoCas, Goto
    <2>2. /\ Pool'[i] = Unallocated /\ Unallocated.kind = "none"
          /\ \A c \in Blocks : c # i => Pool'[c] = Pool[c]
        BY <1>0, <2>1, Contents DEF Without
    <2>3. Alone(t) /\ pc'[t] = "InfoWrite" /\ NewLowLevel'[t] = NULL
        <3>1. \A u \in Threads \ {t} : InfoTable'[u] = InfoTable[u]
            BY <1>0 DEF InfoCas, TableTypes
        <3>2. QED
            BY <1>0, <1>3, <2>1, <3>1 DEF TableTypes, Alone
    <2>4. LevelsHeld'
        BY <1>0, <2>2, <2>3, LevelsKept
    <2>5. InfoHeld'
        BY <1>0, <1>2, <2>2, <2>3, InfoHeldKept
    <2>6. Informed' = Informed
        BY <1>2, <2>2 DEF Informed
    <2>7. Counting' = Counting
        BY <1>0, <2>3 DEF Counting, Alone
    <2>8. QED
        BY <1>0, <2>4, <2>5, <2>6, <2>7, CountKept DEF PoolInv
<1>6. QED
    BY <1>4, <1>5

\* It is counted.
LEMMA InfoCountPoolInv ==
    ASSUME TableInv, TableInv', PoolInv, Stays, NEW t \in Threads, InfoCount(t)
    PROVE  PoolInv'
<1>1. /\ pc[t] = "InfoCount" /\ pc' = [pc EXCEPT ![t] = "InfoWrite"] /\ ExtraInfoPages' = ExtraInfoPages + 1
      /\ Pool' = Pool /\ Handle' = Handle /\ TableLevel' = TableLevel /\ InfoTable' = InfoTable
      /\ NewHighLevel' = NewHighLevel /\ NewMidLevel' = NewMidLevel /\ NewLowLevel' = NewLowLevel
    BY DEF InfoCount, Goto, walk, growth
<1>2. Alone(t) /\ pc'[t] = "InfoWrite" /\ NewLowLevel'[t] = NULL /\ ExtraInfoPages \in Nat
    BY <1>1 DEF TableInv, TableTypes, Alone, PoolInv, LevelsHeld
<1>3. LevelsHeld'
    BY <1>1, <1>2, LevelsKept
<1>4. InfoHeld'
    BY <1>1, <1>2, InfoHeldKept
<1>5. InfoCounted'
    <2>1. Informed' = Informed
        BY <1>1 DEF Informed
    <2>2. Counting' = Counting \ {t} /\ t \in Counting
        BY <1>1, <1>2 DEF Counting, Alone
    <2>3. Cardinality(Counting \ {t}) = Cardinality(Counting) - 1
        BY <2>2, CountsFinite, FS_RemoveElement
    <2>4. ExtraInfoPages + Cardinality(Counting) = Cardinality(Informed)
        BY DEF PoolInv, InfoCounted, Informed, Counting
    <2>5. Cardinality(Informed) \in Nat /\ Cardinality(Counting) \in Nat
        BY CountsFinite, FS_CardinalityType
    <2>6. ExtraInfoPages' + Cardinality(Counting') = Cardinality(Informed')
        BY <1>1, <1>2, <2>1, <2>2, <2>3, <2>4, <2>5
    <2>7. QED
        BY <2>6 DEF InfoCounted, Informed, Counting
<1>6. QED
    BY <1>3, <1>4, <1>5 DEF PoolInv

\* Only one thread has anything in hand for a growth.
LEMMA OneHand ==
    ASSUME TableInv, NEW t \in Threads, Growing(t)
    PROVE  \A b : /\ HandHigh(b) => pc[t] \in {"AllocateMid", "AllocateLow", "Publish"} /\ b = NewHighLevel[t]
                  /\ HandMid(b) => pc[t] \in {"AllocateLow", "Publish"} /\ b = NewMidLevel[t]
                  /\ HandLow(b) => pc[t] = "Publish" /\ b = NewLowLevel[t]
<1>1. \A u \in Threads : Growing(u) => u = t
    BY DEF TableInv, GrowInv
<1>2. QED
    BY <1>1 DEF HandHigh, HandMid, HandLow, Growing

\* An allocation of a growth, or its failure.
LEMMA AllocationPoolInv ==
    ASSUME TableInv, TableInv', PoolInv, Stays, NEW t \in Threads, Growing(t), Alone(t), ExtraInfoPages' = ExtraInfoPages,
           pc'[t] \in {"idle", "AllocateMid", "AllocateLow", "Publish"},
           pc'[t] # "Publish" => NewLowLevel'[t] = NULL,
           \A b \in Blocks : /\ Pool'[b].kind = "info" => Pool[b].kind = "info"
                             /\ Pool'[b].kind = "low" => Pool'[b] = Pool[b] \/ Pool'[b].info = NULL
                             /\ Pool[b].kind = "low" => Pool'[b] = Pool[b],
           \A b \in Blocks : Pool'[b].kind = "high" => TreeHigh(b) \/ HandHigh(b)',
           \A b \in Blocks : Pool'[b].kind = "mid" => TreeMid(b) \/ HandMid(b)',
           \A b \in Blocks : Pool'[b].kind = "low" => TreeLow(b) \/ HandLow(b)'
    PROVE  PoolInv'
<1>1. LevelsHeld'
    <2>1. \A u \in Threads : pc'[u] \notin {"Publish", "AddPage"} => NewLowLevel'[u] = NULL
        BY DEF PoolInv, LevelsHeld, Alone
    <2>2. QED
        BY <2>1, PlacesKept DEF LevelsHeld
<1>2. InfoHeld'
    <2>1. pc[t] # "InfoCas"
        BY DEF Growing
    <2>2. QED
        BY <2>1, InfoHeldKept
<1>3. Informed' = Informed
    BY DEF Informed
<1>4. Counting' = Counting
    BY DEF Counting, Alone, Growing
<1>5. QED
    BY <1>1, <1>2, <1>3, <1>4, CountKept DEF PoolInv

\* The top level is in hand once it is allocated.
LEMMA AllocateHighPoolInv ==
    ASSUME TableInv, TableInv', PoolInv, Stays, NEW t \in Threads, AllocateHigh(t)
    PROVE  PoolInv'
<1>0. /\ pc[t] = "AllocateHigh" /\ TableTypes /\ Growing(t) /\ NewLowLevel[t] = NULL /\ ExtraInfoPages' = ExtraInfoPages
      /\ LevelsHeld
    BY DEF TableInv, PoolInv, LevelsHeld, AllocateHigh, Growing
<1>1. \A b : ~HandHigh(b) /\ ~HandMid(b) /\ ~HandLow(b)
    BY <1>0, OneHand
<1>2. CASE TableReturn(t) /\ UNCHANGED Pool
    <2>1. Alone(t) /\ pc'[t] = "idle" /\ NewLowLevel'[t] = NULL
        BY <1>0, <1>2, Returned
    <2>2. QED
        BY <1>0, <1>2, <2>1, PoolLeftAlone
<1>3. CASE ~(TableReturn(t) /\ UNCHANGED Pool)
    <2>1. PICK b : b = NewBlock("high")
        OBVIOUS
    <2>2. /\ Available("high") # {} /\ Pool' = [Pool EXCEPT ![NewBlock("high")] = Zeroed("high")]
          /\ NewHighLevel' = [NewHighLevel EXCEPT ![t] = b] /\ pc' = [pc EXCEPT ![t] = "AllocateMid"]
          /\ Handle' = Handle /\ TableLevel' = TableLevel /\ InfoTable' = InfoTable
          /\ NewMidLevel' = NewMidLevel /\ NewLowLevel' = NewLowLevel
        BY <1>3, <2>1 DEF AllocateHigh, Goto
    <2>3. /\ b \in Blocks /\ Pool[b].kind = "none" /\ Pool'[b] = Zeroed("high") /\ Zeroed("high").kind = "high"
          /\ \A c \in Blocks : c # b => Pool'[c] = Pool[c]
        BY <1>0, <2>1, <2>2, AllocateFresh, Contents DEF Kinds, TableTypes
    <2>4. Alone(t) /\ pc'[t] = "AllocateMid" /\ NewHighLevel'[t] = b /\ NewLowLevel'[t] = NULL
        BY <1>0, <2>2 DEF TableTypes, Alone
    <2>5. HandHigh(b)'
        BY <2>4 DEF HandHigh
    <2>6. \A c \in Blocks : Pool'[c].kind = "high" => TreeHigh(c) \/ HandHigh(c)'
        BY <1>0, <1>1, <2>3, <2>5 DEF LevelsHeld
    <2>7. \A c \in Blocks : Pool'[c].kind \in {"mid", "low"} => Pool'[c] = Pool[c]
        BY <2>3
    <2>8. \A c \in Blocks : /\ Pool'[c].kind = "mid" => TreeMid(c)
                            /\ Pool'[c].kind = "low" => TreeLow(c)
        BY <1>0, <1>1, <2>7 DEF LevelsHeld
    <2>9. \A c \in Blocks : /\ Pool'[c].kind = "info" => Pool[c].kind = "info"
                            /\ Pool[c].kind = "low" => Pool'[c] = Pool[c]
        BY <2>3
    <2>10. QED
        BY <1>0, <2>4, <2>6, <2>7, <2>8, <2>9, AllocationPoolInv
<1>4. QED
    BY <1>2, <1>3

\* A mid level table is in hand, or the top level is given back.
LEMMA AllocateMidPoolInv ==
    ASSUME TableInv, TableInv', PoolInv, Stays, NEW t \in Threads, AllocateMid(t)
    PROVE  PoolInv'
<1>0. /\ pc[t] = "AllocateMid" /\ TableTypes /\ Growing(t) /\ NewLowLevel[t] = NULL /\ ExtraInfoPages' = ExtraInfoPages
      /\ LevelsHeld
    BY DEF TableInv, PoolInv, LevelsHeld, AllocateMid, Growing
<1>h. PICK high \in Pointer : high = NewHighLevel[t] /\ (high # NULL => Pool[high].kind = "high")
    BY <1>0, Contents DEF TableInv, GrowInv, TableTypes
<1>1. \A b : (HandHigh(b) => b = high) /\ ~HandMid(b) /\ ~HandLow(b)
    BY <1>0, <1>h, OneHand
<1>2. CASE Pool' = Without({NewHighLevel[t]}) /\ TableReturn(t)
    <2>1. Alone(t) /\ pc'[t] = "idle" /\ NewLowLevel'[t] = NULL
        BY <1>0, <1>2, Returned
    <2>2. \A b \in Blocks : Pool'[b] = IF b = high THEN Unallocated ELSE Pool[b]
        BY <1>2, <1>h DEF Without
    <2>3. \A b \in Blocks : Pool'[b].kind \in {"info", "low", "mid", "high"} => Pool'[b] = Pool[b] /\ b # high
        BY <2>2, Contents
    <2>4. \A b \in Blocks : Pool[b].kind = "low" => Pool'[b] = Pool[b]
        BY <1>h, <2>2, NullIsNoBlock
    <2>5. \A b \in Blocks : /\ Pool'[b].kind = "high" => TreeHigh(b)
                            /\ Pool'[b].kind = "mid" => TreeMid(b)
                            /\ Pool'[b].kind = "low" => TreeLow(b)
        BY <1>0, <1>1, <2>3 DEF LevelsHeld
    <2>6. QED
        BY <1>0, <2>1, <2>3, <2>4, <2>5, AllocationPoolInv
<1>3. CASE ~(Pool' = Without({NewHighLevel[t]}) /\ TableReturn(t))
    <2>1. PICK b : b = NewBlock("mid")
        OBVIOUS
    <2>2. /\ Available("mid") # {} /\ Pool' = [Pool EXCEPT ![NewBlock("mid")] = Zeroed("mid")]
          /\ NewMidLevel' = [NewMidLevel EXCEPT ![t] = b] /\ pc' = [pc EXCEPT ![t] = "AllocateLow"]
          /\ Handle' = Handle /\ TableLevel' = TableLevel /\ InfoTable' = InfoTable
          /\ NewHighLevel' = NewHighLevel /\ NewLowLevel' = NewLowLevel
        BY <1>3, <2>1 DEF AllocateMid, Goto
    <2>3. /\ b \in Blocks /\ Pool[b].kind = "none" /\ Pool'[b] = Zeroed("mid") /\ Zeroed("mid").kind = "mid"
          /\ \A c \in Blocks : c # b => Pool'[c] = Pool[c]
        BY <1>0, <2>1, <2>2, AllocateFresh, Contents DEF Kinds, TableTypes
    <2>4. Alone(t) /\ pc'[t] = "AllocateLow" /\ NewMidLevel'[t] = b /\ NewLowLevel'[t] = NULL /\ NewHighLevel'[t] = high
        BY <1>0, <1>h, <2>2 DEF TableTypes, Alone
    <2>5. HandMid(b)' /\ HandHigh(high)'
        BY <2>4 DEF HandMid, HandHigh
    <2>6. \A c \in Blocks : Pool'[c].kind = "high" => TreeHigh(c) \/ HandHigh(c)'
        BY <1>0, <1>1, <2>3, <2>5 DEF LevelsHeld
    <2>7. \A c \in Blocks : Pool'[c].kind = "mid" => TreeMid(c) \/ HandMid(c)'
        BY <1>0, <1>1, <2>3, <2>5 DEF LevelsHeld
    <2>8. \A c \in Blocks : Pool'[c].kind \in {"low", "info"} => Pool'[c] = Pool[c]
        BY <2>3
    <2>9. \A c \in Blocks : Pool'[c].kind = "low" => TreeLow(c)
        BY <1>0, <1>1, <2>8 DEF LevelsHeld
    <2>10. \A c \in Blocks : Pool[c].kind = "low" => Pool'[c] = Pool[c]
        BY <2>3
    <2>11. QED
        BY <1>0, <2>4, <2>6, <2>7, <2>8, <2>9, <2>10, AllocationPoolInv
<1>4. QED
    BY <1>2, <1>3

\* A page is in hand, or both tables are given back.
LEMMA AllocateLowPoolInv ==
    ASSUME TableInv, TableInv', PoolInv, Stays, NEW t \in Threads, AllocateLow(t)
    PROVE  PoolInv'
<1>0. /\ pc[t] = "AllocateLow" /\ TableTypes /\ Growing(t) /\ NewLowLevel[t] = NULL /\ ExtraInfoPages' = ExtraInfoPages
      /\ LevelsHeld /\ NextHandleNeedingPool \in Handles
    BY NextIsHandle DEF TableInv, PoolInv, LevelsHeld, AllocateLow, Growing
<1>h. PICK high \in Pointer : high = NewHighLevel[t] /\ (high # NULL => Pool[high].kind = "high")
    BY <1>0, Contents DEF TableInv, GrowInv, TableTypes
<1>m. PICK mid \in Pointer : mid = NewMidLevel[t] /\ (mid # NULL => Pool[mid].kind = "mid")
    BY <1>0, Contents DEF TableInv, GrowInv, TableTypes
<1>1. \A b : (HandHigh(b) => b = high) /\ (HandMid(b) => b = mid) /\ ~HandLow(b)
    BY <1>0, <1>h, <1>m, OneHand
<1>2. CASE Pool' = Without({NewHighLevel[t], NewMidLevel[t]}) /\ TableReturn(t)
    <2>1. Alone(t) /\ pc'[t] = "idle" /\ NewLowLevel'[t] = NULL
        BY <1>0, <1>2, Returned
    <2>2. \A b \in Blocks : Pool'[b] = IF b = high \/ b = mid THEN Unallocated ELSE Pool[b]
        BY <1>2, <1>h, <1>m DEF Without
    <2>3. \A b \in Blocks : Pool'[b].kind \in {"info", "low", "mid", "high"} => Pool'[b] = Pool[b] /\ b # high /\ b # mid
        BY <2>2, Contents
    <2>4. \A b \in Blocks : Pool[b].kind = "low" => Pool'[b] = Pool[b]
        BY <1>h, <1>m, <2>2, NullIsNoBlock
    <2>5. \A b \in Blocks : /\ Pool'[b].kind = "high" => TreeHigh(b)
                            /\ Pool'[b].kind = "mid" => TreeMid(b)
                            /\ Pool'[b].kind = "low" => TreeLow(b)
        BY <1>0, <1>1, <2>3 DEF LevelsHeld
    <2>6. QED
        BY <1>0, <2>1, <2>3, <2>4, <2>5, AllocationPoolInv
<1>3. CASE ~(Pool' = Without({NewHighLevel[t], NewMidLevel[t]}) /\ TableReturn(t))
    <2>1. PICK b : b = NewBlock("low")
        OBVIOUS
    <2>2. /\ Available("low") # {} /\ Pool' = [Pool EXCEPT ![NewBlock("low")] = LowLevel(NextHandleNeedingPool)]
          /\ NewLowLevel' = [NewLowLevel EXCEPT ![t] = b] /\ pc' = [pc EXCEPT ![t] = "Publish"]
          /\ Handle' = Handle /\ TableLevel' = TableLevel /\ InfoTable' = InfoTable
          /\ NewHighLevel' = NewHighLevel /\ NewMidLevel' = NewMidLevel
        BY <1>3, <2>1 DEF AllocateLow, Goto
    <2>3. /\ b \in Blocks /\ Pool[b].kind = "none" /\ Pool'[b] = LowLevel(NextHandleNeedingPool)
          /\ \A c \in Blocks : c # b => Pool'[c] = Pool[c]
        BY <1>0, <2>1, <2>2, AllocateFresh, Contents DEF Kinds, TableTypes
    <2>4. Alone(t) /\ pc'[t] = "Publish" /\ NewMidLevel'[t] = mid /\ NewLowLevel'[t] = b /\ NewHighLevel'[t] = high
        BY <1>0, <1>h, <1>m, <2>2 DEF TableTypes, Alone
    <2>5. HandMid(mid)' /\ HandHigh(high)' /\ HandLow(b)'
        BY <2>4 DEF HandMid, HandHigh, HandLow
    <2>6. Pool'[b].kind = "low" /\ Pool'[b].info = NULL
        BY <2>3, Contents
    <2>7. \A c \in Blocks : Pool'[c].kind = "high" => TreeHigh(c) \/ HandHigh(c)'
        BY <1>0, <1>1, <2>3, <2>5, <2>6 DEF LevelsHeld
    <2>8. \A c \in Blocks : Pool'[c].kind = "mid" => TreeMid(c) \/ HandMid(c)'
        BY <1>0, <1>1, <2>3, <2>5, <2>6 DEF LevelsHeld
    <2>9. \A c \in Blocks : Pool'[c].kind = "low" => TreeLow(c) \/ HandLow(c)'
        BY <1>0, <1>1, <2>3, <2>5 DEF LevelsHeld
    <2>10. \A c \in Blocks : /\ Pool'[c].kind = "info" => Pool[c].kind = "info"
                             /\ Pool'[c].kind = "low" => Pool'[c] = Pool[c] \/ Pool'[c].info = NULL
                             /\ Pool[c].kind = "low" => Pool'[c] = Pool[c]
        BY <2>3, <2>6
    <2>11. QED
        BY <1>0, <2>4, <2>7, <2>8, <2>9, <2>10, AllocationPoolInv
<1>4. QED
    BY <1>2, <1>3

\* What was in hand is in the tree, and nothing is in hand any more.
LEMMA PublishPoolInv ==
    ASSUME TableInv, TableInv', PoolInv, Stays, KindsKept, NEW t \in Threads, Placed(t), Publish(t)
    PROVE  PoolInv'
<1>1. /\ pc[t] = "Publish" /\ pc' = [pc EXCEPT ![t] = "AddPage"] /\ ExtraInfoPages' = ExtraInfoPages
      /\ Handle' = Handle /\ TableLevel' = TableLevel /\ InfoTable' = InfoTable
      /\ NewHighLevel' = NewHighLevel /\ NewMidLevel' = NewMidLevel /\ NewLowLevel' = NewLowLevel
    BY Zenon DEF Publish, Goto, walk, growth
<1>2. Alone(t) /\ pc'[t] = "AddPage" /\ Growing(t)
    BY <1>1 DEF TableInv, TableTypes, Alone, Growing
<1>3. PICK low \in Pointer, mid \in Pointer, high \in Pointer :
        /\ low = NewLowLevel[t] /\ mid = NewMidLevel[t] /\ high = NewHighLevel[t]
        /\ TreeLow(low)' /\ (mid # NULL => TreeMid(mid)') /\ (high # NULL => TreeHigh(high)')
    BY DEF Placed
<1>4. \A b \in Blocks : (HandHigh(b) => TreeHigh(b)') /\ (HandMid(b) => TreeMid(b)') /\ (HandLow(b) => TreeLow(b)')
    <2>1. ASSUME NEW b \in Blocks PROVE (HandHigh(b) => b = high) /\ (HandMid(b) => b = mid) /\ (HandLow(b) => b = low)
        BY <1>2, <1>3, OneHand
    <2>2. QED
        BY <1>3, <2>1, NullIsNoBlock
<1>5. LevelsHeld'
    <2>1. \A u \in Threads : pc'[u] \notin {"Publish", "AddPage"} => NewLowLevel'[u] = NULL
        BY <1>2 DEF PoolInv, LevelsHeld, Alone
    <2>2. ASSUME NEW b \in Blocks
          PROVE  /\ Pool'[b].kind = "high" => TreeHigh(b)'
                 /\ Pool'[b].kind = "mid" => TreeMid(b)'
                 /\ Pool'[b].kind = "low" => TreeLow(b)'
        BY <1>4, PlacesKept DEF KindsKept, PoolInv, LevelsHeld
    <2>3. QED
        BY <2>1, <2>2 DEF LevelsHeld
<1>6. InfoHeld'
    BY <1>1, <1>2, InfoHeldKept DEF KindsKept
<1>7. Informed' = Informed
    BY DEF Informed, KindsKept
<1>8. Counting' = Counting
    BY <1>1, <1>2 DEF Counting, Alone
<1>9. QED
    BY <1>1, <1>5, <1>6, <1>7, <1>8, CountKept DEF PoolInv

\* With no block of the tree allocated there are no information tables either.
LEMMA EmptyPool ==
    ASSUME \A b \in Blocks : Pool[b] = Unallocated, \A t \in Threads : pc[t] = "idle" /\ NewLowLevel[t] = NULL,
           ExtraInfoPages = 0
    PROVE  PoolInv
<1>1. \A b \in Blocks : Pool[b].kind = "none"
    BY Contents
<1>2. LevelsHeld /\ InfoHeld
    BY <1>1 DEF LevelsHeld, InfoHeld
<1>3. Informed = {} /\ Counting = {}
    BY <1>1 DEF Informed, Counting
<1>4. Cardinality(Informed) = 0 /\ Cardinality(Counting) = 0
    BY <1>3, FS_EmptySet
<1>5. InfoCounted
    BY <1>4 DEF InfoCounted, Informed, Counting
<1>6. QED
    BY <1>2, <1>5 DEF PoolInv

\* Without a table nothing is allocated.
LEMMA NoTableNoBlocks ==
    ASSUME TableInv, PoolInv, TableCode = NoTable
    PROVE  \A b \in Blocks : Pool[b] = Unallocated
<1>1. TableCode.Ptr = NULL /\ TableCode.Level = 0 /\ \A t \in Threads : pc[t] = "idle"
    BY DEF NoTable, TableInv, TreeInv
<1>2. \A b : ~HandHigh(b) /\ ~HandMid(b) /\ ~HandLow(b)
    BY <1>1 DEF HandHigh, HandMid, HandLow
<1>3. \A b \in Blocks : ~TreeHigh(b) /\ ~TreeMid(b) /\ ~TreeLow(b)
    BY <1>1, NullIsNoBlock DEF TreeHigh, TreeMid, TreeLow
<1>4. \A b \in Blocks : Pool[b].kind \notin {"high", "mid", "low"}
    BY <1>2, <1>3 DEF PoolInv, LevelsHeld
<1>5. \A b \in Blocks : Pool[b].kind # "info"
    BY <1>1, <1>4 DEF PoolInv, InfoHeld
<1>6. \A b \in Blocks : Pool[b] \in PoolType
    BY DEF TableInv, TableTypes
<1>7. QED
    BY <1>4, <1>5, <1>6, Kind

\* The first page is the tree.
LEMMA CreateTablePoolInv ==
    ASSUME TableInv, PoolInv, NEW t \in Threads, CreateTable(t)
    PROVE  PoolInv'
<1>0. TableTypes /\ TableCode = NoTable /\ \A u \in Threads : pc[u] = "idle"
    BY DEF TableInv, TreeInv, CreateTable, NoTable
<1>1. \A b \in Blocks : Pool[b] = Unallocated /\ Pool[b].kind = "none"
    BY <1>0, NoTableNoBlocks, Contents
<1>2. PICK b : b = NewBlock("low")
    OBVIOUS
<1>3. /\ Available("low") # {} /\ Pool' = [Pool EXCEPT ![NewBlock("low")] = LowLevel(0)]
      /\ TableCode' = [Level |-> 0, Ptr |-> b] /\ ExtraInfoPages' = 0 /\ pc' = pc /\ NewLowLevel' = NewLowLevel
    BY <1>2 DEF CreateTable, walk, growth
<1>4. 0 \in Handles
    <2>1. LOWLEVEL_COUNT * MIDLEVEL_COUNT \in Nat
        BY HandleTableAssumptions
    <2>2. LOWLEVEL_COUNT * MIDLEVEL_COUNT * HIGHLEVEL_COUNT \in Nat
        BY <2>1, HandleTableAssumptions
    <2>3. QED
        BY <2>2 DEF Handles
<1>5. b \in Blocks /\ Pool'[b] = LowLevel(0) /\ \A c \in Blocks : c # b => Pool'[c] = Pool[c]
    BY <1>0, <1>2, <1>3, <1>4, AllocateFresh, Contents DEF Kinds, TableTypes
<1>6. Pool'[b].kind = "low" /\ Pool'[b].info = NULL
    BY <1>5, Contents
<1>7. TreeLow(b)'
    BY <1>3 DEF TreeLow
<1>8. \A u \in Threads : NewLowLevel'[u] = NULL
    BY <1>0, <1>3 DEF PoolInv, LevelsHeld
<1>9. LevelsHeld'
    BY <1>1, <1>5, <1>6, <1>7, <1>8 DEF LevelsHeld
<1>10. InfoHeld'
    BY <1>1, <1>5, <1>6 DEF InfoHeld
<1>11. InfoCounted'
    <2>1. Informed' = {} /\ Counting' = {}
        BY <1>0, <1>1, <1>3, <1>5, <1>6 DEF Informed, Counting
    <2>2. Cardinality(Informed') = 0 /\ Cardinality(Counting') = 0
        BY <2>1, FS_EmptySet
    <2>3. QED
        BY <1>3, <2>2 DEF InfoCounted, Informed, Counting
<1>12. QED
    BY <1>9, <1>10, <1>11 DEF PoolInv

\* The destruction frees every block there is.
LEMMA FreedIsAll ==
    ASSUME TableInv, PoolInv, TableCode.Ptr \in Blocks, \A u \in Threads : pc[u] = "idle", NEW b \in Blocks, Pool[b] # Unallocated
    PROVE  b \in Freed
<1>0. /\ TableTypes /\ TreeInv /\ Pool \in [Blocks -> PoolType] /\ TableCode.Ptr # NULL /\ Linked = Pages /\ Pages \in Nat
      /\ TableCode.Level \in {0, 1, 2}
    BY Numbers, NullIsNoBlock DEF TableInv, Linked, TableTypes
<1>1. PICK root \in Blocks : root = TableCode.Ptr
    OBVIOUS
<1>2. \A c : ~HandHigh(c) /\ ~HandMid(c) /\ ~HandLow(c)
    BY DEF HandHigh, HandMid, HandLow
<1>3. \A c \in Blocks : /\ Pool[c].kind = "high" => TreeHigh(c)
                        /\ Pool[c].kind = "mid" => TreeMid(c)
                        /\ Pool[c].kind = "low" => TreeLow(c)
    BY <1>2 DEF PoolInv, LevelsHeld
<1>4. ASSUME NEW c \in Blocks, TreeMid(c) PROVE c \in Freed /\ (TableCode.Level = 2 => c \in Leading(root))
    <2>1. CASE TableCode.Level = 1
        BY <1>4, <2>1 DEF TreeMid, Freed, FreedMid
    <2>2. CASE TableCode.Level = 2
        <3>1. PICK j \in Slots("high") : Pool[root].slot[j] = c
            BY <1>1, <1>4, <2>2 DEF TreeMid
        <3>2. PICK top \in [Slots("high") -> Pointer] :
                /\ Pool[root].slot = top
                /\ \A k \in Slots("high") : top[k] # NULL => Pool[top[k]].slot[0] # NULL
                /\ \A p \in Nat : p < Pages => Hi(p) \in Slots("high") /\ top[Hi(p)] # NULL
            BY <1>0, <1>1, <2>2, TopLevel
        <3>3. Pool[c].slot[0] # NULL
            BY <3>1, <3>2, NullIsNoBlock
        <3>4. PICK p \in Nat : p < Pages /\ Hi(p) = j /\ Lo(p) = 0
            BY <1>0, <1>1, <2>2, <3>1, <3>3, FirstSlots, MidHasPages
        <3>5. ASSUME NEW k \in 0 .. j PROVE k \in Slots("high") /\ top[k] # NULL
            <4>0. j \in Nat /\ k \in Nat /\ k <= j
                BY FirstSlots
            <4>1. PICK q \in Nat : Hi(q) = k /\ Lo(q) = 0
                BY <4>0, FirstSlots, PlaceOfPage
            <4>2. q <= p
                <5>1. MIDLEVEL_COUNT \in Nat \ {0}
                    BY HandleTableAssumptions
                <5>2. q = (Hi(q) * MIDLEVEL_COUNT) + Lo(q) /\ p = (Hi(p) * MIDLEVEL_COUNT) + Lo(p)
                    BY <5>1, DivMod DEF Hi, Lo
                <5>3. k * MIDLEVEL_COUNT <= j * MIDLEVEL_COUNT
                    BY <4>0, <5>1, MultiplesGrow
                <5>4. q = k * MIDLEVEL_COUNT /\ p = j * MIDLEVEL_COUNT
                    <6>1. k * MIDLEVEL_COUNT \in Nat /\ j * MIDLEVEL_COUNT \in Nat
                        BY <4>0, <5>1, Multiples
                    <6>2. q = (k * MIDLEVEL_COUNT) + 0 /\ p = (j * MIDLEVEL_COUNT) + 0
                        BY <3>4, <4>1, <5>2
                    <6>3. QED
                        BY <6>1, <6>2
                <5>5. QED
                    BY <5>3, <5>4
            <4>3. q < Pages
                BY <1>0, <3>4, <4>2
            <4>4. QED
                BY <3>2, <4>1, <4>3
        <3>6. c \in Leading(root)
            <4>1. DOMAIN Pool[root].slot = Slots("high")
                BY <3>2
            <4>2. j \in {i \in DOMAIN Pool[root].slot : \A k \in 0 .. i : Pool[root].slot[k] # NULL}
                BY <3>2, <3>5, <4>1
            <4>3. QED
                BY <3>1, <4>2 DEF Leading
        <3>7. Freed = FreedHigh(root)
            BY <1>1, <2>2 DEF Freed
        <3>8. QED
            BY <3>6, <3>7 DEF FreedHigh, FreedMid
    <2>3. QED
        BY <1>4, <2>1, <2>2 DEF TreeMid
<1>5. ASSUME NEW c \in Blocks, TreeLow(c) PROVE FreedPage(c) \subseteq Freed
    <2>1. CASE TableCode.Level = 0
        BY <1>5, <2>1 DEF TreeLow, Freed
    <2>2. CASE TableCode.Level = 1
        <3>1. PICK i \in Slots("mid") : Pool[root].slot[i] = c
            BY <1>1, <1>5, <2>2 DEF TreeLow
        <3>2. LevelOne
            BY <1>0, <2>2 DEF TreeInv
        <3>3. i < Pages
            BY <1>0, <1>1, <3>1, <3>2, NullIsNoBlock DEF LevelOne
        <3>4. Pool[root].slot \in [Slots("mid") -> Pointer]
            BY <1>0, <1>1, <3>2, Kind DEF LevelOne, IsA
        <3>5. ASSUME NEW k \in 0 .. i PROVE Pool[root].slot[k] # NULL
            <4>1. k \in Slots("mid") /\ k < Pages
                <5>1. i \in Nat /\ i < MIDLEVEL_COUNT /\ MIDLEVEL_COUNT \in Nat
                    BY FirstSlots, HandleTableAssumptions
                <5>2. k \in Nat /\ k < MIDLEVEL_COUNT /\ k < Pages
                    BY <1>0, <3>3, <5>1
                <5>3. QED
                    BY <5>2, FirstSlots
            <4>2. QED
                BY <1>0, <1>1, <3>2, <4>1 DEF LevelOne, IsPage, IsA
        <3>6. i \in {j \in DOMAIN Pool[root].slot : \A k \in 0 .. j : Pool[root].slot[k] # NULL}
            BY <3>4, <3>5
        <3>7. c \in Leading(root)
            BY <3>1, <3>6 DEF Leading
        <3>8. Freed = FreedMid(root)
            BY <1>1, <2>2 DEF Freed
        <3>9. QED
            BY <3>7, <3>8 DEF FreedMid
    <2>3. CASE TableCode.Level = 2
        <3>1. PICK j \in Slots("high"), i \in Slots("mid") :
                 Pool[root].slot[j] # NULL /\ Pool[Pool[root].slot[j]].slot[i] = c
            BY <1>1, <1>5, <2>3 DEF TreeLow
        <3>2. PICK m \in Blocks : m = Pool[root].slot[j] /\ Pool[m].slot \in [Slots("mid") -> Pointer]
            BY <1>0, <1>1, <2>3, <3>1, TopLevel
        <3>3. PICK p \in Nat : p < Pages /\ Hi(p) = j /\ Lo(p) = i
            BY <1>0, <1>1, <2>3, <3>1, <3>2, NullIsNoBlock, MidHasPages
        <3>4. ASSUME NEW k \in 0 .. i PROVE k \in Slots("mid") /\ Pool[m].slot[k] # NULL
            <4>0. i \in Nat /\ i < MIDLEVEL_COUNT /\ MIDLEVEL_COUNT \in Nat \ {0} /\ j \in Nat
                BY FirstSlots, HandleTableAssumptions
            <4>1. k \in Nat /\ k <= i /\ k \in Slots("mid")
                <5>1. k \in Nat /\ k <= i /\ k < MIDLEVEL_COUNT
                    BY <4>0
                <5>2. QED
                    BY <5>1, FirstSlots
            <4>2. PICK q \in Nat : Hi(q) = j /\ Lo(q) = k
                BY <4>0, <4>1, PlaceOfPage
            <4>3. q <= p
                <5>1. q = (Hi(q) * MIDLEVEL_COUNT) + Lo(q) /\ p = (Hi(p) * MIDLEVEL_COUNT) + Lo(p)
                    BY <4>0, DivMod DEF Hi, Lo
                <5>2. q = (j * MIDLEVEL_COUNT) + k /\ p = (j * MIDLEVEL_COUNT) + i
                    BY <3>3, <4>2, <5>1
                <5>3. j * MIDLEVEL_COUNT \in Nat
                    BY <4>0, Multiples
                <5>4. QED
                    BY <4>0, <4>1, <5>2, <5>3
            <4>4. q < Pages
                BY <1>0, <3>3, <4>3
            <4>5. IsPage(Pool[Pool[root].slot[Hi(q)]].slot[Lo(q)], q)
                BY <1>0, <1>1, <2>3, <4>4, TopLevel
            <4>6. QED
                BY <3>2, <4>1, <4>2, <4>5 DEF IsPage, IsA
        <3>5. i \in {n \in DOMAIN Pool[m].slot : \A k \in 0 .. n : Pool[m].slot[k] # NULL}
            BY <3>2, <3>4
        <3>6. c \in Leading(m)
            BY <3>1, <3>2, <3>5 DEF Leading
        <3>7. m \in Leading(root)
            <4>1. TreeMid(m)
                BY <1>1, <2>3, <3>2 DEF TreeMid
            <4>2. QED
                BY <1>4, <2>3, <4>1
        <3>8. FreedPage(c) \subseteq FreedMid(m)
            BY <3>6 DEF FreedMid
        <3>9. FreedMid(m) \subseteq Freed
            <4>1. Freed = FreedHigh(root)
                BY <1>1, <2>3 DEF Freed
            <4>2. QED
                BY <3>7, <4>1 DEF FreedHigh
        <3>10. QED
            BY <3>8, <3>9
    <2>4. QED
        BY <1>0, <2>1, <2>2, <2>3
<1>6. CASE Pool[b].kind = "high"
    BY <1>3, <1>6 DEF TreeHigh, Freed, FreedHigh
<1>7. CASE Pool[b].kind = "mid"
    BY <1>3, <1>4, <1>7
<1>8. CASE Pool[b].kind = "low"
    BY <1>3, <1>5, <1>8 DEF FreedPage
<1>9. CASE Pool[b].kind = "info"
    <2>1. PICK c \in Blocks : Pool[c].kind = "low" /\ Pool[c].info = b
        BY <1>9 DEF PoolInv, InfoHeld
    <2>2. b \in FreedPage(c)
        BY <2>1, NullIsNoBlock DEF FreedPage
    <2>3. QED
        BY <1>3, <1>5, <2>1, <2>2
<1>10. QED
    BY <1>0, <1>6, <1>7, <1>8, <1>9, Kind

\* The destruction leaves nothing allocated.
LEMMA FreeTablePoolInv ==
    ASSUME TableInv, TableInv', PoolInv, NEW t \in Threads, FreeTable(t)
    PROVE  PoolInv'
<1>0. /\ TableTypes /\ Pool \in [Blocks -> PoolType]
      /\ \A u \in Threads : pc[u] = "idle"
      /\ TableCode.Ptr \in Blocks
      /\ ExtraInfoPages' = 0 /\ pc' = pc /\ NewLowLevel' = NewLowLevel
    BY DEF TableInv, TableTypes, TreeInv, FreeTable, Pointer, walk, growth
<1>1. Pool' = Without(Freed)
    BY DEF FreeTable, Freed
<1>2. \A b \in Blocks : Pool'[b] = Unallocated
    BY <1>0, <1>1, FreedIsAll DEF Without
<1>3. \A u \in Threads : pc'[u] = "idle" /\ NewLowLevel'[u] = NULL
    BY <1>0 DEF PoolInv, LevelsHeld
<1>4. \A b \in Blocks : Pool'[b].kind = "none"
    BY <1>2, Contents
<1>5. LevelsHeld' /\ InfoHeld'
    BY <1>3, <1>4 DEF LevelsHeld, InfoHeld
<1>6. Informed' = {} /\ Counting' = {}
    BY <1>3, <1>4 DEF Informed, Counting
<1>7. Cardinality(Informed') = 0 /\ Cardinality(Counting') = 0
    BY <1>6, FS_EmptySet
<1>8. InfoCounted'
    BY <1>0, <1>7 DEF InfoCounted, Informed, Counting
<1>9. QED
    BY <1>5, <1>8 DEF PoolInv

\* Every step keeps the account of the pool.
LEMMA NextPoolInv ==
    ASSUME TableInv, PoolInv, [TableNext]_tableVars
    PROVE  TableInv' /\ PoolInv'
<1>0. TableInv'
    BY NextTableInv
<1>1. CASE UNCHANGED tableVars
    <2>1. /\ Pool' = Pool /\ TableCode' = TableCode /\ ExtraInfoPages' = ExtraInfoPages /\ InfoTable' = InfoTable
          /\ NewHighLevel' = NewHighLevel /\ NewMidLevel' = NewMidLevel /\ NewLowLevel' = NewLowLevel /\ pc' = pc
        BY <1>1 DEF tableVars, shared, walk, growth
    <2>2. LevelsHeld'
        <3>1. ASSUME NEW b \in Blocks
              PROVE  TreeHigh(b)' = TreeHigh(b) /\ TreeMid(b)' = TreeMid(b) /\ TreeLow(b)' = TreeLow(b)
            BY <2>1 DEF TreeHigh, TreeMid, TreeLow
        <3>2. ASSUME NEW b \in Blocks
              PROVE  HandHigh(b)' = HandHigh(b) /\ HandMid(b)' = HandMid(b) /\ HandLow(b)' = HandLow(b)
            BY <2>1 DEF HandHigh, HandMid, HandLow
        <3>3. QED
            BY <2>1, <3>1, <3>2 DEF PoolInv, LevelsHeld
    <2>3. InfoHeld' /\ InfoCounted'
        BY <2>1 DEF PoolInv, InfoHeld, InfoCounted
    <2>4. QED
        BY <1>0, <2>2, <2>3 DEF PoolInv
<1>2. CASE TableNext
    <2>1. PICK t \in Threads :
            \/ CreateTable(t) \/ FreeTable(t)
            \/ \E h \in Handles : Lookup(t, h)
            \/ Bound(t) \/ Capture(t) \/ WalkTwo(t) \/ WalkThree(t) \/ WalkMid(t) \/ LookupReturns(t)
            \/ InfoRead(t) \/ InfoAllocate(t) \/ InfoCas(t) \/ InfoCount(t) \/ InfoWrite(t)
            \/ BeginGrowth(t) \/ AllocateHigh(t) \/ AllocateMid(t) \/ AllocateLow(t) \/ Publish(t) \/ AddPage(t)
        BY <1>2 DEF TableNext
    <2>2. CASE CreateTable(t) \/ FreeTable(t)
        BY <1>0, <2>2, CreateTablePoolInv, FreeTablePoolInv
    <2>3. CASE \/ \E h \in Handles : Lookup(t, h)
               \/ Bound(t) \/ Capture(t) \/ WalkTwo(t) \/ WalkThree(t) \/ WalkMid(t) \/ LookupReturns(t)
               \/ InfoRead(t) \/ InfoWrite(t) \/ BeginGrowth(t) \/ AddPage(t)
        <3>1. LookupReturns(t) \/ InfoWrite(t) => Stays
            BY WalkReturns DEF LookupReturns, InfoWrite, WalkPCs
        <3>2. Stays
            BY <2>3, <3>1, LookupInv, BoundInv, CaptureInv, WalkStepInv, InfoReadInv, BeginGrowthInv, AddPageInv
        <3>3. QED
            BY <1>0, <2>3, <3>2, WalkPoolInv
    <2>4. CASE InfoAllocate(t) \/ InfoCas(t) \/ InfoCount(t)
        <3>1. Stays
            BY <2>4, InfoAllocateInv, InfoCasInv, InfoCountInv
        <3>2. QED
            BY <1>0, <2>4, <3>1, InfoAllocatePoolInv, InfoCasPoolInv, InfoCountPoolInv
    <2>5. CASE AllocateHigh(t) \/ AllocateMid(t) \/ AllocateLow(t)
        <3>1. Stays
            BY <2>5, AllocateHighInv, AllocateMidInv, AllocateLowInv
        <3>2. QED
            BY <1>0, <2>5, <3>1, AllocateHighPoolInv, AllocateMidPoolInv, AllocateLowPoolInv
    <2>6. CASE Publish(t)
        <3>1. Stays /\ KindsKept /\ Placed(t)
            BY <2>6, PublishInv
        <3>2. QED
            BY <1>0, <2>6, <3>1, PublishPoolInv
    <2>7. QED
        BY <2>1, <2>2, <2>3, <2>4, <2>5, <2>6
<1>3. QED
    BY <1>1, <1>2

\* The account holds in every state that can be reached.
LEMMA PoolInvariance == TableSpec => [](TableInv /\ PoolInv)
<1>1. ASSUME TableInit PROVE TableInv /\ PoolInv
    <2>1. /\ \A b \in Blocks : Pool[b] = Unallocated
          /\ \A t \in Threads : pc[t] = "idle" /\ NewLowLevel[t] = NULL
          /\ ExtraInfoPages = 0
        BY <1>1 DEF TableInit
    <2>2. QED
        BY <1>1, <2>1, InitTableInv, EmptyPool
<1>2. ASSUME TableInv, PoolInv, [TableNext]_tableVars PROVE TableInv' /\ PoolInv'
    BY <1>2, NextPoolInv
<1>3. QED
    BY <1>1, <1>2, PTL DEF TableSpec

(***************************************************************************)
(* The levels of the tree.                                                 *)
(***************************************************************************)
Highs == {b \in Blocks : TreeHigh(b)}
Mids == {b \in Blocks : TreeMid(b)}
Lows == {b \in Blocks : TreeLow(b)}
Infos == {b \in Blocks : \E c \in Lows : Pool[c].info = b}

\* A page of the tree is one of those that are linked, and the mid level table
\* that has it is the one its number tells.
LEMMA PageNumber ==
    ASSUME TableInv, NEW b \in Lows
    PROVE  \E p \in Nat :
              /\ p < Linked /\ IsPage(b, p)
              /\ TableCode.Level = 2 => \A m \in Mids : b \in Children(m) => Pool[TableCode.Ptr].slot[Hi(p)] = m
<1>0. /\ TableTypes /\ TreeInv /\ Pool \in [Blocks -> PoolType] /\ Linked \in Nat /\ TableCode.Level \in {0, 1, 2}
      /\ TableCode.Ptr \in Pointer /\ LOWLEVEL_COUNT \in Nat \ {0}
    BY Numbers, HandleTableAssumptions DEF TableInv, TableTypes
<1>1. b \in Blocks /\ b # NULL /\ TreeLow(b)
    BY NullIsNoBlock DEF Lows
<1>2. TableCode.Ptr # NULL
    <2>1. SUFFICES ASSUME TableCode.Ptr = NULL PROVE FALSE
        OBVIOUS
    <2>2. TableCode = NoTable
        BY <1>0, <2>1 DEF TreeInv
    <2>3. TableCode.Level = 0
        BY <2>2 DEF NoTable
    <2>4. b = TableCode.Ptr
        BY <1>1, <2>3 DEF TreeLow
    <2>5. QED
        BY <1>1, <2>1, <2>4
<1>3. PICK root \in Blocks : root = TableCode.Ptr
    BY <1>0, <1>2 DEF Pointer
<1>4. CASE TableCode.Level = 0
    BY <1>0, <1>1, <1>2, <1>4 DEF TreeInv, TreeLow
<1>5. CASE TableCode.Level = 1
    <2>1. PICK i \in Slots("mid") : Pool[root].slot[i] = b
        BY <1>1, <1>3, <1>5 DEF TreeLow
    <2>2. LevelOne
        BY <1>0, <1>2, <1>5 DEF TreeInv
    <2>3. i < Linked /\ IsPage(b, i)
        BY <1>1, <1>3, <2>1, <2>2 DEF LevelOne
    <2>4. QED
        BY <1>5, <2>3, FirstSlots
<1>6. CASE TableCode.Level = 2
    <2>1. LevelTwo
        BY <1>0, <1>2, <1>6 DEF TreeInv
    <2>2. ASSUME NEW j \in Slots("high"), NEW i \in Slots("mid"), Pool[root].slot[j] # NULL,
                 Pool[Pool[root].slot[j]].slot[i] = b
          PROVE  \E p \in Nat : p < Linked /\ IsPage(b, p) /\ Hi(p) = j
        <3>1. PICK p \in Nat : Hi(p) = j /\ Lo(p) = i
            BY PlaceOfPage, FirstSlots
        <3>2. Hi(p) < HIGHLEVEL_COUNT
            BY <3>1, FirstSlots
        <3>3. p < Linked
            <4>1. p >= Linked => Pool[root].slot[j] = NULL \/ Pool[Pool[root].slot[j]].slot[i] = NULL
                BY <1>3, <2>1, <3>1, <3>2 DEF LevelTwo
            <4>2. QED
                BY <1>0, <1>1, <2>2, <4>1
        <3>4. p \in 0 .. Linked - 1
            BY <1>0, <3>3
        <3>5. IsPage(b, p)
            BY <1>3, <2>1, <2>2, <3>1, <3>4 DEF LevelTwo
        <3>6. QED
            BY <3>1, <3>3, <3>5
    <2>3. PICK j \in Slots("high"), i \in Slots("mid") : Pool[root].slot[j] # NULL /\ Pool[Pool[root].slot[j]].slot[i] = b
        BY <1>1, <1>3, <1>6 DEF TreeLow
    <2>4. PICK p \in Nat : p < Linked /\ IsPage(b, p) /\ Hi(p) = j
        BY <2>2, <2>3
    <2>5. ASSUME NEW m \in Mids, b \in Children(m) PROVE Pool[root].slot[Hi(p)] = m
        <3>1. PICK k \in Slots("high") : Pool[root].slot[k] = m /\ m \in Blocks /\ m # NULL
            BY <1>3, <1>6, <2>5, NullIsNoBlock DEF Mids, TreeMid
        <3>2. Pool[m].kind = "mid"
            BY <1>3, <2>1, <3>1 DEF LevelTwo, IsA
        <3>3. Pool[m].slot \in [Slots("mid") -> Pointer]
            BY <1>0, <3>1, <3>2, Kind
        <3>4. PICK n \in Slots("mid") : Pool[m].slot[n] = b
            BY <2>5, <3>2, <3>3 DEF Children
        <3>5. PICK q \in Nat : IsPage(b, q) /\ Hi(q) = k
            BY <2>2, <3>1, <3>4
        <3>6. p * LOWLEVEL_COUNT = q * LOWLEVEL_COUNT
            BY <2>4, <3>5 DEF IsPage
        <3>7. p = q
            BY <1>0, <3>6, Multiples
        <3>8. QED
            BY <3>1, <3>5, <3>7
    <2>6. QED
        BY <1>3, <2>4, <2>5
<1>7. QED
    BY <1>0, <1>4, <1>5, <1>6

\* Each level has blocks of its kind.
LEMMA LevelKinds ==
    ASSUME TableInv
    PROVE  /\ \A b \in Highs : Pool[b].kind = "high" /\ Pool[b].slot \in [Slots("high") -> Pointer]
           /\ \A b \in Mids : Pool[b].kind = "mid" /\ Pool[b].slot \in [Slots("mid") -> Pointer]
           /\ \A b \in Lows : Pool[b].kind = "low" /\ Pool[b].info \in Pointer
           /\ \A b \in Infos : Pool[b].kind = "info"
<1>0. TreeInv /\ InfoInv /\ TableCode.Ptr \in Pointer /\ Pool \in [Blocks -> PoolType]
    BY DEF TableInv, TableTypes
<1>1. ASSUME NEW b \in Highs PROVE Pool[b].kind = "high"
    BY <1>0, <1>1, NullIsNoBlock DEF Highs, TreeHigh, TreeInv, LevelTwo, IsA
<1>2. ASSUME NEW b \in Mids PROVE Pool[b].kind = "mid"
    <2>0. b \in Blocks /\ b # NULL /\ TreeMid(b)
        BY <1>2, NullIsNoBlock DEF Mids
    <2>1. TableCode.Ptr # NULL
        BY <1>0, <2>0 DEF TreeMid, TreeInv, NoTable
    <2>2. CASE TableCode.Level = 1
        BY <1>0, <2>0, <2>1, <2>2 DEF TreeMid, TreeInv, LevelOne, IsA
    <2>3. CASE TableCode.Level = 2
        <3>1. LevelTwo
            BY <1>0, <2>1, <2>3 DEF TreeInv
        <3>2. QED
            <4>1. PICK j \in Slots("high") : Pool[TableCode.Ptr].slot[j] = b
                BY <2>0, <2>3 DEF TreeMid
            <4>2. Pool[TableCode.Ptr].slot[j] # NULL => IsA(Pool[TableCode.Ptr].slot[j], "mid")
                BY <3>1, Zenon DEF LevelTwo
            <4>3. QED
                BY <2>0, <4>1, <4>2 DEF IsA
    <2>4. QED
        BY <2>0, <2>2, <2>3 DEF TreeMid
<1>3. ASSUME NEW b \in Lows PROVE Pool[b].kind = "low"
    BY <1>3, PageNumber DEF IsPage, IsA
<1>4. ASSUME NEW b \in Infos PROVE Pool[b].kind = "info"
    BY <1>0, <1>3, NullIsNoBlock DEF Infos, InfoInv, Lows
<1>5. \A b \in Highs \cup Mids \cup Lows : b \in Blocks
    BY DEF Highs, Mids, Lows
<1>6. \A b \in Highs : Pool[b].slot \in [Slots("high") -> Pointer]
    BY <1>0, <1>1, <1>5, Kind
<1>7. \A b \in Mids : Pool[b].slot \in [Slots("mid") -> Pointer]
    BY <1>0, <1>2, <1>5, Kind
<1>8. \A b \in Lows : Pool[b].info \in Pointer
    BY <1>0, <1>3, <1>5, Kind
<1>9. QED
    BY <1>1, <1>2, <1>3, <1>4, <1>6, <1>7, <1>8

\* What hangs under a level is the next one.
LEMMA LevelsBelow ==
    ASSUME TableInv
    PROVE  /\ TableCode.Level = 2 => Below(Highs) = Mids
           /\ TableCode.Level \in {1, 2} => Below(Mids) = Lows
           /\ Below(Lows) = Infos
           /\ Below(Infos) = {} /\ Below({}) = {}
<1>0. TreeInv /\ TableCode.Ptr \in Pointer /\ Pool \in [Blocks -> PoolType]
    BY DEF TableInv, TableTypes
<1>1. ASSUME TableCode.Level = 2 PROVE Below(Highs) = Mids
    <2>1. TableCode.Ptr # NULL
        BY <1>0, <1>1 DEF TreeInv, NoTable
    <2>2. PICK root \in Blocks : root = TableCode.Ptr
        BY <1>0, <2>1 DEF Pointer
    <2>3. Highs = {root}
        BY <1>1, <2>2 DEF Highs, TreeHigh
    <2>4. Pool[root].kind = "high" /\ Pool[root].slot \in [Slots("high") -> Pointer]
        BY <2>3, LevelKinds
    <2>5. Below(Highs) = {Pool[root].slot[j] : j \in Slots("high")} \ {NULL}
        BY <2>3, <2>4 DEF Below, Children
    <2>6. ASSUME NEW b \in Mids PROVE b \in Below(Highs)
        BY <1>1, <2>2, <2>5, <2>6, NullIsNoBlock DEF Mids, TreeMid
    <2>7. ASSUME NEW b \in Below(Highs) PROVE b \in Mids
        <3>1. PICK j \in Slots("high") : b = Pool[root].slot[j] /\ b # NULL
            BY <2>5, <2>7
        <3>2. b \in Blocks
            BY <2>4, <3>1 DEF Pointer
        <3>3. QED
            BY <1>1, <2>2, <3>1, <3>2 DEF Mids, TreeMid
    <2>8. QED
        BY <2>6, <2>7
<1>2. ASSUME TableCode.Level \in {1, 2} PROVE Below(Mids) = Lows
    <2>1. \A b : b \in Below(Mids) <=> \E m \in Mids : \E i \in Slots("mid") : b = Pool[m].slot[i] /\ b # NULL
        <3>1. \A m \in Mids : Children(m) = {Pool[m].slot[i] : i \in Slots("mid")} \ {NULL}
            BY LevelKinds DEF Children
        <3>2. QED
            BY <3>1 DEF Below
    <2>2. \A m \in Mids : \A i \in Slots("mid") : Pool[m].slot[i] # NULL => Pool[m].slot[i] \in Blocks
        BY LevelKinds DEF Pointer
    <2>3. TableCode.Ptr # NULL
        BY <1>0, <1>2 DEF TreeInv, NoTable
    <2>4. PICK root \in Blocks : root = TableCode.Ptr
        BY <1>0, <2>3 DEF Pointer
    <2>5. CASE TableCode.Level = 1
        <3>1. Mids = {root}
            BY <2>4, <2>5 DEF Mids, TreeMid
        <3>2. \A b : b \in Lows <=> b \in Blocks /\ \E i \in Slots("mid") : Pool[root].slot[i] = b
            BY <2>4, <2>5 DEF Lows, TreeLow
        <3>3. QED
            BY <2>1, <2>2, <3>1, <3>2, NullIsNoBlock
    <2>6. CASE TableCode.Level = 2
        <3>1. \A m : m \in Mids <=> m \in Blocks /\ \E j \in Slots("high") : Pool[root].slot[j] = m
            BY <2>4, <2>6 DEF Mids, TreeMid
        <3>2. \A b : b \in Lows <=> b \in Blocks /\ \E j \in Slots("high") : /\ Pool[root].slot[j] # NULL
                                                     /\ \E i \in Slots("mid") : Pool[Pool[root].slot[j]].slot[i] = b
            BY <2>4, <2>6 DEF Lows, TreeLow
        <3>3. root \in Highs
            BY <2>4, <2>6 DEF Highs, TreeHigh
        <3>4. \A j \in Slots("high") : Pool[root].slot[j] # NULL => Pool[root].slot[j] \in Blocks
            BY <3>3, LevelKinds DEF Pointer
        <3>5. ASSUME NEW b \in Below(Mids) PROVE b \in Lows
            <4>1. PICK m \in Mids, i \in Slots("mid") : b = Pool[m].slot[i] /\ b # NULL
                BY <2>1, <3>5
            <4>2. PICK j \in Slots("high") : Pool[root].slot[j] = m /\ m # NULL
                BY <3>1, NullIsNoBlock
            <4>3. QED
                BY <2>2, <3>2, <4>1, <4>2
        <3>6. ASSUME NEW b \in Lows PROVE b \in Below(Mids)
            <4>1. PICK j \in Slots("high"), i \in Slots("mid") : Pool[root].slot[j] # NULL /\ Pool[Pool[root].slot[j]].slot[i] = b
                BY <3>2, <3>6
            <4>2. Pool[root].slot[j] \in Mids /\ b # NULL
                BY <3>1, <3>2, <3>4, <3>6, <4>1, NullIsNoBlock
            <4>3. QED
                BY <2>1, <4>1, <4>2
        <3>7. QED
            BY <3>5, <3>6
    <2>7. QED
        BY <1>2, <2>5, <2>6
<1>3. Below(Lows) = Infos
    <2>1. \A c \in Lows : Children(c) = {Pool[c].info} \ {NULL}
        BY LevelKinds DEF Children
    <2>2. \A c \in Lows : Pool[c].info # NULL => Pool[c].info \in Blocks
        BY LevelKinds DEF Pointer
    <2>3. QED
        BY <2>1, <2>2, NullIsNoBlock DEF Below, Infos
<1>4. Below(Infos) = {} /\ Below({}) = {}
    <2>1. \A c \in Infos : Children(c) = {}
        BY LevelKinds DEF Children
    <2>2. QED
        BY <2>1 DEF Below
<1>5. QED
    BY <1>1, <1>2, <1>3, <1>4

\* The tree is its levels.
LEMMA TreeIsLevels ==
    ASSUME TableInv
    PROVE  /\ Tree = Highs \cup Mids \cup Lows \cup Infos
           /\ {TableCode.Ptr} \ {NULL} = CASE TableCode.Level = 0 -> Lows [] TableCode.Level = 1 -> Mids [] TableCode.Level = 2 -> Highs
           /\ TableCode.Level # 2 => Highs = {}
           /\ TableCode.Level = 0 => Mids = {}
<1>0. TableCode.Ptr \in Pointer /\ TableCode.Level \in {0, 1, 2}
    BY DEF TableInv, TableTypes
<1>1. TableCode.Level # 2 => Highs = {}
    BY DEF Highs, TreeHigh
<1>2. TableCode.Level = 0 => Mids = {}
    BY DEF Mids, TreeMid
<1>3. CASE TableCode.Level = 0
    <2>1. {TableCode.Ptr} \ {NULL} = Lows
        BY <1>0, <1>3, NullIsNoBlock DEF Lows, TreeLow, Pointer
    <2>2. Tree = Lows \cup Infos
        BY <2>1, LevelsBelow DEF Tree
    <2>3. QED
        BY <1>1, <1>2, <1>3, <2>1, <2>2
<1>4. CASE TableCode.Level = 1
    <2>1. {TableCode.Ptr} \ {NULL} = Mids
        BY <1>0, <1>4, NullIsNoBlock DEF Mids, TreeMid, Pointer
    <2>2. Tree = Mids \cup Lows \cup Infos
        BY <1>4, <2>1, LevelsBelow DEF Tree
    <2>3. QED
        BY <1>1, <1>4, <2>1, <2>2
<1>5. CASE TableCode.Level = 2
    <2>1. {TableCode.Ptr} \ {NULL} = Highs
        BY <1>0, <1>5, NullIsNoBlock DEF Highs, TreeHigh, Pointer
    <2>2. Tree = Highs \cup Mids \cup Lows \cup Infos
        BY <1>5, <2>1, LevelsBelow DEF Tree
    <2>3. QED
        BY <1>5, <2>1, <2>2
<1>6. QED
    BY <1>0, <1>3, <1>4, <1>5

\* What a thread has in hand, kind by kind.
LEMMA InHandKinds ==
    ASSUME TableInv, PoolInv, NEW b
    PROVE  (\E t \in Threads : b \in InHand(t))
              <=> /\ b \in Blocks
                  /\ HandHigh(b) \/ HandMid(b) \/ HandLow(b) \/ \E t \in Threads : pc[t] = "InfoCas" /\ InfoTable[t] = b
<1>0. TableTypes /\ InfoInv /\ LevelsHeld
    BY DEF TableInv, PoolInv
<1>1. ASSUME NEW t \in Threads, b \in InHand(t)
      PROVE  /\ b \in Blocks
             /\ HandHigh(b) \/ HandMid(b) \/ HandLow(b) \/ (pc[t] = "InfoCas" /\ InfoTable[t] = b)
    <2>0. GrowInv(t) /\ NewHighLevel[t] \in Pointer /\ NewMidLevel[t] \in Pointer /\ NewLowLevel[t] \in Pointer
        BY <1>0 DEF TableInv, TableTypes
    <2>1. CASE pc[t] \in {"AllocateMid", "AllocateLow", "Publish"}
        <3>1. b \in {NewHighLevel[t], NewMidLevel[t], NewLowLevel[t]} /\ b # NULL
            BY <1>1, <2>1 DEF InHand
        <3>2. b \in Blocks
            BY <2>0, <3>1 DEF Pointer
        <3>3. b = NewHighLevel[t] => HandHigh(b)
            BY <2>1 DEF HandHigh
        <3>4. b = NewMidLevel[t] => HandMid(b)
            BY <2>0, <2>1, <3>1 DEF HandMid, GrowInv
        <3>5. b = NewLowLevel[t] => HandLow(b)
            BY <1>0, <2>1, <3>1 DEF HandLow, LevelsHeld
        <3>6. QED
            BY <3>1, <3>2, <3>3, <3>4, <3>5
    <2>2. CASE pc[t] = "InfoCas"
        BY <1>0, <1>1, <2>2 DEF InHand, InfoInv, IsA, TableTypes, Pointer
    <2>3. CASE pc[t] \notin {"AllocateMid", "AllocateLow", "Publish", "InfoCas"}
        BY <1>1, <2>3 DEF InHand
    <2>4. QED
        BY <2>1, <2>2, <2>3
<1>2. ASSUME b \in Blocks, HandHigh(b) \/ HandMid(b) \/ HandLow(b)
      PROVE  \E t \in Threads : b \in InHand(t)
    <2>1. PICK t \in Threads :
              pc[t] \in {"AllocateMid", "AllocateLow", "Publish"} /\ b \in {NewHighLevel[t], NewMidLevel[t], NewLowLevel[t]}
        BY <1>2 DEF HandHigh, HandMid, HandLow
    <2>2. b \in InHand(t)
        BY <1>2, <2>1, NullIsNoBlock DEF InHand
    <2>3. QED
        BY <2>2
<1>3. ASSUME NEW t \in Threads, pc[t] = "InfoCas", InfoTable[t] = b
      PROVE  b \in InHand(t)
    BY <1>3 DEF InHand
<1>4. QED
    BY <1>1, <1>2, <1>3

\* What is in the hands of a growth is a fresh table of the kind it takes it for.
LEMMA HandKinds ==
    ASSUME TableInv, NEW b \in Blocks
    PROVE  /\ HandHigh(b) => Pool[b].kind = "high" /\ TableCode.Level = 1
           /\ HandMid(b) => Pool[b].kind = "mid" /\ Pool[b].slot[0] = NULL /\ TableCode.Ptr # NULL
           /\ HandLow(b) => Pool[b].kind = "low" /\ Pool[b].info = NULL /\ Pool[b].base = Pages * LOWLEVEL_COUNT /\ Linked = Pages
<1>0. b # NULL /\ TreeInv
    BY NullIsNoBlock DEF TableInv
<1>1. ASSUME HandHigh(b) PROVE Pool[b].kind = "high" /\ TableCode.Level = 1
    <2>1. PICK t \in Threads : pc[t] \in {"AllocateMid", "AllocateLow", "Publish"} /\ NewHighLevel[t] = b
        BY <1>1 DEF HandHigh
    <2>2. GrowInv(t)
        BY DEF TableInv
    <2>3. Pool[b] = Zeroed("high") /\ TableCode.Level = 1
        BY <1>0, <2>1, <2>2 DEF GrowInv
    <2>4. QED
        BY <2>3, Contents
<1>2. ASSUME HandMid(b) PROVE Pool[b].kind = "mid" /\ Pool[b].slot[0] = NULL /\ TableCode.Ptr # NULL
    <2>1. PICK t \in Threads : pc[t] \in {"AllocateLow", "Publish"} /\ NewMidLevel[t] = b
        BY <1>2 DEF HandMid
    <2>2. GrowInv(t)
        BY DEF TableInv
    <2>3. Pool[b] = Zeroed("mid")
        BY <1>0, <2>1, <2>2 DEF GrowInv
    <2>4. TableCode.Ptr # NULL
        BY <1>0, <2>1 DEF TreeInv
    <2>5. QED
        BY <2>3, <2>4, Contents, FirstSlots
<1>3. ASSUME HandLow(b)
      PROVE Pool[b].kind = "low" /\ Pool[b].info = NULL /\ Pool[b].base = Pages * LOWLEVEL_COUNT /\ Linked = Pages
    <2>1. PICK t \in Threads : pc[t] = "Publish" /\ NewLowLevel[t] = b
        BY <1>3 DEF HandLow
    <2>2. GrowInv(t) /\ Growing(t)
        BY <2>1 DEF TableInv, Growing
    <2>3. Pool[b] = LowLevel(NextHandleNeedingPool)
        BY <2>1, <2>2 DEF GrowInv
    <2>4. TableCode.Ptr # NULL
        BY <1>0, <2>1 DEF TreeInv
    <2>5. NextHandleNeedingPool = Pages * LOWLEVEL_COUNT
        BY <1>0, <2>4 DEF TreeInv
    <2>6. \A u \in Threads : pc[u] # "AddPage"
        BY <2>1, <2>2 DEF GrowInv, Growing
    <2>7. Linked = Pages
        BY <2>6 DEF Linked
    <2>8. QED
        BY <2>3, <2>5, <2>7, Contents
<1>4. QED
    BY <1>1, <1>2, <1>3

\* Nothing is in hand and in the tree.
LEMMA HandsApart ==
    ASSUME TableInv, PoolInv, NEW t \in Threads, NEW b \in InHand(t)
    PROVE  b \notin Tree
<1>0. TableTypes /\ TreeInv /\ InfoInv /\ Pages \in Nat /\ LOWLEVEL_COUNT \in Nat \ {0}
    BY Numbers, HandleTableAssumptions DEF TableInv
<1>1. /\ b \in Blocks /\ b # NULL
      /\ HandHigh(b) \/ HandMid(b) \/ HandLow(b) \/ \E u \in Threads : pc[u] = "InfoCas" /\ InfoTable[u] = b
    BY InHandKinds, NullIsNoBlock
<1>2. ASSUME HandHigh(b) PROVE b \notin Tree
    <2>1. Pool[b].kind = "high" /\ TableCode.Level = 1
        BY <1>1, <1>2, HandKinds
    <2>2. b \notin Highs
        BY <2>1, TreeIsLevels
    <2>3. b \notin Mids /\ b \notin Lows /\ b \notin Infos
        BY <2>1, LevelKinds
    <2>4. QED
        BY <2>2, <2>3, TreeIsLevels
<1>3. ASSUME HandMid(b) PROVE b \notin Tree
    <2>1. Pool[b].kind = "mid" /\ Pool[b].slot[0] = NULL /\ TableCode.Ptr # NULL
        BY <1>1, <1>3, HandKinds
    <2>2. ASSUME b \in Mids PROVE FALSE
        <3>1. CASE TableCode.Level = 1
            <4>1. LevelOne /\ b = TableCode.Ptr /\ Linked \in Nat
                BY <1>0, <2>1, <2>2, <3>1, Numbers DEF TreeInv, Mids, TreeMid
            <4>2. 0 < Linked
                BY <4>1 DEF LevelOne
            <4>3. QED
                BY <2>1, <4>1, <4>2, FirstSlots DEF LevelOne, IsPage, IsA
        <3>2. CASE TableCode.Level = 2
            <4>1. LevelTwo
                BY <1>0, <2>1, <3>2 DEF TreeInv
            <4>2. QED
                <5>1. PICK j \in Slots("high") : Pool[TableCode.Ptr].slot[j] = b
                    BY <2>2, <3>2 DEF Mids, TreeMid
                <5>2. Pool[b].slot[0] # NULL
                    BY <1>1, <4>1, <5>1 DEF LevelTwo
                <5>3. QED
                    BY <2>1, <5>2
        <3>3. QED
            BY <2>2, <3>1, <3>2 DEF Mids, TreeMid
    <2>3. b \notin Highs /\ b \notin Lows /\ b \notin Infos
        BY <2>1, LevelKinds
    <2>4. QED
        BY <2>2, <2>3, TreeIsLevels
<1>4. ASSUME HandLow(b) PROVE b \notin Tree
    <2>1. Pool[b].kind = "low" /\ Pool[b].base = Pages * LOWLEVEL_COUNT /\ Linked = Pages
        BY <1>1, <1>4, HandKinds
    <2>2. ASSUME b \in Lows PROVE FALSE
        <3>1. PICK p \in Nat : p < Linked /\ IsPage(b, p)
            BY <2>2, PageNumber
        <3>2. p * LOWLEVEL_COUNT = Pages * LOWLEVEL_COUNT
            BY <2>1, <3>1 DEF IsPage
        <3>3. p = Pages
            BY <1>0, <3>2, Multiples
        <3>4. QED
            BY <1>0, <2>1, <3>1, <3>3
    <2>3. b \notin Highs /\ b \notin Mids /\ b \notin Infos
        BY <2>1, LevelKinds
    <2>4. QED
        BY <2>2, <2>3, TreeIsLevels
<1>5. ASSUME NEW u \in Threads, pc[u] = "InfoCas", InfoTable[u] = b PROVE b \notin Tree
    <2>1. Pool[b].kind = "info" /\ \A c \in Blocks : Pool[c].kind = "low" => Pool[c].info # b
        BY <1>0, <1>5 DEF InfoInv, IsA
    <2>2. b \notin Infos
        BY <2>1, LevelKinds DEF Infos, Lows
    <2>3. b \notin Highs /\ b \notin Mids /\ b \notin Lows
        BY <2>1, LevelKinds
    <2>4. QED
        BY <2>2, <2>3, TreeIsLevels
<1>6. QED
    BY <1>1, <1>2, <1>3, <1>4, <1>5

\* The pool has handed out the tree and what is in hand.
LEMMA Allocated ==
    ASSUME TableInv, PoolInv, NEW b
    PROVE  b \in Blocks /\ Pool[b] # Unallocated <=> b \in Tree \/ \E t \in Threads : b \in InHand(t)
<1>0. InfoInv /\ LevelsHeld /\ InfoHeld /\ Pool \in [Blocks -> PoolType]
    BY DEF TableInv, TableTypes, PoolInv
<1>1. ASSUME b \in Tree PROVE b \in Blocks /\ Pool[b] # Unallocated
    <2>1. b \in Highs \cup Mids \cup Lows \cup Infos
        BY <1>1, TreeIsLevels
    <2>2. b \in Blocks
        BY <2>1 DEF Highs, Mids, Lows, Infos
    <2>3. Pool[b].kind \in {"high", "mid", "low", "info"}
        BY <2>1, LevelKinds
    <2>4. QED
        BY <2>2, <2>3, Contents
<1>2. ASSUME NEW t \in Threads, b \in InHand(t) PROVE b \in Blocks /\ Pool[b] # Unallocated
    <2>1. /\ b \in Blocks
          /\ HandHigh(b) \/ HandMid(b) \/ HandLow(b) \/ \E u \in Threads : pc[u] = "InfoCas" /\ InfoTable[u] = b
        BY <1>2, InHandKinds
    <2>2. Pool[b].kind \in {"high", "mid", "low", "info"}
        BY <1>0, <2>1, HandKinds DEF InfoInv, IsA
    <2>3. QED
        BY <2>1, <2>2, Contents
<1>3. ASSUME b \in Blocks, Pool[b] # Unallocated PROVE b \in Tree \/ \E t \in Threads : b \in InHand(t)
    <2>1. Pool[b].kind \in {"high", "mid", "low", "info"}
        BY <1>0, <1>3, Kind
    <2>2. CASE Pool[b].kind \in {"high", "mid", "low"}
        <3>1. TreeHigh(b) \/ TreeMid(b) \/ TreeLow(b) \/ HandHigh(b) \/ HandMid(b) \/ HandLow(b)
            BY <1>0, <1>3, <2>2 DEF LevelsHeld
        <3>2. b \in Highs \cup Mids \cup Lows \/ HandHigh(b) \/ HandMid(b) \/ HandLow(b)
            BY <1>3, <3>1 DEF Highs, Mids, Lows
        <3>3. QED
            BY <1>3, <3>2, TreeIsLevels, InHandKinds
    <2>3. CASE Pool[b].kind = "info"
        <3>1. CASE \E t \in Threads : pc[t] = "InfoCas" /\ InfoTable[t] = b
            BY <1>3, <3>1, InHandKinds
        <3>2. CASE \E c \in Blocks : Pool[c].kind = "low" /\ Pool[c].info = b
            <4>1. PICK c \in Blocks : Pool[c].kind = "low" /\ Pool[c].info = b /\ b # NULL
                BY <1>3, <3>2, NullIsNoBlock
            <4>2. ~HandLow(c)
                BY <4>1, HandKinds
            <4>3. c \in Lows
                BY <1>0, <4>1, <4>2 DEF LevelsHeld, Lows
            <4>4. b \in Infos
                BY <1>3, <4>1, <4>3 DEF Infos
            <4>5. QED
                BY <4>4, TreeIsLevels
        <3>3. QED
            BY <1>0, <1>3, <2>3, <3>1, <3>2 DEF InfoHeld
    <2>4. QED
        BY <2>1, <2>2, <2>3
<1>4. QED
    BY <1>1, <1>2, <1>3

\* The kinds of a table and of what hangs under it.
LEMMA ChildKinds ==
    ASSUME TableInv, NEW c \in Tree, NEW b \in Children(c)
    PROVE  \/ c \in Highs /\ b \in Mids /\ TableCode.Level = 2
           \/ c \in Mids /\ b \in Lows /\ TableCode.Level \in {1, 2}
           \/ c \in Lows /\ b \in Infos /\ Pool[c].info = b
<1>1. c \in Highs \cup Mids \cup Lows \cup Infos
    BY TreeIsLevels
<1>2. CASE c \in Highs
    <2>1. TableCode.Level = 2
        BY <1>2, TreeIsLevels
    <2>2. b \in Below(Highs)
        BY <1>2 DEF Below
    <2>3. QED
        BY <1>2, <2>1, <2>2, LevelsBelow
<1>3. CASE c \in Mids
    <2>1. TableCode.Level \in {1, 2}
        BY <1>3, TreeIsLevels DEF Mids, TreeMid
    <2>2. b \in Below(Mids)
        BY <1>3 DEF Below
    <2>3. QED
        BY <1>3, <2>1, <2>2, LevelsBelow
<1>4. CASE c \in Lows
    <2>1. b \in Below(Lows)
        BY <1>4 DEF Below
    <2>2. Pool[c].info = b
        BY <1>4, LevelKinds DEF Children
    <2>3. QED
        BY <1>4, <2>1, <2>2, LevelsBelow
<1>5. CASE c \in Infos
    BY <1>5, LevelKinds DEF Children
<1>6. QED
    BY <1>1, <1>2, <1>3, <1>4, <1>5

\* Every part of the tree hangs in one place.
LEMMA OneParent ==
    ASSUME TableInv, NEW b \in Tree
    PROVE  Cardinality({c \in Tree : b \in Children(c)}) = IF b = TableCode.Ptr THEN 0 ELSE 1
<1> DEFINE parents == {c \in Tree : b \in Children(c)}
<1>0. b \in Highs \cup Mids \cup Lows \cup Infos /\ InfoInv /\ TableCode.Level \in {0, 1, 2}
    BY TreeIsLevels DEF TableInv, TableTypes
<1>n. b # NULL
    BY <1>0, NullIsNoBlock DEF Highs, Mids, Lows, Infos
<1>1. /\ b \in Highs => b \notin Mids /\ b \notin Lows /\ b \notin Infos
      /\ b \in Mids => b \notin Lows /\ b \notin Infos
      /\ b \in Lows => b \notin Infos
    BY LevelKinds
<1>2. ASSUME b = TableCode.Ptr PROVE parents = {}
    <2>1. CASE TableCode.Level = 0
        <3>1. b \in Lows
            BY <1>2, <1>n, <2>1, TreeIsLevels
        <3>2. QED
            BY <1>1, <2>1, <3>1, ChildKinds
    <2>2. CASE TableCode.Level = 1
        <3>1. b \in Mids
            BY <1>2, <1>n, <2>2, TreeIsLevels
        <3>2. QED
            BY <1>1, <2>2, <3>1, ChildKinds
    <2>3. CASE TableCode.Level = 2
        <3>1. b \in Highs
            BY <1>2, <1>n, <2>3, TreeIsLevels
        <3>2. QED
            BY <1>1, <2>3, <3>1, ChildKinds
    <2>4. QED
        BY <1>0, <2>1, <2>2, <2>3
<1>3. ASSUME b # TableCode.Ptr PROVE \E c : parents = {c}
    <2>1. CASE b \in Highs
        BY <1>3, <2>1 DEF Highs, TreeHigh
    <2>2. CASE b \in Mids
        <3>1. TableCode.Level = 2
            BY <1>3, <2>2 DEF Mids, TreeMid
        <3>2. \A c \in parents : c \in Highs
            BY <1>1, <2>2, ChildKinds
        <3>3. b \in Below(Highs) /\ Highs \subseteq Tree
            BY <2>2, <3>1, LevelsBelow, TreeIsLevels
        <3>4. PICK c \in Highs : b \in Children(c) /\ c \in Tree
            BY <3>3 DEF Below
        <3>5. \A d \in Highs : d = c
            BY <3>4 DEF Highs, TreeHigh
        <3>6. parents = {c}
            BY <3>2, <3>4, <3>5
        <3>7. QED
            BY <3>6
    <2>3. CASE b \in Lows
        <3>1. TableCode.Level \in {1, 2}
            BY <1>3, <2>3 DEF Lows, TreeLow
        <3>2. \A c \in parents : c \in Mids
            BY <1>1, <2>3, ChildKinds
        <3>3. b \in Below(Mids) /\ Mids \subseteq Tree
            BY <2>3, <3>1, LevelsBelow, TreeIsLevels
        <3>4. PICK c \in Mids : b \in Children(c) /\ c \in Tree
            BY <3>3 DEF Below
        <3>5. ASSUME NEW d \in Mids, b \in Children(d) PROVE d = c
            <4>1. CASE TableCode.Level = 1
                BY <3>4, <3>5, <4>1 DEF Mids, TreeMid
            <4>2. CASE TableCode.Level = 2
                BY <2>3, <3>4, <3>5, <4>2, PageNumber
            <4>3. QED
                BY <3>1, <4>1, <4>2
        <3>6. parents = {c}
            BY <3>2, <3>4, <3>5
        <3>7. QED
            BY <3>6
    <2>4. CASE b \in Infos
        <3>1. PICK c \in Lows : Pool[c].info = b
            BY <2>4 DEF Infos
        <3>2. Pool[c].kind = "low" /\ c \in Blocks /\ c \in Tree
            BY <3>1, LevelKinds, TreeIsLevels DEF Lows
        <3>3. b \in Children(c)
            BY <1>n, <3>1, <3>2 DEF Children
        <3>4. ASSUME NEW d \in parents PROVE d = c
            <4>1. d \in Lows /\ Pool[d].info = b
                BY <1>1, <2>4, <3>4, ChildKinds
            <4>2. Pool[d].kind = "low" /\ d \in Blocks
                BY <4>1, LevelKinds DEF Lows
            <4>3. QED
                BY <1>0, <1>n, <3>1, <3>2, <4>1, <4>2 DEF InfoInv
        <3>5. parents = {c}
            BY <3>2, <3>3, <3>4
        <3>6. QED
            BY <3>5
    <2>5. QED
        BY <1>0, <2>1, <2>2, <2>3, <2>4
<1>4. b = TableCode.Ptr => Cardinality(parents) = 0
    BY <1>2, FS_EmptySet
<1>5. b # TableCode.Ptr => Cardinality(parents) = 1
    BY <1>3, FS_Singleton
<1>6. QED
    BY <1>4, <1>5

\* No block of a handle table leaks, none is freed while the tree or a call has
\* it, and ExtraInfoPages counts the pages that have information: whatever
\* allocations fail in a growth and whichever thread wins an information table.
THEOREM PoolIsAccounted == TableSpec => []PoolAccounted
<1>1. ASSUME TableInv, PoolInv PROVE PoolAccounted
    <2>1. {b \in Blocks : Pool[b] # Unallocated} = Tree \cup UNION {InHand(t) : t \in Threads}
        BY <1>1, Allocated
    <2>2. \A t \in Threads : InHand(t) \cap Tree = {}
        BY <1>1, HandsApart
    <2>3. \A b \in Tree : Cardinality({c \in Tree : b \in Children(c)}) = IF b = TableCode.Ptr THEN 0 ELSE 1
        BY <1>1, OneParent
    <2>4. QED
        BY <1>1, <2>1, <2>2, <2>3 DEF PoolAccounted, PoolInv
<1>2. QED
    BY <1>1, PoolInvariance, PTL
=============================================================================
