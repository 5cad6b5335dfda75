# A TLA+ model of the Windows Research Kernel's synchronization and hive log

This directory holds TLA+ modules for the synchronization of the Windows Research Kernel
(WRK v1.2), from its lock-free primitives to the waits of its dispatcher, and for the
crash-safe writing of its registry hives, TLC configurations that check them on small instances, and
TLAPS proofs of the results that matter most for every size of the system. Paths below
are relative to `src/WindowsResearchKernel-WRK/WRK-v1.2/base/ntos/`.

`PROJECT.json` lists the components, the runs, what each definition models line by line
(`map`), the places where the code is hard to test (`hazards`), mutations of the model
that the properties must catch (`mutants`), the disagreements found (`findings`) and the
theorems.

## 1. The system

The WRK is the core of an NT 5.2 kernel: executive (`ex`), kernel (`ke`), object
manager (`ob`), processes (`ps`), memory (`mm`), cache (`cache`), I/O (`io`), registry
(`config`), local procedure calls (`lpc`), file system library (`fsrtl`), security
(`se`), run-time library (`rtl`), tracing (`wmi`, `perf`), debugging (`dbgk`). All of it
runs preemptively on several processors, and nearly every subsystem is built on a small
set of primitives in `ex`: rundown protection, push locks and the handle table. These are
a word or two of state each, updated by compare-exchange with the contended cases done
on the stacks of the threads involved. They are where an interleaving nobody thought of
does the most damage, and they were modelled first. The dispatcher (`ke`), in which all of
them block, keyed events and callbacks followed, and the one protocol of the kernel that
must survive a power failure, the saving of a registry hive (`config`).

### Components, their state, operations and hard parts

| Component | State | Operations | What is hard | What makes it correct |
|---|---|---|---|---|
| Rundown protection (`ex/rundown.c`, `inc/ex.h`) | one word: a count, or a flag and the address of a wait block on a stack | acquire, release (inline, routine, `Ex`), wait, completed, reinitialize | the word changes its meaning under a release in progress; the block is on a stack that disappears; one wakeup only | nobody holds a reference when the wait returns; no dead block is touched; the waiter is woken once |
| Cache-aware rundown protection (`ex/rundown.c`) | one such word per processor | the same, on the current processor's word | a reference is taken on one word and dropped on another, so words wrap; words are marked one by one; releases precede the total | the sum is conserved; the wait returns neither early nor never |
| Push locks (`ex/pushlock.c`, `inc/ex.h`) | one word of four bits and a count or address; a chain of wait blocks on stacks | acquire, try, release (exclusive, shared, either), convert, optimize, wake | six routines change the word; back pointers are set in other threads' stacks; the share count moves into the chain | a reader/writer lock; one owner of the waking bit; live blocks only; no waiter left behind |
| Cache-aware push locks (`ex/pushlock.c`, `inc/ex.h`) | a push lock per processor, up to a fan-out | shared on one slot, exclusive on all | slots are taken from both ends in different orders | a reader/writer lock; no deadlock; no slot forgotten |
| Handle table: entry locks (`ex/handle.c`, `ex/pushlock.c`) | a lock bit in each entry, one contention event (a chain of wait blocks) for all | lock, unlock, create, destroy, block, wait, unblock | a waiter is on a chain shared by all entries and unblocks itself by popping everybody | one holder; blocks woken once while alive; no lost wakeup |
| Handle table: free lists (`ex/handle.c`) | two list heads, a next index in each free entry, four striped locks | allocate, free, move one list to the other, grow | A-B-A on a list that is popped without the table lock; a reversal of entries other threads may be looking at | every handle is in one place: given out once, never lost |
| Handle table: tree and information (`ex/handle.c`) | a root with its level (1-3), pages, an information table for a page | lookup, grow, set information, create and destroy the table | lookups walk without a lock while levels are added; any allocation of several can fail; two threads make the same information table | lookups reach their page; entries never move; no pool leaks |
| Callbacks and fast references (`ex/callback.c`, `inc/ex.h`, `ob/fastref.c`) | a pointer with references cached in its low bits, a block with rundown protection, one push lock | reference, refill, call, install, remove, wait, free | the cache runs dry while the block is exchanged; a block's address is used again | references are conserved; nobody runs a removed routine; the removal returns |
| Executive resources (`ex/resource.c`) | owner table, waiter counts | acquire, release, convert | recursive owners, starvation flags, priority boost | reader/writer lock with recursion |
| Keyed events (`ex/keyedevent.c`) | one queue of waiting and releasing threads, a semaphore per thread | wait, release, give up | timeout against a release in flight; searches that stop early | no pair is left on the queue; a wakeup goes to the one it was meant for |
| Work queues (`ex/worker.c`, `ke/queueobj.c`) | entry list, running and maximum count | insert, remove, dynamic threads | concurrency limit, blocked workers | items run once, no stall |
| Mutexes and gates (`ex/fmutexc.c`, `ke/gateobj.c`) | contention count, gate | acquire, release | wakeup against a new acquirer | mutual exclusion, no lost wakeup |
| Dispatcher (`ke/wait.c`, `ke/waitsup.c`, `ke/*obj.c`, timers) | wait lists, signal states, owners, status of a wait | wait for one, any or all; set, pulse, release, abandon, alert, time out | a wait for all takes nothing until all can be taken; APCs restart waits; signals tested only from zero | nobody waits for what it could have; a wait takes what its status says; timed waits end |
| APCs, DPCs (`ke/apc*.c`, `ke/dpc*.c`) | queues per thread and processor | insert, deliver, flush, remove | insertion against removal and delivery | delivered at most once |
| Object manager (`ob`) | reference, handle counts, deferred delete list | reference, dereference, insert, close | the list of objects to delete and its worker | deleted once, after the last reference |
| LPC (`lpc`) | ports, message queues, reply state of threads | connect, request, reply, cancel | stale replies, terminating threads | each request has one reply |
| Registry hives (`config/hivesync.c`, `hiveload.c`, `hiveinit.c`) | image and dirty vector in memory, primary file and log, two sequence numbers in each header | mark dirty, save, load, recover | a crash between or during any two writes, also of the recovery; writes that fail | a load finds one whole image: the last saved or the one being saved |
| Oplocks, file locks (`fsrtl`) | oplock state, waiting IRPs | request, break, acknowledge, cancel | break against cancel | holders are told before conflicting access |
| Memory and cache managers, I/O and Plug and Play, processes, security, run-time library, tracing, debugger support, initialisation | see `PROJECT.json` | | | |

How they interact: the entry lock of a handle table uses the push lock word as an event
(`ExBlockPushLock`, `ExfUnblockPushLock`); cache-aware locks and rundown are arrays of
the plain ones; callbacks combine a fast reference, rundown protection and a push lock;
all of them block in the dispatcher, on events and gates. Everything above `ex` and `ke`
(`ob`, `ps`, `io`, `mm`) calls these primitives and depends on their guarantees.

## 2. The modules

| Module | Models | Extended by |
|---|---|---|
| `ExRundown` | rundown protection | `MCExRundown`, `ExCallBackProofs` |
| `ExRundownCacheAware` | cache-aware rundown protection | `MCExRundownCacheAware`, `ExRundownCacheAwareProofs` |
| `RWLock` | the abstract reader/writer lock (what a push lock promises) | instantiated by the next two modules |
| `ExPushLock` | push locks | `MCExPushLock`, `ExPushLockProofs` |
| `ExPushLockCacheAware` | cache-aware push locks, over slots that behave as `RWLock` says | `MCExPushLockCacheAware`, `ExPushLockProofs` |
| `ExHandle` | the threads that use a handle table (`Threads`, `pc`) | `ExHandleLock`, `ExHandleTable` |
| `ExHandleLock` | entry locks of handle tables, and the push lock as an event | `MCExHandleLock`, `ExHandleProofs` |
| `ExHandleFree` | allocation and freeing of handles, the two free lists | `MCExHandleFree`, `ExHandleFreeProofs` |
| `ExHandleTable` | the tree of a handle table, its growth and destruction, the information tables | `MCExHandleTable`, `ExHandleProofs` |
| `ExCallBack` | callbacks over fast references; rundown protection and the push lock by what they promise | `MCExCallBack`, `ExCallBackProofs` |
| `KeyedEvent` | keyed events | `MCKeyedEvent`, `KeyedEventProofs` |
| `KeWait` | waits of the dispatcher, their objects, timers, alerts and APCs | `MCKeWait`, `KeWaitProofs` |
| `AtomicHive` | what the configuration manager promises of a hive (abstract) | instantiated by the next module |
| `HiveSync` | saving a hive through its log, crashes, loading and recovery | `MCHiveSync`, `HiveSyncProofs` |

Conventions. A step is one access to shared memory: a plain read, an interlocked
operation, a write to a wait block, a signal, the return from a wait. Each thread has a
`pc` whose labels name the routine or the place in it, and variables for the locals that
live across steps, with the names of the C code; they return to their initial values when
the call returns so that the state space is not multiplied by dead values. Interlocked
operations are atomic and memory is sequentially consistent, as the interlocked
operations of the two processors of the repository (x86 and x64) make it at each of
these steps. What is done under a lock that every user of the state takes (the push lock of
a keyed event, the dispatcher lock, the flusher lock of a hive) is one step. A definition
whose comment begins with "Mutant:", or whose name contains an underscore after a
definition's name (`WaitReturn_Early`), is a mutation of a definition, used by no
specification.

### `ExRundown`

`RunRef` is the word as a record `[low, rest]`: the active bit and the rest, a count of
references or the address `WaitBlockPtr`. The `pc` of the accessors is called `apc` here, that of the
thread that runs down `tpc`. `WaitBlock` is the block on the stack of the
thread that runs down (`Count`, and `WakeEvent`: not initialised, reset or set). `held`
is what the caller of an accessor believes it holds, which the code does not store.

| Actions | Code |
|---|---|
| `AcquireInline`, `AcquireInlineCas` | `ExAcquireRundownProtection`: masked read, compare-exchange, fall back |
| `ExfAcquireRead`, `AcquireEx`, `AcquireLoop` | `ExfAcquireRundownProtection`, `ExAcquireRundownProtectionEx` |
| `ReleaseInline`, `ReleaseInlineCas` | `ExReleaseRundownProtection` |
| `ExfReleaseRead`, `ReleaseEx`, `ReleaseLoop`, `ReleaseToBlock`, `ReleaseSetEvent` | `ExfReleaseRundownProtection`, `ExReleaseRundownProtectionEx` |
| `WaitForRundown`, `ExfWaitForRundown`, `WaitLoop`, `WaitReturn` | `ExWaitForRundownProtectionRelease`, `ExfWaitForRundownProtectionRelease` |
| `RundownCompleted`, `ReInitialize` | the owner's two ways to go on |

The caller's part of the contract is in the guards: an accessor releases no more than it
holds, and the one owner completes or reinitialises only after its wait has returned.

### `ExRundownCacheAware`

The accessors' code on `RunRef[p]`, where `p` is chosen anew by each call (the thread may
have moved). Counts are taken modulo `Modulus`, because a word that sees more releases
than acquires goes below zero and wraps. The owner marks the words with `MarkRead` and
`MarkCas`, adds the total (`AddTotal`) and waits. `TotalCount` is in the units of the
code, with the active bit in it (`Numeric`), because what happens to that bit when a word
was already run down is what an observation of section 6 is about. Two constants widen the
environment: `OpenReInit` lets accessors run while words are being reinitialised one by
one, and `WaitAgain` lets the owner wait again after `ExRundownCompletedCacheAware`. Both
are FALSE in the run; section 6 says what TLC finds when one is TRUE.

### `ExPushLock`

`PushLock` is the word with its bits L, W, K, M and the rest, a share count or the first
wait block. A wait block is named by the thread whose stack it is on. `mode` says how a
thread holds the lock (the code does not store it), `want` what its acquire wants.

| Actions | Code |
|---|---|
| `AcquireExclusive`, `TryAcquireExclusive`, `AcquireShared` | the inlines of `inc/ex.h` |
| `AcquireRead`, `AcquireCas`, `TryRefused`, `AcquirePush` | the loops of `ExfAcquirePushLockExclusive`, `-Shared`, `ExfTryAcquirePushLockShared` |
| `InitGate`, `Spin`, `GateWait`, `Backoff` | the wait at their end |
| `Optimize`, `WalkNext`, `OptimizeLast`, `OptimizeCas`, `StartOver` | `ExpOptimizePushLockList` |
| `WakeLocked`, `WakeUnlocked`, `WakeLast`, `WakeOne`, `WakeAnd`, `WakeAll`, `Signal`, `SignalGate` | `ExfWakePushLock` |
| `ReleaseExclusive`, `TryToWake`, `TryToWakeCas` | `ExReleasePushLockExclusive`, `ExfTryToWakePushLock` |
| `ReleaseRead`, `ExfReleaseExclusive`, `ReleaseNoWaiters`, `ReleaseWaiters`, `ShareWalk`, `ShareDecrement`, `ReleaseLast` | the release routines |
| `ConvertToShared`, `TryConvertToExclusive` | the conversions |

The constant `Ops` says which operations each thread calls. A spin loop is one step, "stopped spinning or
found itself woken"; the number of spins is not a matter of correctness.

### `ExPushLockCacheAware`

`Locks[i][t]` is how thread `t` holds slot `i`; an acquire, a try or a release of a slot
is one step, because `ExPushLock` is shown to implement `RWLock` and a slot is used only
through that interface. `Start` and `End` are the range the exclusive acquire has still to
take (and the release to give back). The number of processors and the fan-out are
constants; the code takes the smaller one (`MaxLine`).

### `ExHandleLock`

`Entry[e]` is the object pointer and lock bit of an entry, zero when it is free.
`HandleContentionEvent` is the push lock word used as the head of a chain, `WaitBlock[t]`
the block on the stack of `t`. A thread locks (`LockRead`, `LockCas`), or blocks
(`BlockRead`, `BlockCas`, `Recheck`) and waits (`InitEvent`, `Spin`, `KeWait`); a holder
unlocks or destroys; both then unblock everybody (`UnblockTest`, `Pop`, `WakeLoop`,
`SetEvent`, `WakeDone`). `FreeEntries` stands for the free lists, from which `CreateHandle`
takes an entry and to which the end of a destruction returns it. Freeing is one step here,
because the lists are the matter of `ExHandleFree`.

### `ExHandleFree`

`FirstFree` and `LastFree` are the heads of the lists and `NextFreeTableEntry[h]` the link in
an entry; while a handle is in use that word holds its granted access, so a pop that reads it
late reads something that is no index (`GrantedAccess`). `InUse` are the handles that have been
given to a caller. `HandleTableLock[i][t]` is how thread `t` holds lock `i`: a lock is used
through the interface of `RWLock`, and `Held(i)` is its Locked bit. Lock 0 is the table lock too.

| Actions | Code |
|---|---|
| `Allocate`, `ReadFirstFree`, `LockShared`, `Verify`, `ReadNext`, `Pop`, `UnlockRetry`, `UnlockPopped`, `CreateHandle` | the fast path of `ExpAllocateHandleTableEntry` and the entry filled in by its caller |
| `LockTable`, `CheckAgain`, `UnlockTable`, `UnlockGrown`, `AfterGrow` | its slow path |
| `TakeLastFree`, `BarrierLook`, `BarrierAcquire`, `BarrierRelease`, `BarrierDone`, `Reverse`, `ExchangeLink`, `ExchangeCas` | `ExpMoveFreeHandles`, `ExpInterlockedExchange`, `ExAcquireReleasePushLockExclusive` |
| `Grow`, `GrowFails`, `GrowLink`, `GrowCas` | `ExpAllocateHandleTableEntrySlow`, as far as the lists see it |
| `Free`, `ChooseList`, `Link`, `Push` | `ExpFreeHandleTableEntry` |

`EXHANDLE_EXTRA_CHECKS` is 0 in this source, which makes the sequence number in a list head
zero bits wide; the model has none. The debugging switch `ExReuseHandles` has its compiled
value: a debugger that clears it makes frees drop their handles for good. `StrictFIFO` is chosen in
`Init` and stays: it is set before a table is used, and `ExEnableHandleTracing` (line 1331), which can set it
while the table is in use, is not modelled.

What is on a list is stated without recursion: `Way(h, e)` are the entries that every set has that
has `h` and, with an entry other than `e`, the next one. TLC evaluates it by enumeration of the sets of entries,
and the proofs reason about it.

### `ExHandleTable`

`Pool[b]` is what a block of paged pool holds: nothing, a page (known by its first handle, with
the pointer to its information table), a mid or high level table, or an information table.
`TableCode` is the root with its level. `Region` gives each kind of block its own addresses;
this spares TLC the permutations. The proofs need no such separation: they hold for regions
that overlap, where a freed block comes back as another kind. `NewBlock` is an arbitrary choice among the free
blocks, of which only that it is one of them is used.

| Actions | Code |
|---|---|
| `Lookup`, `Bound`, `Capture`, `WalkTwo`, `WalkThree`, `WalkMid`, `LookupReturns` | `ExpLookupHandleTableEntry`, without a lock |
| `BeginGrowth`, `AllocateHigh`, `AllocateMid`, `AllocateLow`, `Publish`, `AddPage` | `ExpAllocateHandleTableEntrySlow` and the allocation routines, under the table lock |
| `InfoRead`, `InfoAllocate`, `InfoCas`, `InfoCount`, `InfoWrite` | `ExSetHandleInfo` |
| `CreateTable`, `FreeTable` | `ExpAllocateHandleTable`, `ExpFreeHandleTable` |

Every allocation may fail (pool or quota). Stores into a block nobody else can reach yet are
part of the one store that publishes it. A table is freed when no thread is in a call, as its
callers guarantee.

### `ExCallBack`

`RoutineBlock` is the slot as a record: the object and the count of references cached in its
low bits. `RundownProtect[b]` counts the references to a block, the cached ones included,
and `rundown` holds the blocks whose waiter has closed them: what `ExRundown` promises, used
through that interface. `ExpCallBackFlush` is held by at most one thread. `allocated` is what
the pool has given out; a freed block may be allocated again, so that a compare-exchange can
meet the bits it read although they mean another block. Threads behave as
`PsSetCreateProcessNotifyRoutine` and the loops that call its routines do.

| Actions | Code |
|---|---|
| `FastReference`, `FastReferenceCas` | `ExFastReference` |
| `SlowLock`, `SlowRead`, `SlowAcquire`, `SlowUnlock` | the slow path of `ExReferenceCallBackBlock`, under the flush lock |
| `Refill`, `RefillRead`, `RefillCas`, `RefillUndo` | the references taken in advance by who took the last |
| `CallDone`, `FastDereference`, `DereferenceCas`, `DereferenceBlock` | the call and `ExDereferenceCallBackBlock` |
| `ExAllocateCallBack`, `Unhook`, `Bias`, `Swap`, `SwapCas`, `Unbias`, `FlushFree`, `FlushLock`, `FlushUnlock`, `ReleaseUnused` | `ExCompareExchangeCallBack` and its callers |
| `WaitForCallBacks`, `Waited`, `ExFreeCallBack` | the removal |

### `KeyedEvent`

`WaitQueue` is the queue of one event object, `KeyedWaitValue` a queued thread's key with its
release bit, `Semaphore` the thread's `KeyedWaitSemaphore`, which its LPC calls use too.
`Match` and `Enqueue` are what a call does under the lock, `Wake` the release of the
semaphore after the lock was dropped. `GiveUp` is any way a wait can end without the
semaphore (timeout, alert, termination); the thread then takes itself off the queue
(`Remove`) or finds that it has been taken off (`MustAbsorb`) and waits for the wakeup in
flight (`Absorb`). The status a call returns is left out: it is the timeout also when
a wakeup was absorbed, so that a release can be spent on a waiter that reports a timeout.

### `KeWait`

`SignalState`, `WaitList`, `OwnerThread` and `Abandoned` are the objects'; `State`, `Wait` and
`WaitStatus` say where a thread is, what it asked for and how its wait ended; `taken` is what
was changed on its behalf, which the code does not store and `StatusTruthful` compares with
the status. A status is what the code has: wait keys count from zero, and `STATUS_SUCCESS` is wait
key zero. `BoostEvents` are the events that are set with `KeSetEventBoostPriority`, which answers
every wait for any with `STATUS_SUCCESS` (section 6); `StatusTruthful` therefore excludes in so many
words the keys of waits for any that name such an event behind the first place. No
request names an object twice. A step under the dispatcher lock is one action; the two moments that matter
between locks are states of their own: a thread that has raised its IRQL and not yet the lock
("WaitStart"), and an APC that is in its thread's queue and whose sender has not yet looked at
the thread (`inserting`, under the APC queue lock). `due` is whether the due time has passed.

| Actions | Code |
|---|---|
| `BeginWait`, `WaitForApc`, `MutantLimit`, `NoWait`, `TakeAlert`, `TakeUserApc`, `AlreadyExpired`, `Block`, `WaitDone`, `WaitAgain` | the loop of `KeWaitForMultipleObjects` and `KeWaitForSingleObject`; `KeDelayExecutionThread` is the same with no object |
| `KeSetEvent`, `KePulseEvent`, `KeResetEvent`, `KeSetEventBoostPriority` | `ke/eventobj.c` |
| `KeReleaseSemaphore`, `KeReleaseMutant`, `KeRundownThread` | the other objects, the last one abandoning a mutant |
| `Tick`, `TimerExpires` | the timer of a wait |
| `KeAlertThread`, `KeInsertQueueApc`, `InsertedApc`, `ApcInterrupt`, `DeliverUserApc`, `KeEnterCriticalRegion`, `KeLeaveCriticalRegion` | alerts and APCs |

`WaitTest` is `KiWaitTest` and its two variants in one: a waiter for any object is given the
object, a waiter for all is sent back into its loop with a simulated kernel APC. Left out:
`WaitNext` (a signal and a wait under one hold of the lock), guarded regions, nested normal
APCs, queues, gates, timer objects, priority.

### `HiveSync` and `AtomicHive`

`AtomicHive` has three variables: the image in memory, the image the next load will find, and
the image of the last save begun. A crash settles the save under way; a load finds what is
saved.

In `HiveSync` each file exists twice, in the `cache` as a read would find it and on the `disk`
as a crash would. `WriteFile` changes the first, `FlushFile` copies it to the second, and
`Crash` keeps or loses each unflushed piece by itself: a page old, new or torn, a header old,
new or with a wrong checksum, and the two in any combination. These are the file system and
the disk, external to the repository.

| Actions | Code |
|---|---|
| `HvMarkDirty` | a cell is written, its page marked |
| `HvSyncHive`, `Fail` | the save, and its way out when a step fails |
| `LogGrowFails`, `LogHead1`, `LogFlush1`, `LogVector`, `LogBody`, `LogFlush2`, `LogHead2`, `LogFlush3` | `HvpWriteLog` |
| `HiveFlush0`, `HiveHead1`, `HiveFlush1`, `HiveData`, `HiveFlush2`, `HiveHead2`, `HiveFlush3`, `ShrinkLog` | `HvpDoWriteHive` |
| `Load`, `ClearLog`, and the functions `HvpGetHiveHeader`, `HvpGetLogHeader`, `RecoveredData`, `LoadedImage`, `LoadedHeader` | `HvLoadHive`, `HvInitializeHive` |

Every write and flush may fail while the system goes on. `LateFailure` says whether the last
two, of the header that completes a save, may: FALSE in `hive_sync`, TRUE in `hive_late`.
Abstractions: the length of the hive is fixed and a block is a page, the unit
`HvMarkDirty` rounds to; the dirty vector and its signature reach the disk together (they are
one write at the start of the log); the header of the first bin, which carries the time stamp that
links log and primary, is written with the first page and reaches the disk whole or not at all; `CmDoSelfHeal` has its shipped value,
and what self-healing makes of a bin that is no bin is not followed; hives without a log and
alternate files are not modelled.

## 3. The runs

Deadlock is checked in every run.

| Run | Instance | Shows |
|---|---|---|
| `rundown` | 2 accessors, 2 references each | `RundownSafe`, `BlockAccessSafe`, `OneWakeup`, `NoGrantWhileActive` over every interleaving and any number of rundowns, completions and reinitialisations; `RundownReturns`: a waiting rundown thread is woken |
| `rundown_cache_aware` | 2 accessors, 2 processors, 1 reference each, 2 early releases, counts modulo 16 | `CountsConserved` (including the assertion on the total), `RundownSafe`, `BlockAccessSafe`, `WaiterHasWaker` |
| `pushlock` | 3 threads, between them every operation; 198 990 states | `OwnersCounted`, `ChainAccessSafe`, `WakeProtocol` (one owner of the waking bit, one waker per block, one signal per gate), `ImplementsRWLock`; `WaitersServed` |
| `pushlock_cache_aware` | 3 threads, 5 processors, fan-out 4 | `SlotsAccounted`, `FannedImplementsRWLock` with two processors on one slot; `AcquiresEnd`: no deadlock of exclusive acquires with one another or with sharers |
| `handle_lock` | 3 threads, 2 entries, 1 object | `EntryLock`, `BlocksLive`; `WaitersWake` |
| `handle_free` | 3 threads, pages of 2 entries, at most 2 pages, 3 locks | `HandlesConserved`, `PopIsFresh` (no A-B-A); `CallsEnd`: the table lock, the locks of the pops and the barrier do not wait for one another |
| `handle_table` | 2 threads, 2 entries to a page, 2 pages to a mid level, 3 mid levels | `LookupSound`: a walk without a lock ends at its page; `PoolAccounted`: nothing leaks, whatever allocation fails, and `ExtraInfoPages` is right; `EntriesStay`: a handle's entry never moves |
| `callback` | 3 threads (two install and remove, two call), 2 blocks, 2 cached references; 202 308 states | `ReferencesConserved`, `SlowBlockLives`, `QuietAfterWait`; `WaitReturns` |
| `keyed_event` | 4 threads in 2 processes, 2 keys; 294 701 states | `NoMissedMatch`, `WakeupOwed`; `AbsorbEnds` |
| `ke_wait` | 2 threads, an event of each type, a semaphore, a mutant; 287 298 states | `NoStrandedWaiter`, `NoApcStranded`; `StatusTruthful`, but for the keys of waits that name a boosted event behind the first place (section 6); `TimedWaitEnds` |
| `hive_sync` | 2 pages of 2 values, sequences modulo 2, time stamps 0 and 1; 595 400 states | `CleanMeansSaved`: when the dirty vector is clear the primary on disk has the image; `TornHasLog`: a primary that needs recovery has a log that is whole; `ImplementsAtomicHive` |
| `hive_late` | the same, with late failures | the finding of section 6 |

### Bounds, and why they are enough

* Three threads (or accessors and an owner) let two threads be in the middle of the same
  routine while a third changes the word under both. In the push lock, three threads are
  an owner and a chain of two, which is the shortest chain with a back pointer to set and
  with a first block that is not the last. Two sharers and a waiter are enough for the share
  count saved in the chain to be decremented and then reach its end.
* `rundown` has two accessors and the owner; the proofs of section 4 cover any number.
* `MaxHold` is 2 where `Count` matters, so that a release of two references may bring a
  count to zero, or not, in one step.
* Cache-aware rundown needs two words to let a reference move from a marked to an unmarked
  one, and three to have a word between; `MaxEarly` bounds how far the block's count is
  driven below zero before the total is added (acquire on an unmarked word, release
  through a marked one, over and over). `Modulus` exceeds twice every count that occurs,
  which is how the width of a word relates to the number of references in the code, so
  a wrapped word is told from a large one as the code's signed assertion does. The
  assumption `CacheAwareAssumptions` states it.
* Five processors and four slots have both a shared slot and the range `1..3` that an
  exclusive acquire closes from both ends.
* In `handle_free` two handles, on two pages and with different locks, are all that an A-B-A
  needs: a head and its successor, while a third thread pops and frees. They also form a chain
  of two to reverse, and a page to grow by. `FreeTarget` 2 (100 in the code) lets the strict
  FIFO table both grow and be satisfied with what it moved. A third handle multiplies the
  states beyond the time of a routine run.
* In `handle_table` six pages take the tree through every branch of the growth: a second level,
  its last page, a third level, a page in a mid level there is, a new mid level, and the refusal
  when the top level is full. Two threads are a growth and a lookup, or two threads that
  make the same information table. `Region` has a block of each kind for every table of the
  full tree, and fewer information tables than pages, so that the pool can run out.
* In `callback` two blocks let one be freed, allocated again and put in the slot while a
  thread still compares with the old bits; two cached references are one that is not the
  last and one that is (7 or 15 in the code).
* In `keyed_event` four threads are a pair on each side, or a pair with a queue of two before
  it; the fourth, of another process, is what a search has to pass over. The proofs of
  section 4 cover any number.
* In `ke_wait` one thread waits for a mutant and an event together, the other for one of two
  objects, so that both compete for the event and the mutant. The second names the boosted event first in
  one request, where its key is right, and third in another, whose key `StatusTruthful` excludes. `MINLONG` is -1, which puts
  the limit of a mutant one recursion away; the semaphore counts to 2, so that a release of two can
  satisfy one wait and leave one. The first is sent a normal kernel
  APC, the second the exit APC and the alert of kernel mode, which keeps the run short. Which APCs and alerts
  end a wait depends on its thread alone: one thread that waits for events in every mode, alertable or
  not, and is sent every kind of APC and alert (101 064 states) was checked with the same result, and
  `NoApcIsStranded` (section 4) holds for all.
* In `hive_sync` one page fits the smallest log and one makes it grow. Sequence numbers are only
  compared for equality within one file, so two values suffice; two time stamps tell a log
  that belongs to the primary from one that does not.
* Symmetry over threads is used only where no liveness is checked (`rundown_cache_aware`,
  `handle_table`).

### Fairness

Weak fairness is assumed of the steps of a call in progress (`InCall`, `Continue`) and of
the wakeup of a wait that is satisfied: the scheduler runs every ready thread, and loops
on a compare-exchange end because a failure means that another thread made progress. A
holder is assumed to let go in the end, which is the contract of the lock's user and not a
property of the lock (in the rundown modules strong fairness of `StartRelease`, since a
holder may go on acquiring and releasing in between). New calls are never assumed. No
fairness is assumed of the owner's decision to run down.

`ExCallBack` assumes weak fairness of a call in progress. `KeyedEvent` assumes it only of
`Wake`, by a thread in a critical region, which nothing suspends, and of `Absorb`. `KeWait`
assumes it of a wait's own steps, of the second half of an APC's insertion and of the clock;
nobody is assumed to signal anything. `HiveSync` has no liveness property: a disk that fails
for ever is a behaviour.

Push locks do not hand ownership over: a woken thread competes again and can lose for
ever. `WaitersServed` and `AcquiresEnd` are therefore stated for behaviours in which no new
acquires begin from some point on. What remains is what could be wrong, a wakeup that is
lost. `CallsEnd` of `ExHandleFree` has the same premise, because a pop can be overtaken for
ever. `WaitersWake` needs none, because an unlock wakes every waiter.

## 4. What is proved

All proofs are checked by TLAPS, from the named assumptions on the constants only.

**`ExCallBackProofs`** has the proofs about rundown protection and about the callbacks whose blocks
it protects. Rundown protection, for every finite set of accessors and every `MaxHold > 0`: `RundownTypeCorrect`, `RundownIsSafe`, `CountsAlwaysAgree`, `BlockAccessIsSafe`,
`WakeupIsUnique`, `OwnerAssertsHold` (`Spec => []P`) and `NoGrantOnceActive` (an action
property). None of the invariants is inductive: that no dead block is touched depends on
the count in it, which depends on who holds references, which depends on every accessor's
local value. The inductive invariant `ProtectionInv` conjoins

* `RundownTypeOK`;
* `WordInv`: a word that is not active counts the outstanding references, an active one is
  the flag alone, with nothing outstanding, or the block of a wait that is in progress or
  has just returned;
* `OwnerInv`: what the rundown thread knows at each place of its code; while it waits the
  block counts the outstanding references, and if it counts zero the event is set or
  somebody is about to set it;
* `AccessorInv(a)`: what an accessor knows; in particular an accessor with an active local
  value in a release still holds its references, so the wait it is about to touch cannot
  have returned, and the accessor about to set the event is alone.

"Outstanding references" is the cardinality of the set `Granted` of pairs (holder, number).
The first lemmas say how it changes when one accessor's share grows or shrinks, from
`FiniteSetTheorems`; then `LocalStep`, `GrantStep` and `DropStep` cover the three kinds of
steps, and `RundownNextInv` takes the actions one by one.

**`ExRundownCacheAwareProofs`**, for every finite set of accessors, every number of processors
and references and every width of a word that holds twice the references there can be, under
`~OpenReInit` and `~WaitAgain` (section 6 shows that neither can be dropped): `TypeCorrect`,
`CountsAreConserved`, `RundownIsSafe`, `BlockAccessIsSafe`, `WaiterIsWoken`. A word alone says
nothing, since a reference may be dropped on another word than it was taken on; what is conserved
is a sum over the words, modulo the width. Sums are cardinalities of sets of numbered pairs
(`Shares`); `SharesChange` says that a sum changes by what one share does, which
`FiniteSetTheorems` gives without an induction. The inductive invariant conjoins

* `TypeOK`, and `WordInv`: what each word is at each stage of marking, waiting, completing and
  reinitialising;
* `SumInv`: words, total and block make up the references outstanding plus a multiple of the
  width;
* `TotalInv`: how far early releases can have driven the block below zero. What is held or sought
  and what has been given back early have a bound together, because an accessor that seeks a
  reference has passed the guard that bounds the latter;
* `WaitInv` and `AccessorInv(a)`, as for plain rundown protection.

`TotalIsExact` is the point of it: with every word marked, the bound of `TotalInv` leaves no room for a
multiple of the width other than zero, so that the block's count becomes exactly the references
outstanding, and the assertion of line 636 holds (that of line 619 by `WordInv`).

**`KeyedEventProofs`**, for every set of threads in any processes and every set of keys:
`NoMatchIsMissed`, `WakeupIsOwed` and `TypeCorrect`, from the one assumption that `None` is
neither a thread nor a key value. `NoMissedMatch` is not inductive: that a waiter's search,
which stops at the first waiter, has seen every releaser needs `OrderInv` (releasers come
first), from which `SearchIsComplete` follows, and that needs `QueueInv` (a thread is on the
queue once, and keeps its value while it is). `WakeupOwed` needs the same and `CallInv` (a
thread has a target exactly while it is about to wake it). `OwedInv` says it without
cardinalities: the wakeup of a thread off the queue is in its semaphore, or one thread owes it. `RemovedFromQueue`
and `AddedToQueue` say what an update of the queue keeps; there is then one lemma per
action.

**`ExPushLockProofs`**, for every set of threads (the one assumption is that `NULL` is not one)
and every choice of the operations each calls: `TypeCorrect`, `OwnersAreCounted`,
`ChainAccessIsSafe`, `WakeProtocolKept`, `ExclusiveOwnsAlone`, and the refinement
`PushLockIsRWLock` (`Spec => RW!Spec`). The three invariants need one another: that the share
count is found needs the chain to be whole; that the chain is whole while the waker breaks it
up needs M to be clear, which needs the owners to be counted. The inductive invariant `IInv`
says that there are a numbering `q` of blocks with an interval `lo..hi`, an index `f` and a
function `own` such that

* `TypeInv`: types, and which combinations of bits a word can have (`GoodWord`); this holds of
  the stale words in `Old` and `Top` as well;
* `CallInv`: what a thread wants and holds at each place of its code;
* `HoldInv`: how the word counts the owners, and that what a releasing thread has read of W and
  M still stands. A thread that brought the saved count to zero holds the lock (`Holds`) until its
  compare-exchange;
* `WakingInv`: the waking bit has one owner, and M does not come back once that owner has seen
  it clear;
* `ChainInv`: `q[hi]` is the head in the word and `q[lo]` the last block; `Next` leads
  from each block to the one below; `q[f]` is the first block that knows the last, and from `f`
  down the back pointers are set;
* `CountInv`: the saved count is in `q[lo]` and nowhere else;
* `WalkOf(t)`: where the owner of K and the sharers that look for the count are in that interval;
* `ListInv`, `SignalOf(t)`: `own[b]` is the waker that has taken block `b` off the chain and not
  signalled it; the blocks of a waker are a list along the back pointers, with no two links to one
  block;
* `SleepOf(b)`: a block on the chain or owned by a waker belongs to a thread still in its wait,
  whose spinning bit is clear exactly when it waits at its gate.

`q` and `own` are not in the code and are not variables of the specification: each action's lemma
names the new ones (`PushOn` adds `hi + 1`, `WakeOneStep` takes `lo` away and gives the block to
the waker, `WakeAllTaken` gives it the whole interval). The proof has lemmas for the words the
routines make of a word, for what a step of one thread leaves alone (`Only`, the `...Kept`
lemmas), then one per action. The invariant was model-checked with three threads and every
operation before it was proved.

The same module has the proofs about the **cache-aware push lock** (it extends both
specifications, which is why the names of `ExPushLockCacheAware` begin with `Fanned`): for every set of
callers and every number of processors and slots, `FannedTypeCorrect`, `SlotsAreAccounted`, `FannedOwnsAlone` and `FannedIsRWLock`, the
refinement of `RWLock`. `SlotsOfProcessors` shows that the slots sharers reach modulo the fan-out
are exactly the `MaxLine` slots an exclusive owner takes. The inductive invariant gives the
range of each acquire and release (`RangeInv`), how each thread holds each slot as a
function of its place in the loops (`SlotInv`), and exclusion in each slot
(`ExclusionInv`). An acquire maps to a step of `RWLock` when the last slot is taken
(`OwnerAlone`), a release when the first slot is given back.

**`HiveSyncProofs`**, for hives of any size and any set of values, sequence modulus and range of time
stamps, under `CmDoSelfHeal` (its shipped value) and `~LateFailure`, the hypothesis the finding of section 6 shows
to be necessary: `TypeCorrect`, `CleanIsSaved`, `TornIsLogged`, `RecoveredIsWhole`, and
the refinement `SaveIsAtomic` (`Spec => Abstract!Spec`). The pair of files on disk is always in
one of four states: `Settled` (the primary is whole, with nothing unflushed), `Announced` (the
log is complete and the header with Sequence1 raised may be written, not flushed), `Exposed` (the
primary may be torn and the log holds what it lacks) and `Completing` (every page is there, the
header that completes the save is written, not flushed). The inductive invariant says which of
them each place of the save, the load and the recovery allows, of the file as a read finds it
and as a crash would leave it; a lemma per step shows how it leads from one to the next,
and `LoadedImageOf` what a load makes of each. A crash is possible in every state, also while the
system is down, where it changes nothing.

**`ExHandleProofs`** has the proofs about two parts of a handle table. The entry locks, for every set
of threads, entries and objects: `TypeCorrect`, `EntryLocked`, `BlocksAreLive`. `CallInv` and `LockInv` say which entry a thread has locked at each
place; `BlockInv` says that there are a set of the blocks on the contention chain and a
function from the other live blocks to the waker that popped them, closed along `Next`. The
reachable blocks (`From`, the least closed set, which TLC evaluates and the prover can reason
about, unlike a recursive definition) are then among them.

The tree of the table, for every finite set of threads, every finite pool and levels of every size
(one entry or more in a page, two or more pointers in the tables above): `TableTypeCorrect`,
`LookupIsSound`, `EntriesDoNotMove`, `PoolIsAccounted`. Neither property is inductive. A lookup has
checked its handle against a bound and captured a root that may both be out of date, so the
invariant must say that what it walks still leads to its page; a growth links its page
before it counts it, so the tree has one page more than the count says in between (`Linked`). The
inductive invariant `TableInv` says

* `TreeInv`: with one level the root is page 0; with two (`LevelOne`) and three (`LevelTwo`) the
  page `p` hangs at the place its number tells (`Hi(p)`, `Lo(p)`) if it is linked, nothing hangs at the other places,
  and no mid level table of the tree is empty or hangs twice;
* `WalkInv(t)`: what a lookup holds leads to the page of its handle from the table it has come to,
  which need not be the root of its level any more;
* `GrowInv(t)`: one thread grows; what it has in hand is fresh, and is what the levels call for;
* `InfoInv`: an information table hangs under one page, and one that a thread is about to link
  hangs under none.

`Stays` says what every step of a table that is not freed keeps: pages, and pointers once they are set;
the root stays or becomes the first pointer of the new root. `WalkKept` and `EntriesDoNotMove` follow
from it. `PublishInv` has a lemma for each of the five ways to link a page, with the arithmetic of
page numbers in lemmas of its own (`PlaceUnique`, `PlaceOrder`, `PlaceOfPage`). `PoolInv` is the converse, nothing is allocated
but what hangs in the tree or is in a thread's hand (`LevelsHeld`, `InfoHeld`, `InfoCounted`); that the
destruction, which stops at the first empty place of each table, frees all of it (`FreedIsAll`) needs the
pages to fill the places in order. `TreeIsLevels` computes the tree, which `PoolAccounted` builds from
what the blocks point to, level by level.

**`ExHandleFreeProofs`**, the free lists, for every set of threads, every number of locks (one or more), pages (one or more)
and entries of a page (two or more) and every `FreeTarget`: `TypeCorrect`, `PopsAreFresh`, `HandlesAreConserved`. `HandlesConserved` is not
inductive: that a pop takes one entry off the list, and not a piece of it, is `PopIsFresh`; that holds
because an entry on which a pop has its eyes cannot come back to `FirstFree` before the pop has
ended; and that depends on which locks are held, on who frees the entry, and on how far the move
has come with its barrier. `FreeInv` says that there is a function `p` from the entries to places (`first` and
`last`, the lists; `use`; `held`, in the hands of one thread; `rest` and `done`, the two chains of the thread that
moves or grows; `none`, not yet in the table), and of it (`GhostInv`)

* `ListsInv`: the entries at `first` and `last` are chains that begin at the heads and end;
* `HeldInv`: an entry at `held` has exactly one thread, and an entry about to be pushed is linked to
  the head that the thread has read;
* `MoveInv`: entries are at `rest` or `done` only while a thread is in the move or the growth, and are
  the chains that its locals describe: at the reversal `rest` from `Index` to the end, and `done` from
  `OldIndex` to `OldValue`;
* `PopInv`: the entry of a pop that has verified the head is not in a new page nor in the part that is
  reversed; while it is at `first`, its successor is the one that was read; no thread is
  about to push it on `FirstFree`; and if it is at `rest`, the mover has still to wait for the lock of the pop.

The last line is the argument of the striped locks. `ChooseListGhost` is where the test of `Held` is used (a free
that goes to `FirstFree` saw the lock of the entry free, hence no pop has it), `TakeLastFreeGhost` where a
chain comes into the move (a pop in progress has a lock other than 0, which the mover holds), `BarrierGhost`
and `BarrierPassed` where the pops are waited for. `HoldingInv` says who holds which lock, `CountInv` that `HandleCount`
counts the handles in use, `PagesInv` that the table consists of whole pages.

Chains are `Segment(f, S, h, l)`: `S` is the entries from `h` to `l` along `f`, with an induction
principle in place of a length (a part of `S` that has `h` and is closed is all of `S`). Lemmas say what becomes of a chain when
an entry is pushed or popped, when two are joined, and when entries outside it change. `SegmentWay` and `ListChain` connect them
with `Way`; `Successors` has, by counting, that the entries of a new page are one chain.

**`KeWaitProofs`**, for every set of threads, objects of every type and requests, with `NULL` neither
a thread nor an APC, and boosted events that are synchronization events: `TypeCorrect`, `NobodyIsStranded`, `StatusIsTruthful`, `NoApcIsStranded`. The
invariant adds to the three properties: `ListInv` (a thread is on the lists of exactly the objects
it waits for), `SignalInv` (what a signal state can be for each type, and the owner of a mutant),
`TakenInv` (nothing has been taken for a thread that still waits) and `ApcInv` (which flags an APC
has set, also between the two halves of its insertion). The hard step is the wait test (`Tested`): after it the object is
not signalled any more, or nobody who could take it is left on its list: `Counting` shows that a
waiter is left behind only by as many takers as there were signals to take. `Without`, the removal of threads from a list, is
defined by the positions that stay.

The second part of **`ExCallBackProofs`**, the callbacks, for every finite set of threads, every set of
blocks and every `MAX_FAST_REFS > 0`: `TypeCorrect`, `ReferencesAreConserved`, `SlowBlockIsAlive`,
`QuietAfterTheWait`. `ReferencesConserved` is not inductive: a refill adds references to a slot
whose bits it read earlier, and an exchange may have taken the block out, freed it and put it
back meanwhile. The inductive invariant adds

* `CallInv`, `FreshInv`: what a thread has in its locals at each place of its code, and that a
  block that was allocated and not yet installed is known to its thread only;
* `OwnInv`: a block that is allocated and not in the slot has exactly one thread that will give it
  back, the one that allocated it or the one that took it out;
* `RundownInv`: a block is closed by its owner only, and not while it is in the slot;
* `LockInv`, `SlowInv`: the flush lock has one holder, and a thread on the slow path holds it and
  looks at a block that is in the slot or whose remover has not come through its flush;
* `CountInv`, `FreeInv`, `PoolInv`: the count of a block is the number of references to it, a
  free block has none, and what is in the slot or in a local that is used is allocated.

The references are the cardinality of a set of numbered pairs, as those of rundown protection are
(`SharesOf`); lemmas say how it changes when one thread's share or the slot's does.

Exclusion (`RW!Exclusion`) is proved of both push locks from their own invariants, so that the
refinements of `RWLock` say what they should.

The type invariants of all these modules, and `CountsAgree` and `OwnerAsserts` of `ExRundown`, are
proved and not repeated in a run; `GoodLogInHand` is proved without late failures and refuted with
them.

Every invariant and every action property that a run checks is proved. Only model-checked: liveness
(fairness and `ENABLED` are outside the prover).

## 5. Hazards

`PROJECT.json` lists them at their lines. Those of the modelled components have properties
that some run checks, with two exceptions, each a failure the code really has: the
reinitialisation word by word and the late failure of a save (section 6). A third failure of this
kind, the key of a boosted wait, is observation 4 there, and an exclusion of `StatusTruthful`. Two belong to
components that wait for their modules: deferred deletion (`ob/obref.c`) and LPC replies.

## 6. Findings

**A save that fails late** (`config/hivesync.c`, line 1574; run `hive_late`). `HvpDoWriteHive`
raises `Sequence2` in memory, then writes the header and flushes. If the write or the flush
fails, the save reports failure, but memory says that the primary is consistent. The next save
therefore passes the test meant for that case ("Some previous log attempt failed, or this
hive needs to be recovered, so punt", lines 1415 and 1706) and overwrites the log, while the
primary on disk may still have unequal sequences. A crash in the middle of that log leaves a
primary that needs recovery and no whole log; the loader looks at the dirty vector's signature and
not at the log's header (`HvpRecoverData`), so it applies what is there. `GoodLogInHand` is the
claim of `config/hiveinit.c`, line 378.

Observations met while modelling that are not runs of their own:

1. **Reinitialisation word by word** (`ex/rundown.c`, line 671). Between the exchanges of
   `ExReInitializeRundownProtectionCacheAware` an accessor can take a reference on a word
   already reset, move, and drop it on a word not yet reset; the release follows the pointer
   to the wait block of a call that has returned. The comment at line 206 claims the
   right to follow it. With `OpenReInit = TRUE` TLC finds `BlockAccessSafe` violated; the run
   requires that no accessor is in a call, or begins an acquire, during the loop.
2. **Waiting again after completion** (line 632). `ExRundownCompletedCacheAware` says that
   it lets one "wait again safely" (line 679). A second cache-aware wait adds up the active
   bits of the words; from two processors on it waits for a reference nobody holds
   (with `WaitAgain = TRUE` TLC finds `CountsConserved` violated, and `WaiterHasWaker`). The plain form returns at once. The assertion at
   line 619 would stop a checked build.
3. **Conversion to shared** (`ex/pushlock.c`, line 741): "If other shared waiters are present at
   the end of the waiters chain they are released"; with waiters the routine returns and wakes
   nobody. They wait for the converted owner's release, which does not leave them behind
   (`WaitersServed`).
4. **A boosted wait reports its first object.** `KeSetEventBoostPriority` hands the event to its first waiter
   with `KiUnlinkThread(WaitThread, STATUS_SUCCESS)` (`ke/eventobj.c`, line 278), whatever the wait
   key of the event is, and `STATUS_SUCCESS` is `STATUS_WAIT_0`. A thread that waits for any of
   several objects, the event not the first, is told that the first was signalled, and has taken
   the event. `ke/wait.c`, line 354, says of `KeWaitForMultipleObjects`: "The index of the object
   (zero based) in the object pointer array is returned if an object satisfied the wait." The
   callers inside the kernel wait for the event alone, where zero is its index; lines 261 and 262 say that
   calls from the system service are restricted in the type of the event and not of the
   wait. `StatusTruthful` excludes these keys (`BoostedFirst`); without the exclusion TLC finds it violated
   in four states: the wait blocks on `<<S, E>>` and `E` is boosted.
5. `KePulseEvent` never satisfies a wait for all: the waiter is sent back to look for itself and
   finds the event reset.

## 7. What is not modelled, and the plan

Not modelled in the components above: allocation and freeing of the objects that contain
the words, statistics, and the single-processor build, in which the spinning and the backoff
disappear; what each section of 2 names as left out. Out of reach or not worth it: memory manager
and pool (state is memory layout), assembly and trap code, initialisation, tracing, disk
formats, pure conversions in `rtl`.

The repository has more than half a million lines, a good part of it headers of status codes,
the memory manager and the I/O and Plug and Play managers. The modules cover its
synchronization core and one storage protocol densely and are not meant to cover a
given share of the whole.

The order of further work, most depended-upon first:

1. **Gates, guarded and fast mutexes** on top of the dispatcher, mutual exclusion by refinement of
   an abstract mutex; `WaitNext`, queues and **work queues**; **executive resources**, against
   `RWLock` with recursion.
2. **Object references**: deferred deletion, fast references to objects. **LPC** request and
   reply, which shares the semaphore of `KeyedEvent`. **Oplocks**.
3. Callback objects; growth of a hive and hives with an alternate file; removal and flush of
   **APCs**, DPCs; the timed wait for an unblock; duplication, enumeration and sweep of handle tables.
