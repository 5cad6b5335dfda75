------------------------------ MODULE ExRundown ------------------------------
(***************************************************************************)
(* Rundown protection (ex/rundown.c and the inline fast paths of inc/ex.h): *)
(* accessors take and drop references on an EX_RUNDOWN_REF, one thread runs  *)
(* the object down and returns only when every reference is gone.           *)
(*                                                                         *)
(* One word holds either a count of references or, once rundown is active,  *)
(* a pointer to a wait block on the STACK of the thread that runs down.      *)
(* One step is one access to shared memory: the read of the word, an        *)
(* interlocked operation, KeSetEvent, the return from the wait.             *)
(***************************************************************************)
EXTENDS Naturals, FiniteSets

CONSTANTS
    Accessors,      \* threads that take and drop references
    MaxHold,        \* bound: references one accessor holds at a time
    WaitBlockPtr    \* the address of the wait block, which is no count

ASSUME AccessorsFinite == IsFiniteSet(Accessors)
ASSUME MaxHoldPositive == MaxHold \in Nat \ {0}
ASSUME PtrIsNoCount == WaitBlockPtr \notin Nat

VARIABLES
    RunRef,         \* the EX_RUNDOWN_REF word
    WaitBlock,      \* the EX_RUNDOWN_WAIT_BLOCK on the rundown thread's stack
    apc, Value, Count,   \* accessors: place in the code, local Value, argument Count
    held,           \* references each accessor holds (what the caller believes)
    tpc, tValue     \* the rundown thread: place in the code, local Value

rundownVars == <<RunRef, WaitBlock, apc, Value, Count, held, tpc, tValue>>

(***************************************************************************)
(* The word: the low bit EX_RUNDOWN_ACTIVE, and the rest of the bits, a     *)
(* count or an address.                                                    *)
(***************************************************************************)
Word == [low : {0, 1}, rest : Nat \cup {WaitBlockPtr}]

CountWord(n) == [low |-> 0, rest |-> n]

EX_RUNDOWN_ACTIVE == [low |-> 1, rest |-> 0]

BlockWord == [low |-> 1, rest |-> WaitBlockPtr]

Masked(w) == [low |-> 0, rest |-> w.rest]

Active(w) == w.low = 1

RundownInit ==
    /\ RunRef = CountWord(0)
    /\ WaitBlock = [Count |-> 0, WakeEvent |-> "none"]
    /\ apc = [a \in Accessors |-> "idle"]
    /\ Value = [a \in Accessors |-> CountWord(0)]
    /\ Count = [a \in Accessors |-> 1]
    /\ held = [a \in Accessors |-> 0]
    /\ tpc = "running"
    /\ tValue = CountWord(0)

GotoAccessor(a, label) == apc' = [apc EXCEPT ![a] = label]

\* The call of accessor a returns: its locals are gone.
Return(a) ==
    /\ GotoAccessor(a, "idle")
    /\ Value' = [Value EXCEPT ![a] = CountWord(0)]
    /\ Count' = [Count EXCEPT ![a] = 1]

(***************************************************************************)
(* Acquisition.                                                            *)
(***************************************************************************)
\* ExAcquireRundownProtection, inline: the masked read ...
AcquireInline(a) ==
    /\ apc[a] = "idle"
    /\ held[a] < MaxHold
    /\ Value' = [Value EXCEPT ![a] = Masked(RunRef)]
    /\ Count' = [Count EXCEPT ![a] = 1]
    /\ GotoAccessor(a, "AcquireInlineCas")
    /\ UNCHANGED <<RunRef, WaitBlock, held, tpc, tValue>>

\* ... and its compare-exchange, which falls back on the routine.
AcquireInlineCas(a) ==
    /\ apc[a] = "AcquireInlineCas"
    /\ \/ /\ RunRef = Value[a]
          /\ RunRef' = CountWord(Value[a].rest + 1)
          /\ held' = [held EXCEPT ![a] = @ + 1]
          /\ Return(a)
       \/ /\ RunRef # Value[a]
          /\ GotoAccessor(a, "ExfAcquire")
          /\ UNCHANGED <<RunRef, held, Value, Count>>
    /\ UNCHANGED <<WaitBlock, tpc, tValue>>

\* ExfAcquireRundownProtection, entered from the inline: the first read.
ExfAcquireRead(a) ==
    /\ apc[a] = "ExfAcquire"
    /\ Value' = [Value EXCEPT ![a] = RunRef]
    /\ GotoAccessor(a, "AcquireLoop")
    /\ UNCHANGED <<RunRef, WaitBlock, Count, held, tpc, tValue>>

\* ExAcquireRundownProtectionEx, called with Count = k: the first read.
AcquireEx(a, k) ==
    /\ apc[a] = "idle"
    /\ held[a] + k <= MaxHold
    /\ Value' = [Value EXCEPT ![a] = RunRef]
    /\ Count' = [Count EXCEPT ![a] = k]
    /\ GotoAccessor(a, "AcquireLoop")
    /\ UNCHANGED <<RunRef, WaitBlock, held, tpc, tValue>>

\* Mutant: an acquire that finds the block joins the count in it.
AcquireLoop_IntoBlock(a) ==
    /\ apc[a] = "AcquireLoop"
    /\ \/ /\ Value[a] = BlockWord
          /\ WaitBlock' = [WaitBlock EXCEPT !.Count = @ + Count[a]]
          /\ UNCHANGED RunRef
       \/ /\ ~Active(Value[a])
          /\ RunRef = Value[a]
          /\ RunRef' = CountWord(Value[a].rest + Count[a])
          /\ UNCHANGED WaitBlock
    /\ held' = [held EXCEPT ![a] = @ + Count[a]]
    /\ Return(a)
    /\ UNCHANGED <<tpc, tValue>>

\* One turn of the loop both routines share.
AcquireLoop(a) ==
    /\ apc[a] = "AcquireLoop"
    /\ \/ /\ Active(Value[a])                    \* return FALSE
          /\ Return(a)
          /\ UNCHANGED <<RunRef, held>>
       \/ /\ ~Active(Value[a])
          /\ RunRef = Value[a]
          /\ RunRef' = CountWord(Value[a].rest + Count[a])
          /\ held' = [held EXCEPT ![a] = @ + Count[a]]
          /\ Return(a)
       \/ /\ ~Active(Value[a])
          /\ RunRef # Value[a]
          /\ Value' = [Value EXCEPT ![a] = RunRef]
          /\ UNCHANGED <<RunRef, held, apc, Count>>
    /\ UNCHANGED <<WaitBlock, tpc, tValue>>

(***************************************************************************)
(* Release. A caller releases only references it holds.                     *)
(***************************************************************************)
\* ExReleaseRundownProtection, inline: the masked read ...
ReleaseInline(a) ==
    /\ apc[a] = "idle"
    /\ held[a] > 0
    /\ Value' = [Value EXCEPT ![a] = Masked(RunRef)]
    /\ Count' = [Count EXCEPT ![a] = 1]
    /\ GotoAccessor(a, "ReleaseInlineCas")
    /\ UNCHANGED <<RunRef, WaitBlock, held, tpc, tValue>>

\* ... and its compare-exchange.
ReleaseInlineCas(a) ==
    /\ apc[a] = "ReleaseInlineCas"
    /\ \/ /\ RunRef = Value[a]
          /\ RunRef' = CountWord(Value[a].rest - 1)
          /\ held' = [held EXCEPT ![a] = @ - 1]
          /\ Return(a)
       \/ /\ RunRef # Value[a]
          /\ GotoAccessor(a, "ExfRelease")
          /\ UNCHANGED <<RunRef, held, Value, Count>>
    /\ UNCHANGED <<WaitBlock, tpc, tValue>>

\* ExfReleaseRundownProtection, entered from the inline: the first read.
ExfReleaseRead(a) ==
    /\ apc[a] = "ExfRelease"
    /\ Value' = [Value EXCEPT ![a] = RunRef]
    /\ GotoAccessor(a, "ReleaseLoop")
    /\ UNCHANGED <<RunRef, WaitBlock, Count, held, tpc, tValue>>

\* ExReleaseRundownProtectionEx, called with Count = k: the first read.
ReleaseEx(a, k) ==
    /\ apc[a] = "idle"
    /\ held[a] >= k
    /\ Value' = [Value EXCEPT ![a] = RunRef]
    /\ Count' = [Count EXCEPT ![a] = k]
    /\ GotoAccessor(a, "ReleaseLoop")
    /\ UNCHANGED <<RunRef, WaitBlock, held, tpc, tValue>>

\* One turn of the loop while the local Value holds a count.
ReleaseLoop(a) ==
    /\ apc[a] = "ReleaseLoop"
    /\ ~Active(Value[a])
    /\ \/ /\ RunRef = Value[a]
          /\ RunRef' = CountWord(Value[a].rest - Count[a])
          /\ held' = [held EXCEPT ![a] = @ - Count[a]]
          /\ Return(a)
       \/ /\ RunRef # Value[a]
          /\ Value' = [Value EXCEPT ![a] = RunRef]
          /\ UNCHANGED <<RunRef, held, apc, Count>>
    /\ UNCHANGED <<WaitBlock, tpc, tValue>>

\* Mutant: the last release is recognised by a count of one.
ReleaseToBlock_One(a) ==
    /\ apc[a] = "ReleaseLoop"
    /\ Active(Value[a])
    /\ WaitBlock' = [WaitBlock EXCEPT !.Count = @ - Count[a]]
    /\ held' = [held EXCEPT ![a] = @ - Count[a]]
    /\ \/ /\ WaitBlock.Count = 1
          /\ GotoAccessor(a, "KeSetEvent")
          /\ UNCHANGED <<Value, Count>>
       \/ /\ WaitBlock.Count # 1
          /\ Return(a)
    /\ UNCHANGED <<RunRef, tpc, tValue>>

\* Rundown is active: follow the pointer and subtract from the block's count;
\* the one that brings it to zero goes on to wake the rundown thread.
ReleaseToBlock(a) ==
    /\ apc[a] = "ReleaseLoop"
    /\ Active(Value[a])
    /\ WaitBlock' = [WaitBlock EXCEPT !.Count = @ - Count[a]]
    /\ held' = [held EXCEPT ![a] = @ - Count[a]]
    /\ \/ /\ WaitBlock.Count = Count[a]
          /\ GotoAccessor(a, "KeSetEvent")
          /\ UNCHANGED <<Value, Count>>
       \/ /\ WaitBlock.Count # Count[a]
          /\ Return(a)
    /\ UNCHANGED <<RunRef, tpc, tValue>>

\* KeSetEvent(&WaitBlock->WakeEvent): the last touch of the block.
ReleaseSetEvent(a) ==
    /\ apc[a] = "KeSetEvent"
    /\ WaitBlock' = [WaitBlock EXCEPT !.WakeEvent = "set"]
    /\ Return(a)
    /\ UNCHANGED <<RunRef, held, tpc, tValue>>

(***************************************************************************)
(* Rundown.                                                                *)
(***************************************************************************)
\* The compare-exchange of zero for EX_RUNDOWN_ACTIVE, which the inline and
\* then the routine begin with; Zero or already active is a return.
RundownFastCas(from, to) ==
    /\ tpc = from
    /\ RunRef' = IF RunRef = CountWord(0) THEN EX_RUNDOWN_ACTIVE ELSE RunRef
    /\ tpc' = IF RunRef \in {CountWord(0), EX_RUNDOWN_ACTIVE} THEN "returned" ELSE to
    /\ tValue' = IF tpc' = "returned" THEN CountWord(0) ELSE RunRef
    /\ UNCHANGED <<apc, Value, Count, held>>

\* ExWaitForRundownProtectionRelease, inline.
WaitForRundown ==
    /\ RundownFastCas("running", "Exf")
    /\ UNCHANGED WaitBlock

\* The fast path of ExfWaitForRundownProtectionRelease. Entering the routine
\* makes a new wait block, whose event is not yet initialised.
ExfWaitForRundown ==
    /\ RundownFastCas("Exf", "ExfLoop")
    /\ WaitBlock' = [Count |-> 0, WakeEvent |-> "none"]

\* Mutant: the event is never initialised.
WaitLoop_NoEvent ==
    /\ tpc = "ExfLoop"
    /\ WaitBlock' = [Count |-> tValue.rest, WakeEvent |-> "none"]
    /\ RunRef = tValue
    /\ RunRef' = BlockWord
    /\ tpc' = IF tValue.rest > 0 THEN "KeWait" ELSE "returned"
    /\ tValue' = CountWord(0)
    /\ UNCHANGED <<apc, Value, Count, held>>

\* One turn of the slow loop: WaitCount is taken from the local Value, the
\* event initialised once, the count stored, and the block swapped in.
WaitLoop ==
    LET WaitCount == tValue.rest
    IN  /\ tpc = "ExfLoop"
        /\ WaitBlock' =
             [Count |-> WaitCount,
              WakeEvent |-> IF WaitCount > 0 /\ WaitBlock.WakeEvent = "none"
                              THEN "reset" ELSE WaitBlock.WakeEvent]
        /\ \/ /\ RunRef = tValue
              /\ RunRef' = BlockWord
              /\ tpc' = IF WaitCount > 0 THEN "KeWait" ELSE "returned"
              /\ tValue' = CountWord(0)
           \/ /\ RunRef # tValue
              /\ tValue' = RunRef
              /\ UNCHANGED <<RunRef, tpc>>
        /\ UNCHANGED <<apc, Value, Count, held>>

\* Mutant: the wait returns before the event is set.
WaitReturn_Early ==
    /\ tpc = "KeWait"
    /\ tpc' = "returned"
    /\ UNCHANGED <<RunRef, WaitBlock, apc, Value, Count, held, tValue>>

\* KeWaitForSingleObject returns; the event is a synchronization event.
WaitReturn ==
    /\ tpc = "KeWait"
    /\ WaitBlock.WakeEvent = "set"
    /\ WaitBlock' = [WaitBlock EXCEPT !.WakeEvent = "reset"]
    /\ tpc' = "returned"
    /\ UNCHANGED <<RunRef, apc, Value, Count, held, tValue>>

\* What the owner may do with a word that has been run down.
RundownCompleted ==
    /\ tpc = "returned"
    /\ RunRef' = EX_RUNDOWN_ACTIVE
    /\ tpc' = "running"
    /\ UNCHANGED <<WaitBlock, apc, Value, Count, held, tValue>>

ReInitialize ==
    /\ tpc = "returned"
    /\ RunRef' = CountWord(0)
    /\ tpc' = "running"
    /\ UNCHANGED <<WaitBlock, apc, Value, Count, held, tValue>>

(***************************************************************************)
(* The specification.                                                      *)
(***************************************************************************)
StartRelease(a) == ReleaseInline(a) \/ \E k \in 1..MaxHold : ReleaseEx(a, k)

InCall(a) ==
    \/ AcquireInlineCas(a) \/ ExfAcquireRead(a) \/ AcquireLoop(a)
    \/ ReleaseInlineCas(a) \/ ExfReleaseRead(a) \/ ReleaseLoop(a)
    \/ ReleaseToBlock(a) \/ ReleaseSetEvent(a)

Accessor(a) ==
    \/ AcquireInline(a)
    \/ \E k \in 1..MaxHold : AcquireEx(a, k)
    \/ StartRelease(a)
    \/ InCall(a)

Owner ==
    \/ WaitForRundown \/ ExfWaitForRundown \/ WaitLoop \/ WaitReturn
    \/ RundownCompleted \/ ReInitialize

RundownNext == Owner \/ \E a \in Accessors : Accessor(a)

RundownSpec == RundownInit /\ [][RundownNext]_rundownVars

\* A call in progress keeps running, a holder sooner or later lets go, and
\* the scheduler runs a thread whose wait is satisfied.
Fairness ==
    /\ \A a \in Accessors : WF_rundownVars(InCall(a)) /\ SF_rundownVars(StartRelease(a))
    /\ WF_rundownVars(WaitReturn)

RundownFairSpec == RundownSpec /\ Fairness

(***************************************************************************)
(* Properties.                                                             *)
(***************************************************************************)
AcquirePCs == {"AcquireInlineCas", "ExfAcquire", "AcquireLoop"}
ReleasePCs == {"ReleaseInlineCas", "ExfRelease", "ReleaseLoop"}

\* Every variable has its type; the counts never go below zero.
RundownTypeOK ==
    /\ RunRef \in Word
    /\ WaitBlock \in [Count : Nat, WakeEvent : {"none", "reset", "set"}]
    /\ apc \in [Accessors -> {"idle", "KeSetEvent"} \cup AcquirePCs \cup ReleasePCs]
    /\ Value \in [Accessors -> Word]
    /\ Count \in [Accessors -> 1..MaxHold]
    /\ held \in [Accessors -> 0..MaxHold]
    /\ tpc \in {"running", "Exf", "ExfLoop", "KeWait", "returned"}
    /\ tValue \in Word

\* The references the accessors hold, each as <<its holder, a number>>, and
\* how many they are.
GrantedOf(h) == {r \in Accessors \X (1..MaxHold) : r[2] <= h[r[1]]}

Granted == GrantedOf(held)

\* ExWaitForRundownProtectionRelease "waits till all outstanding rundown
\* protection calls have exited": once it has returned, and as long as the word
\* is not reinitialised, nobody holds a reference.
RundownSafe ==
    tpc = "returned" \/ RunRef = EX_RUNDOWN_ACTIVE => Granted = {}

\* The references outstanding are counted exactly once: in the word before
\* the block is swapped in, in the block after it.
CountsAgree ==
    /\ ~Active(RunRef) => RunRef.rest = Cardinality(Granted)
    /\ RunRef = BlockWord /\ tpc = "KeWait" => WaitBlock.Count = Cardinality(Granted)

\* An accessor that is about to follow the pointer or to set the event finds
\* the block of a rundown that has not returned, with its event initialised:
\* never the stack of a call that is gone, never the null address that
\* EX_RUNDOWN_ACTIVE alone stands for.
BlockAccessSafe ==
    \A a \in Accessors :
        \/ apc[a] = "KeSetEvent"
        \/ apc[a] = "ReleaseLoop" /\ Active(Value[a])
        => /\ tpc = "KeWait"
           /\ RunRef = BlockWord
           /\ WaitBlock.WakeEvent # "none"
           /\ apc[a] = "ReleaseLoop" => Value[a] = BlockWord /\ WaitBlock.Count >= Count[a]

\* One wakeup, neither lost nor doubled: while the rundown thread waits the
\* event is set, or about to be by exactly one accessor, just when the count
\* is zero (the ASSERT after the wait).
OneWakeup ==
    tpc = "KeWait" =>
        LET setters == {a \in Accessors : apc[a] = "KeSetEvent"}
        IN  /\ WaitBlock.WakeEvent = "set" => WaitBlock.Count = 0 /\ setters = {}
            /\ WaitBlock.Count = 0 /\ WaitBlock.WakeEvent # "set" => Cardinality(setters) = 1
            /\ WaitBlock.Count > 0 => setters = {}

\* The ASSERTs of the owner's routines: a failed swap in the slow loop never
\* brings back an active word, and only a run-down word is completed or
\* reinitialised.
OwnerAsserts ==
    /\ tpc = "ExfLoop" => ~Active(RunRef) /\ ~Active(tValue)
    /\ tpc = "returned" => Active(RunRef)

\* Once rundown is active no reference is granted: only ReInitialize lets
\* accessors in again.
NoGrantWhileActive ==
    [][Active(RunRef) => \A a \in Accessors : held'[a] <= held[a]]_rundownVars

\* A rundown thread that waits is woken: no wakeup is lost between the
\* accessor that drops the last reference and the wait.
RundownReturns == (tpc = "KeWait") ~> (tpc = "returned")
=============================================================================
