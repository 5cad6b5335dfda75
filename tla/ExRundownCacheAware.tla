------------------------- MODULE ExRundownCacheAware -------------------------
(***************************************************************************)
(* Cache-aware rundown protection (ex/rundown.c): one EX_RUNDOWN_REF word    *)
(* per processor. A thread takes a reference on the word of the processor    *)
(* it runs on and drops it on the word of the processor it has moved to, so  *)
(* a word alone may count below zero (it wraps); only the sum of the words   *)
(* counts references. The rundown thread swaps its wait block into the words *)
(* one after the other, totalling what it finds there, and only then adds    *)
(* the total to the block, which releases may already have decremented.      *)
(***************************************************************************)
EXTENDS Integers, FiniteSets

CONSTANTS
    Accessors,
    Number,         \* processors: RunRefCacheAware->Number
    MaxHold,        \* bound: references one accessor holds at a time
    MaxEarly,       \* bound: releases into the block while words are being marked
    Modulus,        \* counts wrap modulo this (2^31 or 2^63 in the code)
    WaitBlockPtr,
    OpenReInit,     \* accessors may be active while the words are reinitialised
    WaitAgain       \* the owner may wait again after ExRundownCompletedCacheAware

ASSUME CacheAwareAssumptions ==
    /\ IsFiniteSet(Accessors)
    /\ Number \in Nat \ {0}
    /\ MaxHold \in Nat \ {0}
    /\ MaxEarly \in Nat
    /\ Modulus \in Nat
    /\ Modulus > 2 * (MaxHold * Cardinality(Accessors) + MaxEarly)
    /\ WaitBlockPtr \notin Nat
    /\ OpenReInit \in BOOLEAN
    /\ WaitAgain \in BOOLEAN

VARIABLES
    RunRef,         \* the words, by processor
    WaitBlock,
    pc, at, Value, Count, held,         \* accessors; at[a]: the word the call works on
    tpc, Index, tValue, TotalCount      \* the rundown thread

accVars == <<pc, at, Value, Count, held>>
ownVars == <<tpc, Index, tValue, TotalCount>>
vars == <<RunRef, WaitBlock, accVars, ownVars>>

Processors == 0 .. Number - 1

Word == [low : {0, 1}, rest : (0 .. Modulus - 1) \cup {WaitBlockPtr}]

CountWord(n) == [low |-> 0, rest |-> n % Modulus]
EX_RUNDOWN_ACTIVE == [low |-> 1, rest |-> 0]
BlockWord == [low |-> 1, rest |-> WaitBlockPtr]
Masked(w) == [low |-> 0, rest |-> w.rest]
Active(w) == w.low = 1

\* A word that holds no pointer, as the number the total is made of.
Numeric(w) == 2 * w.rest + w.low

Init ==
    /\ RunRef = [p \in Processors |-> CountWord(0)]
    /\ WaitBlock = [Count |-> 0, WakeEvent |-> "none"]
    /\ pc = [a \in Accessors |-> "idle"]
    /\ at = [a \in Accessors |-> 0]
    /\ Value = [a \in Accessors |-> CountWord(0)]
    /\ Count = [a \in Accessors |-> 1]
    /\ held = [a \in Accessors |-> 0]
    /\ tpc = "running"
    /\ Index = 0
    /\ tValue = CountWord(0)
    /\ TotalCount = 0

Goto(a, label) == pc' = [pc EXCEPT ![a] = label]

Return(a) ==
    /\ Goto(a, "idle")
    /\ at' = [at EXCEPT ![a] = 0]
    /\ Value' = [Value EXCEPT ![a] = CountWord(0)]
    /\ Count' = [Count EXCEPT ![a] = 1]

(***************************************************************************)
(* The accessors: the routines of ExRundown on the word of the processor    *)
(* EXP_GET_CURRENT_RUNDOWN_REF finds at the call.                           *)
(***************************************************************************)
\* A call begins on processor p: it takes the word's value, masked when it is
\* the inline (k = 1), as it stands when it is the Ex routine.
Begin(a, p, k, inline, label) ==
    /\ pc[a] = "idle"
    /\ inline => k = 1
    /\ at' = [at EXCEPT ![a] = p]
    /\ Count' = [Count EXCEPT ![a] = k]
    /\ Value' = [Value EXCEPT ![a] = IF inline THEN Masked(RunRef[p]) ELSE RunRef[p]]
    /\ Goto(a, label)
    /\ UNCHANGED <<RunRef, WaitBlock, held, ownVars>>

AcquireCacheAware(a, p, k, inline) ==
    /\ held[a] + k <= MaxHold
    /\ OpenReInit \/ tpc # "ReInit"
    /\ tpc \in {"MarkRead", "MarkCas"} => WaitBlock.Count > -MaxEarly
    /\ Begin(a, p, k, inline, IF inline THEN "AcquireInline" ELSE "Acquire")

ReleaseCacheAware(a, p, k, inline) ==
    /\ held[a] >= k
    /\ Begin(a, p, k, inline, IF inline THEN "ReleaseInline" ELSE "Release")

\* A compare-exchange in the acquire or the release code succeeds ...
CasSucceeds(a) ==
    /\ \/ pc[a] \in {"AcquireInline", "ReleaseInline"}
       \/ pc[a] \in {"Acquire", "Release"} /\ ~Active(Value[a])
    /\ RunRef[at[a]] = Value[a]
    /\ LET delta == IF pc[a] \in {"AcquireInline", "Acquire"} THEN Count[a] ELSE -Count[a]
       IN  /\ RunRef' = [RunRef EXCEPT ![at[a]] = CountWord(Value[a].rest + delta)]
           /\ held' = [held EXCEPT ![a] = @ + delta]
    /\ Return(a)
    /\ UNCHANGED <<WaitBlock, ownVars>>

\* ... or fails: the inline calls the routine, the routine has a new Value.
CasFails(a) ==
    /\ RunRef[at[a]] # Value[a]
    /\ \/ /\ pc[a] = "AcquireInline"
          /\ Goto(a, "ExfAcquire")
          /\ UNCHANGED Value
       \/ /\ pc[a] = "ReleaseInline"
          /\ Goto(a, "ExfRelease")
          /\ UNCHANGED Value
       \/ /\ pc[a] \in {"Acquire", "Release"}
          /\ ~Active(Value[a])
          /\ Value' = [Value EXCEPT ![a] = RunRef[at[a]]]
          /\ UNCHANGED pc
    /\ UNCHANGED <<RunRef, WaitBlock, at, Count, held, ownVars>>

\* The routine called by the inline reads the word again.
ExfRead(a) ==
    /\ \/ pc[a] = "ExfAcquire" /\ Goto(a, "Acquire")
       \/ pc[a] = "ExfRelease" /\ Goto(a, "Release")
    /\ Value' = [Value EXCEPT ![a] = RunRef[at[a]]]
    /\ UNCHANGED <<RunRef, WaitBlock, at, Count, held, ownVars>>

AcquireRefused(a) ==
    /\ pc[a] = "Acquire"
    /\ Active(Value[a])
    /\ Return(a)
    /\ UNCHANGED <<RunRef, WaitBlock, held, ownVars>>

ReleaseToBlock(a) ==
    /\ pc[a] = "Release"
    /\ Active(Value[a])
    /\ WaitBlock' = [WaitBlock EXCEPT !.Count = @ - Count[a]]
    /\ held' = [held EXCEPT ![a] = @ - Count[a]]
    /\ \/ /\ WaitBlock.Count = Count[a]
          /\ Goto(a, "KeSetEvent")
          /\ UNCHANGED <<at, Value, Count>>
       \/ /\ WaitBlock.Count # Count[a]
          /\ Return(a)
    /\ UNCHANGED <<RunRef, ownVars>>

ReleaseSetEvent(a) ==
    /\ pc[a] = "KeSetEvent"
    /\ WaitBlock' = [WaitBlock EXCEPT !.WakeEvent = "set"]
    /\ Return(a)
    /\ UNCHANGED <<RunRef, held, ownVars>>

(***************************************************************************)
(* The rundown thread.                                                     *)
(***************************************************************************)
\* ExWaitForRundownProtectionReleaseCacheAware begins.
WaitForRundown ==
    /\ tpc = "running"
    /\ WaitAgain \/ RunRef[0] # EX_RUNDOWN_ACTIVE
    /\ tpc' = "MarkRead"
    /\ Index' = 0
    /\ TotalCount' = 0
    /\ WaitBlock' = [Count |-> 0, WakeEvent |-> "none"]
    /\ UNCHANGED <<RunRef, accVars, tValue>>

\* For each processor: the read of its word ...
MarkRead ==
    /\ tpc = "MarkRead"
    /\ tValue' = RunRef[Index]
    /\ tpc' = "MarkCas"
    /\ UNCHANGED <<RunRef, WaitBlock, accVars, Index, TotalCount>>

\* The block replaces the word, and Value is added to the total.
Marked(total) ==
    /\ tpc = "MarkCas"
    /\ RunRef' = [RunRef EXCEPT ![Index] = BlockWord]
    /\ TotalCount' = total
    /\ tpc' = IF Index = Number - 1 THEN "Total" ELSE "MarkRead"
    /\ Index' = IF Index = Number - 1 THEN 0 ELSE Index + 1
    /\ tValue' = CountWord(0)
    /\ UNCHANGED <<WaitBlock, accVars>>

\* Mutant: a plain exchange, the count being the one read before.
MarkCas_Exchange ==
    Marked((TotalCount + Numeric(tValue)) % (2 * Modulus))

\* ... and the compare-exchange of the block for it, repeated until it works.
MarkCas ==
    \/ /\ RunRef[Index] = tValue
       /\ Marked((TotalCount + Numeric(tValue)) % (2 * Modulus))
    \/ /\ tpc = "MarkCas"
       /\ RunRef[Index] # tValue
       /\ tValue' = RunRef[Index]
       /\ UNCHANGED <<RunRef, TotalCount, tpc, Index, WaitBlock, accVars>>

\* The total is added to the block, whose event is left in state event, and the
\* routine waits if so told.
Added(event, waits) ==
    /\ tpc = "Total"
    /\ WaitBlock' = [Count |-> WaitBlock.Count + TotalCount \div 2, WakeEvent |-> event]
    /\ tpc' = IF waits THEN "KeWait" ELSE "returned"
    /\ TotalCount' = 0
    /\ UNCHANGED <<RunRef, accVars, Index, tValue>>

\* Mutant: it waits even when releases have used up the total.
AddTotal_AlwaysWaits == Added("reset", TotalCount # 0)

\* Mutant: it never waits.
AddTotal_NeverWaits == Added("reset", FALSE)

\* Mutant: the event is not initialised.
AddTotal_NoEvent == Added("none", WaitBlock.Count # -(TotalCount \div 2))

\* Nothing outstanding, or the event is initialised and the total added to
\* what releases have left in the block; the wait is skipped if that makes zero.
AddTotal ==
    \/ /\ TotalCount # 0
       /\ Added("reset", WaitBlock.Count # -(TotalCount \div 2))
    \/ /\ tpc = "Total"
       /\ TotalCount = 0
       /\ tpc' = "returned"
       /\ UNCHANGED <<RunRef, WaitBlock, accVars, Index, tValue, TotalCount>>

WaitReturn ==
    /\ tpc = "KeWait"
    /\ WaitBlock.WakeEvent = "set"
    /\ WaitBlock' = [WaitBlock EXCEPT !.WakeEvent = "reset"]
    /\ tpc' = "returned"
    /\ UNCHANGED <<RunRef, accVars, Index, tValue, TotalCount>>

\* The owner begins to reinitialise (or to complete) the words.
BeginReset ==
    /\ tpc = "returned"
    /\ \/ /\ tpc' = "ReInit"
          /\ OpenReInit \/ \A a \in Accessors : pc[a] = "idle"
       \/ tpc' = "Complete"
    /\ UNCHANGED <<RunRef, WaitBlock, accVars, Index, tValue, TotalCount>>

\* One exchange of ExReInitializeRundownProtectionCacheAware or of
\* ExRundownCompletedCacheAware.
ResetWord ==
    /\ tpc \in {"ReInit", "Complete"}
    /\ RunRef' = [RunRef EXCEPT ![Index] =
                    IF tpc = "ReInit" THEN CountWord(0) ELSE EX_RUNDOWN_ACTIVE]
    /\ Index' = IF Index = Number - 1 THEN 0 ELSE Index + 1
    /\ tpc' = IF Index = Number - 1 THEN "running" ELSE tpc
    /\ UNCHANGED <<WaitBlock, accVars, tValue, TotalCount>>

(***************************************************************************)
(* The specification.                                                      *)
(***************************************************************************)
StartRelease(a) ==
    \E p \in Processors, k \in 1..MaxHold, inline \in BOOLEAN : ReleaseCacheAware(a, p, k, inline)

InCall(a) ==
    \/ CasSucceeds(a) \/ CasFails(a) \/ ExfRead(a)
    \/ AcquireRefused(a) \/ ReleaseToBlock(a) \/ ReleaseSetEvent(a)

Accessor(a) ==
    \/ \E p \in Processors, k \in 1..MaxHold, inline \in BOOLEAN : AcquireCacheAware(a, p, k, inline)
    \/ StartRelease(a)
    \/ InCall(a)

Owner ==
    \/ WaitForRundown \/ MarkRead \/ MarkCas \/ AddTotal \/ WaitReturn
    \/ BeginReset \/ ResetWord

Next == Owner \/ \E a \in Accessors : Accessor(a)

Spec == Init /\ [][Next]_vars

(***************************************************************************)
(* Properties.                                                             *)
(***************************************************************************)
\* A sum over a finite set of numbers up to n is the size of a set of pairs
\* <<element, number>>.
Shares(S, n, h) == {r \in S \X (1..n) : r[2] <= h[r[1]]}

\* The references the accessors hold.
Outstanding == Cardinality(Shares(Accessors, MaxHold, held))

\* What the words count that are not active.
WordCount == [p \in Processors |-> IF Active(RunRef[p]) THEN 0 ELSE RunRef[p].rest]
InWords == Cardinality(Shares(Processors, Modulus - 1, WordCount))

\* The stages of the wait in which the block on its stack is live.
WaitPCs == {"MarkRead", "MarkCas", "Total", "KeWait"}

\* Every variable has its type; only the block's count may go below zero.
TypeOK ==
    /\ RunRef \in [Processors -> Word]
    /\ WaitBlock \in [Count : Int, WakeEvent : {"none", "reset", "set"}]
    /\ pc \in [Accessors -> {"idle", "AcquireInline", "ExfAcquire", "Acquire",
                             "ReleaseInline", "ExfRelease", "Release", "KeSetEvent"}]
    /\ at \in [Accessors -> Processors]
    /\ Value \in [Accessors -> Word]
    /\ Count \in [Accessors -> 1..MaxHold]
    /\ held \in [Accessors -> 0..MaxHold]
    /\ tpc \in {"running", "returned", "ReInit", "Complete"} \cup WaitPCs
    /\ Index \in Processors
    /\ tValue \in Word
    /\ TotalCount \in 0 .. 2 * Modulus - 1

\* Conservation: what the unmarked words count, what the rundown thread has
\* totalled and what the block holds make up, modulo the width of a word, the
\* references outstanding, wherever each was taken and dropped; and exactly
\* that once every word is marked, so that the ASSERT on the total holds.
CountsConserved ==
    tpc \in WaitPCs \cup {"running"} =>
        LET inBlock == IF tpc \in WaitPCs THEN WaitBlock.Count ELSE 0
        IN  /\ (InWords + TotalCount \div 2 + inBlock) % Modulus = Outstanding
            /\ tpc = "Total" =>
                 TotalCount < Modulus /\ TotalCount \div 2 + inBlock = Outstanding

\* Nobody holds a reference once the wait has returned.
RundownSafe == tpc \in {"returned", "Complete"} => Outstanding = 0

\* "Since we are one of the threads blocking rundown we have the right to
\* follow the pointer": whoever follows it, or sets the event, finds the block
\* of a wait in progress, and the event initialised when it is set.
BlockAccessSafe ==
    \A a \in Accessors :
        /\ pc[a] = "Release" /\ Active(Value[a]) => Value[a] = BlockWord /\ tpc \in WaitPCs
        /\ pc[a] = "KeSetEvent" => tpc = "KeWait" /\ WaitBlock.WakeEvent = "reset"

\* A rundown thread that waits has somebody to wake it: the event is set, or
\* an accessor is about to set it, or references are still out.
WaiterHasWaker ==
    tpc = "KeWait" =>
        \/ WaitBlock.WakeEvent = "set"
        \/ Outstanding > 0
        \/ \E a \in Accessors : pc[a] = "KeSetEvent"
=============================================================================
