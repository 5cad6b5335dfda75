------------------------ MODULE ExPushLockCacheAware ------------------------
(***************************************************************************)
(* The cache-aware push lock (ex/pushlock.c, inlines in inc/ex.h): a push    *)
(* lock per processor, up to a fan-out limit. Sharers take the slot of the   *)
(* processor they run on. An exclusive owner takes all of them: the first,   *)
(* then the others from both ends, trying at the near end and waiting at the *)
(* far end. A slot is a push lock as RWLock describes it, one step an        *)
(* acquire, a try or a release of one slot.                                 *)
(***************************************************************************)
EXTENDS Integers, FiniteSets

CONSTANTS
    Callers,
    KeNumberProcessors,
    EX_PUSH_LOCK_FANNED_COUNT

ASSUME CountsPositive ==
    /\ KeNumberProcessors \in Nat \ {0}
    /\ EX_PUSH_LOCK_FANNED_COUNT \in Nat \ {0}

VARIABLES
    Locks,          \* for each slot, how each thread holds it
    fpc,            \* where each caller is
    Start, End,     \* the range an exclusive acquire or release has before it
    Slot            \* the slot a sharer took

FannedVars == <<Locks, fpc, Start, End, Slot>>

MaxLine ==
    IF KeNumberProcessors > EX_PUSH_LOCK_FANNED_COUNT
      THEN EX_PUSH_LOCK_FANNED_COUNT ELSE KeNumberProcessors

Slots == 0 .. EX_PUSH_LOCK_FANNED_COUNT - 1

\* The slot of the processor a thread runs on.
SlotOf(cpu) == cpu % EX_PUSH_LOCK_FANNED_COUNT

\* Mutant: sharers do not keep an exclusive owner out.
Vacant_SharersIgnored(i) == \A u \in Callers : Locks[i][u] # "X"

\* The push lock of a slot lets an exclusive or a shared owner in.
Vacant(i) == \A u \in Callers : Locks[i][u] = "none"
Sharable(i) == \A u \in Callers : Locks[i][u] # "X"

FannedInit ==
    /\ Locks = [i \in Slots |-> [t \in Callers |-> "none"]]
    /\ fpc = [t \in Callers |-> "idle"]
    /\ Start = [t \in Callers |-> 0]
    /\ End = [t \in Callers |-> 0]
    /\ Slot = [t \in Callers |-> 0]

FannedGoto(t, label) == fpc' = [fpc EXCEPT ![t] = label]

Take(t, i, m) == Locks' = [Locks EXCEPT ![i][t] = m]

\* ExAcquireCacheAwarePushLockShared, on processor cpu: the call, whose choice
\* of a slot outlives a move to another processor, and the slot's acquire.
CallShared(t, cpu) ==
    /\ fpc[t] = "idle"
    /\ Slot' = [Slot EXCEPT ![t] = SlotOf(cpu)]
    /\ FannedGoto(t, "AcquireSlot")
    /\ UNCHANGED <<Locks, Start, End>>

AcquireSlot(t) ==
    /\ fpc[t] = "AcquireSlot"
    /\ Sharable(Slot[t])
    /\ Take(t, Slot[t], "S")
    /\ FannedGoto(t, "shares")
    /\ UNCHANGED <<Start, End, Slot>>

\* ExReleaseCacheAwarePushLockShared, of the slot the acquire returned.
ReleaseShared(t) ==
    /\ fpc[t] = "shares"
    /\ Take(t, Slot[t], "none")
    /\ Slot' = [Slot EXCEPT ![t] = 0]
    /\ FannedGoto(t, "idle")
    /\ UNCHANGED <<Start, End>>

\* ExAcquireCacheAwarePushLockExclusive: the range, and the first slot.
CallExclusive(t) ==
    /\ fpc[t] = "idle"
    /\ Start' = [Start EXCEPT ![t] = 1]
    /\ End' = [End EXCEPT ![t] = MaxLine - 1]
    /\ FannedGoto(t, "AcquireFirst")
    /\ UNCHANGED <<Locks, Slot>>

AcquireFirst(t) ==
    /\ fpc[t] = "AcquireFirst"
    /\ Vacant(0)
    /\ Take(t, 0, "X")
    /\ FannedGoto(t, "AcquireRest")
    /\ UNCHANGED <<Start, End, Slot>>

\* A turn of the loop: the slot at Start if it can be had at once, ...
TryStart(t) ==
    /\ fpc[t] = "AcquireRest"
    /\ Start[t] <= End[t]
    /\ \/ /\ Vacant(Start[t])
          /\ Take(t, Start[t], "X")
          /\ Start' = [Start EXCEPT ![t] = @ + 1]
          /\ UNCHANGED fpc
       \/ /\ ~Vacant(Start[t])
          /\ FannedGoto(t, "AcquireEnd")
          /\ UNCHANGED <<Locks, Start>>
    /\ UNCHANGED <<End, Slot>>

\* Mutant: the far end is not moved.
AcquireEnd_Stays(t) ==
    /\ fpc[t] = "AcquireEnd"
    /\ Vacant(End[t])
    /\ Take(t, End[t], "X")
    /\ FannedGoto(t, "AcquireRest")
    /\ UNCHANGED <<Start, End, Slot>>

\* ... else the one at End, however long it takes.
AcquireEnd(t) ==
    /\ fpc[t] = "AcquireEnd"
    /\ Vacant(End[t])
    /\ Take(t, End[t], "X")
    /\ End' = [End EXCEPT ![t] = @ - 1]
    /\ FannedGoto(t, "AcquireRest")
    /\ UNCHANGED <<Start, Slot>>

AcquireDone(t) ==
    /\ fpc[t] = "AcquireRest"
    /\ Start[t] > End[t]
    /\ FannedGoto(t, "owns")
    /\ UNCHANGED <<Locks, Start, End, Slot>>

\* ExReleaseCacheAwarePushLockExclusive, slot by slot in order.
CallRelease(t) ==
    /\ fpc[t] = "owns"
    /\ Start' = [Start EXCEPT ![t] = 0]
    /\ End' = [End EXCEPT ![t] = MaxLine]
    /\ FannedGoto(t, "ReleaseSlots")
    /\ UNCHANGED <<Locks, Slot>>

\* Mutant: the loop does not advance.
ReleaseSlot_Stays(t) ==
    /\ fpc[t] = "ReleaseSlots"
    /\ Start[t] < End[t]
    /\ Take(t, Start[t], "none")
    /\ UNCHANGED <<fpc, Start, End, Slot>>

ReleaseSlot(t) ==
    /\ fpc[t] = "ReleaseSlots"
    /\ Start[t] < End[t]
    /\ Take(t, Start[t], "none")
    /\ \/ /\ Start[t] + 1 < End[t]
          /\ Start' = [Start EXCEPT ![t] = @ + 1]
          /\ UNCHANGED <<fpc, End>>
       \/ /\ Start[t] + 1 = End[t]
          /\ Start' = [Start EXCEPT ![t] = 0]
          /\ End' = [End EXCEPT ![t] = 0]
          /\ FannedGoto(t, "idle")
    /\ UNCHANGED Slot

FannedBegin(t) == CallExclusive(t) \/ \E cpu \in 0 .. KeNumberProcessors - 1 : CallShared(t, cpu)

FannedContinue(t) ==
    \/ AcquireSlot(t) \/ ReleaseShared(t)
    \/ AcquireFirst(t) \/ TryStart(t) \/ AcquireEnd(t) \/ AcquireDone(t)
    \/ CallRelease(t) \/ ReleaseSlot(t)

FannedNext == \E t \in Callers : FannedBegin(t) \/ FannedContinue(t)

FannedSpec == FannedInit /\ [][FannedNext]_FannedVars

\* Threads run, and owners release.
FannedFairSpec == FannedSpec /\ \A t \in Callers : WF_FannedVars(FannedContinue(t))

(***************************************************************************)
(* Properties.                                                             *)
(***************************************************************************)
Held(t) == {i \in Slots : Locks[i][t] # "none"}

\* Every variable has its type; the range of an acquire stays within the
\* slots.
FannedTypeOK ==
    /\ Locks \in [Slots -> [Callers -> {"none", "X", "S"}]]
    /\ fpc \in [Callers -> {"idle", "AcquireSlot", "shares", "AcquireFirst", "AcquireRest",
                           "AcquireEnd", "owns", "ReleaseSlots"}]
    /\ Start \in [Callers -> 0 .. MaxLine]
    /\ End \in [Callers -> 0 .. MaxLine]
    /\ Slot \in [Callers -> Slots]
    /\ \A t \in Callers : fpc[t] = "AcquireEnd" => Start[t] <= End[t]

\* An exclusive acquire leaves out no slot a sharer may take, releases each
\* slot it took, and takes none twice: what a thread holds is exactly what
\* its place in the code says.
SlotsAccounted ==
    \A t \in Callers :
        Held(t) = CASE fpc[t] = "shares" -> {Slot[t]}
                    [] fpc[t] \in {"AcquireRest", "AcquireEnd"} ->
                         {i \in 0 .. MaxLine - 1 : i < Start[t] \/ i > End[t]}
                    [] fpc[t] = "owns" -> {SlotOf(cpu) : cpu \in 0 .. KeNumberProcessors - 1}
                    [] fpc[t] = "ReleaseSlots" -> {i \in 0 .. MaxLine - 1 : i >= Start[t]}
                    [] OTHER -> {}

\* The cache-aware lock is a reader/writer lock: it is owned exclusively from
\* the last acquire of a slot to the first release, and shared through any slot.
FannedRW == INSTANCE RWLock WITH
        Threads <- Callers,
        mode <- [t \in Callers |-> CASE fpc[t] = "owns" -> "X" [] fpc[t] = "shares" -> "S" [] OTHER -> "none"]

FannedImplementsRWLock == FannedRW!Spec

\* "There is no deadlock here. A->B->C does not deadlock with A->C->B": once no
\* new calls come, every acquire in progress ends. (With them, a slot's push
\* lock may keep losing to newcomers: see WaitersServed in ExPushLock.)
AcquiresEnd ==
    <>[][\A t \in Callers : ~FannedBegin(t)]_FannedVars
    => \A t \in Callers : fpc[t] \in {"AcquireFirst", "AcquireSlot"} ~> fpc[t] \in {"owns", "shares"}
=============================================================================
