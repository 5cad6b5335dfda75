------------------------------- MODULE KeWait -------------------------------
(***************************************************************************)
(* Waits on dispatcher objects (ke/wait.c, waitsup.c, eventobj.c,          *)
(* semphobj.c, mutntobj.c) and what ends them: objects that are signalled, *)
(* the thread's timer, alerts and APCs (ke/apcsup.c, thredobj.c).          *)
(*                                                                         *)
(* What is done under the dispatcher lock is one action.  A thread that is *)
(* about to wait has raised its IRQL and not taken the lock yet            *)
(* ("WaitStart"); a thread that was taken out of its wait has not run yet  *)
(* ("Ready").  An APC is put in the queue of its thread before the lock is *)
(* taken to look at the thread.                                            *)
(*                                                                         *)
(* Threads wait at passive level, outside guarded regions and outside a    *)
(* normal kernel APC.  Time is whether the due time has passed.  Priority, *)
(* quantum, the stack's residence and kernel queues are left out, and so   *)
(* is WaitNext: a signal followed by a wait is here two steps, which other *)
(* processors can separate.                                                *)
(***************************************************************************)
EXTENDS Integers, Sequences, FiniteSets

CONSTANTS Threads, Objects, NULL,
          Type,         \* of an object: an EventType, "Semaphore" or "Mutant"
          Limit,        \* of the semaphores
          MINLONG,      \* the lowest count of a mutant
          BoostEvents,  \* the events that KeSetEventBoostPriority sets
          Waits,        \* the waits a thread asks for
          Apcs,         \* the kinds of APC that are sent to a thread
          Alerts        \* the modes it is alerted for

EventTypes == {"NotificationEvent", "SynchronizationEvent"}
KernelMode == 0
UserMode == 1
KernelApcs == {"special", "normal"}
UserApcs == {"user", "exit"}        \* exit: the APC of PsExitSpecialApc

WaitRequest == [Object : Seq(Objects), WaitType : {"Any", "All"},
                Timeout : {"none", "zero", "later"},
                Alertable : BOOLEAN, WaitMode : {KernelMode, UserMode}]

NoWaitYet == [Object |-> <<>>, WaitType |-> "Any", Timeout |-> "none",
              Alertable |-> FALSE, WaitMode |-> KernelMode]

ASSUME ObjectsTyped == Type \in [Objects -> EventTypes \cup {"Semaphore", "Mutant"}]
ASSUME BoundsTyped == Limit \in Nat \ {0} /\ MINLONG \in Int /\ MINLONG < 0
ASSUME BoostsTyped == BoostEvents \subseteq {o \in Objects : Type[o] = "SynchronizationEvent"}
ASSUME WaitsTyped == \A t \in Threads : \A w \in Waits[t] : w \in WaitRequest
ASSUME ObjectsDistinct ==
    \A t \in Threads : \A w \in Waits[t] : \A i, j \in DOMAIN w.Object :
        w.Object[i] = w.Object[j] => i = j
ASSUME ApcsTyped == /\ Apcs \in [Threads -> SUBSET (KernelApcs \cup UserApcs)]
                    /\ Alerts \in [Threads -> SUBSET {KernelMode, UserMode}]
ASSUME NullAssumption == NULL \notin Threads /\ NULL \notin KernelApcs \cup UserApcs

VARIABLES SignalState, WaitList, OwnerThread, Abandoned,    \* of the objects
          State, Wait, WaitStatus, due, taken,              \* of the threads
          Alerted, ApcList, inserting,
          KernelApcPending, UserApcPending, KernelApcDisable

\* WaitList is an object's list of waiting threads, due is whether a thread's
\* due time has passed, taken is what was changed for it in its last wait (the
\* objects whose wait it satisfied), inserting is the APC another processor is
\* inserting, under the thread's APC queue lock.

objects == <<SignalState, WaitList, OwnerThread, Abandoned>>
apcs == <<ApcList, inserting, KernelApcPending, UserApcPending, KernelApcDisable>>
vars == <<objects, State, Wait, WaitStatus, due, taken, Alerted, apcs>>

----------------------------------------------------------------------------
(* Wait completion status *)

StatusType == [code : {"KEY", "KERNEL_APC", "USER_APC", "ALERTED", "TIMEOUT"},
               key : Nat, abandoned : BOOLEAN]

Status(code) == [code |-> code, key |-> 0, abandoned |-> FALSE]

\* STATUS_SUCCESS is STATUS_WAIT_0, the wait key of the first object.
STATUS_SUCCESS == Status("KEY")

\* Wait keys count from zero.
Key(t, o) == (CHOOSE i \in DOMAIN Wait[t].Object : Wait[t].Object[i] = o) - 1
WaitKey(t, o, abandoned) == [code |-> "KEY", key |-> Key(t, o), abandoned |-> abandoned]

ObjectsOf(t) == {Wait[t].Object[i] : i \in DOMAIN Wait[t].Object}

\* What is left of a list, in its order, without the members of T
Without(s, T) ==
    LET kept == {i \in DOMAIN s : s[i] \notin T}
        rank(i) == Cardinality({j \in kept : j <= i})
    IN  [k \in 1..Cardinality(kept) |-> s[CHOOSE i \in kept : rank(i) = k]]

\* KiUnlinkThread: a thread is taken off the list of every object it waits for.
Unlinked(T) == [o \in Objects |-> Without(WaitList[o], T)]

\* KiUnlinkThread and KiReadyThread, as in KiUnwaitThread
Unwait(t, status) ==
    /\ WaitList' = Unlinked({t})
    /\ State' = [State EXCEPT ![t] = "Ready"]
    /\ WaitStatus' = [WaitStatus EXCEPT ![t] = status]

----------------------------------------------------------------------------
(* KiWaitTest, KiWaitTestSynchronizationObject, KiWaitTestWithoutSideEffects *)

WaitsForAny(t) == Wait[t].WaitType = "Any"

\* Mutant: the first waiter only is looked at.
WokenFirst(o, n) == {WaitList[o][i] : i \in DOMAIN WaitList[o] \cap {1}}

\* The threads that are taken out of their wait when o has count n: waiters for
\* any object use the count up, waiters for all do not.
Woken(o, n) ==
    LET anyBefore(i) == {j \in 1..(i - 1) : WaitsForAny(WaitList[o][j])}
    IN  {WaitList[o][i] : i \in {i \in DOMAIN WaitList[o] :
            Type[o] = "NotificationEvent" \/ Cardinality(anyBefore(i)) < n}}

\* Mutant: waiters for all objects are given this one.
TakersOfAllTypes(o, n) == Woken(o, n)

\* The object is taken for those that wait for any; those that wait for all are
\* sent back to look for themselves.
Takers(o, n) == {t \in Woken(o, n) : WaitsForAny(t)}

\* What KiWaitSatisfyAny leaves of the count
Left(o, n) == IF Type[o] = "NotificationEvent" THEN n ELSE n - Cardinality(Takers(o, n))

\* o reaches count n, the waits it can satisfy are, and it is left at state.
WaitTest(o, n, state, abandoned) ==
    LET woken == Woken(o, n)
        takers == Takers(o, n)
    IN  /\ SignalState' = [SignalState EXCEPT ![o] = state]
        /\ WaitList' = Unlinked(woken)
        /\ State' = [t \in Threads |-> IF t \in woken THEN "Ready" ELSE State[t]]
        /\ WaitStatus' = [t \in Threads |->
              IF t \in takers THEN WaitKey(t, o, abandoned)
              ELSE IF t \in woken THEN Status("KERNEL_APC") ELSE WaitStatus[t]]
        /\ taken' = [t \in Threads |-> IF t \in takers THEN {o} ELSE taken[t]]

----------------------------------------------------------------------------
(* Objects are signalled by threads and by DPCs. *)

\* A KeSetEvent that finds the event set changes nothing and tests no wait.
KeSetEvent(o) ==
    /\ Type[o] \in EventTypes
    /\ SignalState[o] = 0
    /\ WaitTest(o, 1, Left(o, 1), FALSE)
    /\ UNCHANGED <<OwnerThread, Abandoned, Wait, due, Alerted, apcs>>

KePulseEvent(o) ==
    /\ Type[o] \in EventTypes
    /\ SignalState[o] = 0
    /\ WaitList[o] # <<>>
    /\ WaitTest(o, 1, 0, FALSE)
    /\ UNCHANGED <<OwnerThread, Abandoned, Wait, due, Alerted, apcs>>

\* KeResetEvent, KeClearEvent, and KePulseEvent of an event that is set
KeResetEvent(o) ==
    /\ Type[o] \in EventTypes
    /\ SignalState' = [SignalState EXCEPT ![o] = 0]
    /\ UNCHANGED <<WaitList, OwnerThread, Abandoned, State, Wait, WaitStatus, due, taken, Alerted, apcs>>

\* The event is handed to the first waiter, with STATUS_SUCCESS whatever the wait
\* key of the event is, unless there is none or it waits for all.
KeSetEventBoostPriority(o) ==
    /\ o \in BoostEvents
    /\ IF WaitList[o] # <<>> /\ WaitsForAny(Head(WaitList[o]))
       THEN LET t == Head(WaitList[o])
            IN  /\ Unwait(t, STATUS_SUCCESS)
                /\ taken' = [taken EXCEPT ![t] = {o}]
                /\ UNCHANGED SignalState
       ELSE WaitTest(o, 1, Left(o, 1), FALSE)
    /\ UNCHANGED <<OwnerThread, Abandoned, Wait, due, Alerted, apcs>>

\* The waits are tested when the count was zero only.
KeReleaseSemaphore(o, Adjustment) ==
    LET NewState == SignalState[o] + Adjustment
    IN  /\ Type[o] = "Semaphore"
        /\ NewState <= Limit
        /\ IF SignalState[o] = 0
           THEN WaitTest(o, NewState, Left(o, NewState), FALSE)
           ELSE /\ SignalState' = [SignalState EXCEPT ![o] = NewState]
                /\ UNCHANGED <<WaitList, State, WaitStatus, taken>>
        /\ UNCHANGED <<OwnerThread, Abandoned, Wait, due, Alerted, apcs>>

\* The mutant is free: it goes to the first waiter for any.
FreeMutant(o, abandoned) ==
    LET takers == Takers(o, 1)
    IN  /\ WaitTest(o, 1, Left(o, 1), abandoned)
        /\ OwnerThread' = [OwnerThread EXCEPT ![o] =
              IF takers = {} THEN NULL ELSE CHOOSE t \in takers : TRUE]
        /\ Abandoned' = [Abandoned EXCEPT ![o] = abandoned /\ takers = {}]

KeReleaseMutant(t, o) ==
    /\ State[t] = "Running"
    /\ Type[o] = "Mutant"
    /\ OwnerThread[o] = t
    /\ IF SignalState[o] = 0
       THEN FreeMutant(o, FALSE)
       ELSE /\ SignalState' = [SignalState EXCEPT ![o] = @ + 1]
            /\ UNCHANGED <<WaitList, OwnerThread, Abandoned, State, WaitStatus, taken>>
    /\ UNCHANGED <<Wait, due, Alerted, apcs>>

\* KeRundownThread abandons what a terminated thread owns; the thread that
\* runs on is another.
KeRundownThread(t, o) ==
    /\ State[t] = "Running"
    /\ Type[o] = "Mutant"
    /\ OwnerThread[o] = t
    /\ FreeMutant(o, TRUE)
    /\ UNCHANGED <<Wait, due, Alerted, apcs>>

----------------------------------------------------------------------------
(* KeWaitForSingleObject, KeWaitForMultipleObjects and, with no object,     *)
(* KeDelayExecutionThread                                                   *)

\* The wait blocks and the due time are set and the IRQL is raised.
BeginWait(t, w) ==
    /\ State[t] = "Running"
    /\ State' = [State EXCEPT ![t] = "WaitStart"]
    /\ Wait' = [Wait EXCEPT ![t] = w]
    /\ due' = [due EXCEPT ![t] = w.Timeout = "zero"]
    /\ UNCHANGED <<objects, WaitStatus, taken, Alerted, apcs>>

\* KiDeliverApc delivers the special APCs, and the normal ones if they are not
\* disabled.  It takes the APC queue lock.
DeliverKernelApcs(t) ==
    /\ inserting[t] = NULL
    /\ KernelApcPending' = [KernelApcPending EXCEPT ![t] = FALSE]
    /\ ApcList' = [ApcList EXCEPT ![t] =
          @ \ (IF KernelApcDisable[t] THEN {"special"} ELSE KernelApcs)]

\* A kernel APC came before the lock was taken: it is delivered, and the wait
\* starts again.
WaitForApc(t) ==
    /\ State[t] = "WaitStart"
    /\ KernelApcPending[t]
    /\ DeliverKernelApcs(t)
    /\ UNCHANGED <<objects, State, Wait, WaitStatus, due, taken, Alerted,
                   inserting, UserApcPending, KernelApcDisable>>

\* Mutant: the pending APC is not looked for once the lock is held.
InWaitLoopAnyway(t) == State[t] = "WaitStart"

\* The dispatcher lock is held, and the wait is looked at.
InWaitLoop(t) == State[t] = "WaitStart" /\ ~KernelApcPending[t]

CanTake(t, o) == SignalState[o] > 0 \/ (Type[o] = "Mutant" /\ OwnerThread[o] = t)
AtLimit(t, o) == Type[o] = "Mutant" /\ OwnerThread[o] = t /\ SignalState[o] = MINLONG

Takeable(t) == {i \in DOMAIN Wait[t].Object : CanTake(t, Wait[t].Object[i])}
First(I) == CHOOSE i \in I : \A j \in I : i <= j

CanBeSatisfied(t) ==
    IF WaitsForAny(t) THEN Takeable(t) # {} ELSE Takeable(t) = DOMAIN Wait[t].Object

\* The objects a wait takes at once: the first it can, or all.
ToTake(t) == IF WaitsForAny(t) THEN {Wait[t].Object[First(Takeable(t))]} ELSE ObjectsOf(t)

\* STATUS_MUTANT_LIMIT_EXCEEDED: the mutant is met before the scan ends.
LimitMet(t) ==
    \E i \in DOMAIN Wait[t].Object :
        /\ AtLimit(t, Wait[t].Object[i])
        /\ \A j \in 1..(i - 1) : WaitsForAny(t) # (j \in Takeable(t))

\* The wait returns; what was only about it is forgotten.
Return(t) ==
    /\ State' = [State EXCEPT ![t] = "Running"]
    /\ Wait' = [Wait EXCEPT ![t] = NoWaitYet]
    /\ WaitStatus' = [WaitStatus EXCEPT ![t] = STATUS_SUCCESS]
    /\ due' = [due EXCEPT ![t] = FALSE]
    /\ taken' = [taken EXCEPT ![t] = {}]

MutantLimit(t) ==
    /\ InWaitLoop(t)
    /\ LimitMet(t)
    /\ Return(t)
    /\ UNCHANGED <<objects, Alerted, apcs>>

\* KiWaitSatisfyMutant, KiWaitSatisfyOther, KiWaitSatisfyAny
Satisfied(o) ==
    CASE Type[o] = "NotificationEvent" -> SignalState[o]
      [] Type[o] = "SynchronizationEvent" -> 0
      [] OTHER -> SignalState[o] - 1

\* The wait is satisfied without waiting.
NoWait(t) ==
    LET O == ToTake(t)
    IN  /\ InWaitLoop(t)
        /\ ~LimitMet(t)
        /\ CanBeSatisfied(t)
        /\ SignalState' = [o \in Objects |-> IF o \in O THEN Satisfied(o) ELSE SignalState[o]]
        /\ OwnerThread' = [o \in Objects |->
              IF o \in O /\ Type[o] = "Mutant" THEN t ELSE OwnerThread[o]]
        /\ Abandoned' = [o \in Objects |-> Abandoned[o] /\ o \notin O]
        /\ State' = [State EXCEPT ![t] = "Ready"]
        /\ WaitStatus' = [WaitStatus EXCEPT ![t] =
              [code |-> "KEY", key |-> IF WaitsForAny(t) THEN First(Takeable(t)) - 1 ELSE 0,
               abandoned |-> \E o \in O : Abandoned[o]]]
        /\ taken' = [taken EXCEPT ![t] = O]
        /\ UNCHANGED <<WaitList, Wait, due, Alerted, apcs>>

CannotTake(t) == InWaitLoop(t) /\ ~LimitMet(t) /\ ~CanBeSatisfied(t)

\* TestForAlertPending
AlertFor(t) == Wait[t].Alertable /\ \E mode \in Alerted[t] : mode <= Wait[t].WaitMode
UserApcFor(t) ==
    /\ Wait[t].WaitMode = UserMode
    /\ IF Wait[t].Alertable THEN ApcList[t] \cap UserApcs # {} ELSE UserApcPending[t]

\* The alert of the wait's mode goes first, then the user APC, then the alert
\* of kernel mode.
TakeAlert(t, mode) ==
    /\ CannotTake(t)
    /\ Wait[t].Alertable
    /\ mode \in Alerted[t]
    /\ mode = Wait[t].WaitMode \/ (mode = KernelMode /\ UserMode \notin Alerted[t] /\ ~UserApcFor(t))
    /\ Alerted' = [Alerted EXCEPT ![t] = @ \ {mode}]
    /\ State' = [State EXCEPT ![t] = "Ready"]
    /\ WaitStatus' = [WaitStatus EXCEPT ![t] = Status("ALERTED")]
    /\ UNCHANGED <<objects, Wait, due, taken, apcs>>

TakeUserApc(t) ==
    /\ CannotTake(t)
    /\ UserApcFor(t)
    /\ ~(Wait[t].Alertable /\ UserMode \in Alerted[t])
    /\ UserApcPending' = [UserApcPending EXCEPT ![t] = TRUE]
    /\ State' = [State EXCEPT ![t] = "Ready"]
    /\ WaitStatus' = [WaitStatus EXCEPT ![t] = Status("USER_APC")]
    /\ UNCHANGED <<objects, Wait, due, taken, Alerted, ApcList, inserting, KernelApcPending, KernelApcDisable>>

MustWait(t) == CannotTake(t) /\ ~AlertFor(t) /\ ~UserApcFor(t)

\* KiCheckDueTime
AlreadyExpired(t) ==
    /\ MustWait(t)
    /\ due[t]
    /\ State' = [State EXCEPT ![t] = "Ready"]
    /\ WaitStatus' = [WaitStatus EXCEPT ![t] = Status("TIMEOUT")]
    /\ UNCHANGED <<objects, Wait, due, taken, Alerted, apcs>>

\* The thread is put at the end of the lists.  A due time that passes before
\* the timer is inserted signals the timer.
Block(t) ==
    /\ MustWait(t)
    /\ ~due[t]
    /\ WaitList' = [o \in Objects |-> IF o \in ObjectsOf(t) THEN Append(WaitList[o], t) ELSE WaitList[o]]
    /\ State' = [State EXCEPT ![t] = "Waiting"]
    /\ UNCHANGED <<SignalState, OwnerThread, Abandoned, Wait, WaitStatus, due, taken, Alerted, apcs>>

\* KiSwapThread: the pending kernel APCs are delivered as the thread runs.
SwapThread(t) ==
    /\ State[t] = "Ready"
    /\ IF KernelApcPending[t] THEN DeliverKernelApcs(t) ELSE UNCHANGED <<ApcList, KernelApcPending>>
    /\ UNCHANGED <<objects, Alerted, inserting, UserApcPending, KernelApcDisable>>

WaitDone(t) ==
    /\ SwapThread(t)
    /\ WaitStatus[t].code # "KERNEL_APC"
    /\ Return(t)

\* Mutant: the wait starts again with its original timeout.
WaitAnew(t) ==
    /\ SwapThread(t)
    /\ WaitStatus[t].code = "KERNEL_APC"
    /\ State' = [State EXCEPT ![t] = "WaitStart"]
    /\ WaitStatus' = [WaitStatus EXCEPT ![t] = STATUS_SUCCESS]
    /\ due' = [due EXCEPT ![t] = FALSE]
    /\ UNCHANGED <<Wait, taken>>

\* For STATUS_KERNEL_APC the wait starts again, with the time that is left.
WaitAgain(t) ==
    /\ SwapThread(t)
    /\ WaitStatus[t].code = "KERNEL_APC"
    /\ State' = [State EXCEPT ![t] = "WaitStart"]
    /\ WaitStatus' = [WaitStatus EXCEPT ![t] = STATUS_SUCCESS]
    /\ UNCHANGED <<Wait, due, taken>>

\* Time reaches the due time of a wait that has not ended.
InTimedWait(t) ==
    /\ Wait[t].Timeout = "later"
    /\ State[t] \in {"WaitStart", "Waiting"} \/ (State[t] = "Ready" /\ WaitStatus[t].code = "KERNEL_APC")

Tick(t) ==
    /\ InTimedWait(t)
    /\ ~due[t]
    /\ due' = [due EXCEPT ![t] = TRUE]
    /\ UNCHANGED <<objects, State, Wait, WaitStatus, taken, Alerted, apcs>>

\* KiTimerExpiration or KiSignalTimer, for the timer of a thread
TimerExpires(t) ==
    /\ State[t] = "Waiting"
    /\ due[t]
    /\ Unwait(t, Status("TIMEOUT"))
    /\ UNCHANGED <<SignalState, OwnerThread, Abandoned, Wait, due, taken, Alerted, apcs>>

----------------------------------------------------------------------------
(* Alerts and APCs *)

\* It takes the APC queue lock before the dispatcher lock.
KeAlertThread(t, AlertMode) ==
    /\ inserting[t] = NULL
    /\ AlertMode \in Alerts[t]
    /\ AlertMode \notin Alerted[t]
    /\ IF State[t] = "Waiting" /\ Wait[t].Alertable /\ AlertMode <= Wait[t].WaitMode
       THEN Unwait(t, Status("ALERTED")) /\ UNCHANGED Alerted
       ELSE /\ Alerted' = [Alerted EXCEPT ![t] = @ \cup {AlertMode}]
            /\ UNCHANGED <<WaitList, State, WaitStatus>>
    /\ UNCHANGED <<SignalState, OwnerThread, Abandoned, Wait, due, taken, apcs>>

\* KiInsertQueueApc puts the APC in the thread's queue,
KeInsertQueueApc(t, apc) ==
    /\ inserting[t] = NULL
    /\ apc \in Apcs[t]
    /\ apc \notin ApcList[t]
    /\ ApcList' = [ApcList EXCEPT ![t] = @ \cup {apc}]
    /\ inserting' = [inserting EXCEPT ![t] = apc]
    /\ UserApcPending' = [UserApcPending EXCEPT ![t] = @ \/ apc = "exit"]
    /\ UNCHANGED <<objects, State, Wait, WaitStatus, due, taken, Alerted, KernelApcPending, KernelApcDisable>>

\* then takes the dispatcher lock and looks whether the thread waits.
ApcEndsWait(t) ==
    /\ State[t] = "Waiting"
    /\ IF inserting[t] \in KernelApcs
       THEN inserting[t] = "special" \/ ~KernelApcDisable[t]
       ELSE Wait[t].WaitMode = UserMode /\ (Wait[t].Alertable \/ UserApcPending[t])

InsertedApc(t) ==
    /\ inserting[t] # NULL
    /\ LET kernel == inserting[t] \in KernelApcs
       IN  /\ KernelApcPending' = [KernelApcPending EXCEPT ![t] = @ \/ kernel]
           /\ UserApcPending' = [UserApcPending EXCEPT ![t] = @ \/ (~kernel /\ ApcEndsWait(t))]
           /\ IF ApcEndsWait(t)
              THEN Unwait(t, Status(IF kernel THEN "KERNEL_APC" ELSE "USER_APC"))
              ELSE UNCHANGED <<WaitList, State, WaitStatus>>
    /\ inserting' = [inserting EXCEPT ![t] = NULL]
    /\ UNCHANGED <<SignalState, OwnerThread, Abandoned, Wait, due, taken, Alerted, ApcList, KernelApcDisable>>

\* The APC interrupt of a running thread
ApcInterrupt(t) ==
    /\ State[t] = "Running"
    /\ KernelApcPending[t]
    /\ DeliverKernelApcs(t)
    /\ UNCHANGED <<objects, State, Wait, WaitStatus, due, taken, Alerted,
                   inserting, UserApcPending, KernelApcDisable>>

\* A thread returns to user mode, where the first user APC is delivered.
DeliverUserApc(t) ==
    /\ State[t] = "Running"
    /\ UserApcPending[t]
    /\ inserting[t] = NULL
    /\ ApcList[t] \cap UserApcs # {}
    /\ ApcList' = [ApcList EXCEPT ![t] = @ \ {IF "exit" \in @ THEN "exit" ELSE "user"}]
    /\ UserApcPending' = [UserApcPending EXCEPT ![t] = FALSE]
    /\ UNCHANGED <<objects, State, Wait, WaitStatus, due, taken, Alerted,
                   inserting, KernelApcPending, KernelApcDisable>>

KeEnterCriticalRegion(t) ==
    /\ State[t] = "Running"
    /\ "normal" \in Apcs[t]
    /\ ~KernelApcDisable[t]
    /\ KernelApcDisable' = [KernelApcDisable EXCEPT ![t] = TRUE]
    /\ UNCHANGED <<objects, State, Wait, WaitStatus, due, taken, Alerted,
                   ApcList, inserting, KernelApcPending, UserApcPending>>

\* A normal APC that has been held back is delivered now.
KeLeaveCriticalRegion(t) ==
    /\ State[t] = "Running"
    /\ KernelApcDisable[t]
    /\ KernelApcDisable' = [KernelApcDisable EXCEPT ![t] = FALSE]
    /\ IF ApcList[t] \cap KernelApcs # {}
       THEN /\ inserting[t] = NULL
            /\ ApcList' = [ApcList EXCEPT ![t] = @ \ KernelApcs]
            /\ KernelApcPending' = [KernelApcPending EXCEPT ![t] = FALSE]
       ELSE UNCHANGED <<ApcList, KernelApcPending>>
    /\ UNCHANGED <<objects, State, Wait, WaitStatus, due, taken, Alerted, inserting, UserApcPending>>

----------------------------------------------------------------------------
Init ==
    /\ SignalState = [o \in Objects |-> IF Type[o] = "Mutant" THEN 1 ELSE 0]
    /\ WaitList = [o \in Objects |-> <<>>]
    /\ OwnerThread = [o \in Objects |-> NULL]
    /\ Abandoned = [o \in Objects |-> FALSE]
    /\ State = [t \in Threads |-> "Running"]
    /\ Wait = [t \in Threads |-> NoWaitYet]
    /\ WaitStatus = [t \in Threads |-> STATUS_SUCCESS]
    /\ due = [t \in Threads |-> FALSE]
    /\ taken = [t \in Threads |-> {}]
    /\ Alerted = [t \in Threads |-> {}]
    /\ ApcList = [t \in Threads |-> {}]
    /\ inserting = [t \in Threads |-> NULL]
    /\ KernelApcPending = [t \in Threads |-> FALSE]
    /\ UserApcPending = [t \in Threads |-> FALSE]
    /\ KernelApcDisable = [t \in Threads |-> FALSE]

\* The steps of a wait that has begun
WaitStep(t) ==
    \/ WaitForApc(t) \/ MutantLimit(t) \/ NoWait(t)
    \/ \E mode \in {KernelMode, UserMode} : TakeAlert(t, mode)
    \/ TakeUserApc(t) \/ AlreadyExpired(t) \/ Block(t)
    \/ WaitDone(t) \/ WaitAgain(t) \/ TimerExpires(t)

Next ==
    \/ \E o \in Objects :
        \/ KeSetEvent(o) \/ KePulseEvent(o) \/ KeResetEvent(o) \/ KeSetEventBoostPriority(o)
        \/ \E n \in 1..Limit : KeReleaseSemaphore(o, n)
        \/ \E t \in Threads : KeReleaseMutant(t, o) \/ KeRundownThread(t, o)
    \/ \E t \in Threads :
        \/ \E w \in Waits[t] : BeginWait(t, w)
        \/ WaitStep(t)
        \/ Tick(t)
        \/ \E mode \in {KernelMode, UserMode} : KeAlertThread(t, mode)
        \/ \E apc \in KernelApcs \cup UserApcs : KeInsertQueueApc(t, apc)
        \/ InsertedApc(t) \/ ApcInterrupt(t) \/ DeliverUserApc(t)
        \/ KeEnterCriticalRegion(t) \/ KeLeaveCriticalRegion(t)

Spec == Init /\ [][Next]_vars

\* Processors go on with a wait, with an APC they are inserting, and time passes.
FairSpec ==
    /\ Spec
    /\ \A t \in Threads : WF_vars(WaitStep(t)) /\ WF_vars(InsertedApc(t)) /\ WF_vars(Tick(t))

----------------------------------------------------------------------------
(* Properties *)

\* Every variable has its type.
TypeOK ==
    /\ SignalState \in [Objects -> Int]
    /\ WaitList \in [Objects -> Seq(Threads)]
    /\ OwnerThread \in [Objects -> Threads \cup {NULL}]
    /\ Abandoned \in [Objects -> BOOLEAN]
    /\ State \in [Threads -> {"Running", "WaitStart", "Waiting", "Ready"}]
    /\ Wait \in [Threads -> WaitRequest]
    /\ WaitStatus \in [Threads -> StatusType]
    /\ due \in [Threads -> BOOLEAN]
    /\ taken \in [Threads -> SUBSET Objects]
    /\ Alerted \in [Threads -> SUBSET {KernelMode, UserMode}]
    /\ ApcList \in [Threads -> SUBSET (KernelApcs \cup UserApcs)]
    /\ inserting \in [Threads -> KernelApcs \cup UserApcs \cup {NULL}]
    /\ KernelApcPending \in [Threads -> BOOLEAN]
    /\ UserApcPending \in [Threads -> BOOLEAN]
    /\ KernelApcDisable \in [Threads -> BOOLEAN]

\* No thread waits for what it could have: while it does, no object of a wait
\* for any is signalled, and not every object of a wait for all, although a
\* signal tests the waits only when the object was not signalled before, and
\* wakes a wait for all only to look again.
NoStrandedWaiter ==
    \A t \in Threads : State[t] = "Waiting" => ~CanBeSatisfied(t)

\* What the caller of a satisfied wait is told it got: the object of the wait
\* key if it waits for any, otherwise all of them
Reported(t) ==
    IF WaitsForAny(t) THEN {Wait[t].Object[WaitStatus[t].key + 1]} ELSE ObjectsOf(t)

\* No event that is set with KeSetEventBoostPriority stands behind the first
\* place of a wait for any: that routine answers such a wait with the right key.
BoostedFirst(t) ==
    WaitsForAny(t) => \A i \in DOMAIN Wait[t].Object \ {1} : Wait[t].Object[i] \notin BoostEvents

\* A wait takes what its status says, however often it was started again: what
\* a wait key reports, and otherwise nothing.  The keys of waits for any that
\* name a boosted event behind the first place are excluded, because
\* KeSetEventBoostPriority ends every wait with key zero: such a wait is told
\* that it got its first object when it took the event.  It takes one of its
\* objects all the same.  Abandonment is reported for a mutant that was taken.
StatusTruthful ==
    \A t \in Threads : State[t] = "Ready" =>
        LET s == WaitStatus[t]
        IN  /\ s.code = "KEY" =>
                 IF BoostedFirst(t) THEN taken[t] = Reported(t)
                 ELSE \E o \in ObjectsOf(t) : taken[t] = {o}
            /\ s.code # "KEY" => taken[t] = {}
            /\ s.abandoned => \E o \in taken[t] : Type[o] = "Mutant" /\ OwnerThread[o] = t

\* A thread does not wait with an APC or an alert that should have ended its
\* wait, whichever came first: a special kernel APC, a normal one if they are
\* enabled, the APC that terminates it if it waits in user mode, and any user
\* APC or alert if the wait is alertable.
NoApcStranded ==
    \A t \in Threads : State[t] = "Waiting" /\ inserting[t] = NULL =>
        /\ "special" \notin ApcList[t]
        /\ "normal" \in ApcList[t] => KernelApcDisable[t]
        /\ Wait[t].WaitMode = UserMode => "exit" \notin ApcList[t]
        /\ ~AlertFor(t)
        /\ ~UserApcFor(t)

\* A wait with a timeout ends, however often it is started again for an object
\* of a wait for all; only kernel APCs without end could keep it from ending.
TimedWaitEnds ==
    \A t \in Threads : []<>KernelApcPending[t] \/ (InTimedWait(t) ~> ~InTimedWait(t))
=============================================================================
