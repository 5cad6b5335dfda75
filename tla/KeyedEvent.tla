----------------------------- MODULE KeyedEvent -----------------------------
(***************************************************************************)
(* Keyed events (ex/keyedevent.c): a waiter and a releaser that name the   *)
(* same key meet on one queue, whichever comes first.  The one that comes  *)
(* second takes the first off the queue under the event's push lock, drops *)
(* the lock and then releases the semaphore of the other's thread.  Either *)
(* of them, while it waits, can be timed out, alerted or terminated.       *)
(*                                                                         *)
(* What is done under the push lock is one action.  The semaphore belongs  *)
(* to the thread, counts to one, and is the one its LPC calls wait on.     *)
(***************************************************************************)
EXTENDS Naturals, Sequences, FiniteSets

CONSTANTS Threads, Keys,
          Process,      \* the process of a thread
          None

VARIABLES WaitQueue,    \* the threads queued to the event
          KeyedWaitValue, \* a queued thread's key and its KEYVALUE_RELEASE bit
          Semaphore,    \* KeyedWaitSemaphore, the count
          pc,           \* where a thread is in its call
          Value,        \* its key, and whether it called NtReleaseKeyedEvent
          Target        \* TargetThread: the thread it took off the queue

vars == <<WaitQueue, KeyedWaitValue, Semaphore, pc, Value, Target>>

Limit == 1              \* of the semaphore, from the creation of the thread

KeyValues == [key : Keys, release : BOOLEAN]

ASSUME NoneIsNone == None \notin Threads \cup KeyValues

Queued == {WaitQueue[i] : i \in DOMAIN WaitQueue}

\* The first index of a set of indexes
FirstOf(I) == CHOOSE i \in I : \A j \in I : i <= j

----------------------------------------------------------------------------
\* The queued threads a caller may take: those of its process with its key on
\* the other side.
Counterparts(t) ==
    {i \in DOMAIN WaitQueue :
        /\ KeyedWaitValue[WaitQueue[i]] = [Value[t] EXCEPT !.release = ~@]
        /\ Process[WaitQueue[i]] = Process[t]}

\* A releaser searches the whole queue, a waiter as far as the first waiter.
Matches(t) ==
    {i \in Counterparts(t) :
        \/ Value[t].release
        \/ \A j \in 1..i : KeyedWaitValue[WaitQueue[j]].release}

\* RemoveEntryList: the queue without its thread t
Without(t) ==
    LET n == CHOOSE i \in DOMAIN WaitQueue : WaitQueue[i] = t
    IN  [i \in 1..(Len(WaitQueue) - 1) |-> WaitQueue[IF i < n THEN i ELSE i + 1]]

\* Mutant: both are queued at the back.
EnqueuedAtTail(t) == WaitQueue \o <<t>>

\* Releasers are queued at the front, waiters at the back.
Enqueued(t) == IF Value[t].release THEN <<t>> \o WaitQueue ELSE WaitQueue \o <<t>>

Goto(t, label) == pc' = [pc EXCEPT ![t] = label]

----------------------------------------------------------------------------
\* NtReleaseKeyedEvent or NtWaitForKeyedEvent up to its lock
Call(t, value) ==
    /\ pc[t] = "idle"
    /\ Goto(t, "Match")
    /\ Value' = [Value EXCEPT ![t] = value]
    /\ UNCHANGED <<WaitQueue, KeyedWaitValue, Semaphore, Target>>

\* The first counterpart on the queue is taken off it.
Match(t) ==
    /\ pc[t] = "Match"
    /\ Matches(t) # {}
    /\ LET u == WaitQueue[FirstOf(Matches(t))]
       IN  /\ WaitQueue' = Without(u)
           /\ Target' = [Target EXCEPT ![t] = u]
    /\ Goto(t, "Wake")
    /\ UNCHANGED <<KeyedWaitValue, Semaphore, Value>>

\* There is none: the caller queues itself.
Enqueue(t) ==
    /\ pc[t] = "Match"
    /\ Matches(t) = {}
    /\ KeyedWaitValue' = [KeyedWaitValue EXCEPT ![t] = Value[t]]
    /\ WaitQueue' = Enqueued(t)
    /\ Goto(t, "Wait")
    /\ UNCHANGED <<Semaphore, Value, Target>>

Return(t) ==
    /\ Goto(t, "idle")
    /\ KeyedWaitValue' = [KeyedWaitValue EXCEPT ![t] = None]
    /\ Value' = [Value EXCEPT ![t] = None]

\* KeReleaseSemaphore, after the lock was released; kernel APCs stay disabled,
\* so that the thread cannot be suspended before it has done this.
Wake(t) ==
    /\ pc[t] = "Wake"
    /\ Semaphore' = [Semaphore EXCEPT ![Target[t]] = @ + 1]
    /\ Target' = [Target EXCEPT ![t] = None]
    /\ Return(t)
    /\ UNCHANGED WaitQueue

\* KeWaitForSingleObject is satisfied.
Woken(t) ==
    /\ pc[t] = "Wait"
    /\ Semaphore[t] > 0
    /\ Semaphore' = [Semaphore EXCEPT ![t] = @ - 1]
    /\ Return(t)
    /\ UNCHANGED <<WaitQueue, Target>>

\* It times out, or the thread is alerted or terminated.
GiveUp(t) ==
    /\ pc[t] = "Wait"
    /\ Semaphore[t] = 0
    /\ Goto(t, "Remove")
    /\ UNCHANGED <<WaitQueue, KeyedWaitValue, Semaphore, Value, Target>>

\* Mutant: Wait is not cleared for a thread that took itself off.
RemoveAndWait(t) ==
    /\ pc[t] = "Remove"
    /\ t \in Queued
    /\ WaitQueue' = Without(t)
    /\ Goto(t, "Absorb")
    /\ UNCHANGED <<KeyedWaitValue, Semaphore, Value, Target>>

\* Still on the queue: the thread takes itself off and returns.
Remove(t) ==
    /\ pc[t] = "Remove"
    /\ t \in Queued
    /\ WaitQueue' = Without(t)
    /\ Return(t)
    /\ UNCHANGED <<Semaphore, Target>>

\* Another thread is about to wake this one.
MustAbsorb(t) ==
    /\ pc[t] = "Remove"
    /\ t \notin Queued
    /\ Goto(t, "Absorb")
    /\ UNCHANGED <<WaitQueue, KeyedWaitValue, Semaphore, Value, Target>>

\* Mutant: the thread returns at once.
AbsorbNothing(t) ==
    /\ pc[t] = "Absorb"
    /\ Return(t)
    /\ UNCHANGED <<WaitQueue, Semaphore, Target>>

\* The second wait, which nothing interrupts, takes the wakeup in flight.
Absorb(t) ==
    /\ pc[t] = "Absorb"
    /\ Semaphore[t] > 0
    /\ Semaphore' = [Semaphore EXCEPT ![t] = @ - 1]
    /\ Return(t)
    /\ UNCHANGED <<WaitQueue, Target>>

----------------------------------------------------------------------------
Init ==
    /\ WaitQueue = <<>>
    /\ KeyedWaitValue = [t \in Threads |-> None]
    /\ Semaphore = [t \in Threads |-> 0]
    /\ pc = [t \in Threads |-> "idle"]
    /\ Value = [t \in Threads |-> None]
    /\ Target = [t \in Threads |-> None]

Next ==
    \E t \in Threads :
        \/ \E value \in KeyValues : Call(t, value)
        \/ Match(t) \/ Enqueue(t) \/ Wake(t)
        \/ Woken(t) \/ GiveUp(t) \/ Remove(t) \/ MustAbsorb(t) \/ Absorb(t)

Spec == Init /\ [][Next]_vars

(* Only what cannot be held up is assumed to go on: the thread that owes a *)
(* wakeup, which runs in a critical region, and one whose uninterruptible  *)
(* wait is satisfied.                                                      *)
FairSpec == Spec /\ \A t \in Threads : WF_vars(Wake(t)) /\ WF_vars(Absorb(t))

----------------------------------------------------------------------------
TypeOK ==
    /\ WaitQueue \in Seq(Threads)
    /\ KeyedWaitValue \in [Threads -> KeyValues \cup {None}]
    /\ Semaphore \in [Threads -> 0..Limit]
    /\ pc \in [Threads -> {"idle", "Match", "Wake", "Wait", "Remove", "Absorb"}]
    /\ Value \in [Threads -> KeyValues \cup {None}]
    /\ Target \in [Threads -> Threads \cup {None}]

\* No waiter and releaser of one key and process are both left on the queue,
\* although a waiter's search stops at the first waiter it meets.
NoMissedMatch ==
    \A t, u \in Queued :
        KeyedWaitValue[t].release /\ ~KeyedWaitValue[u].release
        => KeyedWaitValue[t].key # KeyedWaitValue[u].key \/ Process[t] # Process[u]

\* A thread's semaphore holds, or is about to be given, one count exactly while
\* the thread is in its wait and off the queue.  The count never passes the
\* limit, and none is left behind for the thread's next wait, or for the LPC
\* call that uses the same semaphore.
WakeupOwed ==
    \A t \in Threads :
        Semaphore[t] + Cardinality({u \in Threads : Target[u] = t})
        = IF pc[t] \in {"Wait", "Remove", "Absorb"} /\ t \notin Queued THEN 1 ELSE 0

\* The second wait, which the thread cannot be got out of, ends.
AbsorbEnds == \A t \in Threads : pc[t] = "Absorb" ~> pc[t] = "idle"
=============================================================================
