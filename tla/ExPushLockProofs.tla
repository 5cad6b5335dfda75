-------------------------- MODULE ExPushLockProofs --------------------------
(***************************************************************************)
(* Proofs about the push lock, for any number of threads and any use of it,  *)
(* and at the end about the cache-aware push lock that is made of push locks. *)
(***************************************************************************)
EXTENDS ExPushLock, ExPushLockCacheAware, FiniteSetTheorems, TLAPS

----------------------------------------------------------------------------
(* The inductive invariant *)

\* A word the lock can hold: an address with waiters, a count without them; only
\* a lock with waiters is being woken, and only one that is held has M.
GoodWord ==
    {v \in Word : /\ v.W => v.rest \in Threads
                  /\ ~v.W => v.rest \in Nat /\ ~v.K /\ ~v.M /\ (~v.L => v.rest = 0)
                  /\ ~v.L => ~v.M}

BlockType == [Next : Threads \cup {NULL}, Last : Threads \cup {NULL}, Previous : Threads \cup {NULL},
              ShareCount : Nat, Exclusive : BOOLEAN, Spinning : BOOLEAN,
              WakeGate : {"none", "closed", "open"}]

Labels == {"idle", "ExfAcquire", "ExfTry", "Acquire", "Try", "InitGate", "Spin", "GateWait",
           "Signal", "SignalGate", "TryToWake", "TryToWakeCas", "ReleaseX", "Release",
           "ShareWalk", "ShareDecrement", "ReleaseLast",
           "Optimize", "OptimizeWalk", "OptimizeCas", "Wake", "WakeWalk", "WakeTail", "WakeAnd"}

TypeInv ==
    /\ PushLock \in GoodWord
    /\ WaitBlock \in [Threads -> BlockType]
    /\ pc \in [Threads -> Labels]
    /\ mode \in [Threads -> {"none", "X", "S"}]
    /\ want \in [Threads -> {"none", "X", "S"}]
    /\ Old \in [Threads -> GoodWord]
    /\ Top \in [Threads -> GoodWord]
    /\ wb \in [Threads -> Threads \cup {NULL}]
    /\ first \in [Threads -> Threads \cup {NULL}]

WakePCs == {"Wake", "WakeWalk", "WakeTail", "WakeAnd"}

\* Where a thread is in its call, by what it wants and has.
CallOf(t) ==
    /\ pc[t] \in {"ExfAcquire", "Acquire", "InitGate", "Spin", "GateWait"} =>
          want[t] # "none" /\ mode[t] = "none"
    /\ pc[t] \in {"ExfTry", "Try"} => want[t] = "S" /\ mode[t] = "none"
    /\ pc[t] \in OwnerPCs \cup {"Signal", "SignalGate", "TryToWake", "TryToWakeCas"} => mode[t] = "none"
    /\ pc[t] \in {"idle", "TryToWake", "TryToWakeCas", "ReleaseX", "Release", "ShareWalk",
                  "ShareDecrement", "ReleaseLast"} => want[t] = "none"
    /\ pc[t] = "ReleaseX" => mode[t] = "X"
    /\ pc[t] = "Release" => mode[t] # "none"
    /\ pc[t] \in {"ShareWalk", "ShareDecrement"} => mode[t] = "S"
    /\ pc[t] = "TryToWakeCas" => Top[t].W /\ Top[t].K /\ ~Top[t].L

CallInv == \A t \in Threads : CallOf(t)

\* The thread that brings the saved count to zero holds the lock until the
\* compare-exchange that gives it up.
Holds(t) == mode[t] # "none" \/ pc[t] = "ReleaseLast"

\* What a releasing thread has read still stands.
HoldOf(t) ==
    /\ pc[t] = "Release" /\ Old[t].W => PushLock.W /\ (PushLock.M <=> Old[t].M)
    /\ pc[t] \in {"ShareWalk", "ShareDecrement"} => PushLock.M /\ Old[t].W /\ Old[t].M
    /\ pc[t] = "ReleaseLast" =>
          /\ PushLock.W /\ Old[t].W
          /\ PushLock.M <=> Old[t].M
          /\ PushLock.M <=> mode[t] = "none"

\* The word knows who holds the lock.
HoldInv ==
    /\ \A t \in Threads : Holds(t) => PushLock.L
    /\ \A t, u \in Threads : mode[t] = "X" /\ Holds(u) => t = u
    /\ \A t, u \in Threads : pc[t] = "ReleaseLast" /\ mode[t] = "none" /\ Holds(u) => t = u
    /\ ~PushLock.W /\ PushLock.L /\ PushLock.rest = 0 => \E t \in Threads : mode[t] = "X"
    /\ IsFiniteSet(SharedOwners)
    /\ ~PushLock.W => PushLock.rest = Cardinality(SharedOwners)
    /\ PushLock.W /\ ~PushLock.M => \A t, u \in SharedOwners : t = u
    /\ PushLock.M => \A t \in Threads : mode[t] # "X"
    /\ \A t \in Threads : HoldOf(t)

\* The waking bit has one owner.  Once it has seen M clear M stays clear.
WakingOf(t) ==
    /\ pc[t] \in OwnerPCs => PushLock.K /\ Top[t].W /\ Top[t].K /\ (PushLock.M => Top[t].M)
    /\ pc[t] \in WakePCs => ~Top[t].M
    /\ pc[t] \in {"WakeWalk", "WakeTail"} => ~Top[t].L

WakingInv ==
    /\ \A t \in Threads : WakingOf(t)
    /\ \A t, u \in Threads : pc[t] \in OwnerPCs /\ pc[u] \in OwnerPCs => t = u
    /\ PushLock.K => \E t \in Threads : pc[t] \in OwnerPCs

\* The chain: q[hi] is its head and q[lo] its last block.  q[f] is the first
\* that knows the last; behind it the back pointers are set.
ChainInv(q, lo, hi, f) ==
    PushLock.W =>
        /\ lo <= f /\ f <= hi
        /\ \A i \in lo..hi : q[i] \in Threads
        /\ \A i, j \in lo..hi : q[i] = q[j] => i = j
        /\ q[hi] = PushLock.rest
        /\ \A i \in (lo + 1)..hi : WaitBlock[q[i]].Next = q[i - 1]
        /\ WaitBlock[q[f]].Last = q[lo]
        /\ \A i \in (f + 1)..hi : WaitBlock[q[i]].Last = NULL
        /\ \A i \in lo..(f - 1) : WaitBlock[q[i]].Previous = q[i + 1]
        /\ WaitBlock[q[hi]].Previous = NULL
        /\ PushLock.M => /\ \A i \in lo..hi : WaitBlock[q[i]].Last \in {NULL, q[lo]}
                         /\ WaitBlock[q[lo]].Last = q[lo]

\* The share count is saved in the last block, while M is set.
CountInv(q, lo) ==
    /\ ~PushLock.M => \A b \in Threads : WaitBlock[b].ShareCount = 0
    /\ PushLock.M =>
          /\ WaitBlock[q[lo]].ShareCount = Cardinality(SharedOwners)
          /\ WaitBlock[q[lo]].Exclusive
          /\ \A b \in Threads : WaitBlock[b].ShareCount # 0 => b = q[lo]

\* Where the owner of the waking bit and the sharers that look for the count
\* are in the chain.
WalkOf(t, q, lo, hi, f) ==
    /\ pc[t] \in OwnerPCs \ {"WakeAnd"} =>
          \E p \in f..hi :
             /\ q[p] = Top[t].rest /\ WaitBlock[q[p]].Previous = NULL
             /\ pc[t] \in {"OptimizeWalk", "WakeWalk", "WakeTail"} => first[t] = q[p]
             /\ pc[t] \in {"OptimizeWalk", "WakeWalk"} =>
                   \E w \in f..p : /\ wb[t] = q[w]
                                   /\ \A i \in w..(p - 1) : WaitBlock[q[i]].Previous = q[i + 1]
             /\ pc[t] = "WakeTail" =>
                   /\ wb[t] = q[lo]
                   /\ \A i \in lo..(p - 1) : WaitBlock[q[i]].Previous = q[i + 1]
    /\ pc[t] = "Release" /\ Old[t].W /\ Old[t].M => \E i \in lo..hi : q[i] = Old[t].rest
    /\ pc[t] = "ShareWalk" => \E i \in lo..hi : q[i] = wb[t]
    /\ pc[t] = "ShareDecrement" => wb[t] = q[lo]

OnChain(q, lo, hi, b) == PushLock.W /\ \E i \in lo..hi : q[i] = b

\* own[b] is the thread that has taken b off the chain and has not signalled it
\* yet.  The blocks of one thread are one list, by the back pointers.
ListInv(own) ==
    /\ \A b \in Threads : own[b] # NULL /\ WaitBlock[b].Previous # NULL =>
          own[WaitBlock[b].Previous] = own[b]
    /\ \A b, c \in Threads :
          /\ own[b] # NULL /\ own[c] # NULL
          /\ WaitBlock[b].Previous # NULL /\ WaitBlock[b].Previous = WaitBlock[c].Previous
          => b = c

SignalOf(t, own) ==
    /\ pc[t] \in {"WakeAnd", "Signal", "SignalGate"} =>
          /\ wb[t] \in Threads /\ own[wb[t]] = t
          /\ \A b \in Threads : own[b] # NULL => WaitBlock[b].Previous # wb[t]
    /\ pc[t] = "WakeAnd" => WaitBlock[wb[t]].Previous = NULL
    /\ pc[t] = "SignalGate" => first[t] = WaitBlock[wb[t]].Previous /\ ~WaitBlock[wb[t]].Spinning

Queued(t) ==
    \/ pc[t] \in {"InitGate", "Spin", "GateWait"}
    \/ pc[t] \in OwnerPCs \cup {"Signal", "SignalGate"} /\ want[t] # "none"

\* A block that has been pushed and not been signalled: its thread is still
\* there, and the spinning bit tells whether it waits for the gate.
SleepOf(b, q, lo, hi, own) ==
    /\ OnChain(q, lo, hi, b) => own[b] = NULL
    /\ OnChain(q, lo, hi, b) \/ own[b] # NULL =>
          /\ Queued(b)
          /\ WaitBlock[b].Spinning <=> pc[b] # "GateWait"
          /\ pc[b] \in {"Spin", "GateWait"} => WaitBlock[b].WakeGate = "closed"

BlockInv(q, lo, hi, f, own) ==
    /\ ChainInv(q, lo, hi, f) /\ CountInv(q, lo) /\ ListInv(own)
    /\ \A t \in Threads :
          WalkOf(t, q, lo, hi, f) /\ SignalOf(t, own) /\ SleepOf(t, q, lo, hi, own)

Witness(q, lo, hi, f, own) ==
    /\ q \in [Nat -> Threads \cup {NULL}]
    /\ lo \in Nat /\ hi \in Nat /\ f \in Nat
    /\ own \in [Threads -> Threads \cup {NULL}]

Inv(q, lo, hi, f, own) ==
    TypeInv /\ CallInv /\ HoldInv /\ WakingInv /\ BlockInv(q, lo, hi, f, own)

IInv == \E q, lo, hi, f, own : Witness(q, lo, hi, f, own) /\ Inv(q, lo, hi, f, own)

----------------------------------------------------------------------------
(* The word *)

\* What it means to be a word the lock can hold.
LEMMA WordFields ==
    ASSUME NEW v \in GoodWord
    PROVE  /\ v.L \in BOOLEAN /\ v.W \in BOOLEAN /\ v.K \in BOOLEAN /\ v.M \in BOOLEAN
           /\ v.rest \in Nat \cup Threads
           /\ v.W => v.rest \in Threads
           /\ ~v.W => v.rest \in Nat /\ ~v.K /\ ~v.M /\ (~v.L => v.rest = 0)
           /\ ~v.L => ~v.M
    BY DEF GoodWord, Word

\* A record with such fields is such a word.
LEMMA MakeWord ==
    ASSUME NEW l \in BOOLEAN, NEW w \in BOOLEAN, NEW k \in BOOLEAN, NEW m \in BOOLEAN,
           NEW r \in Nat \cup Threads,
           w => r \in Threads,
           ~w => r \in Nat /\ ~k /\ ~m /\ (~l => r = 0),
           ~l => ~m
    PROVE  [L |-> l, W |-> w, K |-> k, M |-> m, rest |-> r] \in GoodWord
    BY DEF GoodWord, Word

\* The free word is a good one.
LEMMA FreeWord ==
    /\ Free \in GoodWord
    /\ ~Free.L /\ ~Free.W /\ ~Free.K /\ ~Free.M /\ Free.rest = 0
<1>1. 0 \in Nat
    OBVIOUS
<1>2. QED
    BY <1>1 DEF Free, GoodWord, Word

\* So is that of a lock held exclusively, without waiters,
LEMMA LockedWord ==
    /\ LockOnly \in GoodWord
    /\ LockOnly.L /\ ~LockOnly.W /\ ~LockOnly.K /\ ~LockOnly.M /\ LockOnly.rest = 0
    BY FreeWord DEF LockOnly, GoodWord, Word

\* and that of a lock n threads share.
LEMMA SharedWord ==
    ASSUME NEW n \in Nat
    PROVE  /\ SharedBy(n) \in GoodWord
           /\ SharedBy(n).L /\ ~SharedBy(n).W /\ ~SharedBy(n).K /\ ~SharedBy(n).M
           /\ SharedBy(n).rest = n
    BY LockedWord DEF SharedBy, GoodWord, Word

\* The words that the routines make of a word.
LEMMA WithLocked ==
    ASSUME NEW v \in GoodWord, NEW n, n = [v EXCEPT !.L = TRUE]
    PROVE  /\ n \in GoodWord
           /\ n.L /\ n.W = v.W /\ n.K = v.K /\ n.M = v.M /\ n.rest = v.rest
    BY DEF GoodWord, Word

\* A sharer more, when nobody waits.
LEMMA WithOneMore ==
    ASSUME NEW v \in GoodWord, ~v.W, NEW n, n = [v EXCEPT !.L = TRUE, !.rest = @ + 1]
    PROVE  /\ n \in GoodWord
           /\ n.L /\ ~n.W /\ ~n.K /\ ~n.M /\ n.rest = v.rest + 1
<1>1. v.rest \in Nat /\ v.rest + 1 \in Nat /\ ~v.K /\ ~v.M
    BY WordFields
<1>2. n = [L |-> TRUE, W |-> FALSE, K |-> FALSE, M |-> FALSE, rest |-> v.rest + 1]
    BY <1>1 DEF GoodWord, Word
<1>3. QED
    BY <1>1, <1>2, MakeWord

\* A sharer less, when others stay.
LEMMA WithOneLess ==
    ASSUME NEW v \in GoodWord, ~v.W, v.rest > 1, NEW n, n = [v EXCEPT !.rest = @ - 1]
    PROVE  /\ n \in GoodWord
           /\ n.L /\ ~n.W /\ ~n.K /\ ~n.M /\ n.rest = v.rest - 1
<1>1. v.rest \in Nat /\ v.rest - 1 \in Nat /\ ~v.K /\ ~v.M /\ v.L
    BY WordFields
<1>2. n = [L |-> TRUE, W |-> FALSE, K |-> FALSE, M |-> FALSE, rest |-> v.rest - 1]
    BY <1>1 DEF GoodWord, Word
<1>3. QED
    BY <1>1, <1>2, MakeWord

\* The waking bit is cleared.
LEMMA WithoutWaking ==
    ASSUME NEW v \in GoodWord, NEW n, n = [v EXCEPT !.K = FALSE]
    PROVE  /\ n \in GoodWord
           /\ n.L = v.L /\ n.W = v.W /\ ~n.K /\ n.M = v.M /\ n.rest = v.rest
    BY DEF GoodWord, Word

\* The waking bit is set, which takes waiters.
LEMMA WithWaking ==
    ASSUME NEW v \in GoodWord, v.W, NEW n, n = [v EXCEPT !.K = TRUE]
    PROVE  /\ n \in GoodWord
           /\ n.L = v.L /\ n.W /\ n.K /\ n.M = v.M /\ n.rest = v.rest
    BY DEF GoodWord, Word

\* The lock is given up by its one owner, without a claim to the waking bit.
LEMMA WithoutLocked ==
    ASSUME NEW v \in GoodWord, ~v.M, ~v.W => v.rest = 0, NEW n, n = [v EXCEPT !.L = FALSE]
    PROVE  /\ n \in GoodWord
           /\ ~n.L /\ n.W = v.W /\ n.K = v.K /\ ~n.M /\ n.rest = v.rest
    BY DEF GoodWord, Word

\* The lock is given up, and the waking bit set if there are waiters.
LEMMA ReleasedToWake ==
    ASSUME NEW v \in GoodWord, ~v.M, ~v.W => v.rest = 0,
           NEW n, n = [v EXCEPT !.L = FALSE, !.K = @ \/ v.W]
    PROVE  /\ n \in GoodWord
           /\ ~n.L /\ n.W = v.W /\ n.K = v.W /\ ~n.M /\ n.rest = v.rest
<1>1. n = [L |-> FALSE, W |-> v.W, K |-> v.K \/ v.W, M |-> v.M, rest |-> v.rest]
    BY DEF GoodWord, Word
<1>2. (v.K \/ v.W) = v.W
    BY WordFields
<1>3. n = [L |-> FALSE, W |-> v.W, K |-> v.W, M |-> FALSE, rest |-> v.rest]
    BY <1>1, <1>2, WordFields
<1>4. [L |-> FALSE, W |-> v.W, K |-> v.W, M |-> FALSE, rest |-> v.rest] \in GoodWord
    BY WordFields, MakeWord
<1>5. QED
    BY <1>3, <1>4, WordFields

\* The last of several sharers gives the lock up, with waiters there.
LEMMA LastReleased ==
    ASSUME NEW v \in GoodWord, v.W, NEW n, n = [v EXCEPT !.L = FALSE, !.M = FALSE, !.K = TRUE]
    PROVE  /\ n \in GoodWord
           /\ ~n.L /\ n.W /\ n.K /\ ~n.M /\ n.rest = v.rest
    BY DEF GoodWord, Word

----------------------------------------------------------------------------
(* What a step of one thread leaves alone *)

\* A step of t changes no other thread's place, hold or locals.
Only(t) ==
    \A u \in Threads \ {t} :
        /\ pc'[u] = pc[u] /\ mode'[u] = mode[u] /\ want'[u] = want[u]
        /\ Old'[u] = Old[u] /\ Top'[u] = Top[u] /\ wb'[u] = wb[u] /\ first'[u] = first[u]

\* What is known of the calls needs to be shown only of the thread that steps.
LEMMA CallKept ==
    ASSUME CallInv, NEW t \in Threads, Only(t), CallOf(t)'
    PROVE  CallInv'
<1>1. ASSUME NEW u \in Threads PROVE CallOf(u)'
    <2>1. CASE u = t
        BY <2>1
    <2>2. CASE u # t
        <3>1. CallOf(u)
            BY DEF CallInv
        <3>2. QED
            BY <2>2, <3>1 DEF CallOf, Only
    <2>3. QED
        BY <2>1, <2>2
<1>2. QED
    BY <1>1 DEF CallInv

\* A step that leaves the holders alone.
LEMMA HoldKept ==
    ASSUME TypeInv, TypeInv', HoldInv, NEW t \in Threads, Only(t), mode'[t] = mode[t],
           Holds(t)' <=> Holds(t),
           pc'[t] = "ReleaseLast" /\ mode[t] = "none" => pc[t] = "ReleaseLast",
           PushLock'.L <=> PushLock.L, PushLock'.W <=> PushLock.W, PushLock'.M <=> PushLock.M,
           ~PushLock.W => PushLock'.rest = PushLock.rest,
           HoldOf(t)'
    PROVE  HoldInv'
<1>1. \A u \in Threads : mode'[u] = mode[u]
    BY DEF Only
<1>2. SharedOwners' = SharedOwners
    BY <1>1 DEF SharedOwners
<1>3. \A u \in Threads : Holds(u)' <=> Holds(u)
    BY DEF Holds, Only
<1>4. \A u \in Threads : pc'[u] = "ReleaseLast" /\ mode'[u] = "none" => pc[u] = "ReleaseLast" /\ mode[u] = "none"
    BY <1>1 DEF Only
<1>5. ASSUME NEW u \in Threads PROVE HoldOf(u)'
    <2>1. CASE u = t
        BY <2>1
    <2>2. CASE u # t
        <3>1. HoldOf(u)
            BY DEF HoldInv
        <3>2. QED
            BY <2>2, <3>1 DEF HoldOf, Only
    <2>3. QED
        BY <2>1, <2>2
<1>6. \A u \in Threads : Holds(u)' => PushLock'.L
    BY <1>3 DEF HoldInv
<1>7. \A u, w \in Threads : mode'[u] = "X" /\ Holds(w)' => u = w
    BY <1>1, <1>3 DEF HoldInv
<1>8. \A u, w \in Threads : pc'[u] = "ReleaseLast" /\ mode'[u] = "none" /\ Holds(w)' => u = w
    BY <1>3, <1>4 DEF HoldInv
<1>9. ~PushLock'.W /\ PushLock'.L /\ PushLock'.rest = 0 => \E u \in Threads : mode'[u] = "X"
    BY <1>1 DEF HoldInv
<1>10. IsFiniteSet(SharedOwners')
    BY <1>2 DEF HoldInv
<1>11. ~PushLock'.W => PushLock'.rest = Cardinality(SharedOwners')
    BY <1>2 DEF HoldInv
<1>12. PushLock'.W /\ ~PushLock'.M => \A u, w \in SharedOwners' : u = w
    BY <1>2 DEF HoldInv
<1>13. PushLock'.M => \A u \in Threads : mode'[u] # "X"
    BY <1>1 DEF HoldInv
<1>14. QED
    BY <1>5, <1>6, <1>7, <1>8, <1>9, <1>10, <1>11, <1>12, <1>13 DEF HoldInv

\* A step that leaves the waking bit alone, one that sets it and one that
\* clears it.
LEMMA WakingKept ==
    ASSUME WakingInv, NEW t \in Threads, Only(t),
           PushLock'.K <=> PushLock.K, PushLock.K /\ PushLock'.M => PushLock.M,
           pc'[t] \in OwnerPCs <=> pc[t] \in OwnerPCs, WakingOf(t)'
    PROVE  WakingInv'
<1>1. \A u \in Threads : pc'[u] \in OwnerPCs <=> pc[u] \in OwnerPCs
    BY DEF Only
<1>2. ASSUME NEW u \in Threads PROVE WakingOf(u)'
    <2>1. CASE u = t
        BY <2>1
    <2>2. CASE u # t
        <3>1. WakingOf(u)
            BY DEF WakingInv
        <3>2. QED
            BY <2>2, <3>1 DEF WakingOf, Only
    <2>3. QED
        BY <2>1, <2>2
<1>3. QED
    BY <1>1, <1>2 DEF WakingInv

\* A thread that takes the waking bit, which nobody had, is its one owner.
LEMMA WakingTaken ==
    ASSUME WakingInv, NEW t \in Threads, Only(t), ~PushLock.K, PushLock'.K,
           pc'[t] \in OwnerPCs, WakingOf(t)'
    PROVE  WakingInv'
<1>1. \A u \in Threads : pc[u] \notin OwnerPCs
    BY DEF WakingInv, WakingOf
<1>2. \A u \in Threads \ {t} : pc'[u] \notin OwnerPCs
    BY <1>1 DEF Only
<1>3. ASSUME NEW u \in Threads PROVE WakingOf(u)'
    <2>1. CASE u = t
        BY <2>1
    <2>2. CASE u # t
        BY <1>2, <2>2 DEF WakingOf, OwnerPCs, WakePCs
    <2>3. QED
        BY <2>1, <2>2
<1>4. QED
    BY <1>2, <1>3 DEF WakingInv

\* A thread that gives it back leaves it without an owner.
LEMMA WakingGiven ==
    ASSUME WakingInv, NEW t \in Threads, Only(t), ~PushLock'.K,
           pc[t] \in OwnerPCs, pc'[t] \notin OwnerPCs
    PROVE  WakingInv'
<1>1. \A u \in Threads : pc'[u] \notin OwnerPCs
    BY DEF WakingInv, Only
<1>2. \A u \in Threads : WakingOf(u)'
    BY <1>1 DEF WakingOf, OwnerPCs, WakePCs
<1>3. QED
    BY <1>1, <1>2 DEF WakingInv

\* A step that leaves the blocks alone, and the chain on the word.
LEMMA CountKept ==
    ASSUME NEW q, NEW lo, CountInv(q, lo), NEW t \in Threads, Only(t), mode'[t] = mode[t],
           WaitBlock' = WaitBlock, PushLock'.M <=> PushLock.M
    PROVE  CountInv(q, lo)'
<1>1. SharedOwners' = SharedOwners
    BY DEF SharedOwners, Only
<1>2. QED
    BY <1>1 DEF CountInv

\* A block is as live as it was unless its own thread moves.
LEMMA SleepKept ==
    ASSUME NEW q, NEW lo, NEW hi, NEW own, NEW t \in Threads, SleepOf(t, q, lo, hi, own),
           WaitBlock'[t] = WaitBlock[t], PushLock'.W => PushLock.W,
           Queued(t) => /\ Queued(t)'
                        /\ pc'[t] = "GateWait" <=> pc[t] = "GateWait"
                        /\ pc'[t] = "Spin" => pc[t] = "Spin"
    PROVE  SleepOf(t, q, lo, hi, own)'
<1>1. OnChain(q, lo, hi, t)' => OnChain(q, lo, hi, t)
    BY DEF OnChain
<1>2. QED
    BY <1>1 DEF SleepOf

\* A step that writes no block and takes none off the chain keeps the chain.
LEMMA BlockKept ==
    ASSUME NEW q, NEW lo, NEW hi, NEW f, NEW own, BlockInv(q, lo, hi, f, own),
           NEW t \in Threads, Only(t), WaitBlock' = WaitBlock,
           PushLock'.W <=> PushLock.W, PushLock.W => PushLock'.rest = PushLock.rest,
           PushLock'.M => PushLock.M,
           CountInv(q, lo)', WalkOf(t, q, lo, hi, f)', SignalOf(t, own)',
           Queued(t) => /\ Queued(t)'
                        /\ pc'[t] = "GateWait" <=> pc[t] = "GateWait"
                        /\ pc'[t] = "Spin" => pc[t] = "Spin"
    PROVE  BlockInv(q, lo, hi, f, own)'
<1>1. ChainInv(q, lo, hi, f)'
    <2>1. ChainInv(q, lo, hi, f)
        BY DEF BlockInv
    <2>2. QED
        BY <2>1 DEF ChainInv
<1>2. ListInv(own)'
    <2>1. ListInv(own)
        BY DEF BlockInv
    <2>2. QED
        BY <2>1 DEF ListInv
<1>3. ASSUME NEW u \in Threads
      PROVE  (WalkOf(u, q, lo, hi, f) /\ SignalOf(u, own) /\ SleepOf(u, q, lo, hi, own))'
    <2>1. WalkOf(u, q, lo, hi, f) /\ SignalOf(u, own) /\ SleepOf(u, q, lo, hi, own)
        BY DEF BlockInv
    <2>2. CASE u = t
        BY <2>1, <2>2, SleepKept
    <2>3. CASE u # t
        <3>1. WalkOf(u, q, lo, hi, f)'
            BY <2>1, <2>3 DEF WalkOf, Only
        <3>2. SignalOf(u, own)'
            BY <2>1, <2>3 DEF SignalOf, Only
        <3>3. SleepOf(u, q, lo, hi, own)'
            BY <2>1, <2>3 DEF SleepOf, OnChain, Queued, Only
        <3>4. QED
            BY <3>1, <3>2, <3>3
    <2>4. QED
        BY <2>2, <2>3
<1>4. QED
    BY <1>1, <1>2, <1>3 DEF BlockInv

\* The parts make the whole.
LEMMA Together ==
    ASSUME NEW q, NEW lo, NEW hi, NEW f, NEW own, Witness(q, lo, hi, f, own),
           TypeInv', CallInv', HoldInv', WakingInv', BlockInv(q, lo, hi, f, own)'
    PROVE  IInv'
<1>1. Inv(q, lo, hi, f, own)'
    BY DEF Inv
<1>2. Witness(q, lo, hi, f, own)'
    BY DEF Witness
<1>3. QED
    BY <1>1, <1>2 DEF IInv

----------------------------------------------------------------------------
(* Steps that change neither the word nor a block *)

\* The places at which a thread has no part in the chain.
PlainPCs == {"idle", "ExfAcquire", "ExfTry", "Acquire", "Try", "TryToWake", "TryToWakeCas", "ReleaseX"}

\* Such a thread is under no obligation to the chain, in this state
LEMMA PlainOf ==
    ASSUME NEW t, pc[t] \in PlainPCs
    PROVE  /\ HoldOf(t) /\ WakingOf(t) /\ ~Queued(t) /\ pc[t] \notin OwnerPCs
           /\ \A q, lo, hi, f, own : WalkOf(t, q, lo, hi, f) /\ SignalOf(t, own)
    BY DEF PlainPCs, HoldOf, WakingOf, Queued, OwnerPCs, WakePCs, WalkOf, SignalOf

\* and in the next.
LEMMA PlainOfNext ==
    ASSUME NEW t, pc'[t] \in PlainPCs
    PROVE  /\ HoldOf(t)' /\ WakingOf(t)' /\ ~Queued(t)' /\ pc'[t] \notin OwnerPCs
           /\ \A q, lo, hi, f, own : WalkOf(t, q, lo, hi, f)' /\ SignalOf(t, own)'
    BY DEF PlainPCs, HoldOf, WakingOf, Queued, OwnerPCs, WakePCs, WalkOf, SignalOf

\* A step that changes neither the word nor a block, nor who holds the lock.
LEMMA Quiet ==
    ASSUME NEW q, NEW lo, NEW hi, NEW f, NEW own, Witness(q, lo, hi, f, own), Inv(q, lo, hi, f, own),
           NEW t \in Threads, TypeInv', Only(t), PushLock' = PushLock, WaitBlock' = WaitBlock,
           mode'[t] = mode[t], CallOf(t)',
           pc'[t] = "ReleaseLast" <=> pc[t] = "ReleaseLast" \/ (pc'[t] = "ReleaseLast" /\ mode[t] # "none"),
           pc[t] = "ReleaseLast" => pc'[t] = "ReleaseLast",
           pc'[t] \in OwnerPCs <=> pc[t] \in OwnerPCs,
           HoldOf(t)', WakingOf(t)', WalkOf(t, q, lo, hi, f)', SignalOf(t, own)',
           Queued(t) => /\ Queued(t)'
                        /\ pc'[t] = "GateWait" <=> pc[t] = "GateWait"
                        /\ pc'[t] = "Spin" => pc[t] = "Spin"
    PROVE  IInv'
<1>1. CallInv'
    BY CallKept DEF Inv
<1>2. HoldInv'
    <2>1. Holds(t)' <=> Holds(t)
        BY DEF Holds
    <2>2. QED
        BY <2>1, HoldKept DEF Inv
<1>3. WakingInv'
    BY WakingKept DEF Inv
<1>4. BlockInv(q, lo, hi, f, own)'
    <2>1. CountInv(q, lo)'
        BY CountKept DEF Inv, BlockInv
    <2>2. QED
        BY <2>1, BlockKept DEF Inv
<1>5. QED
    BY <1>1, <1>2, <1>3, <1>4, Together

\* The same for a thread that has no part in the chain.
LEMMA QuietPlain ==
    ASSUME IInv, NEW t \in Threads, TypeInv', Only(t), PushLock' = PushLock, WaitBlock' = WaitBlock,
           mode'[t] = mode[t], CallOf(t)', pc[t] \in PlainPCs, pc'[t] \in PlainPCs
    PROVE  IInv'
<1>1. PICK q, lo, hi, f, own : Witness(q, lo, hi, f, own) /\ Inv(q, lo, hi, f, own)
    BY DEF IInv
<1>2. pc[t] # "ReleaseLast" /\ pc'[t] # "ReleaseLast"
    BY DEF PlainPCs
<1>3. ~Queued(t) /\ pc[t] \notin OwnerPCs
    BY PlainOf
<1>4. /\ HoldOf(t)' /\ WakingOf(t)' /\ pc'[t] \notin OwnerPCs
      /\ WalkOf(t, q, lo, hi, f)' /\ SignalOf(t, own)'
    BY PlainOfNext
<1>5. QED
    BY <1>1, <1>2, <1>3, <1>4, Quiet

\* An acquire that has to take the slow way, and the reads of the word.
LEMMA AcquireFails ==
    ASSUME IInv, NEW t \in Threads, pc[t] = "idle", mode[t] = "none", NEW l \in {"ExfAcquire", "ExfTry"},
           NEW w \in {"X", "S"}, l = "ExfTry" => w = "S",
           Goto(t, l), want' = [want EXCEPT ![t] = w],
           UNCHANGED <<PushLock, WaitBlock, mode, Old, Top, wb, first>>
    PROVE  IInv'
<1>1. TypeInv
    BY DEF IInv, Inv
<1>2. /\ TypeInv' /\ Only(t)
    BY <1>1 DEF TypeInv, Labels, Only, Goto
<1>3. pc'[t] = l /\ want'[t] = w /\ mode'[t] = "none"
    BY <1>1 DEF TypeInv, Goto
<1>4. CallOf(t)'
    BY <1>3 DEF CallOf, OwnerPCs
<1>5. pc[t] \in PlainPCs /\ pc'[t] \in PlainPCs
    BY <1>3 DEF PlainPCs
<1>6. QED
    BY <1>2, <1>3, <1>4, <1>5, QuietPlain

\* The read at the head of an acquire keeps the invariant.
LEMMA AcquireReadStep ==
    ASSUME IInv, NEW t \in Threads, AcquireRead(t)
    PROVE  IInv'
<1>1. TypeInv /\ CallOf(t)
    BY DEF IInv, Inv, CallInv
<1>2. /\ TypeInv' /\ Only(t)
    BY <1>1 DEF TypeInv, Labels, Only, Goto, AcquireRead
<1>3. /\ (pc[t] = "ExfAcquire" /\ pc'[t] = "Acquire") \/ (pc[t] = "ExfTry" /\ pc'[t] = "Try")
      /\ want'[t] = want[t] /\ mode'[t] = mode[t]
    BY <1>1 DEF TypeInv, Goto, AcquireRead
<1>4. CallOf(t)'
    BY <1>1, <1>3 DEF CallOf, OwnerPCs
<1>5. pc[t] \in PlainPCs /\ pc'[t] \in PlainPCs
    BY <1>3 DEF PlainPCs
<1>6. PushLock' = PushLock /\ WaitBlock' = WaitBlock
    BY DEF AcquireRead
<1>7. QED
    BY <1>2, <1>3, <1>4, <1>5, <1>6, QuietPlain

\* An acquiring compare-exchange that fails.
LEMMA BackoffStep ==
    ASSUME IInv, NEW t \in Threads, pc[t] = "Acquire", Backoff(t),
           UNCHANGED <<PushLock, WaitBlock, mode, want, Top, wb, first>>
    PROVE  IInv'
<1>1. TypeInv /\ CallOf(t)
    BY DEF IInv, Inv, CallInv
<1>2. /\ TypeInv' /\ Only(t)
    BY <1>1, FreeWord DEF TypeInv, Labels, Only, Goto, Backoff
<1>3. pc'[t] = "ExfAcquire" /\ want'[t] = want[t] /\ mode'[t] = mode[t]
    BY <1>1 DEF TypeInv, Goto, Backoff
<1>4. CallOf(t)'
    BY <1>1, <1>3 DEF CallOf, OwnerPCs
<1>5. pc[t] \in PlainPCs /\ pc'[t] \in PlainPCs
    BY <1>3 DEF PlainPCs
<1>6. QED
    BY <1>2, <1>3, <1>4, <1>5, QuietPlain

\* A lost compare-exchange of a try or of an exclusive release keeps it.
LEMMA OldAgainPlain ==
    ASSUME IInv, NEW t \in Threads, pc[t] \in {"Try", "ReleaseX"}, CasLost(t, Old), UNCHANGED Top
    PROVE  IInv'
<1>1. TypeInv /\ CallOf(t)
    BY DEF IInv, Inv, CallInv
<1>2. /\ TypeInv' /\ Only(t)
    BY <1>1 DEF TypeInv, Only, CasLost
<1>3. pc'[t] = pc[t] /\ want'[t] = want[t] /\ mode'[t] = mode[t] /\ Top'[t] = Top[t]
    BY DEF CasLost
<1>4. CallOf(t)'
    BY <1>1, <1>3 DEF CallOf
<1>5. pc[t] \in PlainPCs /\ pc'[t] \in PlainPCs
    BY <1>3 DEF PlainPCs
<1>6. PushLock' = PushLock /\ WaitBlock' = WaitBlock
    BY DEF CasLost
<1>7. QED
    BY <1>2, <1>3, <1>4, <1>5, <1>6, QuietPlain

\* A call that returns without having changed anything.
LEMMA ReturnStep ==
    ASSUME IInv, NEW t \in Threads, pc[t] \in PlainPCs, mode[t] = "none",
           Return(t, "none"), UNCHANGED <<PushLock, WaitBlock>>
    PROVE  IInv'
<1>1. TypeInv
    BY DEF IInv, Inv
<1>2. /\ TypeInv' /\ Only(t)
    BY <1>1, FreeWord DEF TypeInv, Labels, Only, Goto, Return
<1>3. pc'[t] = "idle" /\ want'[t] = "none" /\ mode'[t] = "none"
    BY <1>1 DEF TypeInv, Goto, Return
<1>4. CallOf(t)'
    BY <1>3 DEF CallOf, OwnerPCs
<1>5. pc'[t] \in PlainPCs
    BY <1>3 DEF PlainPCs
<1>6. QED
    BY <1>2, <1>3, <1>4, <1>5, QuietPlain

\* A refused try keeps the invariant.
LEMMA TryRefusedStep ==
    ASSUME IInv, NEW t \in Threads, TryRefused(t)
    PROVE  IInv'
<1>1. CallOf(t)
    BY DEF IInv, Inv, CallInv
<1>2. pc[t] = "Try" /\ Return(t, "none") /\ UNCHANGED <<PushLock, WaitBlock>>
    BY DEF TryRefused
<1>3. mode[t] = "none" /\ pc[t] \in PlainPCs
    BY <1>1, <1>2 DEF CallOf, PlainPCs
<1>4. QED
    BY <1>2, <1>3, ReturnStep

\* The test of ExfTryToWakePushLock keeps the invariant.
LEMMA TryToWakeStep ==
    ASSUME IInv, NEW t \in Threads, TryToWake(t)
    PROVE  IInv'
<1>1. TypeInv /\ CallOf(t) /\ PushLock \in GoodWord
    BY DEF IInv, Inv, CallInv, TypeInv
<1>2. pc[t] = "TryToWake" /\ UNCHANGED <<PushLock, WaitBlock>>
    BY DEF TryToWake
<1>3. mode[t] = "none" /\ want[t] = "none" /\ pc[t] \in PlainPCs
    BY <1>1, <1>2 DEF CallOf, PlainPCs
<1>4. CASE Return(t, "none")
    BY <1>2, <1>3, <1>4, ReturnStep
<1>5. CASE /\ PushLock.W /\ ~PushLock.K /\ ~PushLock.L
           /\ Top' = [Top EXCEPT ![t] = [PushLock EXCEPT !.K = TRUE]]
           /\ Goto(t, "TryToWakeCas")
           /\ UNCHANGED <<mode, want, Old, wb, first>>
    <2>1. PICK n : n = [PushLock EXCEPT !.K = TRUE]
        OBVIOUS
    <2>2. n \in GoodWord /\ ~n.L /\ n.W /\ n.K
        BY <1>1, <1>5, <2>1, WithWaking
    <2>3. Top' = [Top EXCEPT ![t] = n]
        BY <1>5, <2>1
    <2>4. TypeInv' /\ Only(t)
        <3>1. Top' \in [Threads -> GoodWord]
            BY <1>1, <2>2, <2>3 DEF TypeInv
        <3>2. pc' = [pc EXCEPT ![t] = "TryToWakeCas"] /\ UNCHANGED <<mode, want, Old, wb, first>>
            BY <1>5 DEF Goto
        <3>3. pc' \in [Threads -> Labels]
            BY <1>1, <3>2 DEF TypeInv, Labels
        <3>4. TypeInv'
            BY <1>1, <1>2, <3>1, <3>2, <3>3 DEF TypeInv
        <3>5. \A u \in Threads \ {t} : pc'[u] = pc[u] /\ Top'[u] = Top[u]
            BY <1>1, <2>3, <3>2 DEF TypeInv
        <3>6. QED
            BY <3>2, <3>4, <3>5 DEF Only
    <2>5. pc'[t] = "TryToWakeCas" /\ want'[t] = "none" /\ mode'[t] = "none" /\ Top'[t] = n
        BY <1>1, <1>3, <1>5, <2>3 DEF TypeInv, Goto
    <2>6. CallOf(t)'
        BY <2>2, <2>5 DEF CallOf, OwnerPCs
    <2>7. pc'[t] \in PlainPCs
        BY <2>5 DEF PlainPCs
    <2>8. QED
        BY <1>2, <1>3, <2>4, <2>5, <2>6, <2>7, QuietPlain
<1>6. QED
    BY <1>4, <1>5 DEF TryToWake

\* A step of the owner of the waking bit that only moves it on.
LEMMA OwnerQuiet ==
    ASSUME NEW q, NEW lo, NEW hi, NEW f, NEW own, Witness(q, lo, hi, f, own), Inv(q, lo, hi, f, own),
           NEW t \in Threads, TypeInv', Only(t), PushLock' = PushLock, WaitBlock' = WaitBlock,
           mode'[t] = mode[t], want'[t] = want[t],
           pc[t] \in OwnerPCs, pc'[t] \in OwnerPCs \ {"WakeAnd"},
           WakingOf(t)', WalkOf(t, q, lo, hi, f)'
    PROVE  IInv'
<1>1. mode[t] = "none"
    BY DEF Inv, CallInv, CallOf
<1>2. CallOf(t)'
    BY <1>1 DEF CallOf, OwnerPCs
<1>3. pc[t] # "ReleaseLast" /\ pc'[t] # "ReleaseLast"
    BY DEF OwnerPCs
<1>4. HoldOf(t)' /\ SignalOf(t, own)'
    BY DEF HoldOf, SignalOf, OwnerPCs
<1>5. Queued(t) => /\ Queued(t)'
                   /\ pc'[t] = "GateWait" <=> pc[t] = "GateWait"
                   /\ pc'[t] = "Spin" => pc[t] = "Spin"
    BY DEF Queued, OwnerPCs
<1>6. QED
    BY <1>2, <1>3, <1>4, <1>5, Quiet

\* The indices of the chain are numbers.
LEMMA Indices ==
    ASSUME NEW q, NEW lo, NEW hi, NEW f, NEW own, Witness(q, lo, hi, f, own), Inv(q, lo, hi, f, own), PushLock.W
    PROVE  /\ lo \in Nat /\ hi \in Nat /\ f \in Nat
           /\ lo <= f /\ f <= hi
           /\ lo \in lo..hi /\ hi \in lo..hi /\ f \in lo..hi /\ hi \in f..hi
<1>1. lo \in Nat /\ hi \in Nat /\ f \in Nat
    BY DEF Witness
<1>2. lo <= f /\ f <= hi
    BY DEF Inv, BlockInv, ChainInv
<1>3. QED
    BY <1>1, <1>2

\* The owner of the waking bit knows a word with waiters.
LEMMA OwnerSees ==
    ASSUME NEW q, NEW lo, NEW hi, NEW f, NEW own, Witness(q, lo, hi, f, own), Inv(q, lo, hi, f, own),
           NEW t \in Threads, pc[t] \in OwnerPCs
    PROVE  PushLock.W /\ PushLock.K /\ Top[t].W /\ Top[t].K /\ (PushLock.M => Top[t].M)
<1>1. WakingOf(t) /\ PushLock \in GoodWord
    BY DEF Inv, WakingInv, TypeInv
<1>2. QED
    BY <1>1, WordFields DEF WakingOf

\* It takes up the word as it is now: it begins again at the head.
LEMMA TopAgain ==
    ASSUME NEW q, NEW lo, NEW hi, NEW f, NEW own, Witness(q, lo, hi, f, own), Inv(q, lo, hi, f, own),
           NEW t \in Threads, TypeInv', Only(t), PushLock' = PushLock, WaitBlock' = WaitBlock,
           mode'[t] = mode[t], want'[t] = want[t], Top'[t] = PushLock,
           \/ pc[t] = "OptimizeCas" /\ pc'[t] = "Optimize"
           \/ pc[t] \in {"Wake", "WakeTail"} /\ pc'[t] = "Wake"
    PROVE  IInv'
<1>1. pc[t] \in OwnerPCs /\ pc'[t] \in OwnerPCs \ {"WakeAnd"}
    BY DEF OwnerPCs
<1>2. PushLock.W /\ PushLock.K /\ (PushLock.M => Top[t].M)
    BY <1>1, OwnerSees
<1>3. WakingOf(t)'
    <2>1. WakingOf(t)
        BY DEF Inv, WakingInv
    <2>2. QED
        BY <1>2, <2>1 DEF WakingOf, WakePCs
<1>4. WalkOf(t, q, lo, hi, f)'
    <2>1. hi \in f..hi
        BY <1>2, Indices
    <2>2. q[hi] = PushLock.rest /\ WaitBlock[q[hi]].Previous = NULL
        BY <1>2 DEF Inv, BlockInv, ChainInv
    <2>3. q[hi] = Top'[t].rest /\ WaitBlock'[q[hi]].Previous = NULL
        BY <2>2
    <2>4. QED
        BY <2>1, <2>3 DEF WalkOf
<1>5. QED
    BY <1>1, <1>3, <1>4, OwnerQuiet

\* A walk begins at the head.
LEMMA BeginWalkStep ==
    ASSUME IInv, NEW t \in Threads,
           \/ pc[t] = "Optimize" /\ BeginWalk(t, "OptimizeWalk")
           \/ pc[t] = "Wake" /\ ~Top[t].L /\ BeginWalk(t, "WakeWalk")
    PROVE  IInv'
<1>1. PICK q, lo, hi, f, own : Witness(q, lo, hi, f, own) /\ Inv(q, lo, hi, f, own)
    BY DEF IInv
<1>2. pc[t] \in OwnerPCs \ {"WakeAnd"}
    BY DEF OwnerPCs
<1>3. TypeInv /\ WakingOf(t) /\ WalkOf(t, q, lo, hi, f)
    BY <1>1 DEF Inv, WakingInv, BlockInv
<1>4. Top[t].W /\ Top[t] \in GoodWord /\ Top[t].rest \in Threads
    BY <1>1, <1>2, <1>3, OwnerSees, WordFields DEF TypeInv
<1>5. TypeInv' /\ Only(t) /\ PushLock' = PushLock /\ WaitBlock' = WaitBlock
    BY <1>3, <1>4 DEF TypeInv, Labels, Only, Goto, BeginWalk
<1>6. /\ mode'[t] = mode[t] /\ want'[t] = want[t] /\ Top'[t] = Top[t]
      /\ wb'[t] = Top[t].rest /\ first'[t] = Top[t].rest
      /\ (pc[t] = "Optimize" /\ pc'[t] = "OptimizeWalk") \/ (pc[t] = "Wake" /\ ~Top[t].L /\ pc'[t] = "WakeWalk")
    BY <1>3 DEF TypeInv, Goto, BeginWalk
<1>7. WakingOf(t)'
    BY <1>3, <1>5, <1>6 DEF WakingOf, OwnerPCs, WakePCs
<1>8. WalkOf(t, q, lo, hi, f)'
    <2>1. PICK p \in f..hi : q[p] = Top[t].rest /\ WaitBlock[q[p]].Previous = NULL
        BY <1>2, <1>3 DEF WalkOf
    <2>2. p \in f..p /\ p..(p - 1) = {}
        BY <1>1, <2>1 DEF Witness
    <2>3. q[p] = Top'[t].rest /\ WaitBlock'[q[p]].Previous = NULL /\ first'[t] = q[p] /\ wb'[t] = q[p]
        BY <1>5, <1>6, <2>1
    <2>4. \A i \in p..(p - 1) : WaitBlock'[q[i]].Previous = q[i + 1]
        BY <2>2
    <2>5. pc'[t] \notin {"WakeTail", "Release", "ShareWalk", "ShareDecrement"}
        BY <1>6
    <2>6. QED
        BY <2>1, <2>2, <2>3, <2>4, <2>5 DEF WalkOf
<1>9. pc'[t] \in OwnerPCs \ {"WakeAnd"}
    BY <1>6 DEF OwnerPCs
<1>10. QED
    BY <1>1, <1>2, <1>5, <1>6, <1>7, <1>8, <1>9, OwnerQuiet

\* The choice at the head of ExpOptimizePushLockList keeps the invariant.
LEMMA OptimizeStep ==
    ASSUME IInv, NEW t \in Threads, Optimize(t)
    PROVE  IInv'
<1>1. CASE BeginWalk(t, "OptimizeWalk")
    BY <1>1, BeginWalkStep DEF Optimize
<1>2. CASE ~Top[t].L /\ Goto(t, "Wake") /\ UNCHANGED <<PushLock, WaitBlock, mode, locals>>
    <2>1. PICK q, lo, hi, f, own : Witness(q, lo, hi, f, own) /\ Inv(q, lo, hi, f, own)
        BY DEF IInv
    <2>2. TypeInv /\ WakingOf(t) /\ WalkOf(t, q, lo, hi, f) /\ Top[t] \in GoodWord
        BY <2>1 DEF Inv, WakingInv, BlockInv, TypeInv
    <2>3. TypeInv' /\ Only(t) /\ PushLock' = PushLock /\ WaitBlock' = WaitBlock
        BY <1>2, <2>2 DEF TypeInv, Labels, Only, Goto, locals
    <2>4. /\ mode'[t] = mode[t] /\ want'[t] = want[t] /\ Top'[t] = Top[t]
          /\ pc[t] = "Optimize" /\ pc'[t] = "Wake"
        BY <1>2, <2>2 DEF TypeInv, Goto, locals, Optimize
    <2>5. ~Top[t].M
        BY <1>2, <2>2, WordFields
    <2>6. WakingOf(t)'
        BY <2>2, <2>3, <2>4, <2>5 DEF WakingOf, OwnerPCs, WakePCs
    <2>7. WalkOf(t, q, lo, hi, f)'
        BY <2>2, <2>3, <2>4 DEF WalkOf, OwnerPCs
    <2>8. pc[t] \in OwnerPCs /\ pc'[t] \in OwnerPCs \ {"WakeAnd"}
        BY <2>4 DEF OwnerPCs
    <2>9. QED
        BY <2>1, <2>3, <2>4, <2>6, <2>7, <2>8, OwnerQuiet
<1>3. QED
    BY <1>1, <1>2 DEF Optimize

\* The walk to wake ends at the first block that knows the last one: from there
\* on the back pointers lead back to the head.
LEMMA WakeLastStep ==
    ASSUME IInv, NEW t \in Threads, WakeLast(t)
    PROVE  IInv'
<1>1. PICK q, lo, hi, f, own : Witness(q, lo, hi, f, own) /\ Inv(q, lo, hi, f, own)
    BY DEF IInv
<1>2. pc[t] = "WakeWalk" /\ pc[t] \in OwnerPCs \ {"WakeAnd"} /\ WaitBlock[wb[t]].Last # NULL
    BY DEF OwnerPCs, WakeLast
<1>3. TypeInv /\ WakingOf(t) /\ WalkOf(t, q, lo, hi, f) /\ PushLock.W
    BY <1>1, <1>2, OwnerSees DEF Inv, WakingInv, BlockInv
<1>4. /\ lo \in Nat /\ hi \in Nat /\ f \in Nat /\ lo <= f /\ f <= hi
      /\ lo \in lo..hi
    BY <1>1, <1>3, Indices
<1>5. PICK p \in f..hi :
         /\ q[p] = Top[t].rest /\ WaitBlock[q[p]].Previous = NULL /\ first[t] = q[p]
         /\ \E w \in f..p : /\ wb[t] = q[w]
                            /\ \A i \in w..(p - 1) : WaitBlock[q[i]].Previous = q[i + 1]
    BY <1>2, <1>3 DEF WalkOf
<1>6. PICK w \in f..p : /\ wb[t] = q[w]
                        /\ \A i \in w..(p - 1) : WaitBlock[q[i]].Previous = q[i + 1]
    BY <1>5
<1>7. w = f
    <2>1. \A i \in (f + 1)..hi : WaitBlock[q[i]].Last = NULL
        BY <1>1, <1>3 DEF Inv, BlockInv, ChainInv
    <2>2. w \notin (f + 1)..hi
        BY <1>2, <1>6, <2>1
    <2>3. QED
        BY <1>4, <1>5, <1>6, <2>2
<1>8. /\ WaitBlock[q[f]].Last = q[lo] /\ q[lo] \in Threads
      /\ \A i \in lo..(f - 1) : WaitBlock[q[i]].Previous = q[i + 1]
    BY <1>1, <1>3, <1>4 DEF Inv, BlockInv, ChainInv
<1>9. wb' = [wb EXCEPT ![t] = q[lo]]
    BY <1>6, <1>7, <1>8 DEF WakeLast
<1>10. TypeInv' /\ Only(t) /\ PushLock' = PushLock /\ WaitBlock' = WaitBlock
    BY <1>3, <1>8, <1>9 DEF TypeInv, Labels, Only, Goto, WakeLast
<1>11. /\ mode'[t] = mode[t] /\ want'[t] = want[t] /\ Top'[t] = Top[t]
       /\ wb'[t] = q[lo] /\ first'[t] = first[t] /\ pc'[t] = "WakeTail"
    BY <1>3, <1>9 DEF TypeInv, Goto, WakeLast
<1>12. WakingOf(t)'
    BY <1>2, <1>3, <1>10, <1>11 DEF WakingOf, OwnerPCs, WakePCs
<1>13. WalkOf(t, q, lo, hi, f)'
    <2>1. \A i \in lo..(p - 1) : i \in lo..(f - 1) \/ i \in w..(p - 1)
        BY <1>4, <1>5, <1>7
    <2>2. \A i \in lo..(p - 1) : WaitBlock[q[i]].Previous = q[i + 1]
        BY <1>6, <1>8, <2>1
    <2>3. /\ q[p] = Top'[t].rest /\ WaitBlock'[q[p]].Previous = NULL /\ first'[t] = q[p]
          /\ wb'[t] = q[lo]
          /\ \A i \in lo..(p - 1) : WaitBlock'[q[i]].Previous = q[i + 1]
        BY <1>5, <1>10, <1>11, <2>2
    <2>4. pc'[t] = "WakeTail"
        BY <1>11
    <2>5. QED
        BY <2>3, <2>4 DEF WalkOf
<1>14. pc'[t] \in OwnerPCs \ {"WakeAnd"}
    BY <1>11 DEF OwnerPCs
<1>15. QED
    BY <1>1, <1>2, <1>10, <1>11, <1>12, <1>13, <1>14, OwnerQuiet

\* The spinning bit was clear: the waiter is at its gate.
LEMMA SignalToGate ==
    ASSUME IInv, NEW t \in Threads, pc[t] = "Signal", ~WaitBlock[wb[t]].Spinning,
           first' = [first EXCEPT ![t] = WaitBlock[wb[t]].Previous], Goto(t, "SignalGate"),
           UNCHANGED <<PushLock, WaitBlock, mode, want, Old, Top, wb>>
    PROVE  IInv'
<1>1. PICK q, lo, hi, f, own : Witness(q, lo, hi, f, own) /\ Inv(q, lo, hi, f, own)
    BY DEF IInv
<1>2. TypeInv /\ CallOf(t) /\ SignalOf(t, own)
    BY <1>1 DEF Inv, CallInv, BlockInv
<1>3. wb[t] \in Threads /\ WaitBlock[wb[t]].Previous \in Threads \cup {NULL}
    BY <1>2 DEF SignalOf, TypeInv, BlockType
<1>4. TypeInv' /\ Only(t)
    BY <1>2, <1>3 DEF TypeInv, Labels, Only, Goto
<1>5. pc'[t] = "SignalGate" /\ first'[t] = WaitBlock[wb[t]].Previous
    BY <1>2 DEF TypeInv, Goto
<1>6. CallOf(t)'
    BY <1>2, <1>5 DEF CallOf, OwnerPCs
<1>7. HoldOf(t)' /\ WakingOf(t)' /\ WalkOf(t, q, lo, hi, f)'
    BY <1>5 DEF HoldOf, WakingOf, WalkOf, OwnerPCs, WakePCs
<1>8. SignalOf(t, own)'
    BY <1>2, <1>5 DEF SignalOf
<1>9. pc[t] \notin OwnerPCs /\ pc'[t] \notin OwnerPCs /\ (Queued(t) => Queued(t)')
    BY <1>5 DEF OwnerPCs, Queued
<1>10. QED
    BY <1>1, <1>4, <1>5, <1>6, <1>7, <1>8, <1>9, Quiet

\* A shared owner among the releasing: what moves it on, with the word and the
\* blocks as they are.
LEMMA ReleaseQuiet ==
    ASSUME NEW q, NEW lo, NEW hi, NEW f, NEW own, Witness(q, lo, hi, f, own), Inv(q, lo, hi, f, own),
           NEW t \in Threads, TypeInv', Only(t), PushLock' = PushLock, WaitBlock' = WaitBlock,
           mode'[t] = mode[t], CallOf(t)',
           pc[t] \in {"idle", "Release", "ShareWalk", "ReleaseLast"},
           pc'[t] \in {"Release", "ShareWalk", "ShareDecrement", "ReleaseLast"},
           pc[t] = "ReleaseLast" => pc'[t] = "ReleaseLast",
           pc'[t] = "ReleaseLast" /\ mode[t] = "none" => pc[t] = "ReleaseLast",
           HoldOf(t)', WalkOf(t, q, lo, hi, f)'
    PROVE  IInv'
<1>1. pc[t] \notin OwnerPCs /\ pc'[t] \notin OwnerPCs /\ ~Queued(t)
    BY DEF OwnerPCs, Queued
<1>2. WakingOf(t)' /\ SignalOf(t, own)'
    BY DEF WakingOf, SignalOf, OwnerPCs, WakePCs
<1>3. QED
    BY <1>1, <1>2, Quiet

\* What the word now is, a release can go on with.
LEMMA OldAgain ==
    ASSUME IInv, NEW t \in Threads, TypeInv', Only(t), PushLock' = PushLock, WaitBlock' = WaitBlock,
           mode'[t] = mode[t], want'[t] = "none", Old'[t] = PushLock,
           \/ pc[t] \in {"idle", "Release"} /\ pc'[t] = "Release" /\ mode[t] # "none"
           \/ pc[t] = "ReleaseLast" /\ pc'[t] = "ReleaseLast"
    PROVE  IInv'
<1>1. PICK q, lo, hi, f, own : Witness(q, lo, hi, f, own) /\ Inv(q, lo, hi, f, own)
    BY DEF IInv
<1>2. CallOf(t)'
    BY DEF CallOf, OwnerPCs
<1>3. HoldOf(t)'
    <2>1. HoldOf(t)
        BY <1>1 DEF Inv, HoldInv
    <2>2. QED
        BY <2>1 DEF HoldOf
<1>4. WalkOf(t, q, lo, hi, f)'
    <2>1. CASE PushLock.W
        <3>1. hi \in lo..hi /\ q[hi] = PushLock.rest
            BY <1>1, <2>1, Indices DEF Inv, BlockInv, ChainInv
        <3>2. QED
            BY <3>1 DEF WalkOf, OwnerPCs
    <2>2. CASE ~PushLock.W
        BY <2>2 DEF WalkOf, OwnerPCs
    <2>3. QED
        BY <2>1, <2>2
<1>5. QED
    BY <1>1, <1>2, <1>3, <1>4, ReleaseQuiet

\* The read at the head of a release keeps the invariant.
LEMMA ReleaseReadStep ==
    ASSUME IInv, NEW t \in Threads, ReleaseRead(t)
    PROVE  IInv'
<1>1. TypeInv /\ CallOf(t)
    BY DEF IInv, Inv, CallInv
<1>2. TypeInv' /\ Only(t) /\ PushLock' = PushLock /\ WaitBlock' = WaitBlock
    BY <1>1 DEF TypeInv, Labels, Only, Goto, ReleaseRead
<1>3. /\ pc[t] = "idle" /\ mode'[t] = mode[t] /\ want'[t] = want[t] /\ Old'[t] = PushLock
      /\ (pc'[t] = "ReleaseX" /\ mode[t] = "X") \/ (pc'[t] = "Release" /\ mode[t] # "none")
    BY <1>1 DEF TypeInv, Goto, Calls, ReleaseRead
<1>4. want[t] = "none"
    BY <1>1, <1>3 DEF CallOf
<1>5. CASE pc'[t] = "ReleaseX" /\ mode[t] = "X"
    <2>1. CallOf(t)'
        BY <1>3, <1>4, <1>5 DEF CallOf, OwnerPCs
    <2>2. pc[t] \in PlainPCs /\ pc'[t] \in PlainPCs
        BY <1>3, <1>5 DEF PlainPCs
    <2>3. QED
        BY <1>2, <1>3, <2>1, <2>2, QuietPlain
<1>6. CASE pc'[t] = "Release" /\ mode[t] # "none"
    BY <1>2, <1>3, <1>4, <1>6, OldAgain
<1>7. QED
    BY <1>3, <1>5, <1>6

\* A lost compare-exchange of any release keeps the invariant.
LEMMA OldLost ==
    ASSUME IInv, NEW t \in Threads, pc[t] \in {"ReleaseX", "Release", "ReleaseLast"},
           CasLost(t, Old), UNCHANGED Top
    PROVE  IInv'
<1>1. TypeInv /\ CallOf(t)
    BY DEF IInv, Inv, CallInv
<1>2. CASE pc[t] = "ReleaseX"
    BY <1>2, OldAgainPlain
<1>3. CASE pc[t] \in {"Release", "ReleaseLast"}
    <2>1. TypeInv' /\ Only(t) /\ PushLock' = PushLock /\ WaitBlock' = WaitBlock
        BY <1>1 DEF TypeInv, Labels, Only, CasLost
    <2>2. /\ mode'[t] = mode[t] /\ want'[t] = want[t] /\ Old'[t] = PushLock /\ pc'[t] = pc[t]
        BY <1>1 DEF TypeInv, CasLost
    <2>3. want[t] = "none" /\ (pc[t] = "Release" => mode[t] # "none")
        BY <1>1, <1>3 DEF CallOf
    <2>4. QED
        BY <1>3, <2>1, <2>2, <2>3, OldAgain
<1>4. QED
    BY <1>2, <1>3

\* The choice of a release that sees waiters keeps the invariant.
LEMMA ReleaseWaitersStep ==
    ASSUME IInv, NEW t \in Threads, ReleaseWaiters(t)
    PROVE  IInv'
<1>1. PICK q, lo, hi, f, own : Witness(q, lo, hi, f, own) /\ Inv(q, lo, hi, f, own)
    BY DEF IInv
<1>2. TypeInv /\ CallOf(t) /\ HoldOf(t) /\ WalkOf(t, q, lo, hi, f) /\ HoldInv
    BY <1>1 DEF Inv, CallInv, HoldInv, BlockInv
<1>3. /\ pc[t] = "Release" /\ Old[t].W /\ PushLock' = PushLock /\ WaitBlock' = WaitBlock
      /\ mode' = mode /\ want' = want /\ Old' = Old
    BY DEF ReleaseWaiters
<1>4. Old[t] \in GoodWord /\ Old[t].rest \in Threads /\ Old[t].M \in BOOLEAN
    BY <1>2, <1>3, WordFields DEF TypeInv
<1>5. TypeInv' /\ Only(t)
    BY <1>2, <1>3, <1>4 DEF TypeInv, Labels, Only, Goto, ReleaseWaiters
<1>6. want[t] = "none" /\ mode[t] # "none" /\ PushLock.W /\ (PushLock.M <=> Old[t].M)
    BY <1>2, <1>3 DEF CallOf, HoldOf
<1>7. CASE Old[t].M
    <2>1. pc'[t] = "ShareWalk" /\ wb'[t] = Old[t].rest
        BY <1>2, <1>7 DEF TypeInv, Goto, ReleaseWaiters
    <2>2. mode[t] = "S"
        BY <1>2, <1>6, <1>7 DEF HoldInv, TypeInv
    <2>3. CallOf(t)' /\ HoldOf(t)'
        BY <1>3, <1>6, <1>7, <2>1, <2>2 DEF CallOf, HoldOf, OwnerPCs
    <2>4. WalkOf(t, q, lo, hi, f)'
        BY <1>2, <1>3, <1>7, <2>1 DEF WalkOf, OwnerPCs
    <2>5. QED
        BY <1>1, <1>3, <1>5, <2>1, <2>3, <2>4, ReleaseQuiet
<1>8. CASE ~Old[t].M
    <2>1. pc'[t] = "ReleaseLast"
        BY <1>2, <1>8 DEF TypeInv, Goto, ReleaseWaiters
    <2>2. CallOf(t)' /\ HoldOf(t)' /\ WalkOf(t, q, lo, hi, f)'
        BY <1>3, <1>6, <1>8, <2>1 DEF CallOf, HoldOf, WalkOf, OwnerPCs
    <2>3. QED
        BY <1>1, <1>3, <1>5, <1>6, <2>1, <2>2, ReleaseQuiet
<1>9. QED
    BY <1>4, <1>7, <1>8

\* The block that carries M's count is the last one, and every end pointer leads
\* there while M is set.
LEMMA ShareWalkStep ==
    ASSUME IInv, NEW t \in Threads, ShareWalk(t)
    PROVE  IInv'
<1>1. PICK q, lo, hi, f, own : Witness(q, lo, hi, f, own) /\ Inv(q, lo, hi, f, own)
    BY DEF IInv
<1>2. TypeInv /\ CallOf(t) /\ HoldOf(t) /\ WalkOf(t, q, lo, hi, f) /\ PushLock \in GoodWord
    BY <1>1 DEF Inv, CallInv, HoldInv, BlockInv, TypeInv
<1>3. /\ pc[t] = "ShareWalk" /\ PushLock' = PushLock /\ WaitBlock' = WaitBlock
      /\ mode' = mode /\ want' = want /\ Old' = Old
    BY DEF ShareWalk
<1>4. /\ want[t] = "none" /\ mode[t] = "S" /\ PushLock.M /\ Old[t].W /\ Old[t].M /\ PushLock.W
    BY <1>2, <1>3, WordFields DEF CallOf, HoldOf
<1>5. PICK i \in lo..hi : q[i] = wb[t]
    BY <1>2, <1>3 DEF WalkOf
<1>6. /\ lo \in Nat /\ hi \in Nat /\ lo \in lo..hi
    BY <1>1, <1>4, Indices
<1>7. /\ q[lo] \in Threads /\ WaitBlock[q[lo]].Last = q[lo]
      /\ WaitBlock[q[i]].Last \in {NULL, q[lo]} /\ q[i] \in Threads
    BY <1>1, <1>4, <1>6 DEF Inv, BlockInv, ChainInv
<1>8. CASE WaitBlock[wb[t]].Last = NULL
    <2>1. i # lo /\ i - 1 \in lo..hi /\ i \in (lo + 1)..hi
        <3>1. i # lo
            BY <1>5, <1>7, <1>8, NullIsNoThread
        <3>2. QED
            BY <1>5, <1>6, <3>1
    <2>2. WaitBlock[q[i]].Next = q[i - 1] /\ q[i - 1] \in Threads
        BY <1>1, <1>4, <2>1 DEF Inv, BlockInv, ChainInv
    <2>3. wb' = [wb EXCEPT ![t] = q[i - 1]] /\ pc' = pc
        BY <1>5, <1>7, <1>8, <2>2 DEF ShareWalk
    <2>4. TypeInv' /\ Only(t)
        BY <1>2, <1>3, <2>2, <2>3 DEF TypeInv, Only, ShareWalk
    <2>5. wb'[t] = q[i - 1] /\ pc'[t] = "ShareWalk"
        BY <1>2, <1>3, <2>3 DEF TypeInv
    <2>6. CallOf(t)' /\ HoldOf(t)'
        BY <1>3, <1>4, <2>5 DEF CallOf, HoldOf, OwnerPCs
    <2>7. WalkOf(t, q, lo, hi, f)'
        BY <2>1, <2>5 DEF WalkOf, OwnerPCs
    <2>8. QED
        BY <1>1, <1>3, <2>4, <2>5, <2>6, <2>7, ReleaseQuiet
<1>9. CASE WaitBlock[wb[t]].Last # NULL
    <2>1. wb' = [wb EXCEPT ![t] = q[lo]] /\ Goto(t, "ShareDecrement")
        BY <1>5, <1>7, <1>9 DEF ShareWalk
    <2>2. TypeInv' /\ Only(t)
        BY <1>2, <1>3, <1>7, <2>1 DEF TypeInv, Labels, Only, Goto, ShareWalk
    <2>3. wb'[t] = q[lo] /\ pc'[t] = "ShareDecrement"
        BY <1>2, <1>3, <2>1 DEF TypeInv, Goto
    <2>4. CallOf(t)' /\ HoldOf(t)' /\ WalkOf(t, q, lo, hi, f)'
        BY <1>3, <1>4, <2>3 DEF CallOf, HoldOf, WalkOf, OwnerPCs
    <2>5. QED
        BY <1>1, <1>3, <2>2, <2>3, <2>4, ReleaseQuiet
<1>10. QED
    BY <1>8, <1>9

----------------------------------------------------------------------------
(* Who holds the lock *)

\* What somebody alone in the lock may make of it.
LEMMA HoldAlone ==
    ASSUME TypeInv, TypeInv', CallInv, HoldInv, NEW t \in Threads, Only(t),
           \A u \in Threads \ {t} : ~Holds(u),
           pc'[t] = "idle", mode'[t] \in {"X", "S"},
           PushLock'.L, PushLock'.W <=> PushLock.W, ~PushLock'.M, ~PushLock.M,
           ~PushLock'.W => PushLock'.rest = IF mode'[t] = "S" THEN 1 ELSE 0
    PROVE  HoldInv'
<1>1. \A u \in Threads \ {t} : mode'[u] = "none" /\ ~Holds(u)'
    BY DEF Only, Holds
<1>2. SharedOwners' = IF mode'[t] = "S" THEN {t} ELSE {}
    BY <1>1 DEF SharedOwners
<1>3. IsFiniteSet(SharedOwners') /\ Cardinality(SharedOwners') = IF mode'[t] = "S" THEN 1 ELSE 0
    BY <1>2, FS_EmptySet, FS_Singleton
<1>4. ASSUME NEW u \in Threads PROVE HoldOf(u)'
    <2>1. CASE u = t
        BY <2>1 DEF HoldOf
    <2>2. CASE u # t
        <3>1. HoldOf(u)
            BY DEF HoldInv
        <3>2. QED
            BY <2>2, <3>1 DEF HoldOf, Only
    <2>3. QED
        BY <2>1, <2>2
<1>5. \A u \in Threads : pc'[u] = "ReleaseLast" => Holds(u)'
    BY DEF Holds
<1>6. /\ \A u \in Threads : Holds(u)' => PushLock'.L
      /\ \A u, w \in Threads : mode'[u] = "X" /\ Holds(w)' => u = w
      /\ \A u, w \in Threads : pc'[u] = "ReleaseLast" /\ mode'[u] = "none" /\ Holds(w)' => u = w
    BY <1>1, <1>5
<1>7. ~PushLock'.W /\ PushLock'.L /\ PushLock'.rest = 0 => \E u \in Threads : mode'[u] = "X"
    OBVIOUS
<1>8. \A u, w \in SharedOwners' : u = w
    BY <1>2
<1>9. QED
    BY <1>3, <1>4, <1>6, <1>7, <1>8 DEF HoldInv

\* A shared owner more, on a word without waiters.
LEMMA HoldJoined ==
    ASSUME TypeInv, TypeInv', HoldInv, NEW t \in Threads, Only(t),
           mode[t] = "none", pc[t] # "ReleaseLast", pc'[t] = "idle", mode'[t] = "S",
           ~PushLock.W, PushLock.rest > 0,
           PushLock'.L, ~PushLock'.W, ~PushLock'.M, PushLock'.rest = PushLock.rest + 1
    PROVE  HoldInv'
<1>1. /\ IsFiniteSet(SharedOwners) /\ PushLock.rest = Cardinality(SharedOwners)
      /\ t \notin SharedOwners
    BY DEF HoldInv, SharedOwners
<1>2. SharedOwners' = SharedOwners \cup {t}
    BY DEF SharedOwners, Only
<1>3. /\ IsFiniteSet(SharedOwners') /\ Cardinality(SharedOwners') = Cardinality(SharedOwners) + 1
    BY <1>1, <1>2, FS_AddElement
<1>4. PICK s \in SharedOwners : TRUE
    <2>1. SharedOwners # {}
        BY <1>1, FS_EmptySet
    <2>2. QED
        BY <2>1
<1>5. s \in Threads /\ mode[s] = "S" /\ Holds(s)
    BY <1>4 DEF SharedOwners, Holds
<1>6. \A u \in Threads : mode[u] # "X"
    <2>1. ASSUME NEW u \in Threads, mode[u] = "X" PROVE FALSE
        <3>1. u = s
            BY <1>5, <2>1 DEF HoldInv
        <3>2. QED
            BY <1>5, <2>1, <3>1
    <2>2. QED
        BY <2>1
<1>7. \A u \in Threads : mode'[u] # "X"
    BY <1>6 DEF Only
<1>8. \A u \in Threads : pc[u] # "ReleaseLast"
    BY DEF HoldInv, HoldOf
<1>9. \A u \in Threads : pc'[u] # "ReleaseLast"
    BY <1>8 DEF Only
<1>10. ASSUME NEW u \in Threads PROVE HoldOf(u)'
    <2>1. CASE u = t
        BY <2>1 DEF HoldOf
    <2>2. CASE u # t
        <3>1. HoldOf(u) /\ PushLock \in GoodWord /\ ~PushLock.M
            BY WordFields DEF HoldInv, TypeInv
        <3>2. QED
            BY <2>2, <3>1 DEF HoldOf, Only
    <2>3. QED
        BY <2>1, <2>2
<1>11. PushLock'.rest = Cardinality(SharedOwners') /\ PushLock'.rest # 0
    <2>1. PushLock.rest \in Nat
        BY <1>1, FS_CardinalityType
    <2>2. PushLock'.rest # 0
        BY <2>1
    <2>3. QED
        BY <1>1, <1>3, <2>2
<1>12. QED
    BY <1>3, <1>7, <1>9, <1>10, <1>11 DEF HoldInv

\* The last one leaves.
LEMMA HoldLeft ==
    ASSUME TypeInv, TypeInv', CallInv, HoldInv, NEW t \in Threads, Only(t),
           \A u \in Threads \ {t} : ~Holds(u),
           pc'[t] \in {"idle", "TryToWake", "Wake", "Signal"}, mode'[t] = "none",
           ~PushLock'.L, ~PushLock'.M
    PROVE  HoldInv'
<1>1. \A u \in Threads : mode'[u] = "none" /\ ~Holds(u)'
    BY DEF Only, Holds
<1>2. SharedOwners' = {}
    BY <1>1 DEF SharedOwners
<1>3. IsFiniteSet(SharedOwners') /\ Cardinality(SharedOwners') = 0
    BY <1>2, FS_EmptySet
<1>4. ASSUME NEW u \in Threads PROVE HoldOf(u)'
    <2>1. CASE u = t
        BY <2>1 DEF HoldOf
    <2>2. CASE u # t
        <3>1. CallOf(u) /\ ~Holds(u)
            BY <2>2 DEF CallInv
        <3>2. pc[u] \notin {"Release", "ShareWalk", "ShareDecrement", "ReleaseLast"}
            BY <3>1 DEF CallOf, Holds
        <3>3. QED
            BY <2>2, <3>2 DEF HoldOf, Only
    <2>3. QED
        BY <2>1, <2>2
<1>5. \A u \in Threads : pc'[u] # "ReleaseLast"
    BY <1>1 DEF Holds
<1>6. ~PushLock'.W => PushLock'.rest = 0
    BY WordFields DEF TypeInv
<1>7. QED
    BY <1>1, <1>2, <1>3, <1>4, <1>5, <1>6 DEF HoldInv

\* A shared owner less, on a word without waiters.
LEMMA HoldFewer ==
    ASSUME TypeInv, TypeInv', HoldInv, NEW t \in Threads, Only(t), mode[t] = "S",
           pc'[t] = "idle", mode'[t] = "none",
           ~PushLock.W, PushLock.rest > 1,
           PushLock'.L, ~PushLock'.W, ~PushLock'.M, PushLock'.rest = PushLock.rest - 1
    PROVE  HoldInv'
<1>1. /\ IsFiniteSet(SharedOwners) /\ PushLock.rest = Cardinality(SharedOwners)
      /\ t \in SharedOwners
    BY DEF HoldInv, SharedOwners
<1>2. SharedOwners' = SharedOwners \ {t}
    BY DEF SharedOwners, Only
<1>3. /\ IsFiniteSet(SharedOwners') /\ Cardinality(SharedOwners') = Cardinality(SharedOwners) - 1
    BY <1>1, <1>2, FS_RemoveElement
<1>4. \A u \in Threads : mode[u] # "X"
    <2>1. Holds(t)
        BY DEF Holds
    <2>2. QED
        BY <2>1 DEF HoldInv
<1>5. \A u \in Threads : mode'[u] # "X"
    BY <1>4 DEF Only
<1>6. \A u \in Threads : pc[u] # "ReleaseLast"
    BY DEF HoldInv, HoldOf
<1>7. \A u \in Threads : pc'[u] # "ReleaseLast"
    BY <1>6 DEF Only
<1>8. ASSUME NEW u \in Threads PROVE HoldOf(u)'
    <2>1. CASE u = t
        BY <2>1 DEF HoldOf
    <2>2. CASE u # t
        <3>1. HoldOf(u) /\ PushLock \in GoodWord /\ ~PushLock.M
            BY WordFields DEF HoldInv, TypeInv
        <3>2. QED
            BY <2>2, <3>1 DEF HoldOf, Only
    <2>3. QED
        BY <2>1, <2>2
<1>9. PushLock'.rest = Cardinality(SharedOwners') /\ PushLock'.rest # 0
    <2>1. PushLock.rest \in Nat
        BY <1>1, FS_CardinalityType
    <2>2. PushLock'.rest # 0
        BY <2>1
    <2>3. QED
        BY <1>1, <1>3, <2>2
<1>10. QED
    BY <1>3, <1>5, <1>7, <1>8, <1>9 DEF HoldInv

\* Who is alone in the lock.
LEMMA ExclusiveAlone ==
    ASSUME HoldInv, NEW t \in Threads, mode[t] = "X"
    PROVE  (\A u \in Threads \ {t} : ~Holds(u)) /\ ~PushLock.M /\ PushLock.L
           /\ (~PushLock.W => PushLock.rest = 0)
<1>1. (\A u \in Threads \ {t} : ~Holds(u)) /\ ~PushLock.M
    BY DEF HoldInv
<1>2. Holds(t)
    BY DEF Holds
<1>3. PushLock.L
    BY <1>2 DEF HoldInv
<1>4. SharedOwners = {}
    BY <1>1 DEF SharedOwners, Holds
<1>5. QED
    BY <1>1, <1>3, <1>4, FS_EmptySet DEF HoldInv

\* A sharer that the word says is alone is alone.
LEMMA SharedAlone ==
    ASSUME HoldInv, TypeInv, NEW t \in Threads, mode[t] = "S",
           (~PushLock.W /\ PushLock.rest <= 1) \/ (PushLock.W /\ ~PushLock.M)
    PROVE  \A u \in Threads \ {t} : ~Holds(u)
<1>1. t \in SharedOwners /\ Holds(t)
    BY DEF SharedOwners, Holds
<1>2. SharedOwners = {t}
    <2>1. CASE PushLock.W /\ ~PushLock.M
        BY <1>1, <2>1 DEF HoldInv
    <2>2. CASE ~PushLock.W /\ PushLock.rest <= 1
        <3>1. IsFiniteSet(SharedOwners) /\ Cardinality(SharedOwners) <= 1
            BY <2>2 DEF HoldInv
        <3>2. IsFiniteSet(SharedOwners \ {t}) /\ Cardinality(SharedOwners \ {t}) = Cardinality(SharedOwners) - 1
            BY <1>1, <3>1, FS_RemoveElement
        <3>3. Cardinality(SharedOwners) \in Nat /\ Cardinality(SharedOwners \ {t}) \in Nat
            BY <3>1, <3>2, FS_CardinalityType
        <3>4. Cardinality(SharedOwners \ {t}) = 0
            BY <3>1, <3>2, <3>3
        <3>5. SharedOwners \ {t} = {}
            BY <3>2, <3>4, FS_EmptySet
        <3>6. QED
            BY <1>1, <3>5
    <2>3. QED
        BY <2>1, <2>2
<1>3. ASSUME NEW u \in Threads \ {t}, Holds(u) PROVE FALSE
    <2>1. mode[u] # "X"
        BY <1>1, <1>3 DEF HoldInv
    <2>2. mode[u] # "S"
        BY <1>2 DEF SharedOwners
    <2>3. mode[u] = "none" /\ pc[u] = "ReleaseLast"
        BY <1>3, <2>1, <2>2 DEF TypeInv, Holds
    <2>4. QED
        BY <1>1, <2>3 DEF HoldInv
<1>4. QED
    BY <1>3

\* Nobody holds a lock whose lock bit is clear.
LEMMA NobodyHolds ==
    ASSUME HoldInv, TypeInv, ~PushLock.L
    PROVE  (\A u \in Threads : ~Holds(u)) /\ ~PushLock.M /\ (~PushLock.W => PushLock.rest = 0)
    BY WordFields DEF HoldInv, TypeInv

----------------------------------------------------------------------------
(* Steps that change the word and no block *)

\* Nothing is saved in the blocks unless M is set.
LEMMA NothingSaved ==
    ASSUME NEW q, NEW lo, CountInv(q, lo), ~PushLock.M, WaitBlock' = WaitBlock, ~PushLock'.M
    PROVE  CountInv(q, lo)'
    BY DEF CountInv

\* A thread that has no part in the chain gets the lock or trades its hold.
LEMMA Admission ==
    ASSUME IInv, NEW t \in Threads, pc[t] \in PlainPCs, Only(t), WaitBlock' = WaitBlock, TypeInv',
           pc'[t] = "idle", mode'[t] \in {"X", "S"}, want'[t] = "none",
           HoldInv', ~PushLock.M, ~PushLock'.M,
           PushLock'.W <=> PushLock.W, PushLock'.K <=> PushLock.K,
           PushLock.W => PushLock'.rest = PushLock.rest
    PROVE  IInv'
<1>1. PICK q, lo, hi, f, own : Witness(q, lo, hi, f, own) /\ Inv(q, lo, hi, f, own)
    BY DEF IInv
<1>2. CallInv'
    <2>1. CallOf(t)'
        BY DEF CallOf, OwnerPCs
    <2>2. QED
        BY <1>1, <2>1, CallKept DEF Inv
<1>3. pc'[t] \in PlainPCs
    BY DEF PlainPCs
<1>4. WakingInv'
    BY <1>1, <1>3, PlainOf, PlainOfNext, WakingKept DEF Inv
<1>5. CountInv(q, lo)'
    BY <1>1, NothingSaved DEF Inv, BlockInv
<1>6. ~Queued(t) /\ WalkOf(t, q, lo, hi, f)' /\ SignalOf(t, own)'
    BY <1>3, PlainOf, PlainOfNext
<1>7. BlockInv(q, lo, hi, f, own)'
    BY <1>1, <1>5, <1>6, BlockKept DEF Inv
<1>8. QED
    BY <1>1, <1>2, <1>4, <1>7, Together

\* A thread that the word admits gets the lock.
LEMMA Acquired ==
    ASSUME IInv, NEW t \in Threads, pc[t] \in PlainPCs, mode[t] = "none", NEW m \in {"X", "S"},
           Return(t, m), WaitBlock' = WaitBlock, PushLock' \in GoodWord,
           PushLock'.L, PushLock'.W <=> PushLock.W, PushLock'.K <=> PushLock.K, PushLock'.M <=> PushLock.M,
           PushLock.W => PushLock'.rest = PushLock.rest,
           ~PushLock.W => PushLock'.rest = IF m = "S" THEN PushLock.rest + 1 ELSE PushLock.rest,
           ~PushLock.L \/ (m = "S" /\ ~PushLock.W /\ PushLock.rest > 0)
    PROVE  IInv'
<1>1. TypeInv /\ CallInv /\ HoldInv /\ PushLock \in GoodWord
    BY DEF IInv, Inv, TypeInv
<1>2. TypeInv' /\ Only(t)
    BY <1>1, FreeWord DEF TypeInv, Labels, Only, Goto, Return
<1>3. pc'[t] = "idle" /\ want'[t] = "none" /\ mode'[t] = m
    BY <1>1 DEF TypeInv, Goto, Return
<1>4. ~PushLock.M
    BY <1>1, WordFields
<1>5. HoldInv'
    <2>1. CASE ~PushLock.L
        <3>1. (\A u \in Threads : ~Holds(u)) /\ (~PushLock.W => PushLock.rest = 0)
            BY <1>1, <2>1, NobodyHolds
        <3>2. ~PushLock'.W => PushLock'.rest = IF m = "S" THEN 1 ELSE 0
            BY <3>1
        <3>3. QED
            BY <1>1, <1>2, <1>3, <1>4, <3>1, <3>2, HoldAlone
    <2>2. CASE m = "S" /\ ~PushLock.W /\ PushLock.rest > 0
        <3>1. pc[t] # "ReleaseLast"
            BY DEF PlainPCs
        <3>2. QED
            BY <1>1, <1>2, <1>3, <1>4, <2>2, <3>1, HoldJoined
    <2>3. QED
        BY <2>1, <2>2
<1>6. QED
    BY <1>2, <1>3, <1>4, <1>5, Admission

\* The exclusive inlines keep the invariant.
LEMMA AcquireExclusiveStep ==
    ASSUME IInv, NEW t \in Threads, AcquireExclusive(t) \/ TryAcquireExclusive(t)
    PROVE  IInv'
<1>1. pc[t] = "idle" /\ mode[t] = "none" /\ WaitBlock' = WaitBlock /\ pc[t] \in PlainPCs
    BY DEF AcquireExclusive, TryAcquireExclusive, Calls, PlainPCs
<1>2. CASE ~PushLock.L /\ PushLock' = [PushLock EXCEPT !.L = TRUE] /\ Return(t, "X")
    <2>1. PushLock \in GoodWord
        BY DEF IInv, Inv, TypeInv
    <2>2. /\ PushLock' \in GoodWord
          /\ PushLock'.L /\ PushLock'.W = PushLock.W /\ PushLock'.K = PushLock.K
          /\ PushLock'.M = PushLock.M /\ PushLock'.rest = PushLock.rest
        BY <1>2, <2>1, WithLocked
    <2>3. QED
        BY <1>1, <1>2, <2>2, Acquired
<1>3. CASE /\ Goto(t, "ExfAcquire")
           /\ want' = [want EXCEPT ![t] = "X"]
           /\ UNCHANGED <<PushLock, mode, Old, Top, wb, first>>
    BY <1>1, <1>3, AcquireFails
<1>4. QED
    BY <1>2, <1>3 DEF AcquireExclusive, TryAcquireExclusive

\* The shared inlines keep the invariant.
LEMMA AcquireSharedStep ==
    ASSUME IInv, NEW t \in Threads, NEW try \in BOOLEAN, AcquireShared(t, try)
    PROVE  IInv'
<1>1. pc[t] = "idle" /\ mode[t] = "none" /\ WaitBlock' = WaitBlock /\ pc[t] \in PlainPCs
    BY DEF AcquireShared, Calls, PlainPCs
<1>2. CASE PushLock = Free /\ PushLock' = SharedBy(1) /\ Return(t, "S")
    <2>1. 1 \in Nat /\ 0 + 1 = 1
        OBVIOUS
    <2>2. /\ PushLock' \in GoodWord /\ PushLock'.L /\ ~PushLock'.W /\ ~PushLock'.K /\ ~PushLock'.M
          /\ PushLock'.rest = 1
        BY <1>2, <2>1, SharedWord
    <2>3. ~PushLock.L /\ ~PushLock.W /\ ~PushLock.K /\ ~PushLock.M /\ PushLock.rest = 0
        BY <1>2, FreeWord
    <2>4. PushLock'.rest = PushLock.rest + 1
        BY <2>1, <2>2, <2>3
    <2>5. QED
        BY <1>1, <1>2, <2>2, <2>3, <2>4, Acquired
<1>3. CASE /\ Goto(t, IF try THEN "ExfTry" ELSE "ExfAcquire")
           /\ want' = [want EXCEPT ![t] = "S"]
           /\ UNCHANGED <<PushLock, mode, Old, Top, wb, first>>
    <2>1. PICK l \in {"ExfAcquire", "ExfTry"} : Goto(t, l)
        BY <1>3
    <2>2. QED
        BY <1>1, <1>3, <2>1, AcquireFails
<1>4. QED
    BY <1>2, <1>3 DEF AcquireShared

\* The compare-exchange of an acquire keeps the invariant.
LEMMA AcquireCasStep ==
    ASSUME IInv, NEW t \in Threads, AcquireCas(t)
    PROVE  IInv'
<1>1. TypeInv /\ CallOf(t) /\ PushLock \in GoodWord
    BY DEF IInv, Inv, CallInv, TypeInv
<1>2. pc[t] \in {"Acquire", "Try"} /\ Admits(Old[t], want[t])
    BY DEF AcquireCas
<1>3. mode[t] = "none" /\ want[t] \in {"X", "S"} /\ pc[t] \in PlainPCs
    BY <1>1, <1>2 DEF CallOf, TypeInv, PlainPCs
<1>4. CASE /\ PushLock = Old[t]
           /\ PushLock' = Admitted(Old[t], want[t])
           /\ Return(t, want[t])
           /\ UNCHANGED WaitBlock
    <2>1. ~PushLock.L \/ (want[t] = "S" /\ ~PushLock.W /\ PushLock.rest > 0)
        BY <1>2, <1>4 DEF Admits
    <2>2. CASE want[t] = "S" /\ ~PushLock.W
        <3>1. PushLock' = [PushLock EXCEPT !.L = TRUE, !.rest = @ + 1]
            BY <1>4, <2>2 DEF Admitted
        <3>2. /\ PushLock' \in GoodWord /\ PushLock'.L /\ ~PushLock'.W /\ ~PushLock'.K /\ ~PushLock'.M
              /\ PushLock'.rest = PushLock.rest + 1
            BY <1>1, <2>2, <3>1, WithOneMore
        <3>3. ~PushLock.K /\ ~PushLock.M
            BY <1>1, <2>2, WordFields
        <3>4. QED
            BY <1>3, <1>4, <2>1, <2>2, <3>2, <3>3, Acquired
    <2>3. CASE ~(want[t] = "S" /\ ~PushLock.W)
        <3>1. PushLock' = [PushLock EXCEPT !.L = TRUE]
            BY <1>4, <2>3 DEF Admitted
        <3>2. /\ PushLock' \in GoodWord
              /\ PushLock'.L /\ PushLock'.W = PushLock.W /\ PushLock'.K = PushLock.K
              /\ PushLock'.M = PushLock.M /\ PushLock'.rest = PushLock.rest
            BY <1>1, <3>1, WithLocked
        <3>3. ~PushLock.L /\ (~PushLock.W => want[t] # "S")
            BY <2>1, <2>3
        <3>4. QED
            BY <1>3, <1>4, <3>2, <3>3, Acquired
    <2>4. QED
        BY <2>2, <2>3
<1>5. CASE /\ pc[t] = "Acquire" /\ Backoff(t)
           /\ UNCHANGED <<PushLock, WaitBlock, mode, want, Top, wb, first>>
    BY <1>5, BackoffStep
<1>6. CASE pc[t] = "Try" /\ CasLost(t, Old) /\ UNCHANGED Top
    BY <1>6, OldAgainPlain
<1>7. QED
    BY <1>4, <1>5, <1>6 DEF AcquireCas

\* Conversion: the owner is alone before and after.
LEMMA Converted ==
    ASSUME IInv, NEW t \in Threads, pc[t] = "idle", NEW m \in {"X", "S"}, Return(t, m),
           \A u \in Threads \ {t} : ~Holds(u),
           WaitBlock' = WaitBlock, PushLock' \in GoodWord,
           PushLock'.L, PushLock'.W <=> PushLock.W, PushLock'.K <=> PushLock.K,
           ~PushLock.M, ~PushLock'.M,
           PushLock.W => PushLock'.rest = PushLock.rest,
           ~PushLock.W => PushLock'.rest = IF m = "S" THEN 1 ELSE 0
    PROVE  IInv'
<1>1. TypeInv /\ CallInv /\ HoldInv
    BY DEF IInv, Inv
<1>2. TypeInv' /\ Only(t)
    BY <1>1, FreeWord DEF TypeInv, Labels, Only, Goto, Return
<1>3. pc'[t] = "idle" /\ want'[t] = "none" /\ mode'[t] = m
    BY <1>1 DEF TypeInv, Goto, Return
<1>4. HoldInv'
    BY <1>1, <1>2, <1>3, HoldAlone
<1>5. pc[t] \in PlainPCs
    BY DEF PlainPCs
<1>6. QED
    BY <1>2, <1>3, <1>4, <1>5, Admission

\* The conversions keep the invariant.
LEMMA ConvertStep ==
    ASSUME IInv, NEW t \in Threads, Convert(t)
    PROVE  IInv'
<1>1. TypeInv /\ HoldInv /\ PushLock \in GoodWord
    BY DEF IInv, Inv, TypeInv
<1>2. 1 \in Nat
    OBVIOUS
<1>3. CASE ConvertToShared(t)
    <2>1. /\ pc[t] = "idle" /\ mode[t] = "X" /\ Return(t, "S") /\ WaitBlock' = WaitBlock
          /\ PushLock' = IF PushLock.W THEN PushLock ELSE SharedBy(1)
        BY <1>3 DEF ConvertToShared, Calls
    <2>2. (\A u \in Threads \ {t} : ~Holds(u)) /\ ~PushLock.M /\ PushLock.L
        BY <1>1, <2>1, ExclusiveAlone
    <2>3. CASE PushLock.W
        BY <1>1, <2>1, <2>2, <2>3, Converted
    <2>4. CASE ~PushLock.W
        <3>1. ~PushLock.K
            BY <1>1, <2>4, WordFields
        <3>2. /\ PushLock' \in GoodWord /\ PushLock'.L /\ ~PushLock'.W /\ ~PushLock'.K /\ ~PushLock'.M
              /\ PushLock'.rest = 1
            BY <1>2, <2>1, <2>4, SharedWord
        <3>3. QED
            BY <2>1, <2>2, <2>4, <3>1, <3>2, Converted
    <2>5. QED
        BY <2>3, <2>4
<1>4. CASE TryConvertToExclusive(t)
    <2>1. /\ pc[t] = "idle" /\ mode[t] = "S" /\ Return(t, "X") /\ WaitBlock' = WaitBlock
          /\ PushLock = SharedBy(1) /\ PushLock' = LockOnly
        BY <1>4 DEF TryConvertToExclusive, Calls
    <2>2. ~PushLock.W /\ ~PushLock.K /\ ~PushLock.M /\ PushLock.rest = 1
        BY <1>2, <2>1, SharedWord
    <2>3. /\ PushLock' \in GoodWord /\ PushLock'.L /\ ~PushLock'.W /\ ~PushLock'.K /\ ~PushLock'.M
          /\ PushLock'.rest = 0
        BY <2>1, LockedWord
    <2>4. PushLock.rest <= 1
        BY <2>2
    <2>5. \A u \in Threads \ {t} : ~Holds(u)
        BY <1>1, <2>1, <2>2, <2>4, SharedAlone
    <2>6. QED
        BY <2>1, <2>2, <2>3, <2>5, Converted
<1>5. QED
    BY <1>3, <1>4 DEF Convert

\* The owner of the waking bit, or who has signalled, returns.
LEMMA OwnerBack ==
    ASSUME TypeInv, NEW t \in Threads, OwnerReturns(t), mode[t] = "none",
           PushLock' \in GoodWord, WaitBlock' \in [Threads -> BlockType]
    PROVE  /\ TypeInv' /\ Only(t) /\ mode'[t] = "none" /\ want'[t] = want[t]
           /\ want[t] = "none" => pc'[t] = "idle"
           /\ want[t] # "none" => pc'[t] = "InitGate"
<1>1. CASE /\ want[t] # "none"
           /\ Goto(t, "InitGate")
           /\ Top' = [Top EXCEPT ![t] = Free]
           /\ wb' = [wb EXCEPT ![t] = NULL]
           /\ first' = [first EXCEPT ![t] = NULL]
           /\ UNCHANGED <<mode, want, Old>>
    <2>1. TypeInv' /\ Only(t)
        BY <1>1, FreeWord DEF TypeInv, Labels, Only, Goto
    <2>2. QED
        BY <1>1, <2>1 DEF TypeInv, Goto
<1>2. CASE want[t] = "none" /\ Return(t, "none")
    <2>1. TypeInv' /\ Only(t)
        BY <1>2, FreeWord DEF TypeInv, Labels, Only, Goto, Return
    <2>2. QED
        BY <1>2, <2>1 DEF TypeInv, Goto, Return
<1>3. QED
    BY <1>1, <1>2 DEF OwnerReturns

\* The owner of the waking bit clears it and changes nothing else.
LEMMA OwnerLeaves ==
    ASSUME IInv, NEW t \in Threads, pc[t] \in OwnerPCs, OwnerReturns(t), WaitBlock' = WaitBlock,
           PushLock' \in GoodWord, ~PushLock'.K,
           PushLock'.L <=> PushLock.L, PushLock'.W <=> PushLock.W, PushLock'.M <=> PushLock.M,
           PushLock'.rest = PushLock.rest
    PROVE  IInv'
<1>1. PICK q, lo, hi, f, own : Witness(q, lo, hi, f, own) /\ Inv(q, lo, hi, f, own)
    BY DEF IInv
<1>2. TypeInv /\ CallOf(t) /\ mode[t] = "none" /\ WaitBlock' \in [Threads -> BlockType]
    BY <1>1 DEF Inv, CallInv, CallOf, TypeInv
<1>3. /\ TypeInv' /\ Only(t) /\ mode'[t] = "none" /\ want'[t] = want[t]
      /\ want[t] = "none" => pc'[t] = "idle"
      /\ want[t] # "none" => pc'[t] = "InitGate"
    BY <1>2, OwnerBack
<1>4. pc[t] # "ReleaseLast" /\ pc'[t] # "ReleaseLast" /\ pc'[t] \notin OwnerPCs
    BY <1>3 DEF OwnerPCs
<1>5. CallInv'
    <2>1. CallOf(t)'
        BY <1>3 DEF CallOf, OwnerPCs
    <2>2. QED
        BY <1>1, <1>3, <2>1, CallKept DEF Inv
<1>6. HoldInv'
    <2>1. HoldOf(t)' /\ (Holds(t)' <=> Holds(t))
        BY <1>2, <1>3, <1>4 DEF HoldOf, Holds
    <2>2. QED
        BY <1>1, <1>2, <1>3, <1>4, <2>1, HoldKept DEF Inv
<1>7. WakingInv'
    BY <1>1, <1>3, <1>4, WakingGiven DEF Inv
<1>8. BlockInv(q, lo, hi, f, own)'
    <2>1. CountInv(q, lo)'
        BY <1>1, <1>2, <1>3, CountKept DEF Inv, BlockInv
    <2>2. WalkOf(t, q, lo, hi, f)' /\ SignalOf(t, own)'
        BY <1>3 DEF WalkOf, SignalOf, OwnerPCs
    <2>3. Queued(t) => /\ Queued(t)'
                       /\ pc'[t] = "GateWait" <=> pc[t] = "GateWait"
                       /\ pc'[t] = "Spin" => pc[t] = "Spin"
        BY <1>3 DEF Queued, OwnerPCs
    <2>4. QED
        BY <1>1, <1>3, <2>1, <2>2, <2>3, BlockKept DEF Inv
<1>9. QED
    BY <1>1, <1>3, <1>5, <1>6, <1>7, <1>8, Together

\* ExfWakePushLock on a held lock keeps the invariant.
LEMMA WakeLockedStep ==
    ASSUME IInv, NEW t \in Threads, WakeLocked(t)
    PROVE  IInv'
<1>1. TypeInv /\ PushLock \in GoodWord /\ pc[t] = "Wake" /\ pc[t] \in OwnerPCs
    BY DEF IInv, Inv, TypeInv, WakeLocked, OwnerPCs
<1>2. CASE PushLock = Top[t] /\ PushLock' = [Top[t] EXCEPT !.K = FALSE] /\ UNCHANGED WaitBlock /\ OwnerReturns(t)
    <2>1. /\ PushLock' \in GoodWord
          /\ PushLock'.L = PushLock.L /\ PushLock'.W = PushLock.W /\ ~PushLock'.K
          /\ PushLock'.M = PushLock.M /\ PushLock'.rest = PushLock.rest
        BY <1>1, <1>2, WithoutWaking
    <2>2. QED
        BY <1>1, <1>2, <2>1, OwnerLeaves
<1>3. CASE CasLost(t, Top) /\ UNCHANGED Old
    <2>1. PICK q, lo, hi, f, own : Witness(q, lo, hi, f, own) /\ Inv(q, lo, hi, f, own)
        BY DEF IInv
    <2>2. TypeInv' /\ Only(t) /\ PushLock' = PushLock /\ WaitBlock' = WaitBlock
        BY <1>1, <1>3 DEF TypeInv, Only, CasLost
    <2>3. mode'[t] = mode[t] /\ want'[t] = want[t] /\ Top'[t] = PushLock /\ pc'[t] = "Wake"
        BY <1>1, <1>3 DEF TypeInv, CasLost
    <2>4. QED
        BY <1>1, <2>1, <2>2, <2>3, TopAgain
<1>4. QED
    BY <1>2, <1>3 DEF WakeLocked, OwnerCas

\* An owner of the waking bit that starts over keeps the invariant.
LEMMA StartOverStep ==
    ASSUME IInv, NEW t \in Threads,
           \/ pc[t] = "OptimizeCas" /\ StartOver(t, "Optimize")
           \/ pc[t] = "WakeTail" /\ StartOver(t, "Wake"),
           UNCHANGED <<PushLock, WaitBlock, mode, want, Old>>
    PROVE  IInv'
<1>1. PICK q, lo, hi, f, own : Witness(q, lo, hi, f, own) /\ Inv(q, lo, hi, f, own)
    BY DEF IInv
<1>2. TypeInv
    BY <1>1 DEF Inv
<1>3. TypeInv' /\ Only(t)
    BY <1>2 DEF TypeInv, Labels, Only, Goto, StartOver
<1>4. /\ Top'[t] = PushLock
      /\ (pc[t] = "OptimizeCas" /\ pc'[t] = "Optimize") \/ (pc[t] = "WakeTail" /\ pc'[t] = "Wake")
    BY <1>2 DEF TypeInv, Goto, StartOver
<1>5. QED
    BY <1>1, <1>3, <1>4, TopAgain

\* The end of ExpOptimizePushLockList keeps the invariant.
LEMMA OptimizeCasStep ==
    ASSUME IInv, NEW t \in Threads, OptimizeCas(t)
    PROVE  IInv'
<1>1. PushLock \in GoodWord /\ pc[t] = "OptimizeCas" /\ pc[t] \in OwnerPCs /\ UNCHANGED WaitBlock
    BY DEF IInv, Inv, TypeInv, OptimizeCas, OwnerPCs
<1>2. CASE PushLock = Top[t] /\ PushLock' = [Top[t] EXCEPT !.K = FALSE] /\ OwnerReturns(t)
    <2>1. /\ PushLock' \in GoodWord
          /\ PushLock'.L = PushLock.L /\ PushLock'.W = PushLock.W /\ ~PushLock'.K
          /\ PushLock'.M = PushLock.M /\ PushLock'.rest = PushLock.rest
        BY <1>1, <1>2, WithoutWaking
    <2>2. QED
        BY <1>1, <1>2, <2>1, OwnerLeaves
<1>3. CASE StartOver(t, "Optimize") /\ UNCHANGED <<PushLock, mode, want, Old>>
    BY <1>1, <1>3, StartOverStep
<1>4. QED
    BY <1>2, <1>3 DEF OptimizeCas

\* The waking bit cleared for one waiter taken off: the invariant is kept.
LEMMA WakeAndStep ==
    ASSUME IInv, NEW t \in Threads, WakeAnd(t)
    PROVE  IInv'
<1>1. PICK q, lo, hi, f, own : Witness(q, lo, hi, f, own) /\ Inv(q, lo, hi, f, own)
    BY DEF IInv
<1>2. /\ pc[t] = "WakeAnd" /\ pc[t] \in OwnerPCs /\ PushLock' = [PushLock EXCEPT !.K = FALSE]
      /\ WaitBlock' = WaitBlock /\ mode' = mode /\ want' = want /\ wb' = wb
    BY DEF WakeAnd, OwnerPCs
<1>3. TypeInv /\ CallOf(t) /\ SignalOf(t, own) /\ PushLock \in GoodWord
    BY <1>1 DEF Inv, CallInv, BlockInv, TypeInv
<1>4. /\ PushLock' \in GoodWord
      /\ PushLock'.L = PushLock.L /\ PushLock'.W = PushLock.W /\ ~PushLock'.K
      /\ PushLock'.M = PushLock.M /\ PushLock'.rest = PushLock.rest
    BY <1>2, <1>3, WithoutWaking
<1>5. TypeInv' /\ Only(t)
    BY <1>2, <1>3, <1>4, FreeWord DEF TypeInv, Labels, Only, Goto, BeginSignal, WakeAnd
<1>6. pc'[t] = "Signal" /\ mode[t] = "none" /\ pc'[t] \notin OwnerPCs
    BY <1>2, <1>3 DEF TypeInv, Goto, BeginSignal, WakeAnd, CallOf, OwnerPCs
<1>7. CallInv'
    <2>1. CallOf(t)'
        BY <1>2, <1>3, <1>6 DEF CallOf, OwnerPCs
    <2>2. QED
        BY <1>1, <1>5, <2>1, CallKept DEF Inv
<1>8. HoldInv'
    <2>1. HoldOf(t)' /\ (Holds(t)' <=> Holds(t)) /\ pc'[t] # "ReleaseLast"
        BY <1>2, <1>6 DEF HoldOf, Holds
    <2>2. QED
        BY <1>1, <1>2, <1>4, <1>5, <2>1, HoldKept DEF Inv
<1>9. WakingInv'
    BY <1>1, <1>2, <1>4, <1>5, <1>6, WakingGiven DEF Inv
<1>10. BlockInv(q, lo, hi, f, own)'
    <2>1. CountInv(q, lo)'
        BY <1>1, <1>2, <1>4, <1>5, CountKept DEF Inv, BlockInv
    <2>2. WalkOf(t, q, lo, hi, f)' /\ SignalOf(t, own)'
        BY <1>2, <1>3, <1>6 DEF WalkOf, SignalOf, OwnerPCs
    <2>3. Queued(t) => /\ Queued(t)'
                       /\ pc'[t] = "GateWait" <=> pc[t] = "GateWait"
                       /\ pc'[t] = "Spin" => pc[t] = "Spin"
        BY <1>2, <1>6 DEF Queued, OwnerPCs
    <2>4. QED
        BY <1>1, <1>2, <1>4, <1>5, <2>1, <2>2, <2>3, BlockKept DEF Inv
<1>11. QED
    BY <1>1, <1>5, <1>7, <1>8, <1>9, <1>10, Together

\* A thread that sets the waking bit is its owner, with the word it wrote.
LEMMA WalkFromHead ==
    ASSUME NEW q, NEW lo, NEW hi, NEW f, NEW own, Witness(q, lo, hi, f, own), Inv(q, lo, hi, f, own),
           NEW t \in Threads, PushLock.W, WaitBlock' = WaitBlock, pc'[t] = "Wake",
           Top'[t].rest = PushLock.rest
    PROVE  WalkOf(t, q, lo, hi, f)'
<1>1. hi \in f..hi
    BY Indices
<1>2. q[hi] = PushLock.rest /\ WaitBlock[q[hi]].Previous = NULL
    BY DEF Inv, BlockInv, ChainInv
<1>3. q[hi] = Top'[t].rest /\ WaitBlock'[q[hi]].Previous = NULL
    BY <1>2
<1>4. QED
    BY <1>1, <1>3 DEF WalkOf

\* The compare-exchange that claims the waking bit keeps the invariant.
LEMMA TryToWakeCasStep ==
    ASSUME IInv, NEW t \in Threads, TryToWakeCas(t)
    PROVE  IInv'
<1>1. PICK q, lo, hi, f, own : Witness(q, lo, hi, f, own) /\ Inv(q, lo, hi, f, own)
    BY DEF IInv
<1>2. TypeInv /\ CallOf(t) /\ Top[t] \in GoodWord
    BY <1>1 DEF Inv, CallInv, TypeInv
<1>3. pc[t] = "TryToWakeCas" /\ WaitBlock' = WaitBlock
    BY DEF TryToWakeCas
<1>4. /\ mode[t] = "none" /\ want[t] = "none" /\ pc[t] \in PlainPCs
      /\ Top[t].W /\ Top[t].K /\ ~Top[t].L /\ ~Top[t].M
    BY <1>2, <1>3, WordFields DEF CallOf, PlainPCs
<1>5. CASE Return(t, "none") /\ UNCHANGED PushLock
    BY <1>3, <1>4, <1>5, ReturnStep
<1>6. CASE PushLock = [Top[t] EXCEPT !.K = FALSE] /\ PushLock' = Top[t] /\ Goto(t, "Wake") /\ UNCHANGED <<mode, locals>>
    <2>1. ~PushLock.L /\ PushLock.W /\ ~PushLock.K /\ ~PushLock.M /\ PushLock.rest = Top[t].rest
        BY <1>2, <1>4, <1>6, WithoutWaking
    <2>2. ~PushLock'.L /\ PushLock'.W /\ PushLock'.K /\ ~PushLock'.M /\ PushLock'.rest = PushLock.rest
        BY <1>4, <1>6, <2>1
    <2>3. TypeInv' /\ Only(t)
        BY <1>2, <1>3, <1>6 DEF TypeInv, Labels, Only, Goto, locals
    <2>4. /\ pc'[t] = "Wake" /\ mode'[t] = "none" /\ want'[t] = "none" /\ Top'[t] = Top[t]
          /\ pc'[t] \in OwnerPCs
        BY <1>2, <1>4, <1>6 DEF TypeInv, Goto, locals, OwnerPCs
    <2>5. CallInv'
        <3>1. CallOf(t)'
            BY <2>4 DEF CallOf
        <3>2. QED
            BY <1>1, <2>3, <3>1, CallKept DEF Inv
    <2>6. HoldInv'
        <3>1. HoldOf(t)' /\ (Holds(t)' <=> Holds(t)) /\ pc'[t] # "ReleaseLast"
            BY <1>3, <1>4, <2>4 DEF HoldOf, Holds
        <3>2. QED
            BY <1>1, <1>4, <2>1, <2>2, <2>3, <2>4, <3>1, HoldKept DEF Inv
    <2>7. WakingInv'
        <3>1. WakingOf(t)'
            BY <1>4, <2>2, <2>4 DEF WakingOf
        <3>2. QED
            BY <1>1, <2>1, <2>2, <2>3, <2>4, <3>1, WakingTaken DEF Inv
    <2>8. BlockInv(q, lo, hi, f, own)'
        <3>1. CountInv(q, lo)'
            BY <1>1, <1>3, <2>1, <2>2, NothingSaved DEF Inv, BlockInv
        <3>2. WalkOf(t, q, lo, hi, f)'
            BY <1>1, <1>3, <2>1, <2>4, WalkFromHead
        <3>3. SignalOf(t, own)'
            BY <2>4 DEF SignalOf
        <3>4. ~Queued(t)
            BY <1>4, PlainOf
        <3>5. QED
            BY <1>1, <1>3, <2>1, <2>2, <2>3, <3>1, <3>2, <3>3, <3>4, BlockKept DEF Inv
    <2>9. QED
        BY <1>1, <2>3, <2>5, <2>6, <2>7, <2>8, Together
<1>7. QED
    BY <1>5, <1>6 DEF TryToWakeCas

----------------------------------------------------------------------------
(* Releases *)

\* The last owner gives the lock up; with it may come the duty to wake.
LEMMA Left ==
    ASSUME IInv, NEW t \in Threads, TypeInv', Only(t), WaitBlock' = WaitBlock,
           pc[t] \in {"idle", "ReleaseX", "Release", "ReleaseLast"}, want[t] = "none",
           \A u \in Threads \ {t} : ~Holds(u),
           PushLock.M => pc[t] = "ReleaseLast" /\ mode[t] = "none",
           mode'[t] = "none", want'[t] = "none",
           ~PushLock'.L, ~PushLock'.M, PushLock'.W <=> PushLock.W,
           PushLock.W => PushLock'.rest = PushLock.rest,
           \/ pc'[t] \in {"idle", "TryToWake"} /\ (PushLock'.K <=> PushLock.K)
           \/ pc'[t] = "Wake" /\ ~PushLock.K /\ PushLock'.K /\ Top'[t] = PushLock'
    PROVE  IInv'
<1>1. PICK q, lo, hi, f, own : Witness(q, lo, hi, f, own) /\ Inv(q, lo, hi, f, own)
    BY DEF IInv
<1>2. CallInv'
    <2>1. CallOf(t)'
        BY DEF CallOf, OwnerPCs
    <2>2. QED
        BY <1>1, <2>1, CallKept DEF Inv
<1>3. HoldInv'
    BY <1>1, HoldLeft DEF Inv
<1>4. pc[t] \notin OwnerPCs /\ ~Queued(t)
    BY DEF OwnerPCs, Queued
<1>5. CountInv(q, lo)'
    <2>1. CountInv(q, lo) /\ TypeInv /\ HoldInv
        BY <1>1 DEF Inv, BlockInv
    <2>2. CASE ~PushLock.M
        BY <2>1, <2>2, NothingSaved
    <2>3. CASE PushLock.M
        <3>1. SharedOwners = {}
            BY <2>3 DEF SharedOwners, Holds
        <3>2. Cardinality(SharedOwners) = 0
            BY <3>1, FS_EmptySet
        <3>3. \A b \in Threads : WaitBlock[b].ShareCount = 0
            BY <2>1, <2>3, <3>2 DEF CountInv
        <3>4. QED
            BY <3>3 DEF CountInv
    <2>4. QED
        BY <2>2, <2>3
<1>6. SignalOf(t, own)'
    BY DEF SignalOf
<1>7. CASE pc'[t] \in {"idle", "TryToWake"} /\ (PushLock'.K <=> PushLock.K)
    <2>1. pc'[t] \in PlainPCs
        BY <1>7 DEF PlainPCs
    <2>2. WakingOf(t)' /\ pc'[t] \notin OwnerPCs /\ WalkOf(t, q, lo, hi, f)'
        BY <2>1, PlainOfNext
    <2>3. WakingInv'
        BY <1>1, <1>4, <1>7, <2>2, WakingKept DEF Inv
    <2>4. BlockInv(q, lo, hi, f, own)'
        BY <1>1, <1>4, <1>5, <1>6, <2>2, BlockKept DEF Inv
    <2>5. QED
        BY <1>1, <1>2, <1>3, <2>3, <2>4, Together
<1>8. CASE pc'[t] = "Wake" /\ ~PushLock.K /\ PushLock'.K /\ Top'[t] = PushLock'
    <2>1. PushLock'.W /\ PushLock.W /\ PushLock' \in GoodWord
        BY <1>8, WordFields DEF TypeInv
    <2>2. WakingInv'
        <3>1. WakingOf(t)' /\ pc'[t] \in OwnerPCs
            BY <1>8, <2>1 DEF WakingOf, OwnerPCs
        <3>2. QED
            BY <1>1, <1>8, <3>1, WakingTaken DEF Inv
    <2>3. WalkOf(t, q, lo, hi, f)'
        BY <1>1, <1>8, <2>1, WalkFromHead
    <2>4. BlockInv(q, lo, hi, f, own)'
        BY <1>1, <1>4, <1>5, <1>6, <2>3, BlockKept DEF Inv
    <2>5. QED
        BY <1>1, <1>2, <1>3, <2>2, <2>4, Together
<1>9. QED
    BY <1>7, <1>8

\* The exclusive release inline keeps the invariant.
LEMMA ReleaseExclusiveStep ==
    ASSUME IInv, NEW t \in Threads, ReleaseExclusive(t)
    PROVE  IInv'
<1>1. TypeInv /\ HoldInv /\ CallOf(t) /\ PushLock \in GoodWord
    BY DEF IInv, Inv, CallInv, TypeInv
<1>2. /\ pc[t] = "idle" /\ mode[t] = "X" /\ WaitBlock' = WaitBlock
      /\ PushLock' = [PushLock EXCEPT !.L = FALSE]
    BY DEF ReleaseExclusive, Calls
<1>3. (\A u \in Threads \ {t} : ~Holds(u)) /\ ~PushLock.M /\ (~PushLock.W => PushLock.rest = 0)
    BY <1>1, <1>2, ExclusiveAlone
<1>4. want[t] = "none"
    BY <1>1, <1>2 DEF CallOf
<1>5. /\ PushLock' \in GoodWord
      /\ ~PushLock'.L /\ PushLock'.W = PushLock.W /\ PushLock'.K = PushLock.K
      /\ ~PushLock'.M /\ PushLock'.rest = PushLock.rest
    BY <1>1, <1>2, <1>3, WithoutLocked
<1>6. CASE Goto(t, "TryToWake") /\ mode' = [mode EXCEPT ![t] = "none"] /\ UNCHANGED locals
    <2>1. TypeInv' /\ Only(t)
        BY <1>1, <1>2, <1>5, <1>6 DEF TypeInv, Labels, Only, Goto, locals
    <2>2. pc'[t] = "TryToWake" /\ mode'[t] = "none" /\ want'[t] = "none"
        BY <1>1, <1>4, <1>6 DEF TypeInv, Goto, locals
    <2>3. QED
        BY <1>2, <1>3, <1>4, <1>5, <2>1, <2>2, Left
<1>7. CASE Return(t, "none")
    <2>1. TypeInv' /\ Only(t)
        BY <1>1, <1>2, <1>5, <1>7, FreeWord DEF TypeInv, Labels, Only, Goto, Return
    <2>2. pc'[t] = "idle" /\ mode'[t] = "none" /\ want'[t] = "none"
        BY <1>1, <1>7 DEF TypeInv, Goto, Return
    <2>3. QED
        BY <1>2, <1>3, <1>4, <1>5, <2>1, <2>2, Left
<1>8. QED
    BY <1>6, <1>7 DEF ReleaseExclusive

\* The compare-exchange of a release, by a sole owner.
LEMMA ReleaseCasLast ==
    ASSUME IInv, NEW t \in Threads, pc[t] \in {"ReleaseX", "Release", "ReleaseLast"}, want[t] = "none",
           NEW n \in GoodWord, ReleaseCas(t, n),
           PushLock = Old[t] =>
              /\ \A u \in Threads \ {t} : ~Holds(u)
              /\ PushLock.M => pc[t] = "ReleaseLast" /\ mode[t] = "none"
              /\ ~n.L /\ ~n.M /\ (n.W <=> PushLock.W) /\ (PushLock.K => n.K)
              /\ PushLock.W => n.rest = PushLock.rest
    PROVE  IInv'
<1>1. TypeInv
    BY DEF IInv, Inv
<1>2. CASE CasLost(t, Old) /\ UNCHANGED Top
    BY <1>2, OldLost
<1>3. CASE /\ PushLock = Old[t] /\ PushLock' = n /\ UNCHANGED WaitBlock /\ n.K /\ ~Old[t].K
           /\ Goto(t, "Wake")
           /\ mode' = [mode EXCEPT ![t] = "none"]
           /\ Top' = [Top EXCEPT ![t] = n]
           /\ Old' = [Old EXCEPT ![t] = Free]
           /\ wb' = [wb EXCEPT ![t] = NULL]
           /\ UNCHANGED <<want, first>>
    <2>1. TypeInv' /\ Only(t)
        BY <1>1, <1>3, FreeWord DEF TypeInv, Labels, Only, Goto
    <2>2. pc'[t] = "Wake" /\ mode'[t] = "none" /\ want'[t] = "none" /\ Top'[t] = n
        BY <1>1, <1>3 DEF TypeInv, Goto
    <2>3. QED
        BY <1>3, <2>1, <2>2, Left
<1>4. CASE PushLock = Old[t] /\ PushLock' = n /\ UNCHANGED WaitBlock /\ ~(n.K /\ ~Old[t].K) /\ Return(t, "none")
    <2>1. TypeInv' /\ Only(t)
        BY <1>1, <1>4, FreeWord DEF TypeInv, Labels, Only, Goto, Return
    <2>2. pc'[t] = "idle" /\ mode'[t] = "none" /\ want'[t] = "none"
        BY <1>1, <1>4 DEF TypeInv, Goto, Return
    <2>3. PushLock'.K <=> PushLock.K
        BY <1>4
    <2>4. QED
        BY <1>4, <2>1, <2>2, <2>3, Left
<1>5. QED
    BY <1>2, <1>3, <1>4 DEF ReleaseCas

\* ExfReleasePushLockExclusive keeps the invariant.
LEMMA ExfReleaseExclusiveStep ==
    ASSUME IInv, NEW t \in Threads, ExfReleaseExclusive(t)
    PROVE  IInv'
<1>1. TypeInv /\ HoldInv /\ CallOf(t) /\ PushLock \in GoodWord /\ Old[t] \in GoodWord
    BY DEF IInv, Inv, CallInv, TypeInv
<1>2. pc[t] = "ReleaseX" /\ mode[t] = "X" /\ want[t] = "none"
    BY <1>1 DEF ExfReleaseExclusive, CallOf
<1>3. (\A u \in Threads \ {t} : ~Holds(u)) /\ ~PushLock.M /\ (~PushLock.W => PushLock.rest = 0)
    BY <1>1, <1>2, ExclusiveAlone
<1>4. PICK n : n = [Old[t] EXCEPT !.L = FALSE, !.K = @ \/ Old[t].W]
    OBVIOUS
<1>5. ReleaseCas(t, n)
    BY <1>4 DEF ExfReleaseExclusive
<1>6. CASE PushLock = Old[t]
    <2>1. /\ n \in GoodWord
          /\ ~n.L /\ n.W = PushLock.W /\ n.K = PushLock.W /\ ~n.M /\ n.rest = PushLock.rest
        <3>1. n = [PushLock EXCEPT !.L = FALSE, !.K = @ \/ PushLock.W]
            BY <1>4, <1>6
        <3>2. QED
            BY <1>1, <1>3, <3>1, ReleasedToWake
    <2>2. PushLock.K => n.K
        BY <1>1, <2>1, WordFields
    <2>3. QED
        BY <1>2, <1>3, <1>5, <2>1, <2>2, ReleaseCasLast
<1>7. CASE PushLock # Old[t]
    <2>1. CasLost(t, Old) /\ UNCHANGED Top
        BY <1>5, <1>7 DEF ReleaseCas
    <2>2. QED
        BY <1>2, <2>1, OldLost
<1>8. QED
    BY <1>6, <1>7

\* Without waiters: one shared owner less, or a free word.
LEMMA ReleaseNoWaitersStep ==
    ASSUME IInv, NEW t \in Threads, ReleaseNoWaiters(t)
    PROVE  IInv'
<1>1. TypeInv /\ HoldInv /\ CallInv /\ CallOf(t) /\ PushLock \in GoodWord /\ Old[t] \in GoodWord
    BY DEF IInv, Inv, CallInv, TypeInv
<1>2. /\ pc[t] = "Release" /\ ~Old[t].W
      /\ ReleaseCas(t, IF Old[t].rest > 1 THEN [Old[t] EXCEPT !.rest = @ - 1] ELSE Free)
    BY DEF ReleaseNoWaiters
<1>3. mode[t] \in {"X", "S"} /\ want[t] = "none" /\ Holds(t)
    BY <1>1, <1>2 DEF CallOf, TypeInv, Holds
<1>4. CASE PushLock # Old[t]
    <2>1. CasLost(t, Old) /\ UNCHANGED Top
        BY <1>2, <1>4 DEF ReleaseCas
    <2>2. QED
        BY <1>2, <2>1, OldLost
<1>5. CASE PushLock = Old[t] /\ Old[t].rest > 1
    <2>1. ~PushLock.W /\ ~PushLock.K /\ ~PushLock.M /\ PushLock.rest > 1 /\ PushLock.rest \in Nat
        BY <1>1, <1>2, <1>5, WordFields
    <2>2. PICK n : n = [PushLock EXCEPT !.rest = @ - 1]
        OBVIOUS
    <2>3. n \in GoodWord /\ n.L /\ ~n.W /\ ~n.K /\ ~n.M /\ n.rest = PushLock.rest - 1
        BY <1>1, <2>1, <2>2, WithOneLess
    <2>4. PushLock' = n /\ UNCHANGED WaitBlock /\ Return(t, "none")
        BY <1>2, <1>5, <2>2, <2>3 DEF ReleaseCas, CasLost
    <2>5. mode[t] = "S"
        <3>1. ASSUME mode[t] = "X" PROVE FALSE
            <4>1. PushLock.rest = 0
                BY <1>1, <2>1, <3>1, ExclusiveAlone
            <4>2. QED
                BY <2>1, <4>1
        <3>2. QED
            BY <1>3, <3>1
    <2>6. TypeInv' /\ Only(t)
        BY <1>1, <2>3, <2>4, FreeWord DEF TypeInv, Labels, Only, Goto, Return
    <2>7. pc'[t] = "idle" /\ mode'[t] = "none" /\ want'[t] = "none" /\ pc'[t] \in PlainPCs
        BY <1>1, <2>4 DEF TypeInv, Goto, Return, PlainPCs
    <2>8. HoldInv'
        BY <1>1, <2>1, <2>3, <2>4, <2>5, <2>6, <2>7, HoldFewer
    <2>9. PICK q, lo, hi, f, own : Witness(q, lo, hi, f, own) /\ Inv(q, lo, hi, f, own)
        BY DEF IInv
    <2>10. CallInv'
        <3>1. CallOf(t)'
            BY <2>7 DEF CallOf, OwnerPCs
        <3>2. QED
            BY <1>1, <2>6, <3>1, CallKept
    <2>11. pc[t] \notin OwnerPCs /\ ~Queued(t)
        BY <1>2 DEF OwnerPCs, Queued
    <2>12. WakingInv'
        BY <2>1, <2>3, <2>4, <2>6, <2>7, <2>9, <2>11, PlainOfNext, WakingKept DEF Inv
    <2>13. CountInv(q, lo)'
        BY <2>1, <2>3, <2>4, <2>9, NothingSaved DEF Inv, BlockInv
    <2>14. WalkOf(t, q, lo, hi, f)' /\ SignalOf(t, own)'
        BY <2>7, PlainOfNext
    <2>15. BlockInv(q, lo, hi, f, own)'
        BY <2>1, <2>3, <2>4, <2>6, <2>9, <2>11, <2>13, <2>14, BlockKept DEF Inv
    <2>16. QED
        BY <2>6, <2>8, <2>9, <2>10, <2>12, <2>15, Together
<1>6. CASE PushLock = Old[t] /\ ~(Old[t].rest > 1)
    <2>1. ~PushLock.W /\ ~PushLock.K /\ ~PushLock.M /\ PushLock.rest \in Nat
        BY <1>1, <1>2, <1>6, WordFields
    <2>2. PushLock.rest <= 1
        BY <1>6, <2>1
    <2>3. \A u \in Threads \ {t} : ~Holds(u)
        BY <1>1, <1>3, <2>1, <2>2, ExclusiveAlone, SharedAlone
    <2>4. ReleaseCas(t, Free)
        BY <1>2, <1>6
    <2>5. QED
        BY <1>2, <1>3, <2>1, <2>3, <2>4, FreeWord, ReleaseCasLast
<1>7. QED
    BY <1>4, <1>5, <1>6

\* The release of the last owner, with waiters, keeps the invariant.
LEMMA ReleaseLastStep ==
    ASSUME IInv, NEW t \in Threads, ReleaseLast(t)
    PROVE  IInv'
<1>1. TypeInv /\ HoldInv /\ CallOf(t) /\ HoldOf(t) /\ PushLock \in GoodWord /\ Old[t] \in GoodWord
    BY DEF IInv, Inv, CallInv, HoldInv, TypeInv
<1>2. pc[t] = "ReleaseLast" /\ want[t] = "none" /\ Holds(t)
    BY <1>1 DEF ReleaseLast, CallOf, Holds
<1>3. PushLock.W /\ Old[t].W /\ (PushLock.M <=> mode[t] = "none")
    BY <1>1, <1>2 DEF HoldOf
<1>4. \A u \in Threads \ {t} : ~Holds(u)
    <2>1. CASE mode[t] = "none"
        BY <1>1, <1>2, <2>1 DEF HoldInv
    <2>2. CASE mode[t] = "X"
        BY <1>1, <2>2, ExclusiveAlone
    <2>3. CASE mode[t] = "S"
        BY <1>1, <1>3, <2>3, SharedAlone
    <2>4. QED
        BY <1>1, <2>1, <2>2, <2>3 DEF TypeInv
<1>5. PICK n : n = [Old[t] EXCEPT !.L = FALSE, !.M = FALSE, !.K = TRUE]
    OBVIOUS
<1>6. n \in GoodWord /\ ~n.L /\ n.W /\ n.K /\ ~n.M /\ n.rest = Old[t].rest
    BY <1>1, <1>3, <1>5, LastReleased
<1>7. ReleaseCas(t, n)
    BY <1>5 DEF ReleaseLast
<1>8. QED
    BY <1>2, <1>3, <1>4, <1>6, <1>7, ReleaseCasLast

----------------------------------------------------------------------------
(* Steps that change a block and leave the chain as it is *)

SameLinks(b) ==
    /\ WaitBlock'[b].Next = WaitBlock[b].Next
    /\ WaitBlock'[b].Last = WaitBlock[b].Last
    /\ WaitBlock'[b].Previous = WaitBlock[b].Previous

\* The chain is what it was if the links of its blocks are.
LEMMA ChainSame ==
    ASSUME NEW q, NEW lo, NEW hi, NEW f, NEW own, Witness(q, lo, hi, f, own), ChainInv(q, lo, hi, f),
           PushLock' = PushLock, PushLock.W => \A i \in lo..hi : SameLinks(q[i])
    PROVE  ChainInv(q, lo, hi, f)'
<1>1. SUFFICES ASSUME PushLock.W PROVE ChainInv(q, lo, hi, f)'
    BY DEF ChainInv
<1>2. lo \in Nat /\ hi \in Nat /\ f \in Nat /\ lo <= f /\ f <= hi
    BY <1>1 DEF Witness, ChainInv
<1>3. /\ hi \in lo..hi /\ lo \in lo..hi /\ f \in lo..hi
      /\ \A i \in (lo + 1)..hi : i \in lo..hi
      /\ \A i \in (f + 1)..hi : i \in lo..hi
      /\ \A i \in lo..(f - 1) : i \in lo..hi
    BY <1>2
<1>4. QED
    BY <1>1, <1>2, <1>3 DEF ChainInv, SameLinks

\* So is the place of a thread that walks it.
LEMMA WalkSame ==
    ASSUME NEW q, NEW lo, NEW hi, NEW f, NEW own, Witness(q, lo, hi, f, own), ChainInv(q, lo, hi, f),
           PushLock.W => \A i \in lo..hi : SameLinks(q[i]),
           NEW u \in Threads, WalkOf(u, q, lo, hi, f), pc[u] \in OwnerPCs => PushLock.W,
           pc'[u] = pc[u], Old'[u] = Old[u], Top'[u] = Top[u], wb'[u] = wb[u], first'[u] = first[u]
    PROVE  WalkOf(u, q, lo, hi, f)'
<1>1. CASE pc[u] \in OwnerPCs \ {"WakeAnd"}
    <2>1. lo \in Nat /\ hi \in Nat /\ f \in Nat /\ lo <= f /\ f <= hi /\ PushLock.W
        BY <1>1 DEF Witness, ChainInv
    <2>2. PICK p \in f..hi :
             /\ q[p] = Top[u].rest /\ WaitBlock[q[p]].Previous = NULL
             /\ pc[u] \in {"OptimizeWalk", "WakeWalk", "WakeTail"} => first[u] = q[p]
             /\ pc[u] \in {"OptimizeWalk", "WakeWalk"} =>
                   \E w \in f..p : /\ wb[u] = q[w]
                                   /\ \A i \in w..(p - 1) : WaitBlock[q[i]].Previous = q[i + 1]
             /\ pc[u] = "WakeTail" =>
                   /\ wb[u] = q[lo]
                   /\ \A i \in lo..(p - 1) : WaitBlock[q[i]].Previous = q[i + 1]
        BY <1>1 DEF WalkOf
    <2>3. /\ p \in lo..hi
          /\ \A i \in lo..(p - 1) : i \in lo..hi
          /\ \A w \in f..p : \A i \in w..(p - 1) : i \in lo..hi
        BY <2>1, <2>2
    <2>4. q[p] = Top'[u].rest /\ WaitBlock'[q[p]].Previous = NULL
        BY <2>1, <2>2, <2>3 DEF SameLinks
    <2>5. pc'[u] \in {"OptimizeWalk", "WakeWalk"} =>
             \E w \in f..p : /\ wb'[u] = q[w]
                             /\ \A i \in w..(p - 1) : WaitBlock'[q[i]].Previous = q[i + 1]
        <3>1. SUFFICES ASSUME pc[u] \in {"OptimizeWalk", "WakeWalk"}
                       PROVE  \E w \in f..p : /\ wb'[u] = q[w]
                                              /\ \A i \in w..(p - 1) : WaitBlock'[q[i]].Previous = q[i + 1]
            OBVIOUS
        <3>2. PICK w \in f..p : /\ wb[u] = q[w]
                                /\ \A i \in w..(p - 1) : WaitBlock[q[i]].Previous = q[i + 1]
            BY <2>2, <3>1
        <3>3. \A i \in w..(p - 1) : WaitBlock'[q[i]].Previous = q[i + 1]
            BY <2>1, <2>3, <3>2 DEF SameLinks
        <3>4. QED
            BY <3>2, <3>3
    <2>6. pc'[u] = "WakeTail" =>
             /\ wb'[u] = q[lo]
             /\ \A i \in lo..(p - 1) : WaitBlock'[q[i]].Previous = q[i + 1]
        BY <2>1, <2>2, <2>3 DEF SameLinks
    <2>7. pc'[u] \in {"OptimizeWalk", "WakeWalk", "WakeTail"} => first'[u] = q[p]
        BY <2>2
    <2>8. pc[u] \notin {"Release", "ShareWalk", "ShareDecrement"}
        BY <1>1 DEF OwnerPCs
    <2>9. QED
        BY <2>2, <2>4, <2>5, <2>6, <2>7, <2>8 DEF WalkOf
<1>2. CASE pc[u] \notin OwnerPCs \ {"WakeAnd"}
    BY <1>2 DEF WalkOf
<1>3. QED
    BY <1>1, <1>2

\* A thread does something to its own block that does not concern the links, or
\* that nobody sees because the block is in no list.
LEMMA OwnBlock ==
    ASSUME NEW q, NEW lo, NEW hi, NEW f, NEW own, Witness(q, lo, hi, f, own), Inv(q, lo, hi, f, own),
           NEW t \in Threads, pc[t] \in {"InitGate", "Spin", "GateWait"},
           pc'[t] \in {"Spin", "GateWait", "Acquire"},
           TypeInv', Only(t), PushLock' = PushLock, mode'[t] = mode[t], want'[t] = want[t],
           \A b \in Threads \ {t} : WaitBlock'[b] = WaitBlock[b],
           \/ ~OnChain(q, lo, hi, t) /\ own[t] = NULL
           \/ SameLinks(t),
           WaitBlock'[t].Spinning => WaitBlock[t].Spinning,
           WaitBlock'[t].ShareCount = WaitBlock[t].ShareCount,
           OnChain(q, lo, hi, t) => WaitBlock'[t].Exclusive = WaitBlock[t].Exclusive,
           SleepOf(t, q, lo, hi, own)'
    PROVE  IInv'
<1>1. CallOf(t) /\ TypeInv
    BY DEF Inv, CallInv
<1>2. CallInv'
    <2>1. CallOf(t)'
        BY <1>1 DEF CallOf, OwnerPCs
    <2>2. QED
        BY <2>1, CallKept DEF Inv
<1>3. pc[t] \notin OwnerPCs /\ pc'[t] \notin OwnerPCs
    BY DEF OwnerPCs
<1>4. HoldInv'
    <2>1. HoldOf(t)' /\ (Holds(t)' <=> Holds(t)) /\ pc'[t] # "ReleaseLast"
        BY DEF HoldOf, Holds
    <2>2. QED
        BY <2>1, HoldKept DEF Inv
<1>5. WakingInv'
    <2>1. WakingOf(t)'
        BY DEF WakingOf, OwnerPCs, WakePCs
    <2>2. QED
        BY <1>3, <2>1, WakingKept DEF Inv
<1>6. PushLock.W => \A i \in lo..hi : SameLinks(q[i])
    <2>1. SUFFICES ASSUME PushLock.W, NEW i \in lo..hi PROVE SameLinks(q[i])
        OBVIOUS
    <2>2. q[i] \in Threads
        BY <2>1 DEF Inv, BlockInv, ChainInv
    <2>3. OnChain(q, lo, hi, q[i])
        BY <2>1 DEF OnChain
    <2>4. QED
        BY <2>2, <2>3 DEF SameLinks
<1>7. ChainInv(q, lo, hi, f)'
    BY <1>6, ChainSame DEF Inv, BlockInv
<1>8. CountInv(q, lo)'
    <2>1. CountInv(q, lo)
        BY DEF Inv, BlockInv
    <2>2. SharedOwners' = SharedOwners
        BY DEF SharedOwners, Only
    <2>3. \A b \in Threads : WaitBlock'[b].ShareCount = WaitBlock[b].ShareCount
        OBVIOUS
    <2>4. PushLock.M => q[lo] \in Threads /\ OnChain(q, lo, hi, q[lo])
        <3>1. SUFFICES ASSUME PushLock.M PROVE q[lo] \in Threads /\ OnChain(q, lo, hi, q[lo])
            OBVIOUS
        <3>2. PushLock.W
            BY <1>1, <3>1, WordFields DEF TypeInv
        <3>3. lo \in lo..hi
            BY <3>2, Indices
        <3>4. QED
            BY <3>2, <3>3 DEF Inv, BlockInv, ChainInv, OnChain
    <2>5. PushLock.M => WaitBlock'[q[lo]].Exclusive = WaitBlock[q[lo]].Exclusive
        BY <2>4
    <2>6. QED
        BY <2>1, <2>2, <2>3, <2>4, <2>5 DEF CountInv
<1>9. ListInv(own)'
    <2>1. ListInv(own)
        BY DEF Inv, BlockInv
    <2>2. \A b \in Threads : own[b] # NULL => WaitBlock'[b].Previous = WaitBlock[b].Previous
        BY DEF SameLinks
    <2>3. QED
        BY <2>1, <2>2 DEF ListInv
<1>10. ASSUME NEW u \in Threads
       PROVE  (WalkOf(u, q, lo, hi, f) /\ SignalOf(u, own) /\ SleepOf(u, q, lo, hi, own))'
    <2>1. WalkOf(u, q, lo, hi, f) /\ SignalOf(u, own) /\ SleepOf(u, q, lo, hi, own)
        BY DEF Inv, BlockInv
    <2>2. CASE u = t
        BY <2>2 DEF WalkOf, SignalOf, OwnerPCs
    <2>3. CASE u # t
        <3>1. WalkOf(u, q, lo, hi, f)'
            <4>1. pc[u] \in OwnerPCs => PushLock.W
                BY OwnerSees
            <4>2. QED
                BY <1>6, <2>1, <2>3, <4>1, WalkSame DEF Only, Inv, BlockInv
        <3>2. SignalOf(u, own)'
            <4>1. \A b \in Threads : own[b] # NULL => WaitBlock'[b].Previous = WaitBlock[b].Previous
                BY DEF SameLinks
            <4>2. \A b \in Threads : WaitBlock'[b].Spinning => WaitBlock[b].Spinning
                OBVIOUS
            <4>3. pc[u] \in {"WakeAnd", "Signal", "SignalGate"} => wb[u] \in Threads /\ own[wb[u]] # NULL
                BY <2>1, NullIsNoThread DEF SignalOf
            <4>4. QED
                BY <2>1, <2>3, <4>1, <4>2, <4>3 DEF SignalOf, Only
        <3>3. SleepOf(u, q, lo, hi, own)'
            BY <2>1, <2>3 DEF SleepOf, OnChain, Queued, Only
        <3>4. QED
            BY <3>1, <3>2, <3>3
    <2>4. QED
        BY <2>2, <2>3
<1>11. BlockInv(q, lo, hi, f, own)'
    BY <1>7, <1>8, <1>9, <1>10 DEF BlockInv
<1>12. QED
    BY <1>2, <1>4, <1>5, <1>11, Together

\* The initialisation of a waiter's gate keeps the invariant.
LEMMA InitGateStep ==
    ASSUME IInv, NEW t \in Threads, InitGate(t)
    PROVE  IInv'
<1>1. PICK q, lo, hi, f, own : Witness(q, lo, hi, f, own) /\ Inv(q, lo, hi, f, own)
    BY DEF IInv
<1>2. TypeInv /\ SleepOf(t, q, lo, hi, own) /\ WaitBlock[t] \in BlockType
    BY <1>1 DEF Inv, BlockInv, TypeInv
<1>3. /\ pc[t] = "InitGate" /\ PushLock' = PushLock /\ mode' = mode /\ want' = want
      /\ WaitBlock' = [WaitBlock EXCEPT ![t].WakeGate = "closed"]
    BY DEF InitGate, locals
<1>4. PICK n : n = [WaitBlock[t] EXCEPT !.WakeGate = "closed"]
    OBVIOUS
<1>5. /\ n \in BlockType /\ n.Next = WaitBlock[t].Next /\ n.Last = WaitBlock[t].Last
      /\ n.Previous = WaitBlock[t].Previous /\ n.ShareCount = WaitBlock[t].ShareCount
      /\ n.Exclusive = WaitBlock[t].Exclusive /\ n.Spinning = WaitBlock[t].Spinning
      /\ n.WakeGate = "closed"
    BY <1>2, <1>4 DEF BlockType
<1>6. WaitBlock' = [WaitBlock EXCEPT ![t] = n]
    BY <1>3, <1>4
<1>7. TypeInv' /\ Only(t)
    BY <1>2, <1>3, <1>5, <1>6 DEF TypeInv, Labels, Only, Goto, InitGate, locals
<1>8. pc'[t] = "Spin" /\ WaitBlock'[t] = n /\ \A b \in Threads \ {t} : WaitBlock'[b] = WaitBlock[b]
    BY <1>2, <1>6 DEF TypeInv, Goto, InitGate
<1>9. SameLinks(t)
    BY <1>5, <1>8 DEF SameLinks
<1>10. SleepOf(t, q, lo, hi, own)'
    BY <1>2, <1>3, <1>5, <1>8 DEF SleepOf, OnChain, Queued
<1>11. QED
    BY <1>1, <1>3, <1>5, <1>7, <1>8, <1>9, <1>10, OwnBlock

\* A waiter stops spinning.
LEMMA SpinEnds ==
    ASSUME IInv, NEW t \in Threads, pc[t] = "Spin", WaitBlock[t].Spinning,
           WaitBlock' = [WaitBlock EXCEPT ![t].Spinning = FALSE],
           Goto(t, "GateWait"), UNCHANGED <<PushLock, mode, locals>>
    PROVE  IInv'
<1>1. PICK q, lo, hi, f, own : Witness(q, lo, hi, f, own) /\ Inv(q, lo, hi, f, own)
    BY DEF IInv
<1>2. TypeInv /\ SleepOf(t, q, lo, hi, own) /\ WaitBlock[t] \in BlockType
    BY <1>1 DEF Inv, BlockInv, TypeInv
<1>3. want' = want
    BY DEF locals
<1>4. PICK n : n = [WaitBlock[t] EXCEPT !.Spinning = FALSE]
    OBVIOUS
<1>5. /\ n \in BlockType /\ n.Next = WaitBlock[t].Next /\ n.Last = WaitBlock[t].Last
      /\ n.Previous = WaitBlock[t].Previous /\ n.ShareCount = WaitBlock[t].ShareCount
      /\ n.Exclusive = WaitBlock[t].Exclusive /\ ~n.Spinning
      /\ n.WakeGate = WaitBlock[t].WakeGate
    BY <1>2, <1>4 DEF BlockType
<1>6. WaitBlock' = [WaitBlock EXCEPT ![t] = n]
    BY <1>4
<1>7. TypeInv' /\ Only(t)
    <2>1. pc' \in [Threads -> Labels]
        BY <1>2 DEF TypeInv, Labels, Goto
    <2>2. WaitBlock' \in [Threads -> BlockType]
        BY <1>2, <1>5, <1>6 DEF TypeInv
    <2>3. TypeInv'
        BY <1>2, <2>1, <2>2 DEF TypeInv, locals
    <2>4. \A u \in Threads \ {t} : pc'[u] = pc[u]
        BY <1>2 DEF TypeInv, Goto
    <2>5. QED
        BY <2>3, <2>4 DEF Only, locals
<1>8. pc'[t] = "GateWait" /\ WaitBlock'[t] = n /\ \A b \in Threads \ {t} : WaitBlock'[b] = WaitBlock[b]
    BY <1>2, <1>6 DEF TypeInv, Goto
<1>9. SameLinks(t)
    BY <1>5, <1>8 DEF SameLinks
<1>10. SleepOf(t, q, lo, hi, own)'
    BY <1>2, <1>3, <1>5, <1>8 DEF SleepOf, OnChain, Queued
<1>11. QED
    BY <1>1, <1>3, <1>5, <1>7, <1>8, <1>9, <1>10, OwnBlock

\* A waiter is awake: its block is in no list any more.
LEMMA Awake ==
    ASSUME IInv, NEW t \in Threads,
           \/ pc[t] = "Spin" /\ ~WaitBlock[t].Spinning
           \/ pc[t] = "GateWait" /\ WaitBlock[t].WakeGate = "open",
           WaitBlock' = [WaitBlock EXCEPT ![t] = NoBlock],
           Goto(t, "Acquire"), UNCHANGED <<PushLock, mode, locals>>
    PROVE  IInv'
<1>1. PICK q, lo, hi, f, own : Witness(q, lo, hi, f, own) /\ Inv(q, lo, hi, f, own)
    BY DEF IInv
<1>2. TypeInv /\ SleepOf(t, q, lo, hi, own) /\ CountInv(q, lo) /\ PushLock \in GoodWord
    BY <1>1 DEF Inv, BlockInv, TypeInv
<1>3. want' = want
    BY DEF locals
<1>4. ~OnChain(q, lo, hi, t) /\ own[t] = NULL
    BY <1>2 DEF SleepOf
<1>5. 0 \in Nat
    OBVIOUS
<1>6. NoBlock \in BlockType /\ ~NoBlock.Spinning /\ NoBlock.ShareCount = 0
    BY <1>5 DEF NoBlock, BlockType
<1>7. TypeInv' /\ Only(t)
    BY <1>2, <1>6 DEF TypeInv, Labels, Only, Goto, locals
<1>8. pc'[t] = "Acquire" /\ WaitBlock'[t] = NoBlock /\ \A b \in Threads \ {t} : WaitBlock'[b] = WaitBlock[b]
    BY <1>2 DEF TypeInv, Goto
<1>9. WaitBlock[t].ShareCount = 0
    <2>1. CASE ~PushLock.M
        BY <1>2, <2>1 DEF CountInv
    <2>2. CASE PushLock.M
        <3>1. PushLock.W
            BY <1>2, <2>2, WordFields
        <3>2. lo \in lo..hi
            BY <1>1, <3>1, Indices
        <3>3. t # q[lo]
            BY <1>4, <3>1, <3>2 DEF OnChain
        <3>4. QED
            BY <1>2, <2>2, <3>3 DEF CountInv
    <2>3. QED
        BY <2>1, <2>2
<1>10. SleepOf(t, q, lo, hi, own)'
    BY <1>4 DEF SleepOf, OnChain
<1>11. QED
    BY <1>1, <1>3, <1>4, <1>6, <1>7, <1>8, <1>9, <1>10, OwnBlock

\* The end of the spin keeps the invariant.
LEMMA SpinStep ==
    ASSUME IInv, NEW t \in Threads, Spin(t)
    PROVE  IInv'
    BY SpinEnds, Awake DEF Spin

\* The return from the gate keeps the invariant.
LEMMA GateWaitStep ==
    ASSUME IInv, NEW t \in Threads, GateWait(t)
    PROVE  IInv'
    BY Awake DEF GateWait

\* A block has been signalled: it is nobody's any more, and the one before it,
\* if any, is the next.
LEMMA SignalDone ==
    ASSUME IInv, NEW t \in Threads, pc[t] \in {"Signal", "SignalGate"}, NEW n \in BlockType,
           WaitBlock' = [WaitBlock EXCEPT ![wb[t]] = n],
           n.Next = WaitBlock[wb[t]].Next, n.Last = WaitBlock[wb[t]].Last,
           n.Previous = WaitBlock[wb[t]].Previous, n.ShareCount = WaitBlock[wb[t]].ShareCount,
           n.Exclusive = WaitBlock[wb[t]].Exclusive,
           SignalNext(t, WaitBlock[wb[t]].Previous), PushLock' = PushLock
    PROVE  IInv'
<1>1. PICK q, lo, hi, f, own : Witness(q, lo, hi, f, own) /\ Inv(q, lo, hi, f, own)
    BY DEF IInv
<1>2. TypeInv /\ CallOf(t) /\ SignalOf(t, own) /\ ListInv(own) /\ PushLock \in GoodWord
    BY <1>1 DEF Inv, BlockInv, CallInv, TypeInv
<1>3. PICK b \in Threads : b = wb[t]
    BY <1>2 DEF SignalOf
<1>4. PICK prev \in Threads \cup {NULL} : prev = WaitBlock[b].Previous
    BY <1>2 DEF TypeInv, BlockType
<1>5. own[b] = t /\ own \in [Threads -> Threads \cup {NULL}] /\ own[b] # NULL
    BY <1>1, <1>2, <1>3, NullIsNoThread DEF SignalOf, Witness
<1>6. mode[t] = "none"
    BY <1>2 DEF CallOf
<1>7. WaitBlock' = [WaitBlock EXCEPT ![b] = n] /\ WaitBlock' \in [Threads -> BlockType]
    BY <1>2, <1>3 DEF TypeInv
<1>8. /\ WaitBlock'[b] = n /\ \A c \in Threads \ {b} : WaitBlock'[c] = WaitBlock[c]
      /\ \A c \in Threads : /\ SameLinks(c) /\ WaitBlock'[c].ShareCount = WaitBlock[c].ShareCount
                            /\ WaitBlock'[c].Exclusive = WaitBlock[c].Exclusive
    <2>1. WaitBlock'[b] = n /\ \A c \in Threads \ {b} : WaitBlock'[c] = WaitBlock[c]
        BY <1>2, <1>7 DEF TypeInv
    <2>2. QED
        BY <1>3, <2>1 DEF SameLinks
<1>9. /\ TypeInv' /\ Only(t) /\ mode'[t] = "none" /\ want'[t] = want[t]
      /\ prev # NULL => pc'[t] = "Signal" /\ wb'[t] = prev
      /\ prev = NULL /\ want[t] = "none" => pc'[t] = "idle"
      /\ prev = NULL /\ want[t] # "none" => pc'[t] = "InitGate"
    <2>1. CASE prev # NULL
        <3>1. wb' = [wb EXCEPT ![t] = prev] /\ Goto(t, "Signal") /\ UNCHANGED <<mode, want, Old, Top, first>>
            BY <1>3, <1>4, <2>1 DEF SignalNext
        <3>2. TypeInv' /\ Only(t)
            BY <1>2, <1>4, <1>7, <3>1 DEF TypeInv, Labels, Only, Goto
        <3>3. QED
            BY <1>2, <1>6, <2>1, <3>1, <3>2 DEF TypeInv, Goto
    <2>2. CASE prev = NULL
        <3>1. OwnerReturns(t)
            BY <1>3, <1>4, <2>2 DEF SignalNext
        <3>2. QED
            BY <1>2, <1>6, <1>7, <2>2, <3>1, OwnerBack
    <2>3. QED
        BY <2>1, <2>2
<1>10. pc[t] \notin OwnerPCs /\ pc'[t] \notin OwnerPCs /\ pc'[t] \in {"idle", "Signal", "InitGate"}
    BY <1>9 DEF OwnerPCs
<1>11. CallInv'
    <2>1. CallOf(t)'
        BY <1>9, <1>10 DEF CallOf, OwnerPCs
    <2>2. QED
        BY <1>1, <1>9, <2>1, CallKept DEF Inv
<1>12. HoldInv'
    <2>1. HoldOf(t)' /\ (Holds(t)' <=> Holds(t)) /\ pc'[t] # "ReleaseLast"
        BY <1>6, <1>9, <1>10 DEF HoldOf, Holds
    <2>2. QED
        BY <1>1, <1>2, <1>6, <1>9, <2>1, HoldKept DEF Inv
<1>13. WakingInv'
    <2>1. WakingOf(t)'
        BY <1>10 DEF WakingOf, OwnerPCs, WakePCs
    <2>2. QED
        BY <1>1, <1>9, <1>10, <2>1, WakingKept DEF Inv
<1>14. PICK own2 : own2 = [own EXCEPT ![b] = NULL]
    OBVIOUS
<1>15. /\ own2 \in [Threads -> Threads \cup {NULL}] /\ own2[b] = NULL
       /\ \A c \in Threads \ {b} : own2[c] = own[c]
    BY <1>5, <1>14
<1>16. Witness(q, lo, hi, f, own2)
    BY <1>1, <1>15 DEF Witness
<1>17. PushLock.W => \A i \in lo..hi : SameLinks(q[i])
    <2>1. PushLock.W => \A i \in lo..hi : q[i] \in Threads
        BY <1>1 DEF Inv, BlockInv, ChainInv
    <2>2. QED
        BY <1>8, <2>1
<1>18. ChainInv(q, lo, hi, f)'
    BY <1>1, <1>17, ChainSame DEF Inv, BlockInv
<1>19. CountInv(q, lo)'
    <2>1. CountInv(q, lo)
        BY <1>1 DEF Inv, BlockInv
    <2>2. SharedOwners' = SharedOwners
        BY <1>6, <1>9 DEF SharedOwners, Only
    <2>3. PushLock.M => q[lo] \in Threads
        <3>1. SUFFICES ASSUME PushLock.M PROVE q[lo] \in Threads
            OBVIOUS
        <3>2. PushLock.W
            BY <1>2, <3>1, WordFields
        <3>3. lo \in lo..hi
            BY <1>1, <3>2, Indices
        <3>4. QED
            BY <1>1, <3>2, <3>3 DEF Inv, BlockInv, ChainInv
    <2>4. QED
        BY <1>8, <2>1, <2>2, <2>3 DEF CountInv
<1>20. /\ prev # b
       /\ prev # NULL => own[prev] = t
       /\ \A c \in Threads : own2[c] # NULL => c # b /\ own[c] # NULL /\ WaitBlock[c].Previous # b
       /\ prev # NULL => \A c \in Threads : own2[c] # NULL => WaitBlock[c].Previous # prev
    <2>1. \A c \in Threads : own2[c] # NULL => c # b /\ own[c] # NULL
        BY <1>15
    <2>2. \A c \in Threads : own[c] # NULL => WaitBlock[c].Previous # b
        BY <1>2, <1>3 DEF SignalOf
    <2>3. prev # b
        BY <1>4, <1>5, <2>2
    <2>4. prev # NULL => own[prev] = t
        BY <1>2, <1>4, <1>5 DEF ListInv
    <2>5. prev # NULL => \A c \in Threads : own2[c] # NULL => WaitBlock[c].Previous # prev
        BY <1>2, <1>4, <1>5, <2>1 DEF ListInv
    <2>6. QED
        BY <2>1, <2>2, <2>3, <2>4, <2>5
<1>21. \A c \in Threads : WaitBlock'[c].Previous = WaitBlock[c].Previous /\ WaitBlock[c].Previous \in Threads \cup {NULL}
    BY <1>2, <1>8 DEF SameLinks, TypeInv, BlockType
<1>22. ListInv(own2)'
    <2>1. ASSUME NEW c \in Threads, own2[c] # NULL, WaitBlock[c].Previous # NULL
          PROVE  own2[WaitBlock[c].Previous] = own2[c]
        <3>1. own[WaitBlock[c].Previous] = own[c]
            BY <1>2, <1>20, <2>1 DEF ListInv
        <3>2. WaitBlock[c].Previous \in Threads \ {b} /\ c \in Threads \ {b}
            BY <1>20, <1>21, <2>1
        <3>3. QED
            BY <1>15, <3>1, <3>2
    <2>2. \A c, d \in Threads :
             /\ own2[c] # NULL /\ own2[d] # NULL
             /\ WaitBlock[c].Previous # NULL /\ WaitBlock[c].Previous = WaitBlock[d].Previous
             => c = d
        BY <1>2, <1>20 DEF ListInv
    <2>3. QED
        BY <1>21, <2>1, <2>2 DEF ListInv
<1>23. ASSUME NEW u \in Threads
       PROVE  (WalkOf(u, q, lo, hi, f) /\ SignalOf(u, own2) /\ SleepOf(u, q, lo, hi, own2))'
    <2>1. WalkOf(u, q, lo, hi, f) /\ SignalOf(u, own) /\ SleepOf(u, q, lo, hi, own)
        BY <1>1 DEF Inv, BlockInv
    <2>2. WalkOf(u, q, lo, hi, f)'
        <3>1. CASE u = t
            BY <1>10, <3>1 DEF WalkOf, OwnerPCs
        <3>2. CASE u # t
            <4>1. pc[u] \in OwnerPCs => PushLock.W
                BY <1>1, OwnerSees
            <4>2. QED
                BY <1>1, <1>9, <1>17, <2>1, <3>2, <4>1, WalkSame DEF Only, Inv, BlockInv
        <3>3. QED
            BY <3>1, <3>2
    <2>3. SignalOf(u, own2)'
        <3>1. CASE u = t
            <4>1. CASE prev = NULL
                BY <1>9, <3>1, <4>1 DEF SignalOf
            <4>2. CASE prev # NULL
                <5>1. prev \in Threads \ {b} /\ own2[prev] = t
                    BY <1>15, <1>20, <4>2
                <5>2. \A c \in Threads : own2[c] # NULL => WaitBlock'[c].Previous # prev
                    BY <1>20, <1>21, <4>2
                <5>3. QED
                    BY <1>9, <3>1, <4>2, <5>1, <5>2 DEF SignalOf
            <4>3. QED
                BY <4>1, <4>2
        <3>2. CASE u # t
            <4>1. SUFFICES ASSUME pc[u] \in {"WakeAnd", "Signal", "SignalGate"} PROVE SignalOf(u, own2)'
                BY <1>9, <3>2 DEF SignalOf, Only
            <4>2. wb[u] \in Threads /\ own[wb[u]] = u /\ wb[u] # b
                BY <1>5, <2>1, <3>2, <4>1 DEF SignalOf
            <4>3. own2[wb[u]] = u /\ WaitBlock'[wb[u]] = WaitBlock[wb[u]]
                BY <1>8, <1>15, <4>2
            <4>4. \A c \in Threads : own2[c] # NULL => WaitBlock'[c].Previous # wb[u]
                BY <1>20, <1>21, <2>1, <4>1 DEF SignalOf
            <4>5. wb'[u] = wb[u] /\ pc'[u] = pc[u] /\ first'[u] = first[u]
                BY <1>9, <3>2 DEF Only
            <4>6. QED
                BY <2>1, <4>2, <4>3, <4>4, <4>5 DEF SignalOf
        <3>3. QED
            BY <3>1, <3>2
    <2>4. SleepOf(u, q, lo, hi, own2)'
        <3>1. OnChain(q, lo, hi, u)' <=> OnChain(q, lo, hi, u)
            BY DEF OnChain
        <3>2. CASE u = b
            BY <1>5, <1>15, <2>1, <3>1, <3>2 DEF SleepOf
        <3>3. CASE u # b
            <4>1. own2[u] = own[u] /\ WaitBlock'[u] = WaitBlock[u]
                BY <1>8, <1>15, <3>3
            <4>2. Queued(u) => /\ Queued(u)'
                               /\ pc'[u] = "GateWait" <=> pc[u] = "GateWait"
                               /\ pc'[u] = "Spin" => pc[u] = "Spin"
                <5>1. CASE u = t
                    BY <1>9, <1>10, <5>1 DEF Queued
                <5>2. CASE u # t
                    BY <1>9, <5>2 DEF Queued, Only
                <5>3. QED
                    BY <5>1, <5>2
            <4>3. QED
                BY <2>1, <3>1, <4>1, <4>2 DEF SleepOf
        <3>4. QED
            BY <3>2, <3>3
    <2>5. QED
        BY <2>2, <2>3, <2>4
<1>24. BlockInv(q, lo, hi, f, own2)'
    BY <1>18, <1>19, <1>22, <1>23 DEF BlockInv
<1>25. QED
    BY <1>9, <1>11, <1>12, <1>13, <1>16, <1>24, Together

\* The spinning bit taken by a waker keeps the invariant.
LEMMA SignalStep ==
    ASSUME IInv, NEW t \in Threads, Signal(t)
    PROVE  IInv'
<1>1. pc[t] = "Signal" /\ PushLock' = PushLock
    BY DEF Signal
<1>2. CASE WaitBlock[wb[t]].Spinning
    <2>1. wb[t] \in Threads /\ WaitBlock[wb[t]] \in BlockType
        BY <1>1 DEF IInv, Inv, BlockInv, SignalOf, TypeInv
    <2>2. PICK n : n = [WaitBlock[wb[t]] EXCEPT !.Spinning = FALSE]
        OBVIOUS
    <2>3. /\ n \in BlockType /\ n.Next = WaitBlock[wb[t]].Next /\ n.Last = WaitBlock[wb[t]].Last
          /\ n.Previous = WaitBlock[wb[t]].Previous /\ n.ShareCount = WaitBlock[wb[t]].ShareCount
          /\ n.Exclusive = WaitBlock[wb[t]].Exclusive
        BY <2>1, <2>2 DEF BlockType
    <2>4. WaitBlock' = [WaitBlock EXCEPT ![wb[t]] = n] /\ SignalNext(t, WaitBlock[wb[t]].Previous)
        BY <1>2, <2>2 DEF Signal
    <2>5. QED
        BY <1>1, <2>3, <2>4, SignalDone
<1>3. CASE ~WaitBlock[wb[t]].Spinning
    BY <1>1, <1>3, SignalToGate DEF Signal
<1>4. QED
    BY <1>2, <1>3

\* The signal of a gate keeps the invariant.
LEMMA SignalGateStep ==
    ASSUME IInv, NEW t \in Threads, SignalGate(t)
    PROVE  IInv'
<1>1. pc[t] = "SignalGate" /\ PushLock' = PushLock
    BY DEF SignalGate
<1>2. /\ wb[t] \in Threads /\ WaitBlock[wb[t]] \in BlockType
      /\ first[t] = WaitBlock[wb[t]].Previous
    BY <1>1 DEF IInv, Inv, BlockInv, SignalOf, TypeInv
<1>3. PICK n : n = [WaitBlock[wb[t]] EXCEPT !.WakeGate = "open"]
    OBVIOUS
<1>4. /\ n \in BlockType /\ n.Next = WaitBlock[wb[t]].Next /\ n.Last = WaitBlock[wb[t]].Last
      /\ n.Previous = WaitBlock[wb[t]].Previous /\ n.ShareCount = WaitBlock[wb[t]].ShareCount
      /\ n.Exclusive = WaitBlock[wb[t]].Exclusive
    BY <1>2, <1>3 DEF BlockType
<1>5. WaitBlock' = [WaitBlock EXCEPT ![wb[t]] = n] /\ SignalNext(t, WaitBlock[wb[t]].Previous)
    BY <1>2, <1>3 DEF SignalGate
<1>6. QED
    BY <1>1, <1>4, <1>5, SignalDone

\* A shared owner counts itself out in the last block.  The last one to do so
\* holds the lock until the compare-exchange that frees it.
LEMMA HoldCountedOut ==
    ASSUME TypeInv, TypeInv', HoldInv, NEW t \in Threads, Only(t), PushLock' = PushLock, PushLock.M, PushLock.W,
           mode[t] = "S", pc[t] = "ShareDecrement", mode'[t] = "none",
           \/ pc'[t] = "idle"
           \/ pc'[t] = "ReleaseLast" /\ Cardinality(SharedOwners) <= 1 /\ Old'[t].W /\ Old'[t].M
    PROVE  HoldInv'
<1>1. /\ IsFiniteSet(SharedOwners) /\ t \in SharedOwners /\ Holds(t)
    BY DEF HoldInv, SharedOwners, Holds
<1>2. SharedOwners' = SharedOwners \ {t}
    BY DEF SharedOwners, Only
<1>3. IsFiniteSet(SharedOwners') /\ Cardinality(SharedOwners') = Cardinality(SharedOwners) - 1
    BY <1>1, <1>2, FS_RemoveElement
<1>4. \A u \in Threads : mode'[u] # "X"
    BY DEF HoldInv, Only
<1>5. \A u \in Threads \ {t} : ~(pc'[u] = "ReleaseLast" /\ mode'[u] = "none")
    BY <1>1 DEF HoldInv, Only
<1>6. \A u \in Threads : Holds(u)' => PushLock'.L
    <2>1. PushLock.L
        BY <1>1 DEF HoldInv
    <2>2. QED
        BY <2>1
<1>7. pc'[t] = "ReleaseLast" => \A u \in Threads : Holds(u)' => u = t
    <2>1. SUFFICES ASSUME Cardinality(SharedOwners) <= 1, NEW u \in Threads, Holds(u)', u # t PROVE FALSE
        OBVIOUS
    <2>2. Cardinality(SharedOwners) \in Nat /\ Cardinality(SharedOwners') \in Nat
        BY <1>1, <1>3, FS_CardinalityType
    <2>3. Cardinality(SharedOwners') = 0
        BY <1>3, <2>1, <2>2
    <2>4. SharedOwners' = {}
        BY <1>3, <2>3, FS_EmptySet
    <2>5. mode'[u] # "S"
        BY <2>1, <2>4 DEF SharedOwners
    <2>6. mode'[u] = "none"
        BY <1>4, <2>5 DEF TypeInv
    <2>7. pc'[u] = "ReleaseLast"
        BY <2>1, <2>6 DEF Holds
    <2>8. QED
        BY <1>5, <2>1, <2>6, <2>7
<1>8. \A u, w \in Threads : pc'[u] = "ReleaseLast" /\ mode'[u] = "none" /\ Holds(w)' => u = w
    BY <1>5, <1>7
<1>9. ASSUME NEW u \in Threads PROVE HoldOf(u)'
    <2>1. CASE u = t
        BY <2>1 DEF HoldOf
    <2>2. CASE u # t
        <3>1. HoldOf(u)
            BY DEF HoldInv
        <3>2. QED
            BY <2>2, <3>1 DEF HoldOf, Only
    <2>3. QED
        BY <2>1, <2>2
<1>10. QED
    BY <1>3, <1>4, <1>6, <1>8, <1>9 DEF HoldInv

\* The decrement of the saved share count keeps the invariant.
LEMMA ShareDecrementStep ==
    ASSUME IInv, NEW t \in Threads, ShareDecrement(t)
    PROVE  IInv'
<1>1. PICK q, lo, hi, f, own : Witness(q, lo, hi, f, own) /\ Inv(q, lo, hi, f, own)
    BY DEF IInv
<1>2. /\ TypeInv /\ CallOf(t) /\ HoldOf(t) /\ HoldInv /\ WalkOf(t, q, lo, hi, f) /\ CountInv(q, lo)
      /\ PushLock \in GoodWord
    BY <1>1 DEF Inv, CallInv, HoldInv, BlockInv, TypeInv
<1>3. pc[t] = "ShareDecrement" /\ PushLock' = PushLock
    BY DEF ShareDecrement
<1>4. want[t] = "none" /\ mode[t] = "S" /\ PushLock.M /\ Old[t].W /\ Old[t].M /\ wb[t] = q[lo]
    BY <1>2, <1>3 DEF CallOf, HoldOf, WalkOf
<1>5. PushLock.W
    BY <1>2, <1>4, WordFields
<1>6. lo \in lo..hi
    BY <1>1, <1>5, Indices
<1>7. PICK b \in Threads : b = q[lo]
    BY <1>1, <1>5, <1>6 DEF Inv, BlockInv, ChainInv
<1>8. /\ IsFiniteSet(SharedOwners) /\ t \in SharedOwners
      /\ WaitBlock[b].ShareCount = Cardinality(SharedOwners) /\ WaitBlock[b].Exclusive
      /\ WaitBlock[b] \in BlockType
    BY <1>2, <1>4, <1>7 DEF HoldInv, CountInv, SharedOwners, TypeInv
<1>9. /\ IsFiniteSet(SharedOwners \ {t}) /\ Cardinality(SharedOwners \ {t}) = Cardinality(SharedOwners) - 1
      /\ Cardinality(SharedOwners) \in Nat /\ Cardinality(SharedOwners \ {t}) \in Nat
    BY <1>8, FS_RemoveElement, FS_CardinalityType
<1>10. PICK n : n = [WaitBlock[b] EXCEPT !.ShareCount = @ - 1]
    OBVIOUS
<1>11. WaitBlock[b].ShareCount - 1 \in Nat /\ WaitBlock[b].ShareCount - 1 = Cardinality(SharedOwners \ {t})
    BY <1>8, <1>9
<1>12. /\ n \in BlockType /\ n.Next = WaitBlock[b].Next /\ n.Last = WaitBlock[b].Last
       /\ n.Previous = WaitBlock[b].Previous /\ n.ShareCount = Cardinality(SharedOwners \ {t})
       /\ n.Exclusive /\ n.Spinning = WaitBlock[b].Spinning /\ n.WakeGate = WaitBlock[b].WakeGate
    BY <1>8, <1>10, <1>11 DEF BlockType
<1>13. WaitBlock' = [WaitBlock EXCEPT ![b] = n]
    BY <1>4, <1>7, <1>10 DEF ShareDecrement
<1>14. /\ WaitBlock' \in [Threads -> BlockType] /\ WaitBlock'[b] = n
       /\ \A c \in Threads \ {b} : WaitBlock'[c] = WaitBlock[c]
    BY <1>2, <1>12, <1>13 DEF TypeInv
<1>15. \A c \in Threads : /\ SameLinks(c) /\ WaitBlock'[c].Spinning = WaitBlock[c].Spinning
                          /\ WaitBlock'[c].WakeGate = WaitBlock[c].WakeGate
    BY <1>12, <1>14 DEF SameLinks
<1>16. /\ TypeInv' /\ Only(t) /\ mode'[t] = "none" /\ want'[t] = "none"
       /\ \/ pc'[t] = "idle"
          \/ pc'[t] = "ReleaseLast" /\ Cardinality(SharedOwners) <= 1 /\ Old'[t].W /\ Old'[t].M
    <2>1. CASE WaitBlock[wb[t]].ShareCount > 1
        <3>1. Return(t, "none")
            <4>1. ~(WaitBlock[wb[t]].ShareCount <= 1)
                BY <1>4, <1>7, <1>8, <1>9, <2>1
            <4>2. QED
                BY <4>1 DEF ShareDecrement
        <3>2. TypeInv' /\ Only(t)
            BY <1>2, <1>3, <1>14, <3>1, FreeWord DEF TypeInv, Labels, Only, Goto, Return
        <3>3. QED
            BY <1>2, <3>1, <3>2 DEF TypeInv, Goto, Return
    <2>2. CASE WaitBlock[wb[t]].ShareCount <= 1
        <3>1. /\ Goto(t, "ReleaseLast") /\ mode' = [mode EXCEPT ![t] = "none"]
              /\ wb' = [wb EXCEPT ![t] = NULL] /\ UNCHANGED <<want, Old, Top, first>>
            <4>1. ~(WaitBlock[wb[t]].ShareCount > 1)
                BY <1>4, <1>7, <1>8, <1>9, <2>2
            <4>2. QED
                BY <4>1 DEF ShareDecrement
        <3>2. TypeInv' /\ Only(t)
            BY <1>2, <1>3, <1>14, <3>1 DEF TypeInv, Labels, Only, Goto
        <3>3. Cardinality(SharedOwners) <= 1
            BY <1>4, <1>7, <1>8, <2>2
        <3>4. QED
            BY <1>2, <1>4, <3>1, <3>2, <3>3 DEF TypeInv, Goto
    <2>3. WaitBlock[wb[t]].ShareCount > 1 \/ WaitBlock[wb[t]].ShareCount <= 1
        BY <1>4, <1>7, <1>8, <1>9
    <2>4. QED
        BY <2>1, <2>2, <2>3
<1>17. CallInv'
    <2>1. CallOf(t)'
        BY <1>16 DEF CallOf, OwnerPCs
    <2>2. QED
        BY <1>1, <1>16, <2>1, CallKept DEF Inv
<1>18. HoldInv'
    BY <1>2, <1>3, <1>4, <1>5, <1>16, HoldCountedOut
<1>19. WakingInv'
    <2>1. WakingOf(t)' /\ pc'[t] \notin OwnerPCs /\ pc[t] \notin OwnerPCs
        BY <1>3, <1>16 DEF WakingOf, OwnerPCs, WakePCs
    <2>2. QED
        BY <1>1, <1>3, <1>16, <2>1, WakingKept DEF Inv
<1>20. PushLock.W => \A i \in lo..hi : SameLinks(q[i])
    <2>1. \A i \in lo..hi : q[i] \in Threads
        BY <1>1, <1>5 DEF Inv, BlockInv, ChainInv
    <2>2. QED
        BY <1>15, <2>1
<1>21. ChainInv(q, lo, hi, f)'
    BY <1>1, <1>3, <1>20, ChainSame DEF Inv, BlockInv
<1>22. CountInv(q, lo)'
    <2>1. SharedOwners' = SharedOwners \ {t}
        BY <1>16 DEF SharedOwners, Only
    <2>2. \A c \in Threads : WaitBlock'[c].ShareCount # 0 => c = q[lo]
        BY <1>2, <1>4, <1>7, <1>14 DEF CountInv
    <2>3. QED
        BY <1>3, <1>4, <1>7, <1>12, <1>14, <2>1, <2>2 DEF CountInv
<1>23. ListInv(own)'
    <2>1. ListInv(own)
        BY <1>1 DEF Inv, BlockInv
    <2>2. QED
        BY <1>15, <2>1 DEF ListInv, SameLinks
<1>24. ASSUME NEW u \in Threads
       PROVE  (WalkOf(u, q, lo, hi, f) /\ SignalOf(u, own) /\ SleepOf(u, q, lo, hi, own))'
    <2>1. WalkOf(u, q, lo, hi, f) /\ SignalOf(u, own) /\ SleepOf(u, q, lo, hi, own)
        BY <1>1 DEF Inv, BlockInv
    <2>2. OnChain(q, lo, hi, u)' <=> OnChain(q, lo, hi, u)
        BY <1>3 DEF OnChain
    <2>3. CASE u = t
        <3>1. WalkOf(u, q, lo, hi, f)' /\ SignalOf(u, own)'
            BY <1>16, <2>3 DEF WalkOf, SignalOf, OwnerPCs
        <3>2. ~Queued(u)
            BY <1>3, <2>3 DEF Queued, OwnerPCs
        <3>3. QED
            BY <2>1, <2>2, <3>1, <3>2 DEF SleepOf
    <2>4. CASE u # t
        <3>1. pc[u] \in OwnerPCs => PushLock.W
            BY <1>5
        <3>2. WalkOf(u, q, lo, hi, f)'
            BY <1>1, <1>16, <1>20, <2>1, <2>4, <3>1, WalkSame DEF Only, Inv, BlockInv
        <3>3. SignalOf(u, own)'
            BY <1>15, <1>16, <2>1, <2>4 DEF SignalOf, SameLinks, Only
        <3>4. SleepOf(u, q, lo, hi, own)'
            BY <1>15, <1>16, <2>1, <2>2, <2>4 DEF SleepOf, Queued, Only
        <3>5. QED
            BY <3>2, <3>3, <3>4
    <2>5. QED
        BY <2>3, <2>4
<1>25. BlockInv(q, lo, hi, f, own)'
    BY <1>21, <1>22, <1>23, <1>24 DEF BlockInv
<1>26. QED
    BY <1>1, <1>16, <1>17, <1>18, <1>19, <1>25, Together

----------------------------------------------------------------------------
(* Steps that change the chain *)

\* All of a block but its links.
SameRest(b) ==
    /\ WaitBlock'[b].ShareCount = WaitBlock[b].ShareCount
    /\ WaitBlock'[b].Exclusive = WaitBlock[b].Exclusive
    /\ WaitBlock'[b].Spinning = WaitBlock[b].Spinning
    /\ WaitBlock'[b].WakeGate = WaitBlock[b].WakeGate

\* The owner of the waking bit sets pointers in the chain.
LEMMA OwnerEdits ==
    ASSUME NEW q, NEW lo, NEW hi, NEW f, NEW own, Witness(q, lo, hi, f, own), Inv(q, lo, hi, f, own),
           NEW t \in Threads, pc[t] \in OwnerPCs, pc'[t] \in OwnerPCs \ {"WakeAnd"},
           TypeInv', Only(t), PushLock' = PushLock, mode'[t] = mode[t], want'[t] = want[t],
           \A b \in Threads : SameRest(b),
           \A b \in Threads : own[b] # NULL => WaitBlock'[b].Previous = WaitBlock[b].Previous,
           WakingOf(t)',
           NEW f2 \in Nat, ChainInv(q, lo, hi, f2)', WalkOf(t, q, lo, hi, f2)'
    PROVE  IInv'
<1>1. CallOf(t) /\ TypeInv /\ mode[t] = "none" /\ PushLock.W
    BY OwnerSees DEF Inv, CallInv, CallOf
<1>2. CallInv'
    <2>1. CallOf(t)'
        BY <1>1 DEF CallOf, OwnerPCs
    <2>2. QED
        BY <2>1, CallKept DEF Inv
<1>3. HoldInv'
    <2>1. HoldOf(t)' /\ (Holds(t)' <=> Holds(t)) /\ pc'[t] # "ReleaseLast"
        BY DEF HoldOf, Holds, OwnerPCs
    <2>2. QED
        BY <2>1, HoldKept DEF Inv
<1>4. WakingInv'
    BY WakingKept DEF Inv
<1>5. q[lo] \in Threads
    <2>1. lo \in lo..hi
        BY <1>1, Indices
    <2>2. QED
        BY <1>1, <2>1 DEF Inv, BlockInv, ChainInv
<1>6. CountInv(q, lo)'
    <2>1. CountInv(q, lo)
        BY DEF Inv, BlockInv
    <2>2. SharedOwners' = SharedOwners
        BY DEF SharedOwners, Only
    <2>3. QED
        BY <1>5, <2>1, <2>2 DEF CountInv, SameRest
<1>7. ListInv(own)'
    <2>1. ListInv(own)
        BY DEF Inv, BlockInv
    <2>2. QED
        BY <2>1 DEF ListInv
<1>8. ASSUME NEW u \in Threads
      PROVE  (WalkOf(u, q, lo, hi, f2) /\ SignalOf(u, own) /\ SleepOf(u, q, lo, hi, own))'
    <2>1. WalkOf(u, q, lo, hi, f) /\ SignalOf(u, own) /\ SleepOf(u, q, lo, hi, own)
        BY DEF Inv, BlockInv
    <2>2. OnChain(q, lo, hi, u)' <=> OnChain(q, lo, hi, u)
        BY DEF OnChain
    <2>3. CASE u = t
        <3>1. WalkOf(u, q, lo, hi, f2)' /\ SignalOf(u, own)'
            BY <2>3 DEF SignalOf, OwnerPCs
        <3>2. Queued(u) => /\ Queued(u)'
                           /\ pc'[u] = "GateWait" <=> pc[u] = "GateWait"
                           /\ pc'[u] = "Spin" => pc[u] = "Spin"
            BY <2>3 DEF Queued, OwnerPCs
        <3>3. QED
            BY <2>1, <2>2, <3>1, <3>2 DEF SleepOf, SameRest
    <2>4. CASE u # t
        <3>1. pc[u] \notin OwnerPCs
            BY <2>4 DEF Inv, WakingInv
        <3>2. WalkOf(u, q, lo, hi, f2)'
            BY <2>1, <2>4, <3>1 DEF WalkOf, Only
        <3>3. SignalOf(u, own)'
            <4>1. pc[u] \in {"WakeAnd", "Signal", "SignalGate"} => wb[u] \in Threads /\ own[wb[u]] # NULL
                BY <2>1, NullIsNoThread DEF SignalOf
            <4>2. QED
                BY <2>1, <2>4, <4>1 DEF SignalOf, SameRest, Only
        <3>4. SleepOf(u, q, lo, hi, own)'
            BY <2>1, <2>2, <2>4 DEF SleepOf, SameRest, Queued, Only
        <3>5. QED
            BY <3>2, <3>3, <3>4
    <2>5. QED
        BY <2>3, <2>4
<1>9. BlockInv(q, lo, hi, f2, own)'
    BY <1>6, <1>7, <1>8 DEF BlockInv
<1>10. Witness(q, lo, hi, f2, own)
    BY DEF Witness
<1>11. QED
    BY <1>2, <1>3, <1>4, <1>9, <1>10, Together

\* The walk sets the back pointer of one more block.
LEMMA WalkNextStep ==
    ASSUME IInv, NEW t \in Threads, WalkNext(t)
    PROVE  IInv'
<1>1. PICK q, lo, hi, f, own : Witness(q, lo, hi, f, own) /\ Inv(q, lo, hi, f, own)
    BY DEF IInv
<1>2. /\ pc[t] \in {"OptimizeWalk", "WakeWalk"} /\ pc[t] \in OwnerPCs \ {"WakeAnd"}
      /\ WaitBlock[wb[t]].Last = NULL
      /\ PushLock' = PushLock /\ pc' = pc /\ mode' = mode /\ want' = want /\ Top' = Top /\ first' = first
    BY DEF WalkNext, OwnerPCs
<1>3. TypeInv /\ WakingOf(t) /\ WalkOf(t, q, lo, hi, f) /\ ChainInv(q, lo, hi, f) /\ PushLock.W
    BY <1>1, <1>2, OwnerSees DEF Inv, WakingInv, BlockInv
<1>4. lo \in Nat /\ hi \in Nat /\ f \in Nat /\ lo <= f /\ f <= hi /\ lo \in lo..hi /\ f \in lo..hi /\ hi \in lo..hi
    BY <1>1, <1>3, Indices
<1>5. /\ \A i \in lo..hi : q[i] \in Threads
      /\ \A i, j \in lo..hi : q[i] = q[j] => i = j
      /\ q[hi] = PushLock.rest
      /\ \A i \in (lo + 1)..hi : WaitBlock[q[i]].Next = q[i - 1]
      /\ WaitBlock[q[f]].Last = q[lo]
      /\ \A i \in (f + 1)..hi : WaitBlock[q[i]].Last = NULL
      /\ \A i \in lo..(f - 1) : WaitBlock[q[i]].Previous = q[i + 1]
      /\ WaitBlock[q[hi]].Previous = NULL
      /\ PushLock.M => /\ \A i \in lo..hi : WaitBlock[q[i]].Last \in {NULL, q[lo]}
                       /\ WaitBlock[q[lo]].Last = q[lo]
    BY <1>3 DEF ChainInv
<1>6. PICK p \in f..hi :
         /\ q[p] = Top[t].rest /\ WaitBlock[q[p]].Previous = NULL /\ first[t] = q[p]
         /\ \E w \in f..p : /\ wb[t] = q[w]
                            /\ \A i \in w..(p - 1) : WaitBlock[q[i]].Previous = q[i + 1]
    BY <1>2, <1>3 DEF WalkOf
<1>7. PICK w \in f..p : /\ wb[t] = q[w]
                        /\ \A i \in w..(p - 1) : WaitBlock[q[i]].Previous = q[i + 1]
    BY <1>6
<1>8. w # f
    BY <1>2, <1>4, <1>5, <1>7, NullIsNoThread
<1>9. PICK v \in Nat : v = w - 1
    BY <1>4, <1>7, <1>8
<1>10. /\ v \in f..p /\ v \in lo..hi /\ v < p /\ v < hi /\ w = v + 1 /\ p \in lo..hi
       /\ w \in (lo + 1)..hi /\ w \in lo..hi
    BY <1>4, <1>6, <1>7, <1>8, <1>9
<1>11. PICK n : n = [WaitBlock[q[v]] EXCEPT !.Previous = q[w]]
    OBVIOUS
<1>12. q[v] \in Threads /\ q[w] \in Threads /\ WaitBlock[q[v]] \in BlockType
    BY <1>3, <1>5, <1>10 DEF TypeInv
<1>13. /\ n \in BlockType /\ n.Next = WaitBlock[q[v]].Next /\ n.Last = WaitBlock[q[v]].Last
       /\ n.Previous = q[w] /\ n.ShareCount = WaitBlock[q[v]].ShareCount
       /\ n.Exclusive = WaitBlock[q[v]].Exclusive /\ n.Spinning = WaitBlock[q[v]].Spinning
       /\ n.WakeGate = WaitBlock[q[v]].WakeGate
    BY <1>11, <1>12 DEF BlockType
<1>14. WaitBlock' = [WaitBlock EXCEPT ![q[v]] = n] /\ wb' = [wb EXCEPT ![t] = q[v]]
    <2>1. WaitBlock[wb[t]].Next = q[v]
        BY <1>5, <1>7, <1>9, <1>10
    <2>2. QED
        BY <1>7, <1>11, <2>1 DEF WalkNext
<1>15. TypeInv' /\ Only(t)
    BY <1>2, <1>3, <1>12, <1>13, <1>14 DEF TypeInv, Only, WalkNext
<1>16. /\ WaitBlock'[q[v]] = n /\ \A b \in Threads \ {q[v]} : WaitBlock'[b] = WaitBlock[b]
       /\ wb'[t] = q[v]
    BY <1>3, <1>12, <1>14 DEF TypeInv
<1>17. \A b \in Threads : SameRest(b)
    BY <1>12, <1>13, <1>16 DEF SameRest
<1>18. \A b \in Threads : own[b] # NULL => WaitBlock'[b].Previous = WaitBlock[b].Previous
    <2>1. own[q[v]] = NULL
        BY <1>1, <1>3, <1>10, <1>12 DEF Inv, BlockInv, SleepOf, OnChain
    <2>2. QED
        BY <1>16, <2>1
<1>19. \A i \in lo..hi : /\ WaitBlock'[q[i]].Next = WaitBlock[q[i]].Next
                         /\ WaitBlock'[q[i]].Last = WaitBlock[q[i]].Last
                         /\ i # v => WaitBlock'[q[i]].Previous = WaitBlock[q[i]].Previous
    BY <1>5, <1>10, <1>13, <1>16
<1>20. ChainInv(q, lo, hi, f)'
    <2>1. /\ \A i \in (lo + 1)..hi : i \in lo..hi
          /\ \A i \in (f + 1)..hi : i \in lo..hi
          /\ \A i \in lo..(f - 1) : i \in lo..hi /\ i # v
        BY <1>4, <1>10
    <2>2. hi # v
        BY <1>4, <1>10
    <2>3. \A i \in (lo + 1)..hi : WaitBlock'[q[i]].Next = q[i - 1]
        BY <1>5, <1>19, <2>1
    <2>4. /\ WaitBlock'[q[f]].Last = q[lo]
          /\ \A i \in (f + 1)..hi : WaitBlock'[q[i]].Last = NULL
          /\ PushLock'.M => /\ \A i \in lo..hi : WaitBlock'[q[i]].Last \in {NULL, q[lo]}
                            /\ WaitBlock'[q[lo]].Last = q[lo]
        BY <1>2, <1>4, <1>5, <1>19, <2>1
    <2>5. /\ \A i \in lo..(f - 1) : WaitBlock'[q[i]].Previous = q[i + 1]
          /\ WaitBlock'[q[hi]].Previous = NULL
        BY <1>4, <1>5, <1>19, <2>1, <2>2
    <2>6. QED
        BY <1>2, <1>4, <1>5, <2>3, <2>4, <2>5 DEF ChainInv
<1>21. WalkOf(t, q, lo, hi, f)'
    <2>1. p # v
        BY <1>10
    <2>2. q[p] = Top'[t].rest /\ WaitBlock'[q[p]].Previous = NULL /\ first'[t] = q[p] /\ wb'[t] = q[v]
        BY <1>2, <1>6, <1>10, <1>16, <1>19, <2>1
    <2>3. \A i \in v..(p - 1) : WaitBlock'[q[i]].Previous = q[i + 1]
        <3>1. SUFFICES ASSUME NEW i \in v..(p - 1) PROVE WaitBlock'[q[i]].Previous = q[i + 1]
            OBVIOUS
        <3>2. i \in lo..hi /\ (i # v => i \in w..(p - 1))
            BY <1>4, <1>6, <1>7, <1>10
        <3>3. CASE i = v
            BY <1>10, <1>13, <1>16, <3>3
        <3>4. CASE i # v
            BY <1>7, <1>19, <3>2, <3>4
        <3>5. QED
            BY <3>3, <3>4
    <2>4. pc'[t] \in {"OptimizeWalk", "WakeWalk"}
        BY <1>2
    <2>5. QED
        BY <1>10, <2>2, <2>3, <2>4 DEF WalkOf
<1>22. WakingOf(t)'
    BY <1>2, <1>3 DEF WakingOf
<1>23. QED
    BY <1>1, <1>2, <1>4, <1>15, <1>17, <1>18, <1>20, <1>21, <1>22, OwnerEdits

\* The optimizer lets the head know the last block.
LEMMA OptimizeLastStep ==
    ASSUME IInv, NEW t \in Threads, OptimizeLast(t)
    PROVE  IInv'
<1>1. PICK q, lo, hi, f, own : Witness(q, lo, hi, f, own) /\ Inv(q, lo, hi, f, own)
    BY DEF IInv
<1>2. /\ pc[t] = "OptimizeWalk" /\ pc[t] \in OwnerPCs \ {"WakeAnd"}
      /\ WaitBlock[wb[t]].Last # NULL
      /\ PushLock' = PushLock /\ mode' = mode /\ want' = want /\ Top' = Top /\ first' = first /\ wb' = wb
      /\ Old' = Old /\ Goto(t, "OptimizeCas")
    BY DEF OptimizeLast, OwnerPCs, locals
<1>3. TypeInv /\ WakingOf(t) /\ WalkOf(t, q, lo, hi, f) /\ ChainInv(q, lo, hi, f) /\ PushLock.W
    BY <1>1, <1>2, OwnerSees DEF Inv, WakingInv, BlockInv
<1>4. lo \in Nat /\ hi \in Nat /\ f \in Nat /\ lo <= f /\ f <= hi /\ lo \in lo..hi /\ f \in lo..hi /\ hi \in lo..hi
    BY <1>1, <1>3, Indices
<1>5. /\ \A i \in lo..hi : q[i] \in Threads
      /\ \A i, j \in lo..hi : q[i] = q[j] => i = j
      /\ q[hi] = PushLock.rest
      /\ \A i \in (lo + 1)..hi : WaitBlock[q[i]].Next = q[i - 1]
      /\ WaitBlock[q[f]].Last = q[lo]
      /\ \A i \in (f + 1)..hi : WaitBlock[q[i]].Last = NULL
      /\ \A i \in lo..(f - 1) : WaitBlock[q[i]].Previous = q[i + 1]
      /\ WaitBlock[q[hi]].Previous = NULL
      /\ PushLock.M => /\ \A i \in lo..hi : WaitBlock[q[i]].Last \in {NULL, q[lo]}
                       /\ WaitBlock[q[lo]].Last = q[lo]
    BY <1>3 DEF ChainInv
<1>6. PICK p \in f..hi :
         /\ q[p] = Top[t].rest /\ WaitBlock[q[p]].Previous = NULL /\ first[t] = q[p]
         /\ \E w \in f..p : /\ wb[t] = q[w]
                            /\ \A i \in w..(p - 1) : WaitBlock[q[i]].Previous = q[i + 1]
    BY <1>2, <1>3 DEF WalkOf
<1>7. PICK w \in f..p : /\ wb[t] = q[w]
                        /\ \A i \in w..(p - 1) : WaitBlock[q[i]].Previous = q[i + 1]
    BY <1>6
<1>8. w = f /\ p \in lo..hi /\ p \in Nat
    <2>1. w \notin (f + 1)..hi
        BY <1>2, <1>5, <1>7
    <2>2. QED
        BY <1>4, <1>6, <1>7, <2>1
<1>9. PICK n : n = [WaitBlock[q[p]] EXCEPT !.Last = q[lo]]
    OBVIOUS
<1>10. q[p] \in Threads /\ q[lo] \in Threads /\ WaitBlock[q[p]] \in BlockType
    BY <1>3, <1>4, <1>5, <1>8 DEF TypeInv
<1>11. /\ n \in BlockType /\ n.Next = WaitBlock[q[p]].Next /\ n.Last = q[lo]
       /\ n.Previous = WaitBlock[q[p]].Previous /\ n.ShareCount = WaitBlock[q[p]].ShareCount
       /\ n.Exclusive = WaitBlock[q[p]].Exclusive /\ n.Spinning = WaitBlock[q[p]].Spinning
       /\ n.WakeGate = WaitBlock[q[p]].WakeGate
    BY <1>9, <1>10 DEF BlockType
<1>12. WaitBlock' = [WaitBlock EXCEPT ![q[p]] = n]
    BY <1>5, <1>6, <1>7, <1>8, <1>9 DEF OptimizeLast
<1>13. TypeInv' /\ Only(t)
    BY <1>2, <1>3, <1>10, <1>11, <1>12 DEF TypeInv, Labels, Only, Goto
<1>14. /\ WaitBlock'[q[p]] = n /\ \A b \in Threads \ {q[p]} : WaitBlock'[b] = WaitBlock[b]
       /\ pc'[t] = "OptimizeCas"
    BY <1>2, <1>3, <1>10, <1>12 DEF TypeInv, Goto
<1>15. \A b \in Threads : SameRest(b) /\ WaitBlock'[b].Previous = WaitBlock[b].Previous
    BY <1>10, <1>11, <1>14 DEF SameRest
<1>16. \A i \in lo..hi : /\ WaitBlock'[q[i]].Next = WaitBlock[q[i]].Next
                         /\ WaitBlock'[q[i]].Previous = WaitBlock[q[i]].Previous
                         /\ i # p => WaitBlock'[q[i]].Last = WaitBlock[q[i]].Last
    BY <1>5, <1>8, <1>11, <1>14
<1>17. ChainInv(q, lo, hi, p)'
    <2>1. /\ \A i \in (lo + 1)..hi : i \in lo..hi
          /\ \A i \in (p + 1)..hi : i \in (f + 1)..hi /\ i \in lo..hi /\ i # p
          /\ \A i \in lo..(p - 1) : i \in lo..hi /\ (i \in lo..(f - 1) \/ i \in w..(p - 1))
          /\ lo <= p /\ p <= hi
        BY <1>4, <1>6, <1>8
    <2>2. \A i \in (lo + 1)..hi : WaitBlock'[q[i]].Next = q[i - 1]
        BY <1>5, <1>16, <2>1
    <2>3. /\ WaitBlock'[q[p]].Last = q[lo]
          /\ \A i \in (p + 1)..hi : WaitBlock'[q[i]].Last = NULL
        BY <1>5, <1>11, <1>14, <1>16, <2>1
    <2>4. PushLock'.M => /\ \A i \in lo..hi : WaitBlock'[q[i]].Last \in {NULL, q[lo]}
                         /\ WaitBlock'[q[lo]].Last = q[lo]
        BY <1>2, <1>4, <1>5, <1>16, <2>3
    <2>5. /\ \A i \in lo..(p - 1) : WaitBlock'[q[i]].Previous = q[i + 1]
          /\ WaitBlock'[q[hi]].Previous = NULL
        BY <1>4, <1>5, <1>7, <1>16, <2>1
    <2>6. QED
        BY <1>2, <1>5, <2>1, <2>2, <2>3, <2>4, <2>5 DEF ChainInv
<1>18. WalkOf(t, q, lo, hi, p)'
    <2>1. p \in p..hi
        BY <1>4, <1>6, <1>8
    <2>2. q[p] = Top'[t].rest /\ WaitBlock'[q[p]].Previous = NULL
        BY <1>2, <1>6, <1>8, <1>16
    <2>3. QED
        BY <1>14, <2>1, <2>2 DEF WalkOf
<1>19. WakingOf(t)'
    BY <1>2, <1>3, <1>14 DEF WakingOf, OwnerPCs, WakePCs
<1>20. pc'[t] \in OwnerPCs \ {"WakeAnd"}
    BY <1>14 DEF OwnerPCs
<1>21. QED
    BY <1>1, <1>2, <1>8, <1>13, <1>15, <1>17, <1>18, <1>19, <1>20, OwnerEdits

\* What the push of a block that is in no list means for the lists.
LEMMA ListsUntouched ==
    ASSUME NEW q, NEW lo, NEW hi, NEW f, NEW own, Witness(q, lo, hi, f, own), Inv(q, lo, hi, f, own),
           NEW t \in Threads, own[t] = NULL, Only(t),
           \A b \in Threads \ {t} : WaitBlock'[b] = WaitBlock[b]
    PROVE  ListInv(own)' /\ \A u \in Threads \ {t} : SignalOf(u, own)'
<1>1. ListInv(own)'
    <2>1. ListInv(own)
        BY DEF Inv, BlockInv
    <2>2. QED
        BY <2>1 DEF ListInv
<1>2. ASSUME NEW u \in Threads \ {t} PROVE SignalOf(u, own)'
    <2>1. SignalOf(u, own)
        BY DEF Inv, BlockInv
    <2>2. pc[u] \in {"WakeAnd", "Signal", "SignalGate"} => wb[u] \in Threads \ {t}
        BY <2>1, NullIsNoThread DEF SignalOf
    <2>3. QED
        BY <2>1, <2>2 DEF SignalOf, Only
<1>3. QED
    BY <1>1, <1>2

\* A push onto a chain: a block with a successor, at a new head.
LEMMA PushOn ==
    ASSUME IInv, NEW t \in Threads, pc[t] = "Acquire", PushLock.W, TypeInv', Only(t),
           mode'[t] = mode[t], want'[t] = want[t],
           PushLock'.L <=> PushLock.L, PushLock'.W, PushLock'.K, PushLock'.M <=> PushLock.M,
           PushLock'.rest = t,
           \A b \in Threads \ {t} : WaitBlock'[b] = WaitBlock[b],
           WaitBlock'[t].Next = PushLock.rest, WaitBlock'[t].Last = NULL, WaitBlock'[t].Previous = NULL,
           WaitBlock'[t].ShareCount = 0, WaitBlock'[t].Spinning,
           \/ PushLock.K /\ pc'[t] = "InitGate"
           \/ ~PushLock.K /\ pc'[t] = "Optimize" /\ Top'[t] = PushLock'
    PROVE  IInv'
<1>1. PICK q, lo, hi, f, own : Witness(q, lo, hi, f, own) /\ Inv(q, lo, hi, f, own)
    BY DEF IInv
<1>2. /\ TypeInv /\ CallOf(t) /\ ChainInv(q, lo, hi, f) /\ CountInv(q, lo) /\ SleepOf(t, q, lo, hi, own)
      /\ q \in [Nat -> Threads \cup {NULL}] /\ own \in [Threads -> Threads \cup {NULL}]
    BY <1>1 DEF Inv, CallInv, BlockInv, Witness
<1>3. want[t] # "none" /\ mode[t] = "none"
    BY <1>2 DEF CallOf
<1>4. lo \in Nat /\ hi \in Nat /\ f \in Nat /\ lo <= f /\ f <= hi /\ lo \in lo..hi /\ f \in lo..hi /\ hi \in lo..hi
    BY <1>1, Indices
<1>5. ~OnChain(q, lo, hi, t) /\ own[t] = NULL
    <2>1. ~Queued(t)
        BY DEF Queued, OwnerPCs
    <2>2. QED
        BY <1>2, <2>1 DEF SleepOf
<1>6. CallInv'
    <2>1. CallOf(t)'
        BY <1>3 DEF CallOf, OwnerPCs
    <2>2. QED
        BY <1>1, <2>1, CallKept DEF Inv
<1>7. HoldInv'
    <2>1. HoldOf(t)' /\ (Holds(t)' <=> Holds(t)) /\ pc'[t] # "ReleaseLast"
        BY DEF HoldOf, Holds
    <2>2. QED
        BY <1>1, <2>1, HoldKept DEF Inv
<1>8. WakingInv'
    <2>1. pc[t] \notin OwnerPCs
        BY DEF OwnerPCs
    <2>2. CASE PushLock.K /\ pc'[t] = "InitGate"
        <3>1. WakingOf(t)' /\ pc'[t] \notin OwnerPCs
            BY <2>2 DEF WakingOf, OwnerPCs, WakePCs
        <3>2. QED
            BY <1>1, <2>1, <2>2, <3>1, WakingKept DEF Inv
    <2>3. CASE ~PushLock.K /\ pc'[t] = "Optimize" /\ Top'[t] = PushLock'
        <3>1. WakingOf(t)' /\ pc'[t] \in OwnerPCs
            BY <2>3 DEF WakingOf, OwnerPCs, WakePCs
        <3>2. QED
            BY <1>1, <2>3, <3>1, WakingTaken DEF Inv
    <2>4. QED
        BY <2>2, <2>3
<1>9. PICK h \in Nat : h = hi + 1
    BY <1>4
<1>10. PICK q2 : q2 = [q EXCEPT ![h] = t]
    OBVIOUS
<1>11. /\ q2 \in [Nat -> Threads \cup {NULL}] /\ q2[h] = t
       /\ \A i \in lo..hi : q2[i] = q[i] /\ q[i] \in Threads /\ q[i] # t
    <2>1. \A i \in lo..hi : i \in Nat /\ i # h
        BY <1>4, <1>9
    <2>2. \A i \in lo..hi : q[i] \in Threads /\ q[i] # t
        BY <1>2, <1>5 DEF ChainInv, OnChain
    <2>3. q2 \in [Nat -> Threads \cup {NULL}] /\ q2[h] = t
        BY <1>2, <1>10
    <2>4. \A i \in Nat : i # h => q2[i] = q[i]
        BY <1>2, <1>10
    <2>5. QED
        BY <2>1, <2>2, <2>3, <2>4
<1>12. Witness(q2, lo, h, f, own)
    BY <1>1, <1>9, <1>11 DEF Witness
<1>13. \A i \in lo..hi : WaitBlock'[q2[i]] = WaitBlock[q[i]]
    BY <1>11
<1>14. /\ \A i \in lo..h : i \in lo..hi \/ i = h
       /\ \A i \in lo..hi : i \in lo..h /\ i # h
       /\ h \in lo..h /\ h \in f..h /\ f <= h
    BY <1>4, <1>9
<1>15. ChainInv(q2, lo, h, f)'
    <2>1. /\ \A i \in lo..h : q2[i] \in Threads
          /\ \A i, j \in lo..h : q2[i] = q2[j] => i = j
        <3>1. \A i, j \in lo..hi : q[i] = q[j] => i = j
            BY <1>2 DEF ChainInv
        <3>2. QED
            BY <1>11, <1>14, <3>1
    <2>2. \A i \in (lo + 1)..h : WaitBlock'[q2[i]].Next = q2[i - 1]
        <3>1. SUFFICES ASSUME NEW i \in (lo + 1)..h PROVE WaitBlock'[q2[i]].Next = q2[i - 1]
            OBVIOUS
        <3>2. CASE i = h
            <4>1. q[hi] = PushLock.rest
                BY <1>2 DEF ChainInv
            <4>2. i - 1 = hi
                BY <1>4, <1>9, <3>2
            <4>3. QED
                BY <1>4, <1>11, <3>2, <4>1, <4>2
        <3>3. CASE i # h
            <4>1. i \in (lo + 1)..hi /\ i \in lo..hi /\ i - 1 \in lo..hi
                BY <1>4, <1>9, <3>3
            <4>2. WaitBlock[q[i]].Next = q[i - 1]
                BY <1>2, <4>1 DEF ChainInv
            <4>3. QED
                BY <1>11, <1>13, <4>1, <4>2
        <3>4. QED
            BY <3>2, <3>3
    <2>3. /\ WaitBlock'[q2[f]].Last = q2[lo]
          /\ \A i \in (f + 1)..h : WaitBlock'[q2[i]].Last = NULL
        <3>1. WaitBlock[q[f]].Last = q[lo] /\ \A i \in (f + 1)..hi : WaitBlock[q[i]].Last = NULL
            BY <1>2 DEF ChainInv
        <3>2. \A i \in (f + 1)..h : i = h \/ (i \in (f + 1)..hi /\ i \in lo..hi)
            BY <1>4, <1>9
        <3>3. QED
            BY <1>4, <1>11, <1>13, <3>1, <3>2
    <2>4. \A i \in lo..(f - 1) : WaitBlock'[q2[i]].Previous = q2[i + 1]
        <3>1. \A i \in lo..(f - 1) : WaitBlock[q[i]].Previous = q[i + 1]
            BY <1>2 DEF ChainInv
        <3>2. \A i \in lo..(f - 1) : i \in lo..hi /\ i + 1 \in lo..hi
            BY <1>4
        <3>3. QED
            BY <1>11, <1>13, <3>1, <3>2
    <2>5. PushLock'.M => /\ \A i \in lo..h : WaitBlock'[q2[i]].Last \in {NULL, q2[lo]}
                         /\ WaitBlock'[q2[lo]].Last = q2[lo]
        <3>1. PushLock.M => /\ \A i \in lo..hi : WaitBlock[q[i]].Last \in {NULL, q[lo]}
                            /\ WaitBlock[q[lo]].Last = q[lo]
            BY <1>2 DEF ChainInv
        <3>2. QED
            BY <1>4, <1>11, <1>13, <1>14, <3>1
    <2>6. QED
        BY <1>4, <1>11, <1>14, <2>1, <2>2, <2>3, <2>4, <2>5 DEF ChainInv
<1>16. CountInv(q2, lo)'
    <2>1. SharedOwners' = SharedOwners
        BY DEF SharedOwners, Only
    <2>2. q2[lo] = q[lo] /\ q[lo] \in Threads /\ WaitBlock'[q[lo]] = WaitBlock[q[lo]]
        BY <1>4, <1>11
    <2>3. \A b \in Threads : WaitBlock'[b].ShareCount # 0 => WaitBlock[b].ShareCount # 0
        OBVIOUS
    <2>4. QED
        BY <1>2, <2>1, <2>2, <2>3 DEF CountInv
<1>17. ListInv(own)' /\ \A u \in Threads \ {t} : SignalOf(u, own)'
    BY <1>1, <1>5, ListsUntouched
<1>18. ASSUME NEW u \in Threads
       PROVE  (WalkOf(u, q2, lo, h, f) /\ SignalOf(u, own) /\ SleepOf(u, q2, lo, h, own))'
    <2>1. WalkOf(u, q, lo, hi, f) /\ SignalOf(u, own) /\ SleepOf(u, q, lo, hi, own)
        BY <1>1 DEF Inv, BlockInv
    <2>2. CASE u = t
        <3>1. SignalOf(u, own)'
            BY <2>2 DEF SignalOf
        <3>2. SleepOf(u, q2, lo, h, own)'
            <4>1. Queued(t)' /\ pc'[t] \notin {"Spin", "GateWait"}
                BY <1>3 DEF Queued, OwnerPCs
            <4>2. QED
                BY <1>5, <2>2, <4>1 DEF SleepOf
        <3>3. WalkOf(u, q2, lo, h, f)'
            <4>1. CASE pc'[t] = "InitGate"
                BY <2>2, <4>1 DEF WalkOf, OwnerPCs
            <4>2. CASE pc'[t] = "Optimize" /\ Top'[t] = PushLock'
                <5>1. q2[h] = Top'[t].rest /\ WaitBlock'[q2[h]].Previous = NULL
                    BY <1>11, <4>2
                <5>2. QED
                    BY <1>14, <2>2, <4>2, <5>1 DEF WalkOf
            <4>3. QED
                BY <4>1, <4>2
        <3>4. QED
            BY <3>1, <3>2, <3>3
    <2>3. CASE u # t
        <3>1. SleepOf(u, q2, lo, h, own)'
            <4>1. OnChain(q2, lo, h, u)' <=> OnChain(q, lo, hi, u)
                <5>1. (\E i \in lo..h : q2[i] = u) <=> (\E i \in lo..hi : q[i] = u)
                    BY <1>11, <1>14, <2>3
                <5>2. QED
                    BY <5>1 DEF OnChain
            <4>2. QED
                BY <2>1, <2>3, <4>1 DEF SleepOf, Queued, Only
        <3>2. WalkOf(u, q2, lo, h, f)'
            <4>1. \A i \in lo..hi : i \in lo..h /\ q2[i] = q[i] /\ WaitBlock'[q2[i]] = WaitBlock[q[i]]
                BY <1>11, <1>13, <1>14
            <4>2. pc'[u] = pc[u] /\ Old'[u] = Old[u] /\ Top'[u] = Top[u] /\ wb'[u] = wb[u] /\ first'[u] = first[u]
                BY <2>3 DEF Only
            <4>3. CASE pc[u] \in OwnerPCs \ {"WakeAnd"}
                <5>1. PICK p \in f..hi :
                         /\ q[p] = Top[u].rest /\ WaitBlock[q[p]].Previous = NULL
                         /\ pc[u] \in {"OptimizeWalk", "WakeWalk", "WakeTail"} => first[u] = q[p]
                         /\ pc[u] \in {"OptimizeWalk", "WakeWalk"} =>
                               \E w \in f..p : /\ wb[u] = q[w]
                                               /\ \A i \in w..(p - 1) : WaitBlock[q[i]].Previous = q[i + 1]
                         /\ pc[u] = "WakeTail" =>
                               /\ wb[u] = q[lo]
                               /\ \A i \in lo..(p - 1) : WaitBlock[q[i]].Previous = q[i + 1]
                    BY <2>1, <4>3 DEF WalkOf
                <5>2. /\ p \in lo..hi /\ p \in f..h
                      /\ \A i \in lo..(p - 1) : i \in lo..hi /\ i + 1 \in lo..hi
                      /\ \A w \in f..p : w \in lo..hi /\ \A i \in w..(p - 1) : i \in lo..hi /\ i + 1 \in lo..hi
                    BY <1>4, <1>9, <5>1
                <5>3. q2[p] = Top'[u].rest /\ WaitBlock'[q2[p]].Previous = NULL
                    BY <4>1, <4>2, <5>1, <5>2
                <5>4. pc'[u] \in {"OptimizeWalk", "WakeWalk", "WakeTail"} => first'[u] = q2[p]
                    BY <4>1, <4>2, <5>1, <5>2
                <5>5. pc'[u] \in {"OptimizeWalk", "WakeWalk"} =>
                         \E w \in f..p : /\ wb'[u] = q2[w]
                                         /\ \A i \in w..(p - 1) : WaitBlock'[q2[i]].Previous = q2[i + 1]
                    <6>1. SUFFICES ASSUME pc[u] \in {"OptimizeWalk", "WakeWalk"}
                                   PROVE  \E w \in f..p : /\ wb'[u] = q2[w]
                                                          /\ \A i \in w..(p - 1) : WaitBlock'[q2[i]].Previous = q2[i + 1]
                        BY <4>2
                    <6>2. PICK w \in f..p : /\ wb[u] = q[w]
                                            /\ \A i \in w..(p - 1) : WaitBlock[q[i]].Previous = q[i + 1]
                        BY <5>1, <6>1
                    <6>3. wb'[u] = q2[w]
                        BY <4>1, <4>2, <5>2, <6>2
                    <6>4. \A i \in w..(p - 1) : WaitBlock'[q2[i]].Previous = q2[i + 1]
                        BY <4>1, <5>2, <6>2
                    <6>5. QED
                        BY <6>2, <6>3, <6>4
                <5>6. pc'[u] = "WakeTail" =>
                         /\ wb'[u] = q2[lo]
                         /\ \A i \in lo..(p - 1) : WaitBlock'[q2[i]].Previous = q2[i + 1]
                    BY <1>4, <4>1, <4>2, <5>1, <5>2
                <5>7. pc[u] \notin {"Release", "ShareWalk", "ShareDecrement"}
                    BY <4>3 DEF OwnerPCs
                <5>8. QED
                    BY <4>2, <5>2, <5>3, <5>4, <5>5, <5>6, <5>7 DEF WalkOf
            <4>4. CASE pc[u] \notin OwnerPCs \ {"WakeAnd"}
                <5>1. q2[lo] = q[lo]
                    BY <1>4, <1>11
                <5>2. QED
                    BY <2>1, <4>1, <4>2, <4>4, <5>1 DEF WalkOf
            <4>5. QED
                BY <4>3, <4>4
        <3>3. QED
            BY <1>17, <2>3, <3>1, <3>2
    <2>4. QED
        BY <2>2, <2>3
<1>19. BlockInv(q2, lo, h, f, own)'
    BY <1>15, <1>16, <1>17, <1>18 DEF BlockInv
<1>20. QED
    BY <1>6, <1>7, <1>8, <1>12, <1>19, Together

\* The first waiter: it takes a share count above one into its block, with M.
LEMMA PushFirst ==
    ASSUME IInv, NEW t \in Threads, pc[t] = "Acquire", ~PushLock.W, TypeInv', Only(t),
           mode'[t] = mode[t], want'[t] = want[t], pc'[t] = "InitGate",
           PushLock.L, want[t] = "S" => PushLock.rest = 0,
           PushLock'.L, PushLock'.W, ~PushLock'.K, PushLock'.rest = t,
           PushLock'.M <=> (want[t] = "X" /\ PushLock.rest > 1),
           \A b \in Threads \ {t} : WaitBlock'[b] = WaitBlock[b],
           WaitBlock'[t].Last = t, WaitBlock'[t].Previous = NULL, WaitBlock'[t].Spinning,
           WaitBlock'[t].ShareCount = IF PushLock'.M THEN PushLock.rest ELSE 0,
           WaitBlock'[t].Exclusive <=> want[t] = "X"
    PROVE  IInv'
<1>1. PICK q, lo, hi, f, own : Witness(q, lo, hi, f, own) /\ Inv(q, lo, hi, f, own)
    BY DEF IInv
<1>2. /\ TypeInv /\ CallOf(t) /\ HoldInv /\ CountInv(q, lo) /\ SleepOf(t, q, lo, hi, own)
      /\ q \in [Nat -> Threads \cup {NULL}] /\ own \in [Threads -> Threads \cup {NULL}]
      /\ PushLock \in GoodWord
    BY <1>1 DEF Inv, CallInv, BlockInv, Witness, TypeInv
<1>3. want[t] \in {"X", "S"} /\ mode[t] = "none"
    BY <1>2 DEF CallOf, TypeInv
<1>4. ~PushLock.K /\ ~PushLock.M /\ PushLock.rest \in Nat
    BY <1>2, WordFields
<1>5. own[t] = NULL
    <2>1. ~Queued(t)
        BY DEF Queued, OwnerPCs
    <2>2. QED
        BY <1>2, <2>1 DEF SleepOf
<1>6. /\ IsFiniteSet(SharedOwners) /\ PushLock.rest = Cardinality(SharedOwners)
      /\ SharedOwners' = SharedOwners
    BY <1>2 DEF HoldInv, SharedOwners, Only
<1>7. CallInv'
    <2>1. CallOf(t)'
        BY <1>3 DEF CallOf, OwnerPCs
    <2>2. QED
        BY <1>1, <2>1, CallKept DEF Inv
<1>8. HoldInv'
    <2>1. \A u \in Threads : mode'[u] = mode[u] /\ (Holds(u)' <=> Holds(u))
        BY DEF Only, Holds
    <2>2. \A u \in Threads : /\ pc[u] \notin {"ShareWalk", "ShareDecrement", "ReleaseLast"}
                             /\ ~(pc[u] = "Release" /\ Old[u].W)
        BY <1>2, <1>4 DEF HoldInv, HoldOf
    <2>3. \A u \in Threads : HoldOf(u)' /\ pc'[u] # "ReleaseLast"
        BY <2>2 DEF HoldOf, Only
    <2>4. ~PushLock'.M => \A u, w \in SharedOwners' : u = w
        <3>1. SUFFICES ASSUME ~PushLock'.M, NEW u \in SharedOwners, NEW w \in SharedOwners PROVE u = w
            BY <1>6
        <3>2. PushLock.rest <= 1
            BY <1>3, <1>4, <3>1
        <3>3. u \in Threads /\ w \in Threads /\ mode[u] = "S" /\ mode[w] = "S"
            BY DEF SharedOwners
        <3>4. \A v \in Threads \ {u} : ~Holds(v)
            BY <1>2, <3>2, <3>3, SharedAlone
        <3>5. Holds(w)
            BY <3>3 DEF Holds
        <3>6. QED
            BY <3>3, <3>4, <3>5
    <2>5. PushLock'.M => \A u \in Threads : mode'[u] # "X"
        <3>1. SUFFICES ASSUME PushLock.rest > 1, NEW u \in Threads, mode[u] = "X" PROVE FALSE
            BY <2>1
        <3>2. PushLock.rest = 0
            BY <1>2, <3>1, ExclusiveAlone
        <3>3. QED
            BY <3>1, <3>2
    <2>6. \A u, w \in Threads : mode'[u] = "X" /\ Holds(w)' => u = w
        BY <1>2, <2>1 DEF HoldInv
    <2>7. QED
        BY <1>6, <2>3, <2>4, <2>5, <2>6 DEF HoldInv
<1>9. \A u \in Threads : pc[u] \notin OwnerPCs
    BY <1>1, <1>4 DEF Inv, WakingInv, WakingOf
<1>10. WakingInv'
    <2>1. WakingOf(t)' /\ pc'[t] \notin OwnerPCs
        BY DEF WakingOf, OwnerPCs, WakePCs
    <2>2. QED
        BY <1>1, <1>4, <1>9, <2>1, WakingKept DEF Inv
<1>11. PICK z \in Nat : z = 0
    OBVIOUS
<1>12. PICK q2 : q2 = [q EXCEPT ![z] = t]
    OBVIOUS
<1>13. q2 \in [Nat -> Threads \cup {NULL}] /\ q2[z] = t
    BY <1>2, <1>12
<1>14. Witness(q2, z, z, z, own)
    BY <1>2, <1>13 DEF Witness
<1>15. z..z = {z} /\ (z + 1)..z = {} /\ z..(z - 1) = {} /\ z <= z
    BY <1>11
<1>16. ChainInv(q2, z, z, z)'
    BY <1>13, <1>15 DEF ChainInv
<1>17. CountInv(q2, z)'
    <2>1. \A b \in Threads \ {t} : WaitBlock'[b].ShareCount = 0
        BY <1>2, <1>4 DEF CountInv
    <2>2. QED
        BY <1>6, <1>13, <2>1 DEF CountInv
<1>18. ListInv(own)' /\ \A u \in Threads \ {t} : SignalOf(u, own)'
    BY <1>1, <1>5, ListsUntouched
<1>19. ASSUME NEW u \in Threads
       PROVE  (WalkOf(u, q2, z, z, z) /\ SignalOf(u, own) /\ SleepOf(u, q2, z, z, own))'
    <2>1. pc[u] \notin {"ShareWalk", "ShareDecrement"} /\ ~(pc[u] = "Release" /\ Old[u].W)
        BY <1>2, <1>4 DEF HoldInv, HoldOf
    <2>2. CASE u = t
        <3>1. WalkOf(u, q2, z, z, z)' /\ SignalOf(u, own)'
            BY <2>2 DEF WalkOf, SignalOf, OwnerPCs
        <3>2. Queued(t)'
            BY DEF Queued
        <3>3. SleepOf(u, q2, z, z, own)'
            BY <1>5, <2>2, <3>2 DEF SleepOf
        <3>4. QED
            BY <3>1, <3>3
    <2>3. CASE u # t
        <3>1. WalkOf(u, q2, z, z, z)'
            BY <1>9, <2>1, <2>3 DEF WalkOf, Only
        <3>2. SleepOf(u, q2, z, z, own)'
            <4>1. ~OnChain(q2, z, z, u)'
                BY <1>13, <1>15, <2>3 DEF OnChain
            <4>2. SleepOf(u, q, lo, hi, own)
                BY <1>1 DEF Inv, BlockInv
            <4>3. QED
                BY <2>3, <4>1, <4>2 DEF SleepOf, Queued, Only
        <3>3. QED
            BY <1>18, <2>3, <3>1, <3>2
    <2>4. QED
        BY <2>2, <2>3
<1>20. BlockInv(q2, z, z, z, own)'
    BY <1>16, <1>17, <1>18, <1>19 DEF BlockInv
<1>21. QED
    BY <1>7, <1>8, <1>10, <1>14, <1>20, Together

\* The compare-exchange that queues a waiter keeps the invariant.
LEMMA AcquirePushStep ==
    ASSUME IInv, NEW t \in Threads, AcquirePush(t)
    PROVE  IInv'
<1>1. TypeInv /\ CallOf(t) /\ PushLock \in GoodWord
    BY DEF IInv, Inv, CallInv, TypeInv
<1>2. /\ pc[t] = "Acquire" /\ ~Admits(Old[t], want[t])
      /\ mode' = mode /\ want' = want /\ wb' = wb /\ first' = first
    BY DEF AcquirePush
<1>3. want[t] \in {"X", "S"}
    BY <1>1, <1>2 DEF CallOf, TypeInv
<1>4. CASE Backoff(t) /\ UNCHANGED <<PushLock, WaitBlock, Top>>
    BY <1>2, <1>4, BackoffStep
<1>5. CASE /\ PushLock = Old[t]
           /\ PushLock' = PushedWord(t)
           /\ WaitBlock' = [WaitBlock EXCEPT ![t] = PushedBlock(t)]
           /\ IF Old[t].W /\ ~Old[t].K
                THEN /\ Top' = [Top EXCEPT ![t] = PushedWord(t)]
                     /\ Goto(t, "Optimize")
                ELSE /\ Goto(t, "InitGate")
                     /\ UNCHANGED Top
           /\ UNCHANGED Old
    <2>1. PushLock.L /\ ~(want[t] = "S" /\ ~PushLock.W /\ PushLock.rest > 0)
        BY <1>2, <1>5 DEF Admits
    <2>2. PICK n : n = PushedBlock(t)
        OBVIOUS
    <2>3. WaitBlock' = [WaitBlock EXCEPT ![t] = n]
        BY <1>5, <2>2
    <2>4. CASE PushLock.W
        <3>1. PushLock' = [PushLock EXCEPT !.K = TRUE, !.rest = t]
            BY <1>5, <2>4 DEF PushedWord
        <3>2. /\ PushLock' \in GoodWord /\ PushLock'.L = PushLock.L /\ PushLock'.W /\ PushLock'.K
              /\ PushLock'.M = PushLock.M /\ PushLock'.rest = t
            BY <1>1, <2>4, <3>1 DEF GoodWord, Word
        <3>3. PushLock.rest \in Threads
            BY <1>1, <2>4, WordFields
        <3>4. n = [Next |-> PushLock.rest, Last |-> NULL, Previous |-> NULL, ShareCount |-> 0,
                   Exclusive |-> want[t] = "X", Spinning |-> TRUE, WakeGate |-> "none"]
            BY <1>5, <2>2, <2>4 DEF PushedBlock
        <3>5. 0 \in Nat
            OBVIOUS
        <3>6. /\ n \in BlockType /\ n.Next = PushLock.rest /\ n.Last = NULL /\ n.Previous = NULL
              /\ n.ShareCount = 0 /\ n.Spinning
            BY <3>3, <3>4, <3>5 DEF BlockType
        <3>7. WaitBlock'[t] = n /\ \A b \in Threads \ {t} : WaitBlock'[b] = WaitBlock[b]
            BY <1>1, <2>3 DEF TypeInv
        <3>8. WaitBlock' \in [Threads -> BlockType]
            BY <1>1, <2>3, <3>6 DEF TypeInv
        <3>9. \/ PushLock.K /\ Goto(t, "InitGate") /\ UNCHANGED Top
              \/ ~PushLock.K /\ Goto(t, "Optimize") /\ Top' = [Top EXCEPT ![t] = PushLock']
            BY <1>1, <1>5, <2>4, WordFields
        <3>10. TypeInv' /\ Only(t)
            BY <1>1, <1>2, <1>5, <3>2, <3>8, <3>9 DEF TypeInv, Labels, Only, Goto
        <3>11. \/ PushLock.K /\ pc'[t] = "InitGate"
               \/ ~PushLock.K /\ pc'[t] = "Optimize" /\ Top'[t] = PushLock'
            BY <1>1, <3>9 DEF TypeInv, Goto
        <3>12. QED
            BY <1>2, <2>4, <3>2, <3>6, <3>7, <3>10, <3>11, PushOn
    <2>5. CASE ~PushLock.W
        <3>1. PushLock.rest \in Nat /\ (want[t] = "S" => PushLock.rest = 0)
            BY <1>1, <2>1, <2>5, WordFields
        <3>2. PICK m \in BOOLEAN : m <=> (want[t] = "X" /\ PushLock.rest > 1)
            OBVIOUS
        <3>3. PushLock' = [L |-> TRUE, W |-> TRUE, K |-> FALSE, M |-> m, rest |-> t]
            BY <1>5, <2>5, <3>2 DEF PushedWord
        <3>4. /\ PushLock' \in GoodWord /\ PushLock'.L /\ PushLock'.W /\ ~PushLock'.K
              /\ PushLock'.M = m /\ PushLock'.rest = t
            BY <3>3, MakeWord
        <3>5. PICK c \in Nat : c = IF m THEN PushLock.rest ELSE 0
            BY <3>1
        <3>6. n = [Next |-> NULL, Last |-> t, Previous |-> NULL, ShareCount |-> c,
                   Exclusive |-> want[t] = "X", Spinning |-> TRUE, WakeGate |-> "none"]
            BY <1>5, <2>2, <2>5, <3>2, <3>5 DEF PushedBlock
        <3>7. /\ n \in BlockType /\ n.Last = t /\ n.Previous = NULL
              /\ n.ShareCount = c /\ n.Spinning /\ (n.Exclusive <=> want[t] = "X")
            BY <3>6 DEF BlockType
        <3>8. WaitBlock'[t] = n /\ \A b \in Threads \ {t} : WaitBlock'[b] = WaitBlock[b]
            BY <1>1, <2>3 DEF TypeInv
        <3>9. WaitBlock' \in [Threads -> BlockType]
            BY <1>1, <2>3, <3>7 DEF TypeInv
        <3>10. Goto(t, "InitGate") /\ UNCHANGED Top
            BY <1>5, <2>5
        <3>11. TypeInv' /\ Only(t) /\ pc'[t] = "InitGate"
            BY <1>1, <1>2, <1>5, <3>4, <3>9, <3>10 DEF TypeInv, Labels, Only, Goto
        <3>12. QED
            BY <1>2, <2>1, <2>5, <3>1, <3>2, <3>4, <3>5, <3>7, <3>8, <3>11, PushFirst
    <2>6. QED
        BY <2>4, <2>5
<1>6. QED
    BY <1>4, <1>5 DEF AcquirePush

\* The owner of the waking bit at the last block: M is clear, so nobody looks
\* for the count in the chain meanwhile, and nobody else sets pointers in it.
LEMMA AtTail ==
    ASSUME NEW q, NEW lo, NEW hi, NEW f, NEW own, Witness(q, lo, hi, f, own), Inv(q, lo, hi, f, own),
           NEW t \in Threads, pc[t] = "WakeTail"
    PROVE  /\ PushLock.W /\ ~PushLock.M /\ ~Top[t].L /\ pc[t] \in OwnerPCs /\ mode[t] = "none"
           /\ \A u \in Threads : /\ pc[u] \notin {"ShareWalk", "ShareDecrement"}
                                 /\ ~(pc[u] = "Release" /\ Old[u].W /\ Old[u].M)
           /\ \A u \in Threads \ {t} : pc[u] \notin OwnerPCs
<1>1. pc[t] \in OwnerPCs
    BY DEF OwnerPCs
<1>2. WakingOf(t) /\ CallOf(t) /\ HoldInv /\ WakingInv
    BY DEF Inv, WakingInv, CallInv
<1>3. PushLock.W /\ (PushLock.M => Top[t].M)
    BY <1>1, OwnerSees
<1>4. ~PushLock.M /\ ~Top[t].L /\ mode[t] = "none"
    BY <1>1, <1>2, <1>3 DEF WakingOf, WakePCs, CallOf
<1>5. \A u \in Threads : /\ pc[u] \notin {"ShareWalk", "ShareDecrement"}
                         /\ ~(pc[u] = "Release" /\ Old[u].W /\ Old[u].M)
    BY <1>2, <1>4 DEF HoldInv, HoldOf
<1>6. \A u \in Threads \ {t} : pc[u] \notin OwnerPCs
    BY <1>1, <1>2 DEF WakingInv
<1>7. QED
    BY <1>1, <1>3, <1>4, <1>5, <1>6

\* One waiter is taken off the far end of the chain.
LEMMA WakeOneStep ==
    ASSUME IInv, NEW t \in Threads, WakeOne(t)
    PROVE  IInv'
<1>1. PICK q, lo, hi, f, own : Witness(q, lo, hi, f, own) /\ Inv(q, lo, hi, f, own)
    BY DEF IInv
<1>2. /\ pc[t] = "WakeTail" /\ WaitBlock[wb[t]].Previous # NULL
      /\ PushLock' = PushLock /\ mode' = mode /\ want' = want /\ Top' = Top /\ first' = first /\ wb' = wb
      /\ Old' = Old /\ Goto(t, "WakeAnd")
    BY DEF WakeOne, locals
<1>3. /\ PushLock.W /\ ~PushLock.M /\ ~Top[t].L /\ pc[t] \in OwnerPCs /\ mode[t] = "none"
      /\ \A u \in Threads : /\ pc[u] \notin {"ShareWalk", "ShareDecrement"}
                            /\ ~(pc[u] = "Release" /\ Old[u].W /\ Old[u].M)
      /\ \A u \in Threads \ {t} : pc[u] \notin OwnerPCs
    BY <1>1, <1>2, AtTail
<1>4. /\ TypeInv /\ WakingOf(t) /\ CallOf(t) /\ WalkOf(t, q, lo, hi, f) /\ ChainInv(q, lo, hi, f)
      /\ CountInv(q, lo) /\ ListInv(own)
    BY <1>1 DEF Inv, WakingInv, CallInv, BlockInv
<1>5. lo \in Nat /\ hi \in Nat /\ f \in Nat /\ lo <= f /\ f <= hi /\ lo \in lo..hi /\ f \in lo..hi /\ hi \in lo..hi
    BY <1>1, <1>3, Indices
<1>6. /\ \A i \in lo..hi : q[i] \in Threads
      /\ \A i, j \in lo..hi : q[i] = q[j] => i = j
      /\ q[hi] = PushLock.rest
      /\ \A i \in (lo + 1)..hi : WaitBlock[q[i]].Next = q[i - 1]
      /\ \A i \in (f + 1)..hi : WaitBlock[q[i]].Last = NULL
      /\ WaitBlock[q[hi]].Previous = NULL
    BY <1>3, <1>4 DEF ChainInv
<1>7. PICK p \in f..hi :
         /\ q[p] = Top[t].rest /\ WaitBlock[q[p]].Previous = NULL /\ first[t] = q[p]
         /\ wb[t] = q[lo]
         /\ \A i \in lo..(p - 1) : WaitBlock[q[i]].Previous = q[i + 1]
    BY <1>2, <1>3, <1>4 DEF WalkOf
<1>8. p # lo
    BY <1>2, <1>7
<1>9. PICK k \in Nat : k = lo + 1
    BY <1>5
<1>10. /\ p \in Nat /\ p \in lo..hi /\ k <= p /\ p <= hi /\ k \in lo..hi /\ lo \in lo..(p - 1) /\ hi # lo
       /\ \A i \in k..hi : i \in lo..hi /\ i # lo
       /\ \A i \in lo..hi : i # lo => i \in k..hi
    BY <1>5, <1>7, <1>8, <1>9
<1>11. q[lo] \in Threads /\ q[p] \in Threads /\ q[k] \in Threads /\ q[p] # q[lo]
    BY <1>5, <1>6, <1>8, <1>10
<1>12. WaitBlock[q[lo]].Previous = q[k]
    BY <1>7, <1>9, <1>10
<1>13. PICK n : n = [WaitBlock[q[p]] EXCEPT !.Last = q[k]]
    OBVIOUS
<1>14. PICK m : m = [WaitBlock[q[lo]] EXCEPT !.Previous = NULL]
    OBVIOUS
<1>15. WaitBlock[q[p]] \in BlockType /\ WaitBlock[q[lo]] \in BlockType
    BY <1>4, <1>11 DEF TypeInv
<1>16. /\ n \in BlockType /\ n.Next = WaitBlock[q[p]].Next /\ n.Last = q[k]
       /\ n.Previous = WaitBlock[q[p]].Previous /\ n.ShareCount = WaitBlock[q[p]].ShareCount
       /\ n.Exclusive = WaitBlock[q[p]].Exclusive /\ n.Spinning = WaitBlock[q[p]].Spinning
       /\ n.WakeGate = WaitBlock[q[p]].WakeGate
    BY <1>11, <1>13, <1>15 DEF BlockType
<1>17. /\ m \in BlockType /\ m.Previous = NULL /\ m.ShareCount = WaitBlock[q[lo]].ShareCount
       /\ m.Exclusive = WaitBlock[q[lo]].Exclusive /\ m.Spinning = WaitBlock[q[lo]].Spinning
       /\ m.WakeGate = WaitBlock[q[lo]].WakeGate
    BY <1>11, <1>14, <1>15 DEF BlockType
<1>18. /\ WaitBlock' \in [Threads -> BlockType] /\ WaitBlock'[q[p]] = n /\ WaitBlock'[q[lo]] = m
       /\ \A b \in Threads \ {q[p], q[lo]} : WaitBlock'[b] = WaitBlock[b]
    <2>1. WaitBlock' = [WaitBlock EXCEPT ![q[p]].Last = q[k], ![q[lo]].Previous = NULL]
        BY <1>7, <1>12 DEF WakeOne
    <2>2. PICK x : x = [WaitBlock EXCEPT ![q[p]] = n]
        OBVIOUS
    <2>3. /\ x \in [Threads -> BlockType] /\ x[q[p]] = n /\ x[q[lo]] = WaitBlock[q[lo]]
          /\ \A b \in Threads \ {q[p]} : x[b] = WaitBlock[b]
        BY <1>4, <1>11, <1>16, <2>2 DEF TypeInv
    <2>4. WaitBlock' = [x EXCEPT ![q[lo]].Previous = NULL]
        BY <1>13, <2>1, <2>2
    <2>5. WaitBlock' = [x EXCEPT ![q[lo]] = m]
        BY <1>14, <2>3, <2>4
    <2>6. QED
        BY <1>11, <1>17, <2>3, <2>5
<1>19. TypeInv' /\ Only(t) /\ pc'[t] = "WakeAnd" /\ pc'[t] \in OwnerPCs
    BY <1>2, <1>4, <1>18 DEF TypeInv, Labels, Only, Goto, OwnerPCs
<1>20. \A b \in Threads : SameRest(b) /\ (b # q[lo] => WaitBlock'[b].Previous = WaitBlock[b].Previous)
    BY <1>16, <1>17, <1>18 DEF SameRest
<1>21. CallInv'
    <2>1. CallOf(t)'
        BY <1>2, <1>3, <1>19 DEF CallOf
    <2>2. QED
        BY <1>1, <1>19, <2>1, CallKept DEF Inv
<1>22. HoldInv'
    <2>1. HoldOf(t)' /\ (Holds(t)' <=> Holds(t)) /\ pc'[t] # "ReleaseLast"
        BY <1>2, <1>19 DEF HoldOf, Holds
    <2>2. QED
        BY <1>1, <1>2, <1>19, <2>1, HoldKept DEF Inv
<1>23. WakingInv'
    <2>1. WakingOf(t)'
        BY <1>2, <1>3, <1>4, <1>19 DEF WakingOf, WakePCs
    <2>2. QED
        BY <1>1, <1>2, <1>3, <1>19, <2>1, WakingKept DEF Inv
<1>24. PICK own2 : own2 = [own EXCEPT ![q[lo]] = t]
    OBVIOUS
<1>25. /\ own2 \in [Threads -> Threads \cup {NULL}] /\ own2[q[lo]] = t
       /\ \A c \in Threads \ {q[lo]} : own2[c] = own[c]
    BY <1>1, <1>11, <1>24 DEF Witness
<1>26. Witness(q, k, hi, p, own2)
    BY <1>1, <1>10, <1>25 DEF Witness
<1>27. own[q[lo]] = NULL /\ \A c \in Threads : own[c] # NULL => WaitBlock[c].Previous # q[lo]
    <2>1. own[q[lo]] = NULL
        BY <1>1, <1>3, <1>5, <1>11 DEF Inv, BlockInv, SleepOf, OnChain
    <2>2. QED
        BY <1>4, <1>11, <2>1, NullIsNoThread DEF ListInv
<1>28. ChainInv(q, k, hi, p)'
    <2>1. \A i \in k..hi : /\ q[i] \in Threads /\ q[i] # q[lo]
                           /\ WaitBlock'[q[i]].Next = WaitBlock[q[i]].Next
                           /\ WaitBlock'[q[i]].Previous = WaitBlock[q[i]].Previous
                           /\ i # p => WaitBlock'[q[i]].Last = WaitBlock[q[i]].Last
        <3>1. \A i \in k..hi : q[i] \in Threads /\ q[i] # q[lo] /\ (i # p => q[i] # q[p])
            BY <1>5, <1>6, <1>10
        <3>2. QED
            BY <1>16, <1>18, <3>1
    <2>2. /\ \A i \in (k + 1)..hi : i \in k..hi /\ i \in (lo + 1)..hi
          /\ \A i \in (p + 1)..hi : i \in k..hi /\ i \in (f + 1)..hi /\ i # p
          /\ \A i \in k..(p - 1) : i \in k..hi /\ i \in lo..(p - 1)
          /\ hi \in k..hi
        BY <1>5, <1>7, <1>9, <1>10
    <2>3. \A i, j \in k..hi : q[i] = q[j] => i = j
        BY <1>6, <1>10
    <2>4. \A i \in (k + 1)..hi : WaitBlock'[q[i]].Next = q[i - 1]
        BY <1>6, <2>1, <2>2
    <2>5. WaitBlock'[q[p]].Last = q[k] /\ \A i \in (p + 1)..hi : WaitBlock'[q[i]].Last = NULL
        BY <1>6, <1>16, <1>18, <2>1, <2>2
    <2>6. \A i \in k..(p - 1) : WaitBlock'[q[i]].Previous = q[i + 1]
        BY <1>7, <2>1, <2>2
    <2>7. WaitBlock'[q[hi]].Previous = NULL
        BY <1>6, <2>1, <2>2
    <2>8. QED
        BY <1>2, <1>3, <1>6, <1>10, <2>1, <2>3, <2>4, <2>5, <2>6, <2>7 DEF ChainInv
<1>29. CountInv(q, k)'
    BY <1>2, <1>3, <1>4, <1>20 DEF CountInv, SameRest
<1>30. ListInv(own2)'
    <2>1. ASSUME NEW c \in Threads, own2[c] # NULL, WaitBlock'[c].Previous # NULL
          PROVE  c # q[lo] /\ own[c] # NULL /\ WaitBlock'[c].Previous = WaitBlock[c].Previous
        <3>1. c # q[lo]
            BY <1>17, <1>18, <2>1
        <3>2. QED
            BY <1>20, <1>25, <2>1, <3>1
    <2>2. ASSUME NEW c \in Threads, own2[c] # NULL, WaitBlock'[c].Previous # NULL
          PROVE  own2[WaitBlock'[c].Previous] = own2[c]
        <3>1. c # q[lo] /\ own[c] # NULL /\ WaitBlock'[c].Previous = WaitBlock[c].Previous
            BY <2>1, <2>2
        <3>2. own[WaitBlock[c].Previous] = own[c] /\ WaitBlock[c].Previous # q[lo]
            BY <1>4, <1>27, <2>2, <3>1 DEF ListInv
        <3>3. WaitBlock[c].Previous \in Threads
            BY <1>4, <2>2, <3>1 DEF TypeInv, BlockType
        <3>4. QED
            BY <1>25, <3>1, <3>2, <3>3
    <2>3. ASSUME NEW c \in Threads, NEW d \in Threads, own2[c] # NULL, own2[d] # NULL,
                 WaitBlock'[c].Previous # NULL, WaitBlock'[c].Previous = WaitBlock'[d].Previous
          PROVE  c = d
        <3>1. /\ own[c] # NULL /\ WaitBlock'[c].Previous = WaitBlock[c].Previous
              /\ own[d] # NULL /\ WaitBlock'[d].Previous = WaitBlock[d].Previous
            BY <2>1, <2>3
        <3>2. QED
            BY <1>4, <2>3, <3>1 DEF ListInv
    <2>4. QED
        BY <2>2, <2>3 DEF ListInv
<1>31. ASSUME NEW u \in Threads
       PROVE  (WalkOf(u, q, k, hi, p) /\ SignalOf(u, own2) /\ SleepOf(u, q, k, hi, own2))'
    <2>1. SignalOf(u, own) /\ SleepOf(u, q, lo, hi, own)
        BY <1>1 DEF Inv, BlockInv
    <2>2. WalkOf(u, q, k, hi, p)'
        <3>1. CASE u = t
            BY <1>19, <3>1 DEF WalkOf
        <3>2. CASE u # t
            BY <1>3, <1>19, <3>2 DEF WalkOf, Only
        <3>3. QED
            BY <3>1, <3>2
    <2>3. \A c \in Threads : own2[c] # NULL => WaitBlock'[c].Previous # q[lo]
        <3>1. WaitBlock'[q[lo]].Previous # q[lo]
            BY <1>11, <1>17, <1>18, NullIsNoThread
        <3>2. QED
            BY <1>20, <1>25, <1>27, <3>1
    <2>4. SignalOf(u, own2)'
        <3>1. CASE u = t
            <4>1. wb'[t] = q[lo] /\ WaitBlock'[q[lo]].Previous = NULL
                BY <1>2, <1>7, <1>17, <1>18
            <4>2. QED
                BY <1>11, <1>19, <1>25, <2>3, <3>1, <4>1 DEF SignalOf
        <3>2. CASE u # t
            <4>1. SUFFICES ASSUME pc[u] \in {"WakeAnd", "Signal", "SignalGate"} PROVE SignalOf(u, own2)'
                BY <1>19, <3>2 DEF SignalOf, Only
            <4>2. wb[u] \in Threads /\ own[wb[u]] = u /\ wb[u] # q[lo]
                BY <1>27, <2>1, <4>1, NullIsNoThread DEF SignalOf
            <4>3. own2[wb[u]] = u /\ WaitBlock'[wb[u]].Previous = WaitBlock[wb[u]].Previous
                  /\ WaitBlock'[wb[u]].Spinning = WaitBlock[wb[u]].Spinning
                BY <1>20, <1>25, <4>2 DEF SameRest
            <4>4. \A c \in Threads : own2[c] # NULL => WaitBlock'[c].Previous # wb[u]
                <5>1. WaitBlock'[q[lo]].Previous # wb[u]
                    BY <1>17, <1>18, <4>2, NullIsNoThread
                <5>2. \A c \in Threads : own[c] # NULL => WaitBlock[c].Previous # wb[u]
                    BY <2>1, <4>1 DEF SignalOf
                <5>3. QED
                    BY <1>20, <1>25, <5>1, <5>2
            <4>5. wb'[u] = wb[u] /\ pc'[u] = pc[u] /\ first'[u] = first[u]
                BY <1>19, <3>2 DEF Only
            <4>6. QED
                BY <2>1, <4>2, <4>3, <4>4, <4>5 DEF SignalOf
        <3>3. QED
            BY <3>1, <3>2
    <2>5. SleepOf(u, q, k, hi, own2)'
        <3>1. OnChain(q, k, hi, u)' => OnChain(q, lo, hi, u) /\ u # q[lo]
            <4>1. ASSUME NEW i \in k..hi, q[i] = u PROVE i \in lo..hi /\ u # q[lo]
                BY <1>5, <1>6, <1>10, <4>1
            <4>2. QED
                BY <1>3, <4>1 DEF OnChain
        <3>2. OnChain(q, k, hi, u)' => own2[u] = NULL
            BY <1>25, <2>1, <3>1 DEF SleepOf
        <3>3. OnChain(q, k, hi, u)' \/ own2[u] # NULL => OnChain(q, lo, hi, u) \/ own[u] # NULL
            <4>1. OnChain(q, lo, hi, q[lo])
                BY <1>3, <1>5 DEF OnChain
            <4>2. QED
                BY <1>25, <3>1, <4>1
        <3>4. Queued(u) => /\ Queued(u)'
                           /\ pc'[u] = "GateWait" <=> pc[u] = "GateWait"
                           /\ pc'[u] \in {"Spin", "GateWait"} => pc[u] \in {"Spin", "GateWait"}
            <4>1. CASE u = t
                BY <1>2, <1>3, <1>19, <4>1 DEF Queued
            <4>2. CASE u # t
                BY <1>19, <4>2 DEF Queued, Only
            <4>3. QED
                BY <4>1, <4>2
        <3>5. QED
            BY <1>20, <2>1, <3>2, <3>3, <3>4 DEF SleepOf, SameRest
    <2>6. QED
        BY <2>2, <2>4, <2>5
<1>32. BlockInv(q, k, hi, p, own2)'
    BY <1>28, <1>29, <1>30, <1>31 DEF BlockInv
<1>33. QED
    BY <1>19, <1>21, <1>22, <1>23, <1>26, <1>32, Together

\* The whole chain is taken off the word: its blocks are one list, from the last
\* to the head, and the thread that took them is their owner.
LEMMA WakeAllTaken ==
    ASSUME IInv, NEW t \in Threads, pc[t] = "WakeTail", PushLock = Top[t], PushLock' = Free,
           BeginSignal(t), UNCHANGED <<wb, WaitBlock, mode, want, Old>>
    PROVE  IInv'
<1>1. PICK q, lo, hi, f, own : Witness(q, lo, hi, f, own) /\ Inv(q, lo, hi, f, own)
    BY DEF IInv
<1>2. /\ PushLock.W /\ ~PushLock.M /\ ~Top[t].L /\ pc[t] \in OwnerPCs /\ mode[t] = "none"
      /\ \A u \in Threads : /\ pc[u] \notin {"ShareWalk", "ShareDecrement"}
                            /\ ~(pc[u] = "Release" /\ Old[u].W /\ Old[u].M)
      /\ \A u \in Threads \ {t} : pc[u] \notin OwnerPCs
    BY <1>1, AtTail
<1>3. /\ TypeInv /\ CallInv /\ CallOf(t) /\ HoldInv /\ WalkOf(t, q, lo, hi, f) /\ ChainInv(q, lo, hi, f)
      /\ CountInv(q, lo) /\ ListInv(own)
    BY <1>1 DEF Inv, CallInv, BlockInv
<1>4. lo \in Nat /\ hi \in Nat /\ f \in Nat /\ lo <= f /\ f <= hi /\ lo \in lo..hi /\ f \in lo..hi /\ hi \in lo..hi
    BY <1>1, <1>2, Indices
<1>5. /\ \A i \in lo..hi : q[i] \in Threads
      /\ \A i, j \in lo..hi : q[i] = q[j] => i = j
      /\ q[hi] = PushLock.rest
      /\ WaitBlock[q[hi]].Previous = NULL
    BY <1>2, <1>3 DEF ChainInv
<1>6. /\ wb[t] = q[lo]
      /\ \A i \in lo..(hi - 1) : WaitBlock[q[i]].Previous = q[i + 1]
    <2>1. PICK p \in f..hi :
             /\ q[p] = Top[t].rest /\ wb[t] = q[lo]
             /\ \A i \in lo..(p - 1) : WaitBlock[q[i]].Previous = q[i + 1]
        BY <1>2, <1>3 DEF WalkOf
    <2>2. p \in lo..hi
        BY <1>4, <2>1
    <2>3. p = hi
        BY <1>4, <1>5, <2>1, <2>2
    <2>4. QED
        BY <2>1, <2>3
<1>7. TypeInv' /\ Only(t) /\ pc'[t] = "Signal" /\ pc'[t] \notin OwnerPCs
    BY <1>3, FreeWord DEF TypeInv, Labels, Only, Goto, BeginSignal, OwnerPCs
<1>8. ~PushLock'.L /\ ~PushLock'.W /\ ~PushLock'.K /\ ~PushLock'.M
    BY FreeWord
<1>9. CallInv'
    <2>1. CallOf(t)'
        BY <1>2, <1>7 DEF CallOf, OwnerPCs
    <2>2. QED
        BY <1>3, <1>7, <2>1, CallKept
<1>10. \A u \in Threads : ~Holds(u)
    BY <1>2, <1>3, NobodyHolds
<1>11. HoldInv'
    BY <1>2, <1>3, <1>7, <1>8, <1>10, HoldLeft
<1>12. WakingInv'
    BY <1>1, <1>2, <1>7, <1>8, WakingGiven DEF Inv
<1>13. PICK own2 : own2 = [b \in Threads |-> IF \E i \in lo..hi : q[i] = b THEN t ELSE own[b]]
    OBVIOUS
<1>14. /\ own2 \in [Threads -> Threads \cup {NULL}]
       /\ \A i \in lo..hi : own2[q[i]] = t
       /\ \A b \in Threads : (\E i \in lo..hi : q[i] = b) \/ own2[b] = own[b]
    BY <1>1, <1>5, <1>13 DEF Witness
<1>15. Witness(q, lo, hi, f, own2)
    BY <1>1, <1>14 DEF Witness
<1>16. \A i \in lo..hi : own[q[i]] = NULL
    BY <1>1, <1>2, <1>5 DEF Inv, BlockInv, SleepOf, OnChain
<1>17. \A i \in lo..hi : /\ i # hi => i + 1 \in lo..hi /\ WaitBlock[q[i]].Previous = q[i + 1]
                         /\ i = hi => WaitBlock[q[i]].Previous = NULL
    <2>1. \A i \in lo..hi : i # hi => i \in lo..(hi - 1) /\ i + 1 \in lo..hi
        BY <1>4
    <2>2. QED
        BY <1>5, <1>6, <2>1
<1>18. \A b \in Threads : own[b] # NULL /\ WaitBlock[b].Previous # NULL =>
          \A i \in lo..hi : WaitBlock[b].Previous # q[i]
    BY <1>3, <1>16 DEF ListInv
<1>19. ListInv(own2)'
    <2>1. ASSUME NEW b \in Threads, own2[b] # NULL, WaitBlock[b].Previous # NULL
          PROVE  own2[WaitBlock[b].Previous] = own2[b]
        <3>1. CASE \E i \in lo..hi : q[i] = b
            <4>1. PICK i \in lo..hi : q[i] = b
                BY <3>1
            <4>2. i # hi
                BY <1>17, <2>1, <4>1
            <4>3. QED
                BY <1>14, <1>17, <4>1, <4>2
        <3>2. CASE own2[b] = own[b] /\ ~\E i \in lo..hi : q[i] = b
            <4>1. own[WaitBlock[b].Previous] = own[b]
                BY <1>3, <2>1, <3>2 DEF ListInv
            <4>2. WaitBlock[b].Previous \in Threads
                BY <1>3, <2>1 DEF TypeInv, BlockType
            <4>3. own2[WaitBlock[b].Previous] = own[WaitBlock[b].Previous]
                BY <1>14, <1>18, <2>1, <3>2, <4>2
            <4>4. QED
                BY <3>2, <4>1, <4>3
        <3>3. QED
            BY <1>14, <3>1, <3>2
    <2>2. ASSUME NEW b \in Threads, NEW c \in Threads, own2[b] # NULL, own2[c] # NULL,
                 WaitBlock[b].Previous # NULL, WaitBlock[b].Previous = WaitBlock[c].Previous
          PROVE  b = c
        <3>1. ASSUME NEW x \in Threads, NEW y \in Threads, own2[y] # NULL,
                     WaitBlock[x].Previous # NULL, WaitBlock[x].Previous = WaitBlock[y].Previous,
                     NEW i \in lo..hi, q[i] = x
              PROVE  x = y
            <4>1. i # hi /\ i + 1 \in lo..hi /\ WaitBlock[x].Previous = q[i + 1]
                BY <1>17, <3>1
            <4>2. PICK j \in lo..hi : q[j] = y
                BY <1>14, <1>18, <3>1, <4>1
            <4>3. j # hi /\ j + 1 \in lo..hi /\ q[j + 1] = q[i + 1]
                BY <1>17, <3>1, <4>1, <4>2
            <4>4. i + 1 = j + 1
                BY <1>5, <4>1, <4>3
            <4>5. i = j
                BY <1>4, <4>4
            <4>6. QED
                BY <3>1, <4>2, <4>5
        <3>2. CASE \E i \in lo..hi : q[i] = b
            BY <2>2, <3>1, <3>2
        <3>3. CASE \E i \in lo..hi : q[i] = c
            BY <2>2, <3>1, <3>3
        <3>4. CASE own2[b] = own[b] /\ own2[c] = own[c]
            BY <1>3, <2>2, <3>4 DEF ListInv
        <3>5. QED
            BY <1>14, <3>2, <3>3, <3>4
    <2>3. QED
        BY <2>1, <2>2 DEF ListInv
<1>20. \A b \in Threads : own2[b] # NULL => WaitBlock[b].Previous # q[lo]
    <2>1. ASSUME NEW i \in lo..hi PROVE WaitBlock[q[i]].Previous # q[lo]
        <3>1. CASE i = hi
            BY <1>4, <1>5, <1>17, <3>1, NullIsNoThread
        <3>2. CASE i # hi
            <4>1. i + 1 # lo
                BY <1>4
            <4>2. QED
                BY <1>4, <1>5, <1>17, <3>2, <4>1
        <3>3. QED
            BY <3>1, <3>2
    <2>2. \A b \in Threads : own[b] # NULL => WaitBlock[b].Previous # q[lo]
        BY <1>4, <1>5, <1>18, NullIsNoThread
    <2>3. QED
        BY <1>14, <2>1, <2>2
<1>21. ChainInv(q, lo, hi, f)' /\ CountInv(q, lo)'
    <2>1. ChainInv(q, lo, hi, f)'
        BY <1>8 DEF ChainInv
    <2>2. CountInv(q, lo)'
        BY <1>2, <1>3, <1>8, NothingSaved
    <2>3. QED
        BY <2>1, <2>2
<1>22. ASSUME NEW u \in Threads
       PROVE  (WalkOf(u, q, lo, hi, f) /\ SignalOf(u, own2) /\ SleepOf(u, q, lo, hi, own2))'
    <2>1. SignalOf(u, own) /\ SleepOf(u, q, lo, hi, own)
        BY <1>1 DEF Inv, BlockInv
    <2>2. WalkOf(u, q, lo, hi, f)'
        <3>1. CASE u = t
            BY <1>7, <3>1 DEF WalkOf, OwnerPCs
        <3>2. CASE u # t
            BY <1>2, <1>7, <3>2 DEF WalkOf, Only
        <3>3. QED
            BY <3>1, <3>2
    <2>3. SignalOf(u, own2)'
        <3>1. CASE u = t
            <4>1. wb'[t] = q[lo] /\ q[lo] \in Threads /\ own2[q[lo]] = t
                BY <1>4, <1>5, <1>6, <1>14
            <4>2. QED
                BY <1>7, <1>20, <3>1, <4>1 DEF SignalOf
        <3>2. CASE u # t
            <4>1. SUFFICES ASSUME pc[u] \in {"WakeAnd", "Signal", "SignalGate"} PROVE SignalOf(u, own2)'
                BY <1>7, <3>2 DEF SignalOf, Only
            <4>2. wb[u] \in Threads /\ own[wb[u]] = u /\ \A i \in lo..hi : q[i] # wb[u]
                BY <1>16, <2>1, <4>1, NullIsNoThread DEF SignalOf
            <4>3. own2[wb[u]] = u
                BY <1>14, <4>2
            <4>4. \A c \in Threads : own2[c] # NULL => WaitBlock[c].Previous # wb[u]
                <5>1. \A i \in lo..hi : WaitBlock[q[i]].Previous # wb[u]
                    BY <1>17, <4>2, NullIsNoThread
                <5>2. \A c \in Threads : own[c] # NULL => WaitBlock[c].Previous # wb[u]
                    BY <2>1, <4>1 DEF SignalOf
                <5>3. QED
                    BY <1>14, <5>1, <5>2
            <4>5. wb'[u] = wb[u] /\ pc'[u] = pc[u] /\ first'[u] = first[u]
                BY <1>7, <3>2 DEF Only
            <4>6. QED
                BY <2>1, <4>2, <4>3, <4>4, <4>5 DEF SignalOf
        <3>3. QED
            BY <3>1, <3>2
    <2>4. SleepOf(u, q, lo, hi, own2)'
        <3>1. ~OnChain(q, lo, hi, u)'
            BY <1>8 DEF OnChain
        <3>2. own2[u] # NULL => OnChain(q, lo, hi, u) \/ own[u] # NULL
            BY <1>2, <1>14 DEF OnChain
        <3>3. Queued(u) => /\ Queued(u)'
                           /\ pc'[u] = "GateWait" <=> pc[u] = "GateWait"
                           /\ pc'[u] \in {"Spin", "GateWait"} => pc[u] \in {"Spin", "GateWait"}
            <4>1. CASE u = t
                BY <1>2, <1>7, <4>1 DEF Queued
            <4>2. CASE u # t
                BY <1>7, <4>2 DEF Queued, Only
            <4>3. QED
                BY <4>1, <4>2
        <3>4. QED
            BY <2>1, <3>1, <3>2, <3>3 DEF SleepOf
    <2>5. QED
        BY <2>2, <2>3, <2>4
<1>23. BlockInv(q, lo, hi, f, own2)'
    BY <1>19, <1>21, <1>22 DEF BlockInv
<1>24. QED
    BY <1>7, <1>9, <1>11, <1>12, <1>15, <1>23, Together

\* The whole chain taken off, or the routine begun again: the invariant is kept.
LEMMA WakeAllStep ==
    ASSUME IInv, NEW t \in Threads, WakeAll(t)
    PROVE  IInv'
    BY WakeAllTaken, StartOverStep DEF WakeAll

----------------------------------------------------------------------------
(* The invariant *)

\* The invariant holds initially,
LEMMA InitInv == Init => IInv
<1>1. SUFFICES ASSUME Init PROVE IInv
    OBVIOUS
<1>2. 0 \in Nat
    OBVIOUS
<1>3. NoBlock \in BlockType /\ NoBlock.ShareCount = 0
    BY <1>2 DEF NoBlock, BlockType
<1>4. TypeInv
    BY <1>1, <1>3, FreeWord DEF Init, TypeInv, Labels
<1>5. /\ ~PushLock.L /\ ~PushLock.W /\ ~PushLock.K /\ ~PushLock.M /\ PushLock.rest = 0
      /\ \A t \in Threads : pc[t] = "idle" /\ mode[t] = "none" /\ want[t] = "none" /\ pc[t] \in PlainPCs
    BY <1>1, FreeWord DEF Init, PlainPCs
<1>6. CallInv
    BY <1>5 DEF CallInv, CallOf, OwnerPCs
<1>7. HoldInv
    <2>1. SharedOwners = {} /\ \A t \in Threads : ~Holds(t) /\ HoldOf(t)
        BY <1>5, PlainOf DEF SharedOwners, Holds
    <2>2. IsFiniteSet(SharedOwners) /\ Cardinality(SharedOwners) = 0
        BY <2>1, FS_EmptySet
    <2>3. QED
        BY <1>5, <2>1, <2>2 DEF HoldInv
<1>8. WakingInv
    BY <1>5, PlainOf DEF WakingInv
<1>9. PICK q \in [Nat -> Threads \cup {NULL}] : TRUE
    <2>1. [i \in Nat |-> NULL] \in [Nat -> Threads \cup {NULL}]
        OBVIOUS
    <2>2. QED
        BY <2>1
<1>10. PICK own : own = [t \in Threads |-> NULL]
    OBVIOUS
<1>11. own \in [Threads -> Threads \cup {NULL}] /\ \A t \in Threads : own[t] = NULL
    BY <1>10
<1>12. Witness(q, 0, 0, 0, own)
    BY <1>2, <1>9, <1>11 DEF Witness
<1>13. BlockInv(q, 0, 0, 0, own)
    <2>1. ChainInv(q, 0, 0, 0) /\ ListInv(own)
        BY <1>5, <1>11 DEF ChainInv, ListInv
    <2>2. CountInv(q, 0)
        BY <1>1, <1>3, <1>5 DEF CountInv, Init
    <2>3. ASSUME NEW t \in Threads
          PROVE  WalkOf(t, q, 0, 0, 0) /\ SignalOf(t, own) /\ SleepOf(t, q, 0, 0, own)
        <3>1. WalkOf(t, q, 0, 0, 0) /\ SignalOf(t, own)
            BY <1>5, PlainOf
        <3>2. SleepOf(t, q, 0, 0, own)
            BY <1>5, <1>11 DEF SleepOf, OnChain
        <3>3. QED
            BY <3>1, <3>2
    <2>4. QED
        BY <2>1, <2>2, <2>3 DEF BlockInv
<1>14. Inv(q, 0, 0, 0, own)
    BY <1>4, <1>6, <1>7, <1>8, <1>13 DEF Inv
<1>15. QED
    BY <1>12, <1>14 DEF IInv

\* under a step that changes nothing,
LEMMA StutterInv ==
    ASSUME IInv, UNCHANGED vars
    PROVE  IInv'
<1>1. PICK q, lo, hi, f, own : Witness(q, lo, hi, f, own) /\ Inv(q, lo, hi, f, own)
    BY DEF IInv
<1>2. /\ PushLock' = PushLock /\ WaitBlock' = WaitBlock /\ pc' = pc /\ mode' = mode /\ want' = want
      /\ Old' = Old /\ Top' = Top /\ wb' = wb /\ first' = first
    BY DEF vars, locals
<1>3. TypeInv' /\ CallInv' /\ WakingInv'
    BY <1>1, <1>2 DEF Inv, TypeInv, CallInv, CallOf, WakingInv, WakingOf
<1>4. HoldInv'
    BY <1>1, <1>2 DEF Inv, HoldInv, HoldOf, Holds, SharedOwners
<1>5. BlockInv(q, lo, hi, f, own)'
    <2>1. (ChainInv(q, lo, hi, f) /\ CountInv(q, lo) /\ ListInv(own))'
        BY <1>1, <1>2 DEF Inv, BlockInv, ChainInv, CountInv, SharedOwners, ListInv
    <2>2. ASSUME NEW t \in Threads
          PROVE  (WalkOf(t, q, lo, hi, f) /\ SignalOf(t, own) /\ SleepOf(t, q, lo, hi, own))'
        <3>1. WalkOf(t, q, lo, hi, f) /\ SignalOf(t, own) /\ SleepOf(t, q, lo, hi, own)
            BY <1>1 DEF Inv, BlockInv
        <3>2. WalkOf(t, q, lo, hi, f)'
            BY <1>2, <3>1 DEF WalkOf
        <3>3. QED
            BY <1>2, <3>1, <3>2 DEF SignalOf, SleepOf, OnChain, Queued
    <2>3. QED
        BY <2>1, <2>2 DEF BlockInv
<1>6. QED
    BY <1>1, <1>3, <1>4, <1>5, Together

\* and under every step of the specification.
LEMMA NextInv ==
    ASSUME IInv, [Next]_vars
    PROVE  IInv'
<1>1. CASE UNCHANGED vars
    BY <1>1, StutterInv
<1>2. ASSUME NEW t \in Threads, Begin(t) PROVE IInv'
    BY <1>2, AcquireExclusiveStep, AcquireSharedStep DEF Begin
<1>3. ASSUME NEW t \in Threads, Convert(t) PROVE IInv'
    BY <1>3, ConvertStep
<1>4. ASSUME NEW t \in Threads, Continue(t) PROVE IInv'
    <2>1. CASE AcquireRead(t) \/ AcquireCas(t) \/ TryRefused(t) \/ AcquirePush(t)
        BY <2>1, AcquireReadStep, AcquireCasStep, TryRefusedStep, AcquirePushStep
    <2>2. CASE InitGate(t) \/ Spin(t) \/ GateWait(t)
        BY <2>2, InitGateStep, SpinStep, GateWaitStep
    <2>3. CASE Optimize(t) \/ WalkNext(t) \/ OptimizeLast(t) \/ OptimizeCas(t)
        BY <2>3, OptimizeStep, WalkNextStep, OptimizeLastStep, OptimizeCasStep
    <2>4. CASE WakeLocked(t) \/ WakeUnlocked(t) \/ WakeLast(t)
        BY <2>4, WakeLockedStep, BeginWalkStep, WakeLastStep DEF WakeUnlocked
    <2>5. CASE WakeOne(t) \/ WakeAnd(t) \/ WakeAll(t)
        BY <2>5, WakeOneStep, WakeAndStep, WakeAllStep
    <2>6. CASE Signal(t) \/ SignalGate(t)
        BY <2>6, SignalStep, SignalGateStep
    <2>7. CASE ReleaseExclusive(t) \/ TryToWake(t) \/ TryToWakeCas(t)
        BY <2>7, ReleaseExclusiveStep, TryToWakeStep, TryToWakeCasStep
    <2>8. CASE ReleaseRead(t) \/ ExfReleaseExclusive(t) \/ ReleaseNoWaiters(t) \/ ReleaseWaiters(t)
        BY <2>8, ReleaseReadStep, ExfReleaseExclusiveStep, ReleaseNoWaitersStep, ReleaseWaitersStep
    <2>9. CASE ShareWalk(t) \/ ShareDecrement(t) \/ ReleaseLast(t)
        BY <2>9, ShareWalkStep, ShareDecrementStep, ReleaseLastStep
    <2>10. QED
        BY <1>4, <2>1, <2>2, <2>3, <2>4, <2>5, <2>6, <2>7, <2>8, <2>9 DEF Continue
<1>5. QED
    BY <1>1, <1>2, <1>3, <1>4 DEF Next

\* The invariant holds in every state the push lock reaches.
THEOREM PushLockInvariant == Spec => []IInv
    BY InitInv, NextInv, PTL DEF Spec

----------------------------------------------------------------------------
(* What follows *)

\* Every variable has its type, and the word is an address exactly when the
\* code takes it for one.
THEOREM TypeCorrect == Spec => []TypeOK
<1>1. IInv => TypeOK
    <2>1. SUFFICES ASSUME IInv PROVE TypeOK
        OBVIOUS
    <2>2. TypeInv
        BY <2>1 DEF IInv, Inv
    <2>3. PushLock \in Word /\ (PushLock.W => PushLock.rest \in Threads) /\ (~PushLock.W => PushLock.rest \in Nat)
        BY <2>2 DEF TypeInv, GoodWord
    <2>4. Old \in [Threads -> Word] /\ Top \in [Threads -> Word]
        BY <2>2 DEF TypeInv, GoodWord
    <2>5. \A t \in Threads : WaitBlock[t] \in BlockType
        BY <2>2 DEF TypeInv
    <2>6. \A t \in Threads :
             /\ WaitBlock[t].Next \in Threads \cup {NULL}
             /\ WaitBlock[t].Last \in Threads \cup {NULL}
             /\ WaitBlock[t].Previous \in Threads \cup {NULL}
             /\ WaitBlock[t].ShareCount \in Nat
             /\ WaitBlock[t].WakeGate \in {"none", "closed", "open"}
        BY <2>5 DEF BlockType
    <2>7. pc \in [Threads -> {"idle", "ExfAcquire", "ExfTry", "Acquire", "Try", "InitGate", "Spin",
                              "GateWait", "Signal", "SignalGate", "TryToWake", "TryToWakeCas",
                              "ReleaseX", "Release", "ShareWalk", "ShareDecrement", "ReleaseLast"}
                             \cup OwnerPCs]
        BY <2>2 DEF TypeInv, Labels, OwnerPCs
    <2>8. QED
        BY <2>2, <2>3, <2>4, <2>6, <2>7 DEF TypeOK, TypeInv
<1>2. QED
    BY <1>1, PushLockInvariant, PTL

\* A finite set all of whose elements are equal has at most one.
LEMMA AtMostOne ==
    ASSUME NEW S, \A x, y \in S : x = y
    PROVE  IsFiniteSet(S) /\ Cardinality(S) <= 1 /\ (S # {} => Cardinality(S) = 1)
<1>1. CASE S = {}
    BY <1>1, FS_EmptySet
<1>2. CASE S # {}
    <2>1. PICK x : S = {x}
        BY <1>2
    <2>2. IsFiniteSet(S) /\ Cardinality(S) = 1
        BY <2>1, FS_Singleton
    <2>3. QED
        BY <2>2
<1>3. QED
    BY <1>1, <1>2

\* The word, or the count saved in the chain, tells how many own the lock and
\* how: no release can leave the lock held by nobody or free while it is held.
THEOREM OwnersAreCounted == Spec => []OwnersCounted
<1>1. ASSUME IInv PROVE OwnersCounted
    <2>1. PICK q, lo, hi, f, own : Witness(q, lo, hi, f, own) /\ Inv(q, lo, hi, f, own)
        BY <1>1 DEF IInv
    <2>2. TypeInv /\ HoldInv /\ CountInv(q, lo) /\ PushLock \in GoodWord
        BY <2>1 DEF Inv, BlockInv, TypeInv
    <2>3. \A b \in Threads : WaitBlock[b].ShareCount \in Nat
        BY <2>2 DEF TypeInv, BlockType
    <2> DEFINE saved == {b \in Threads : WaitBlock[b].ShareCount > 0}
    <2>4. (\E t \in Threads : mode[t] # "none") => PushLock.L
        BY <2>2 DEF HoldInv, Holds
    <2>5. ASSUME ~PushLock.W
          PROVE  /\ PushLock.rest = Cardinality(SharedOwners)
                 /\ PushLock.L => \E t \in Threads : mode[t] # "none"
        <3>1. PushLock.rest = Cardinality(SharedOwners)
            BY <2>2, <2>5 DEF HoldInv
        <3>2. CASE PushLock.rest = 0
            BY <2>2, <2>5, <3>1, <3>2 DEF HoldInv
        <3>3. CASE PushLock.rest # 0
            <4>1. SharedOwners # {}
                BY <3>1, <3>3, FS_EmptySet
            <4>2. QED
                BY <3>1, <4>1 DEF SharedOwners
        <3>4. QED
            BY <3>2, <3>3
    <2>6. ASSUME PushLock.W, PushLock.M
          PROVE  IF saved = {} THEN SharedOwners = {}
                 ELSE \E b \in saved : saved = {b} /\ WaitBlock[b].ShareCount = Cardinality(SharedOwners)
        <3>1. /\ WaitBlock[q[lo]].ShareCount = Cardinality(SharedOwners)
              /\ \A b \in Threads : WaitBlock[b].ShareCount # 0 => b = q[lo]
            BY <2>2, <2>6 DEF CountInv
        <3>2. IsFiniteSet(SharedOwners)
            BY <2>2 DEF HoldInv
        <3>3. q[lo] \in Threads
            BY <2>1, <2>6, Indices DEF Inv, BlockInv, ChainInv
        <3>4. \A b \in saved : b = q[lo]
            BY <2>3, <3>1
        <3>5. CASE saved = {}
            <4>1. Cardinality(SharedOwners) = 0
                BY <2>3, <3>1, <3>3, <3>5
            <4>2. QED
                BY <3>2, <3>5, <4>1, FS_EmptySet
        <3>6. CASE saved # {}
            BY <3>1, <3>4, <3>6
        <3>7. QED
            BY <3>5, <3>6
    <2>7. ASSUME PushLock.W, ~PushLock.M PROVE saved = {} /\ Cardinality(SharedOwners) <= 1
        <3>1. saved = {}
            BY <2>2, <2>7 DEF CountInv
        <3>2. \A t, u \in SharedOwners : t = u
            BY <2>2, <2>7 DEF HoldInv
        <3>3. QED
            BY <3>1, <3>2, AtMostOne
    <2>8. QED
        BY <2>4, <2>5, <2>6, <2>7 DEF OwnersCounted
<1>2. QED
    BY <1>1, PushLockInvariant, PTL

\* A block that is on the chain or on its way to be signalled is there.
LEMMA ListedIsLive ==
    ASSUME NEW q, NEW lo, NEW hi, NEW f, NEW own, Inv(q, lo, hi, f, own),
           NEW b \in Threads, OnChain(q, lo, hi, b) \/ own[b] # NULL
    PROVE  Live(b)
<1>1. SleepOf(b, q, lo, hi, own)
    BY DEF Inv, BlockInv
<1>2. WaitBlock[b].Spinning \/ WaitBlock[b].WakeGate = "closed"
    BY <1>1 DEF SleepOf
<1>3. ~NoBlock.Spinning /\ NoBlock.WakeGate = "none"
    BY DEF NoBlock
<1>4. QED
    BY <1>2, <1>3 DEF Live

\* Whoever walks the chain, sets pointers in it, counts in it or signals through
\* it touches a block whose thread is still waiting on it.
THEOREM ChainAccessIsSafe == Spec => []ChainAccessSafe
<1>1. ASSUME IInv PROVE ChainAccessSafe
    <2>1. PICK q, lo, hi, f, own : Witness(q, lo, hi, f, own) /\ Inv(q, lo, hi, f, own)
        BY <1>1 DEF IInv
    <2>2. /\ TypeInv /\ HoldInv /\ ChainInv(q, lo, hi, f) /\ CountInv(q, lo)
        BY <2>1 DEF Inv, BlockInv
    <2>3. ASSUME NEW t \in Threads
          PROVE  /\ pc[t] \in {"OptimizeWalk", "WakeWalk", "ShareWalk"} =>
                      /\ Live(wb[t])
                      /\ Live(IF WaitBlock[wb[t]].Last = NULL THEN WaitBlock[wb[t]].Next
                              ELSE WaitBlock[wb[t]].Last)
                 /\ pc[t] \in {"OptimizeWalk", "WakeTail"} => Live(first[t])
                 /\ pc[t] \in {"WakeTail", "WakeAnd", "Signal", "SignalGate", "ShareDecrement"} => Live(wb[t])
                 /\ pc[t] = "ShareDecrement" =>
                      WaitBlock[wb[t]].Exclusive /\ WaitBlock[wb[t]].ShareCount > 0
        <3>1. WalkOf(t, q, lo, hi, f) /\ SignalOf(t, own) /\ HoldOf(t) /\ CallOf(t)
            BY <2>1, <2>2 DEF Inv, BlockInv, HoldInv, CallInv
        <3>2. PushLock.W => \A i \in lo..hi : q[i] \in Threads /\ Live(q[i])
            <4>1. SUFFICES ASSUME PushLock.W, NEW i \in lo..hi PROVE q[i] \in Threads /\ Live(q[i])
                OBVIOUS
            <4>2. q[i] \in Threads /\ OnChain(q, lo, hi, q[i])
                BY <2>2, <4>1 DEF ChainInv, OnChain
            <4>3. QED
                BY <2>1, <4>2, ListedIsLive
        <3>3. ASSUME pc[t] \in {"OptimizeWalk", "WakeWalk", "WakeTail"}
              PROVE  /\ pc[t] # "WakeTail" =>
                          /\ Live(wb[t])
                          /\ Live(IF WaitBlock[wb[t]].Last = NULL THEN WaitBlock[wb[t]].Next
                                  ELSE WaitBlock[wb[t]].Last)
                     /\ Live(first[t])
                     /\ pc[t] = "WakeTail" => Live(wb[t])
            <4>1. PushLock.W
                BY <2>1, <3>3, OwnerSees DEF OwnerPCs
            <4>2. lo \in Nat /\ hi \in Nat /\ f \in Nat /\ lo <= f /\ f <= hi /\ lo \in lo..hi /\ f \in lo..hi
                BY <2>1, <4>1, Indices
            <4>3. PICK p \in f..hi :
                     /\ first[t] = q[p]
                     /\ pc[t] # "WakeTail" => \E w \in f..p : wb[t] = q[w]
                     /\ pc[t] = "WakeTail" => wb[t] = q[lo]
                <5>1. pc[t] \in OwnerPCs \ {"WakeAnd"}
                    BY <3>3 DEF OwnerPCs
                <5>2. QED
                    BY <3>1, <3>3, <5>1 DEF WalkOf
            <4>4. p \in lo..hi
                BY <4>2, <4>3
            <4>5. ASSUME NEW w \in f..p, wb[t] = q[w]
                  PROVE  Live(wb[t]) /\ Live(IF WaitBlock[wb[t]].Last = NULL THEN WaitBlock[wb[t]].Next
                                             ELSE WaitBlock[wb[t]].Last)
                <5>1. w \in lo..hi
                    BY <4>2, <4>3, <4>5
                <5>2. CASE w = f
                    <6>1. WaitBlock[wb[t]].Last = q[lo] /\ q[lo] # NULL
                        BY <2>2, <3>2, <4>1, <4>2, <4>5, <5>2, NullIsNoThread DEF ChainInv
                    <6>2. QED
                        BY <3>2, <4>1, <4>2, <4>5, <5>1, <6>1
                <5>3. CASE w # f
                    <6>1. w \in (f + 1)..hi /\ w \in (lo + 1)..hi /\ w - 1 \in lo..hi
                        BY <4>2, <4>3, <4>5, <5>3
                    <6>2. WaitBlock[wb[t]].Last = NULL /\ WaitBlock[wb[t]].Next = q[w - 1]
                        BY <2>2, <4>1, <4>5, <6>1 DEF ChainInv
                    <6>3. QED
                        BY <3>2, <4>1, <4>5, <5>1, <6>1, <6>2
                <5>4. QED
                    BY <5>2, <5>3
            <4>6. QED
                BY <3>2, <4>1, <4>2, <4>3, <4>4, <4>5
        <3>4. ASSUME pc[t] = "ShareWalk"
              PROVE  Live(wb[t]) /\ Live(IF WaitBlock[wb[t]].Last = NULL THEN WaitBlock[wb[t]].Next
                                         ELSE WaitBlock[wb[t]].Last)
            <4>1. PushLock.M /\ PushLock.W
                BY <2>2, <3>1, <3>4, WordFields DEF HoldOf, TypeInv
            <4>2. lo \in Nat /\ hi \in Nat /\ lo \in lo..hi
                BY <2>1, <4>1, Indices
            <4>3. PICK i \in lo..hi : q[i] = wb[t]
                BY <3>1, <3>4 DEF WalkOf
            <4>4. WaitBlock[q[i]].Last \in {NULL, q[lo]} /\ WaitBlock[q[lo]].Last = q[lo]
                BY <2>2, <4>1, <4>3 DEF ChainInv
            <4>5. CASE WaitBlock[q[i]].Last = NULL
                <5>1. i # lo
                    BY <3>2, <4>1, <4>2, <4>4, <4>5, NullIsNoThread
                <5>2. i \in (lo + 1)..hi /\ i - 1 \in lo..hi
                    BY <4>2, <4>3, <5>1
                <5>3. WaitBlock[q[i]].Next = q[i - 1]
                    BY <2>2, <4>1, <5>2 DEF ChainInv
                <5>4. QED
                    BY <3>2, <4>1, <4>3, <4>5, <5>2, <5>3
            <4>6. CASE WaitBlock[q[i]].Last # NULL
                BY <3>2, <4>1, <4>2, <4>3, <4>4, <4>6
            <4>7. QED
                BY <4>5, <4>6
        <3>5. ASSUME pc[t] \in {"WakeAnd", "Signal", "SignalGate"} PROVE Live(wb[t])
            <4>1. wb[t] \in Threads /\ own[wb[t]] # NULL
                BY <3>1, <3>5, NullIsNoThread DEF SignalOf
            <4>2. QED
                BY <2>1, <4>1, ListedIsLive
        <3>6. ASSUME pc[t] = "ShareDecrement"
              PROVE  Live(wb[t]) /\ WaitBlock[wb[t]].Exclusive /\ WaitBlock[wb[t]].ShareCount > 0
            <4>1. PushLock.M /\ PushLock.W /\ wb[t] = q[lo]
                BY <2>2, <3>1, <3>6, WordFields DEF HoldOf, TypeInv, WalkOf
            <4>2. lo \in lo..hi
                BY <2>1, <4>1, Indices
            <4>3. WaitBlock[wb[t]].Exclusive /\ WaitBlock[wb[t]].ShareCount = Cardinality(SharedOwners)
                BY <2>2, <4>1 DEF CountInv
            <4>4. t \in SharedOwners /\ IsFiniteSet(SharedOwners)
                BY <2>2, <3>1, <3>6 DEF SharedOwners, CallOf, HoldInv
            <4>5. Cardinality(SharedOwners) \in Nat /\ Cardinality(SharedOwners) # 0
                BY <4>4, FS_CardinalityType, FS_EmptySet
            <4>6. Cardinality(SharedOwners) > 0
                BY <4>5
            <4>7. QED
                BY <3>2, <4>1, <4>2, <4>3, <4>6
        <3>7. QED
            BY <3>3, <3>4, <3>5, <3>6
    <2>4. QED
        BY <2>3 DEF ChainAccessSafe
<1>2. QED
    BY <1>1, PushLockInvariant, PTL

\* The waking bit has exactly one owner while it is set; whoever breaks the list
\* up finds M clear and nobody walking it for the share count; a gate is
\* signalled for a thread that waits at it, once, with the count in its block spent.
THEOREM WakeProtocolKept == Spec => []WakeProtocol
<1>1. ASSUME IInv PROVE WakeProtocol
    <2>1. PICK q, lo, hi, f, own : Witness(q, lo, hi, f, own) /\ Inv(q, lo, hi, f, own)
        BY <1>1 DEF IInv
    <2>2. TypeInv /\ HoldInv /\ WakingInv /\ ChainInv(q, lo, hi, f) /\ CountInv(q, lo)
        BY <2>1 DEF Inv, BlockInv
    <2>3. Cardinality({t \in Threads : pc[t] \in OwnerPCs}) = IF PushLock.K THEN 1 ELSE 0
        <3>1. \A t, u \in {x \in Threads : pc[x] \in OwnerPCs} : t = u
            BY <2>2 DEF WakingInv
        <3>2. PushLock.K <=> {t \in Threads : pc[t] \in OwnerPCs} # {}
            BY <2>2 DEF WakingInv, WakingOf
        <3>3. QED
            BY <3>1, <3>2, AtMostOne, FS_EmptySet
    <2>4. PushLock.K => PushLock.W
        BY <2>2, WordFields DEF TypeInv
    <2>5. ASSUME NEW t \in Threads, pc[t] \in WakePCs
          PROVE  /\ ~Top[t].M /\ Top[t].W /\ Top[t].K
                 /\ \A u \in Threads : pc[u] \notin {"ShareWalk", "ShareDecrement"}
        <3>1. pc[t] \in OwnerPCs /\ WakingOf(t)
            BY <2>2, <2>5 DEF WakePCs, OwnerPCs, WakingInv
        <3>2. ~Top[t].M /\ Top[t].W /\ Top[t].K /\ ~PushLock.M
            BY <2>5, <3>1 DEF WakingOf
        <3>3. QED
            BY <2>2, <3>2 DEF HoldInv, HoldOf
    <2>6. ASSUME NEW t \in Threads, pc[t] = "SignalGate"
          PROVE  /\ pc[wb[t]] = "GateWait"
                 /\ WaitBlock[wb[t]].WakeGate = "closed"
                 /\ WaitBlock[wb[t]].ShareCount = 0
        <3>1. wb[t] \in Threads /\ own[wb[t]] # NULL /\ ~WaitBlock[wb[t]].Spinning
            BY <2>1, <2>6, NullIsNoThread DEF Inv, BlockInv, SignalOf
        <3>2. SleepOf(wb[t], q, lo, hi, own)
            BY <2>1, <3>1 DEF Inv, BlockInv
        <3>3. ~OnChain(q, lo, hi, wb[t]) /\ pc[wb[t]] = "GateWait" /\ WaitBlock[wb[t]].WakeGate = "closed"
            BY <3>1, <3>2 DEF SleepOf
        <3>4. CASE ~PushLock.M
            BY <2>2, <3>1, <3>3, <3>4 DEF CountInv
        <3>5. CASE PushLock.M
            <4>1. PushLock.W
                BY <2>2, <3>5, WordFields DEF TypeInv
            <4>2. wb[t] # q[lo]
                BY <2>1, <3>3, <4>1, Indices DEF OnChain
            <4>3. QED
                BY <2>2, <3>1, <3>3, <3>5, <4>2 DEF CountInv
        <3>6. QED
            BY <3>4, <3>5
    <2>7. QED
        BY <2>3, <2>4, <2>5, <2>6 DEF WakeProtocol, WakePCs
<1>2. QED
    BY <1>1, PushLockInvariant, PTL

----------------------------------------------------------------------------
(* The push lock is a reader/writer lock *)

\* A thread that owns the push lock exclusively is its only owner.
THEOREM ExclusiveOwnsAlone == Spec => []RW!Exclusion
<1>1. ASSUME IInv PROVE RW!Exclusion
    <2>1. HoldInv
        BY <1>1 DEF IInv, Inv
    <2>2. QED
        BY <2>1 DEF HoldInv, Holds, RW!Exclusion
<1>2. QED
    BY <1>1, PushLockInvariant, PTL

\* What a thread that takes the lock needs of the others.
LEMMA AdmitsFairly ==
    ASSUME TypeInv, HoldInv, NEW t \in Threads, mode[t] = "none", NEW m \in {"X", "S"},
           ~PushLock.L \/ (m = "S" /\ ~PushLock.W /\ PushLock.rest > 0),
           mode' = [mode EXCEPT ![t] = m]
    PROVE  RW!Next
<1>1. CASE ~PushLock.L
    <2>1. \A u \in Threads : mode[u] = "none"
        BY <1>1, NobodyHolds DEF Holds
    <2>2. CASE m = "X"
        BY <2>1, <2>2 DEF RW!Next, RW!AcquireExclusive
    <2>3. CASE m = "S"
        BY <2>1, <2>3 DEF RW!Next, RW!AcquireShared
    <2>4. QED
        BY <2>2, <2>3
<1>2. CASE m = "S" /\ ~PushLock.W /\ PushLock.rest > 0
    <2>1. \A u \in Threads : mode[u] # "X"
        <3>1. PushLock.rest # 0
            BY <1>2, WordFields DEF TypeInv
        <3>2. QED
            BY <1>2, <3>1, ExclusiveAlone
    <2>2. QED
        BY <1>2, <2>1 DEF RW!Next, RW!AcquireShared
<1>3. QED
    BY <1>1, <1>2

\* Who gives the lock up, with nothing but a hold to lose.
LEMMA GivesUp ==
    ASSUME NEW t \in Threads, mode \in [Threads -> {"none", "X", "S"}],
           mode' = [mode EXCEPT ![t] = "none"]
    PROVE  [RW!Next]_mode
<1>1. CASE mode[t] = "none"
    BY <1>1
<1>2. CASE mode[t] # "none"
    BY <1>2 DEF RW!Next, RW!Release
<1>3. QED
    BY <1>1, <1>2

\* A thread begins: it gets the lock at once, or goes on to the routine.
LEMMA BeginIsAcquire ==
    ASSUME IInv, NEW t \in Threads, Begin(t)
    PROVE  [RW!Next]_mode
<1>1. TypeInv /\ HoldInv /\ mode[t] = "none"
    BY DEF IInv, Inv, Begin, AcquireExclusive, TryAcquireExclusive, AcquireShared, Calls
<1>2. CASE AcquireExclusive(t) \/ TryAcquireExclusive(t)
    <2>1. UNCHANGED mode \/ (~PushLock.L /\ mode' = [mode EXCEPT ![t] = "X"])
        BY <1>2 DEF AcquireExclusive, TryAcquireExclusive, Return
    <2>2. QED
        BY <1>1, <2>1, AdmitsFairly
<1>3. ASSUME NEW try \in BOOLEAN, AcquireShared(t, try) PROVE [RW!Next]_mode
    <2>1. UNCHANGED mode \/ (PushLock = Free /\ mode' = [mode EXCEPT ![t] = "S"])
        BY <1>3 DEF AcquireShared, Return
    <2>2. QED
        BY <1>1, <2>1, FreeWord, AdmitsFairly
<1>4. QED
    BY <1>2, <1>3 DEF Begin

\* A conversion is one of the abstract lock.
LEMMA ConvertIsConvert ==
    ASSUME IInv, NEW t \in Threads, Convert(t)
    PROVE  [RW!Next]_mode
<1>1. TypeInv /\ HoldInv
    BY DEF IInv, Inv
<1>2. CASE ConvertToShared(t)
    BY <1>2 DEF ConvertToShared, Calls, Return, RW!Next, RW!ConvertToShared
<1>3. CASE TryConvertToExclusive(t)
    <2>1. mode[t] = "S" /\ PushLock = SharedBy(1) /\ mode' = [mode EXCEPT ![t] = "X"]
        BY <1>3 DEF TryConvertToExclusive, Calls, Return
    <2>2. 1 \in Nat
        OBVIOUS
    <2>3. ~PushLock.W /\ PushLock.rest = 1
        BY <2>1, <2>2, SharedWord
    <2>4. PushLock.rest <= 1
        BY <2>3
    <2>5. \A u \in Threads \ {t} : mode[u] = "none"
        BY <1>1, <2>1, <2>3, <2>4, SharedAlone DEF Holds
    <2>6. QED
        BY <2>1, <2>5 DEF RW!Next, RW!ConvertToExclusive
<1>4. QED
    BY <1>2, <1>3 DEF Convert

\* A compare-exchange of a release gives the lock up or does nothing.
LEMMA ReleaseIsRelease ==
    ASSUME TypeInv, NEW t \in Threads, NEW new, ReleaseCas(t, new)
    PROVE  [RW!Next]_mode
<1>1. UNCHANGED mode \/ mode' = [mode EXCEPT ![t] = "none"]
    BY DEF ReleaseCas, Return, CasLost
<1>2. QED
    BY <1>1, GivesUp DEF TypeInv

\* The owner of the waking bit holds nothing, and comes to hold nothing.
LEMMA ReturnsWithNothing ==
    ASSUME TypeInv, NEW t \in Threads, OwnerReturns(t) \/ UNCHANGED mode
    PROVE  [RW!Next]_mode
<1>1. UNCHANGED mode \/ mode' = [mode EXCEPT ![t] = "none"]
    BY DEF OwnerReturns, Return
<1>2. QED
    BY <1>1, GivesUp DEF TypeInv

\* A step of a call in progress changes the hold as the abstract lock allows.
LEMMA ContinueIsAllowed ==
    ASSUME IInv, NEW t \in Threads, Continue(t)
    PROVE  [RW!Next]_mode
<1>1. TypeInv /\ HoldInv /\ CallOf(t) /\ mode \in [Threads -> {"none", "X", "S"}]
    BY DEF IInv, Inv, CallInv, TypeInv
<1>2. CASE AcquireCas(t)
    <2>1. CASE /\ PushLock = Old[t] /\ Admits(Old[t], want[t])
               /\ mode' = [mode EXCEPT ![t] = want[t]]
        <3>1. want[t] \in {"X", "S"} /\ mode[t] = "none"
            BY <1>1, <1>2 DEF AcquireCas, CallOf, TypeInv
        <3>2. QED
            BY <1>1, <2>1, <3>1, AdmitsFairly DEF Admits
    <2>2. CASE UNCHANGED mode
        BY <2>2
    <2>3. QED
        BY <1>2, <2>1, <2>2 DEF AcquireCas, Return, CasLost
<1>3. CASE AcquireRead(t) \/ TryRefused(t) \/ AcquirePush(t) \/ InitGate(t) \/ Spin(t) \/ GateWait(t)
    <2>1. UNCHANGED mode \/ mode' = [mode EXCEPT ![t] = "none"]
        BY <1>3 DEF AcquireRead, TryRefused, AcquirePush, InitGate, Spin, GateWait, Return
    <2>2. QED
        BY <1>1, <2>1, GivesUp
<1>4. CASE Optimize(t) \/ WalkNext(t) \/ OptimizeLast(t) \/ WakeUnlocked(t) \/ WakeLast(t)
           \/ WakeOne(t) \/ WakeAnd(t) \/ WakeAll(t)
    BY <1>4 DEF Optimize, WalkNext, OptimizeLast, WakeUnlocked, WakeLast, WakeOne, WakeAnd, WakeAll, BeginWalk
<1>5. CASE OptimizeCas(t) \/ WakeLocked(t) \/ Signal(t) \/ SignalGate(t)
    <2>1. OwnerReturns(t) \/ UNCHANGED mode
        BY <1>5 DEF OptimizeCas, WakeLocked, OwnerCas, CasLost, Signal, SignalGate, SignalNext
    <2>2. QED
        BY <1>1, <2>1, ReturnsWithNothing
<1>6. CASE ReleaseExclusive(t) \/ TryToWake(t) \/ TryToWakeCas(t) \/ ShareDecrement(t)
    <2>1. UNCHANGED mode \/ mode' = [mode EXCEPT ![t] = "none"]
        BY <1>6 DEF ReleaseExclusive, TryToWake, TryToWakeCas, ShareDecrement, Return
    <2>2. QED
        BY <1>1, <2>1, GivesUp
<1>7. CASE ReleaseRead(t) \/ ReleaseWaiters(t) \/ ShareWalk(t)
    BY <1>7 DEF ReleaseRead, ReleaseWaiters, ShareWalk
<1>8. CASE ExfReleaseExclusive(t) \/ ReleaseNoWaiters(t) \/ ReleaseLast(t)
    BY <1>1, <1>8, ReleaseIsRelease DEF ExfReleaseExclusive, ReleaseNoWaiters, ReleaseLast
<1>9. QED
    BY <1>2, <1>3, <1>4, <1>5, <1>6, <1>7, <1>8 DEF Continue

\* The push lock implements the reader/writer lock: through every path of
\* acquire, release and conversion a thread comes to hold the lock only when the
\* other owners allow it.
THEOREM PushLockIsRWLock == Spec => ImplementsRWLock
<1>1. Init => RW!Init
    BY DEF Init, RW!Init
<1>2. ASSUME IInv, [Next]_vars PROVE [RW!Next]_mode
    <2>1. CASE UNCHANGED vars
        BY <2>1 DEF vars
    <2>2. CASE Next
        BY <1>2, <2>2, BeginIsAcquire, ConvertIsConvert, ContinueIsAllowed DEF Next
    <2>3. QED
        BY <1>2, <2>1, <2>2
<1>3. QED
    BY <1>1, <1>2, PushLockInvariant, PTL DEF Spec, ImplementsRWLock, RW!Spec

-----------------------------------------------------------------------------
(***************************************************************************)
(* The cache-aware push lock (ExPushLockCacheAware): it implements the same  *)
(* reader/writer lock, for any number of callers, processors and slots.       *)
(***************************************************************************)
Lines == 0 .. MaxLine - 1

\* The lines are as many as the processors or the slots, whichever are fewer.
LEMMA LinesFit ==
    /\ MaxLine \in Nat \ {0}
    /\ MaxLine <= EX_PUSH_LOCK_FANNED_COUNT
    /\ Lines \subseteq Slots
    /\ 0 \in Lines
    BY CountsPositive DEF MaxLine, Lines, Slots

\* The slots that sharers on the processors take are exactly the lines an
\* exclusive acquire takes.
LEMMA SlotsOfProcessors ==
    {SlotOf(cpu) : cpu \in 0 .. KeNumberProcessors - 1} = Lines
<1> DEFINE K == KeNumberProcessors
           F == EX_PUSH_LOCK_FANNED_COUNT
<1>1. K \in Nat \ {0} /\ F \in Nat \ {0}
    BY CountsPositive
<1>2. ASSUME NEW cpu \in 0 .. K - 1 PROVE SlotOf(cpu) \in Lines
    <2>1. SlotOf(cpu) \in 0 .. F - 1
        BY <1>1 DEF SlotOf
    <2>2. CASE K > F
        BY <2>1, <2>2 DEF Lines, MaxLine
    <2>3. CASE ~(K > F)
        <3>1. cpu \in 0 .. F - 1
            BY <1>1, <2>3
        <3>2. SlotOf(cpu) = cpu
            BY <1>1, <3>1 DEF SlotOf
        <3>3. QED
            BY <3>2, <2>3 DEF Lines, MaxLine
    <2>4. QED
        BY <2>2, <2>3
<1>3. ASSUME NEW i \in Lines PROVE \E cpu \in 0 .. K - 1 : SlotOf(cpu) = i
    <2>1. i \in 0 .. F - 1 /\ i \in 0 .. K - 1
        BY <1>1 DEF Lines, MaxLine
    <2>2. SlotOf(i) = i
        BY <1>1, <2>1 DEF SlotOf
    <2>3. QED
        BY <2>1, <2>2
<1>4. QED
    BY <1>2, <1>3

(***************************************************************************)
(* The inductive invariant: the range an exclusive owner has before it, how  *)
(* each thread holds each slot, and who may hold a slot with an owner.       *)
(***************************************************************************)
RangeInv(t) ==
    /\ fpc[t] \in {"AcquireSlot", "shares"} => Slot[t] \in Lines
    /\ fpc[t] = "AcquireFirst" => Start[t] = 1 /\ End[t] = MaxLine - 1
    /\ fpc[t] \in {"AcquireRest", "AcquireEnd"} =>
         1 <= Start[t] /\ Start[t] <= End[t] + 1 /\ End[t] < MaxLine
    /\ fpc[t] = "ReleaseSlots" => Start[t] < MaxLine /\ End[t] = MaxLine

OwnsLine(t, i) ==
    \/ fpc[t] \in {"AcquireRest", "AcquireEnd"} /\ (i < Start[t] \/ i > End[t])
    \/ fpc[t] = "owns"
    \/ fpc[t] = "ReleaseSlots" /\ i >= Start[t]

SlotInv(t, i) ==
    /\ Locks[i][t] = "X" <=> i \in Lines /\ OwnsLine(t, i)
    /\ Locks[i][t] = "S" <=> fpc[t] = "shares" /\ i = Slot[t]

ExclusionInv ==
    \A i \in Slots, t, u \in Callers : Locks[i][t] = "X" /\ Locks[i][u] # "none" => t = u

FannedInv ==
    /\ FannedTypeOK
    /\ \A t \in Callers : RangeInv(t)
    /\ \A t \in Callers, i \in Slots : SlotInv(t, i)
    /\ ExclusionInv

\* A step of thread t leaves the locals of the other threads alone.
OtherLocals(t) ==
    \A u \in Callers \ {t} : /\ fpc'[u] = fpc[u] /\ Start'[u] = Start[u]
                             /\ End'[u] = End[u] /\ Slot'[u] = Slot[u]

\* The lock as allocated satisfies the invariant.
LEMMA FannedInitInv == FannedInit => FannedInv
<1> SUFFICES ASSUME FannedInit PROVE FannedInv
    OBVIOUS
<1> USE LinesFit
<1>1. FannedTypeOK
    BY DEF FannedInit, FannedTypeOK, Lines
<1>2. ASSUME NEW t \in Callers PROVE RangeInv(t)
    BY DEF FannedInit, RangeInv
<1>3. ASSUME NEW t \in Callers, NEW i \in Slots PROVE SlotInv(t, i)
    BY DEF FannedInit, SlotInv, OwnsLine
<1>4. ExclusionInv
    BY DEF FannedInit, ExclusionInv
<1>5. QED
    BY <1>1, <1>2, <1>3, <1>4 DEF FannedInv

\* A step that leaves the slots alone keeps the invariant when it keeps the
\* thread's own part.
LEMMA FannedLocalStep ==
    ASSUME FannedInv, NEW t \in Callers, FannedTypeOK', UNCHANGED Locks,
           OtherLocals(t),
           RangeInv(t)', \A i \in Slots : SlotInv(t, i)'
    PROVE  FannedInv'
<1>1. ASSUME NEW u \in Callers PROVE RangeInv(u)'
    BY DEF FannedInv, RangeInv, OtherLocals
<1>2. ASSUME NEW u \in Callers, NEW i \in Slots PROVE SlotInv(u, i)'
    BY DEF FannedInv, SlotInv, OwnsLine, OtherLocals
<1>3. ExclusionInv'
    BY DEF FannedInv, ExclusionInv
<1>4. QED
    BY <1>1, <1>2, <1>3 DEF FannedInv

\* What taking or giving back one slot does to the slots.
LEMMA TakeFacts ==
    ASSUME FannedTypeOK, NEW t \in Callers, NEW s \in Slots, NEW m \in {"none", "X", "S"},
           Take(t, s, m)
    PROVE  /\ Locks' \in [Slots -> [Callers -> {"none", "X", "S"}]]
           /\ \A i \in Slots : Locks'[i][t] = IF i = s THEN m ELSE Locks[i][t]
           /\ \A i \in Slots, u \in Callers : i # s \/ u # t => Locks'[i][u] = Locks[i][u]
    BY DEF FannedTypeOK, Take

\* So does one that changes how the thread holds a single slot, when it takes
\* the slot as its push lock lets it.
LEMMA SlotStep ==
    ASSUME FannedInv, NEW t \in Callers, FannedTypeOK', NEW s \in Slots, NEW m \in {"none", "X", "S"},
           Take(t, s, m),
           m = "X" => Vacant(s),
           m = "S" => Sharable(s),
           OtherLocals(t),
           RangeInv(t)', \A i \in Slots : SlotInv(t, i)'
    PROVE  FannedInv'
<1>1. Locks \in [Slots -> [Callers -> {"none", "X", "S"}]]
    BY DEF FannedInv, FannedTypeOK
<1>2. /\ Locks'[s][t] = m
      /\ \A i \in Slots, u \in Callers : i # s \/ u # t => Locks'[i][u] = Locks[i][u]
    BY TakeFacts DEF FannedInv
<1>3. ASSUME NEW u \in Callers PROVE RangeInv(u)'
    BY DEF FannedInv, RangeInv, OtherLocals
<1>4. ASSUME NEW u \in Callers, NEW i \in Slots PROVE SlotInv(u, i)'
    BY <1>2 DEF FannedInv, SlotInv, OwnsLine, OtherLocals
<1>5. ExclusionInv'
    BY <1>1, <1>2 DEF FannedInv, ExclusionInv, Vacant, Sharable
<1>6. QED
    BY <1>3, <1>4, <1>5 DEF FannedInv

\* Every step keeps the invariant.
LEMMA FannedNextInv ==
    FannedInv /\ [FannedNext]_FannedVars => FannedInv'
<1> SUFFICES ASSUME FannedInv, [FannedNext]_FannedVars PROVE FannedInv'
    OBVIOUS
<1> USE LinesFit
<1>0. FannedTypeOK
    BY DEF FannedInv
<1>1. ASSUME NEW t \in Callers, NEW cpu \in 0 .. KeNumberProcessors - 1, CallShared(t, cpu)
      PROVE FannedInv'
    <2>1. SlotOf(cpu) \in Lines
        BY SlotsOfProcessors
    <2>2. FannedTypeOK'
        BY <1>0, <1>1, <2>1 DEF FannedTypeOK, CallShared, FannedGoto
    <2>3. RangeInv(t)' /\ \A i \in Slots : SlotInv(t, i)'
        BY <1>0, <1>1, <2>1 DEF FannedInv, FannedTypeOK, CallShared, FannedGoto, RangeInv, SlotInv, OwnsLine
    <2>4. QED
        BY <1>0, <1>1, <2>2, <2>3, FannedLocalStep DEF OtherLocals, CallShared, FannedGoto, FannedTypeOK
<1>2. ASSUME NEW t \in Callers, AcquireSlot(t) PROVE FannedInv'
    <2>1. Slot[t] \in Lines
        BY <1>2 DEF FannedInv, RangeInv, AcquireSlot
    <2>2. Take(t, Slot[t], "S") /\ Sharable(Slot[t]) /\ OtherLocals(t)
        BY <1>0, <1>2 DEF AcquireSlot, FannedGoto, FannedTypeOK, OtherLocals
    <2>3. FannedTypeOK'
        BY <1>0, <1>2, <2>1, <2>2, TakeFacts DEF FannedTypeOK, AcquireSlot, FannedGoto
    <2>4. RangeInv(t)'
        BY <1>0, <1>2, <2>1 DEF FannedTypeOK, AcquireSlot, FannedGoto, RangeInv, Lines
    <2>4a. ASSUME NEW i \in Slots PROVE SlotInv(t, i)'
        <3>1. Locks'[i][t] = IF i = Slot[t] THEN "S" ELSE Locks[i][t]
            BY <1>0, <2>1, <2>2, TakeFacts
        <3>2. SlotInv(t, i)
            BY DEF FannedInv
        <3>3. QED
            BY <1>0, <1>2, <2>1, <3>1, <3>2 DEF FannedTypeOK, AcquireSlot, FannedGoto, RangeInv, SlotInv, OwnsLine, Lines, Slots
    <2>5. QED
        BY <2>1, <2>2, <2>3, <2>4, <2>4a, SlotStep
<1>3. ASSUME NEW t \in Callers, ReleaseShared(t) PROVE FannedInv'
    <2>1. Slot[t] \in Lines
        BY <1>3 DEF FannedInv, RangeInv, ReleaseShared
    <2>2. Take(t, Slot[t], "none") /\ OtherLocals(t)
        BY <1>0, <1>3 DEF ReleaseShared, FannedGoto, FannedTypeOK, OtherLocals
    <2>3. FannedTypeOK'
        BY <1>0, <1>3, <2>1, <2>2, TakeFacts DEF FannedTypeOK, ReleaseShared, FannedGoto
    <2>4. RangeInv(t)'
        BY <1>0, <1>3, <2>1 DEF FannedTypeOK, ReleaseShared, FannedGoto, RangeInv, Lines
    <2>4a. ASSUME NEW i \in Slots PROVE SlotInv(t, i)'
        <3>1. Locks'[i][t] = IF i = Slot[t] THEN "none" ELSE Locks[i][t]
            BY <1>0, <2>1, <2>2, TakeFacts
        <3>2. SlotInv(t, i)
            BY DEF FannedInv
        <3>3. QED
            BY <1>0, <1>3, <2>1, <3>1, <3>2 DEF FannedTypeOK, ReleaseShared, FannedGoto, RangeInv, SlotInv, OwnsLine, Lines, Slots
    <2>5. QED
        BY <2>1, <2>2, <2>3, <2>4, <2>4a, SlotStep
<1>4. ASSUME NEW t \in Callers, CallExclusive(t) PROVE FannedInv'
    <2>1. FannedTypeOK'
        BY <1>0, <1>4 DEF FannedTypeOK, CallExclusive, FannedGoto
    <2>2. RangeInv(t)' /\ \A i \in Slots : SlotInv(t, i)'
        BY <1>0, <1>4 DEF FannedInv, FannedTypeOK, CallExclusive, FannedGoto, RangeInv, SlotInv, OwnsLine
    <2>3. QED
        BY <1>0, <1>4, <2>1, <2>2, FannedLocalStep DEF OtherLocals, CallExclusive, FannedGoto, FannedTypeOK
<1>5. ASSUME NEW t \in Callers, AcquireFirst(t) PROVE FannedInv'
    <2>1. Start[t] = 1 /\ End[t] = MaxLine - 1
        BY <1>5 DEF FannedInv, RangeInv, AcquireFirst
    <2>2. Take(t, 0, "X") /\ Vacant(0) /\ OtherLocals(t) /\ 0 \in Slots
        BY <1>0, <1>5 DEF AcquireFirst, FannedGoto, FannedTypeOK, OtherLocals
    <2>3. FannedTypeOK'
        BY <1>0, <1>5, <2>2, TakeFacts DEF FannedTypeOK, AcquireFirst, FannedGoto
    <2>4. RangeInv(t)'
        BY <1>0, <1>5, <2>1 DEF FannedTypeOK, AcquireFirst, FannedGoto, RangeInv, Lines
    <2>4a. ASSUME NEW i \in Slots PROVE SlotInv(t, i)'
        <3>1. Locks'[i][t] = IF i = 0 THEN "X" ELSE Locks[i][t]
            BY <1>0, <2>2, TakeFacts
        <3>2. SlotInv(t, i)
            BY DEF FannedInv
        <3>3. QED
            BY <1>0, <1>5, <2>1, <3>1, <3>2 DEF FannedTypeOK, AcquireFirst, FannedGoto, RangeInv, SlotInv, OwnsLine, Lines, Slots
    <2>5. QED
        BY <2>2, <2>3, <2>4, <2>4a, SlotStep
<1>6. ASSUME NEW t \in Callers, TryStart(t) PROVE FannedInv'
    <2>1. RangeInv(t)
        BY DEF FannedInv
    <2>2. CASE Vacant(Start[t])
        <3>1. Start[t] \in Lines
            BY <1>0, <1>6, <2>1 DEF TryStart, RangeInv, Lines, FannedTypeOK
        <3>2. Take(t, Start[t], "X") /\ OtherLocals(t)
            BY <1>0, <1>6, <2>2 DEF TryStart, FannedTypeOK, OtherLocals
        <3>3. /\ fpc' = fpc /\ End' = End /\ Slot' = Slot
              /\ Start' = [Start EXCEPT ![t] = @ + 1]
              /\ fpc[t] = "AcquireRest" /\ Start[t] <= End[t]
            BY <1>6, <2>2 DEF TryStart
        <3>4. FannedTypeOK'
            BY <1>0, <3>1, <3>2, <3>3, TakeFacts DEF FannedTypeOK, Lines
        <3>5. RangeInv(t)'
            BY <1>0, <2>1, <3>1, <3>3 DEF FannedTypeOK, RangeInv, Lines
        <3>5a. ASSUME NEW i \in Slots PROVE SlotInv(t, i)'
            <4>1. Locks'[i][t] = IF i = Start[t] THEN "X" ELSE Locks[i][t]
                BY <1>0, <3>1, <3>2, TakeFacts
            <4>2. SlotInv(t, i)
                BY DEF FannedInv
            <4>3. QED
                BY <1>0, <2>1, <3>1, <3>3, <4>1, <4>2 DEF FannedTypeOK, RangeInv, SlotInv, OwnsLine, Lines, Slots
        <3>6. QED
            BY <2>2, <3>1, <3>2, <3>4, <3>5, <3>5a, SlotStep
    <2>3. CASE ~Vacant(Start[t])
        <3>1. FannedTypeOK'
            BY <1>0, <1>6, <2>3 DEF FannedTypeOK, TryStart, FannedGoto
        <3>2. RangeInv(t)' /\ \A i \in Slots : SlotInv(t, i)'
            BY <1>0, <1>6, <2>3 DEF FannedInv, FannedTypeOK, TryStart, FannedGoto, RangeInv, SlotInv, OwnsLine
        <3>3. QED
            BY <1>0, <1>6, <2>3, <3>1, <3>2, FannedLocalStep DEF OtherLocals, TryStart, FannedGoto, FannedTypeOK
    <2>4. QED
        BY <2>2, <2>3
<1>7. ASSUME NEW t \in Callers, AcquireEnd(t) PROVE FannedInv'
    <2>1. RangeInv(t) /\ Start[t] <= End[t]
        BY <1>0, <1>7 DEF FannedInv, FannedTypeOK, AcquireEnd
    <2>2. End[t] \in Lines
        BY <1>0, <1>7, <2>1 DEF AcquireEnd, RangeInv, Lines, FannedTypeOK
    <2>3. Take(t, End[t], "X") /\ Vacant(End[t]) /\ OtherLocals(t)
        BY <1>0, <1>7 DEF AcquireEnd, FannedGoto, FannedTypeOK, OtherLocals
    <2>4. /\ fpc' = [fpc EXCEPT ![t] = "AcquireRest"] /\ Start' = Start /\ Slot' = Slot
          /\ End' = [End EXCEPT ![t] = @ - 1]
          /\ fpc[t] = "AcquireEnd"
        BY <1>7 DEF AcquireEnd, FannedGoto
    <2>5. FannedTypeOK'
        BY <1>0, <2>1, <2>2, <2>3, <2>4, TakeFacts DEF FannedTypeOK, RangeInv, Lines
    <2>6. RangeInv(t)'
        BY <1>0, <2>1, <2>2, <2>4 DEF FannedTypeOK, RangeInv, Lines
    <2>6a. ASSUME NEW i \in Slots PROVE SlotInv(t, i)'
        <3>1. Locks'[i][t] = IF i = End[t] THEN "X" ELSE Locks[i][t]
            BY <1>0, <2>2, <2>3, TakeFacts
        <3>2. SlotInv(t, i)
            BY DEF FannedInv
        <3>3. QED
            BY <1>0, <2>1, <2>2, <2>4, <3>1, <3>2 DEF FannedTypeOK, RangeInv, SlotInv, OwnsLine, Lines, Slots
    <2>7. QED
        BY <2>2, <2>3, <2>5, <2>6, <2>6a, SlotStep
<1>8. ASSUME NEW t \in Callers, AcquireDone(t) PROVE FannedInv'
    <2>1. FannedTypeOK'
        BY <1>0, <1>8 DEF FannedTypeOK, AcquireDone, FannedGoto
    <2>2. RangeInv(t)' /\ \A i \in Slots : SlotInv(t, i)'
        BY <1>0, <1>8 DEF FannedInv, FannedTypeOK, AcquireDone, FannedGoto, RangeInv, SlotInv, OwnsLine, Lines
    <2>3. QED
        BY <1>0, <1>8, <2>1, <2>2, FannedLocalStep DEF OtherLocals, AcquireDone, FannedGoto, FannedTypeOK
<1>9. ASSUME NEW t \in Callers, CallRelease(t) PROVE FannedInv'
    <2>1. FannedTypeOK'
        BY <1>0, <1>9 DEF FannedTypeOK, CallRelease, FannedGoto
    <2>2. RangeInv(t)' /\ \A i \in Slots : SlotInv(t, i)'
        BY <1>0, <1>9 DEF FannedInv, FannedTypeOK, CallRelease, FannedGoto, RangeInv, SlotInv, OwnsLine, Lines
    <2>3. QED
        BY <1>0, <1>9, <2>1, <2>2, FannedLocalStep DEF OtherLocals, CallRelease, FannedGoto, FannedTypeOK
<1>10. ASSUME NEW t \in Callers, ReleaseSlot(t) PROVE FannedInv'
    <2>1. RangeInv(t)
        BY DEF FannedInv
    <2>2. Start[t] \in Lines /\ End[t] = MaxLine
        BY <1>0, <1>10, <2>1 DEF ReleaseSlot, RangeInv, Lines, FannedTypeOK
    <2>3. Take(t, Start[t], "none") /\ OtherLocals(t)
        BY <1>0, <1>10 DEF ReleaseSlot, FannedGoto, FannedTypeOK, OtherLocals
    <2>4. CASE Start[t] + 1 < End[t]
        <3>1. /\ fpc' = fpc /\ End' = End /\ Slot' = Slot
              /\ Start' = [Start EXCEPT ![t] = @ + 1]
              /\ fpc[t] = "ReleaseSlots"
            BY <1>10, <2>2, <2>4 DEF ReleaseSlot, Lines
        <3>2. FannedTypeOK'
            BY <1>0, <2>2, <2>3, <3>1, TakeFacts DEF FannedTypeOK, Lines
        <3>3. RangeInv(t)'
            BY <1>0, <2>1, <2>2, <2>4, <3>1 DEF FannedTypeOK, RangeInv, Lines
        <3>3a. ASSUME NEW i \in Slots PROVE SlotInv(t, i)'
            <4>1. Locks'[i][t] = IF i = Start[t] THEN "none" ELSE Locks[i][t]
                BY <1>0, <2>2, <2>3, TakeFacts
            <4>2. SlotInv(t, i)
                BY DEF FannedInv
            <4>3. QED
                BY <1>0, <2>1, <2>2, <2>4, <3>1, <4>1, <4>2 DEF FannedTypeOK, RangeInv, SlotInv, OwnsLine, Lines, Slots
        <3>4. QED
            BY <2>2, <2>3, <3>2, <3>3, <3>3a, SlotStep
    <2>5. CASE Start[t] + 1 = End[t]
        <3>1. /\ fpc' = [fpc EXCEPT ![t] = "idle"] /\ Slot' = Slot
              /\ Start' = [Start EXCEPT ![t] = 0] /\ End' = [End EXCEPT ![t] = 0]
              /\ fpc[t] = "ReleaseSlots"
            BY <1>10, <2>2, <2>5 DEF ReleaseSlot, FannedGoto, Lines
        <3>2. FannedTypeOK'
            BY <1>0, <2>2, <2>3, <3>1, TakeFacts DEF FannedTypeOK, Lines
        <3>3. RangeInv(t)'
            BY <1>0, <2>1, <2>2, <2>5, <3>1 DEF FannedTypeOK, RangeInv, Lines
        <3>3a. ASSUME NEW i \in Slots PROVE SlotInv(t, i)'
            <4>1. Locks'[i][t] = IF i = Start[t] THEN "none" ELSE Locks[i][t]
                BY <1>0, <2>2, <2>3, TakeFacts
            <4>2. SlotInv(t, i)
                BY DEF FannedInv
            <4>3. QED
                BY <1>0, <2>1, <2>2, <2>5, <3>1, <4>1, <4>2 DEF FannedTypeOK, RangeInv, SlotInv, OwnsLine, Lines, Slots
        <3>4. QED
            BY <2>2, <2>3, <3>2, <3>3, <3>3a, SlotStep
    <2>6. QED
        BY <1>10, <2>4, <2>5 DEF ReleaseSlot
<1>11. CASE UNCHANGED FannedVars
    BY <1>11 DEF FannedVars, FannedInv, FannedTypeOK, RangeInv, SlotInv, OwnsLine, ExclusionInv
<1>12. QED
    BY <1>1, <1>2, <1>3, <1>4, <1>5, <1>6, <1>7, <1>8, <1>9, <1>10, <1>11
    DEF FannedNext, FannedBegin, FannedContinue

(***************************************************************************)
(* The theorems.                                                           *)
(***************************************************************************)
\* The invariant holds in every reachable state.
LEMMA FannedInvariance == FannedSpec => []FannedInv
    BY FannedInitInv, FannedNextInv, PTL DEF FannedSpec

\* The state of the lock keeps its type, and the range of an exclusive acquire
\* stays within the slots.
THEOREM FannedTypeCorrect == FannedSpec => []FannedTypeOK
<1>1. FannedInv => FannedTypeOK
    BY DEF FannedInv
<1>2. QED
    BY <1>1, FannedInvariance, PTL

\* A thread holds exactly the slots its place in ExAcquire- or
\* ExReleaseCacheAwarePushLockExclusive says, none forgotten, none kept.
THEOREM SlotsAreAccounted == FannedSpec => []SlotsAccounted
<1>1. ASSUME FannedInv, NEW t \in Callers
      PROVE  Held(t) = CASE fpc[t] = "shares" -> {Slot[t]}
                    [] fpc[t] \in {"AcquireRest", "AcquireEnd"} ->
                         {i \in 0 .. MaxLine - 1 : i < Start[t] \/ i > End[t]}
                    [] fpc[t] = "owns" -> {SlotOf(cpu) : cpu \in 0 .. KeNumberProcessors - 1}
                    [] fpc[t] = "ReleaseSlots" -> {i \in 0 .. MaxLine - 1 : i >= Start[t]}
                    [] OTHER -> {}
    <2>1. \A i \in Slots : i \in Held(t) <=>
            \/ i \in Lines /\ OwnsLine(t, i)
            \/ fpc[t] = "shares" /\ i = Slot[t]
        BY <1>1 DEF Held, FannedInv, FannedTypeOK, SlotInv
    <2>2. Held(t) \subseteq Slots /\ Lines \subseteq Slots /\ Slot[t] \in Slots
        BY <1>1, LinesFit DEF Held, FannedInv, FannedTypeOK
    <2>3. CASE fpc[t] = "shares"
        BY <2>1, <2>2, <2>3 DEF OwnsLine
    <2>4. CASE fpc[t] \in {"AcquireRest", "AcquireEnd"}
        BY <2>1, <2>2, <2>4 DEF OwnsLine, Lines
    <2>5. CASE fpc[t] = "owns"
        BY <2>1, <2>2, <2>5, SlotsOfProcessors DEF OwnsLine
    <2>6. CASE fpc[t] = "ReleaseSlots"
        BY <2>1, <2>2, <2>6 DEF OwnsLine, Lines
    <2>7. CASE fpc[t] \notin {"shares", "AcquireRest", "AcquireEnd", "owns", "ReleaseSlots"}
        BY <2>1, <2>2, <2>7 DEF OwnsLine
    <2>8. QED
        BY <2>3, <2>4, <2>5, <2>6, <2>7
<1>2. FannedInv => SlotsAccounted
    BY <1>1 DEF SlotsAccounted
<1>3. QED
    BY <1>2, FannedInvariance, PTL

(***************************************************************************)
(* Refinement.                                                             *)
(***************************************************************************)
Mode(t) == CASE fpc[t] = "owns" -> "X" [] fpc[t] = "shares" -> "S" [] OTHER -> "none"

modes == [t \in Callers |-> Mode(t)]

\* A step that does not change how a thread owns the lock is a stutter.
LEMMA Stutter ==
    ASSUME \A t \in Callers : Mode(t)' = Mode(t)
    PROVE  modes' = modes
    BY DEF modes

\* A step that changes it for one thread changes the abstract state there.
LEMMA Changes ==
    ASSUME NEW t \in Callers,
           \A u \in Callers \ {t} : Mode(u)' = Mode(u)
    PROVE  modes' = [modes EXCEPT ![t] = Mode(t)']
    BY DEF modes

\* While a thread owns the lock no other thread has any line.
LEMMA OwnerAlone ==
    ASSUME FannedInv, NEW t \in Callers, \A i \in Lines : OwnsLine(t, i),
           NEW u \in Callers, Mode(u) # "none"
    PROVE  t = u
<1>1. \A i \in Lines : Locks[i][t] = "X"
    BY LinesFit DEF FannedInv, SlotInv
<1>2. PICK i \in Lines : Locks[i][u] # "none"
    <2>1. CASE fpc[u] = "owns"
        BY <2>1, LinesFit DEF FannedInv, SlotInv, OwnsLine
    <2>2. CASE fpc[u] = "shares"
        BY <2>2, LinesFit DEF FannedInv, SlotInv, RangeInv
    <2>3. QED
        BY <2>1, <2>2 DEF Mode
<1>3. QED
    BY <1>1, <1>2, LinesFit DEF FannedInv, ExclusionInv

\* A thread that owns the cache-aware lock exclusively is its only owner.
THEOREM FannedOwnsAlone == FannedSpec => []FannedRW!Exclusion
<1>1. ASSUME FannedInv PROVE FannedRW!Exclusion
    <2>1. ASSUME NEW t \in Callers, NEW u \in Callers, Mode(t) = "X", Mode(u) # "none" PROVE t = u
        <3>1. \A i \in Lines : OwnsLine(t, i)
            BY <2>1 DEF Mode, OwnsLine
        <3>2. QED
            BY <1>1, <2>1, <3>1, OwnerAlone
    <2>2. QED
        BY <2>1 DEF FannedRW!Exclusion, Mode
<1>2. QED
    BY <1>1, FannedInvariance, PTL

\* The cache-aware push lock implements the abstract reader/writer lock: every
\* step of an acquire or a release is a step of that lock or changes nothing
\* a user of the lock can see.
THEOREM FannedIsRWLock == FannedSpec => FannedImplementsRWLock
<1>1. FannedInit => FannedRW!Init
    BY DEF FannedInit, FannedRW!Init
<1>2. ASSUME FannedInv, [FannedNext]_FannedVars PROVE [FannedRW!Next]_modes
    <2>0. FannedTypeOK
        BY <1>2 DEF FannedInv
    <2> DEFINE Alone(t) == \A u \in Callers \ {t} : Mode(u)' = Mode(u)
    <2>1. ASSUME NEW t \in Callers, AcquireSlot(t) PROVE FannedRW!AcquireShared(t)
        <3>1. Alone(t) /\ Mode(t) = "none" /\ Mode(t)' = "S"
            BY <2>0, <2>1 DEF AcquireSlot, FannedGoto, Mode, FannedTypeOK
        <3>2. ASSUME NEW u \in Callers, Mode(u) = "X" PROVE FALSE
            <4>1. Slot[t] \in Lines /\ Locks[Slot[t]][u] # "X"
                BY <1>2, <2>1, LinesFit DEF FannedInv, RangeInv, AcquireSlot, Sharable
            <4>2. fpc[u] = "owns"
                BY <3>2 DEF Mode
            <4>3. QED
                BY <1>2, <4>1, <4>2, LinesFit DEF FannedInv, SlotInv, OwnsLine
        <3>3. QED
            BY <3>1, <3>2, Changes DEF FannedRW!AcquireShared, modes, Mode
    <2>2. ASSUME NEW t \in Callers, AcquireDone(t) PROVE FannedRW!AcquireExclusive(t)
        <3>1. Alone(t) /\ Mode(t) = "none" /\ Mode(t)' = "X"
            BY <2>0, <2>2 DEF AcquireDone, FannedGoto, Mode, FannedTypeOK
        <3>2. \A i \in Lines : OwnsLine(t, i)
            BY <1>2, <2>0, <2>2, LinesFit DEF AcquireDone, OwnsLine, FannedTypeOK, Lines
        <3>3. \A u \in Callers : Mode(u) = "none"
            BY <1>2, <3>1, <3>2, OwnerAlone
        <3>4. QED
            BY <3>1, <3>3, Changes DEF FannedRW!AcquireExclusive, modes, Mode
    <2>3. ASSUME NEW t \in Callers, ReleaseShared(t) \/ CallRelease(t) PROVE FannedRW!Release(t)
        <3>1. Alone(t) /\ Mode(t) # "none" /\ Mode(t)' = "none"
            BY <2>0, <2>3 DEF ReleaseShared, CallRelease, FannedGoto, Mode, FannedTypeOK
        <3>2. QED
            BY <3>1, Changes DEF FannedRW!Release, modes, Mode
    <2>4. ASSUME NEW t \in Callers,
                 \/ FannedBegin(t) \/ AcquireFirst(t) \/ TryStart(t) \/ AcquireEnd(t) \/ ReleaseSlot(t)
          PROVE  modes' = modes
        <3>1. \A u \in Callers : Mode(u)' = Mode(u)
            BY <2>0, <2>4 DEF FannedBegin, CallExclusive, CallShared, AcquireFirst, TryStart, AcquireEnd,
                              ReleaseSlot, FannedGoto, Mode, FannedTypeOK
        <3>2. QED
            BY <3>1, Stutter
    <2>5. CASE UNCHANGED FannedVars
        BY <2>5 DEF FannedVars, modes, Mode
    <2>6. QED
        BY <1>2, <2>1, <2>2, <2>3, <2>4, <2>5 DEF FannedNext, FannedContinue, FannedRW!Next
<1>3. QED
    BY <1>1, <1>2, FannedInvariance, PTL DEF FannedSpec, FannedImplementsRWLock, FannedRW!Spec, modes, Mode
=============================================================================
