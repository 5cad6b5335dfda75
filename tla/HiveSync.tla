------------------------------ MODULE HiveSync ------------------------------
(***************************************************************************)
(* The write protocol of a registry hive (config/hivesync.c) and what the  *)
(* loader makes of the files after a crash (config/hiveload.c,             *)
(* config/hiveinit.c).                                                     *)
(*                                                                         *)
(* A save writes the dirty blocks to the log, then to the primary file.    *)
(* Each file begins with a copy of the base block; its Sequence1 is raised *)
(* before the data are written and its Sequence2 after, with a flush       *)
(* between any two of these writes.  A write reaches the cache, a flush    *)
(* makes the file durable; a crash keeps or loses each unflushed piece on  *)
(* its own, may leave a block as a mixture of old and new sectors, and may *)
(* leave a base block with a wrong checksum.  Any write and any flush may  *)
(* also fail while the system goes on.                                     *)
(*                                                                         *)
(* A block of the model is a page of the file, the unit HvMarkDirty rounds *)
(* to; block 0 holds the header of the first bin.  The length of the hive  *)
(* is fixed.  A save excludes writers by the flusher lock, so that the     *)
(* image does not change during one.                                       *)
(***************************************************************************)
EXTENDS Naturals, Sequences, FiniteSets

CONSTANTS Blocks,       \* the pages of the hive, 0 the first
          Values,       \* what a page can hold
          Torn,         \* a page of which a crash left some sectors written
          MinLog,       \* the pages whose data fit in a log of HLOG_MINSIZE
          SeqModulus,   \* the width of a sequence number
          MaxTime,      \* bound on the system time
          CmDoSelfHeal, \* CmpSelfHeal, TRUE as shipped
          LateFailure,  \* may the write that completes a save fail
          Down          \* the image of a hive that is not loaded

ASSUME BlocksAssumption == 0 \in Blocks /\ MinLog \subseteq Blocks
ASSUME TornAssumption == Torn \notin Values
ASSUME SeqAssumption == SeqModulus \in Nat \ {0, 1}
ASSUME MaxTimeAssumption == MaxTime \in Nat

VARIABLES pc,           \* the step the save or the load is at
          loading,      \* is the write the one that ends a recovery
          image,        \* the bins in memory
          Dirty,        \* DirtyVector
          BaseBlock,    \* Sequence1, Sequence2 and TimeStamp in memory
          cache,        \* the two files as a read would find them
          disk,         \* the two files as a crash would find them
          attempt       \* history: the image the last log was begun for

vars == <<pc, loading, image, Dirty, BaseBlock, cache, disk, attempt>>

----------------------------------------------------------------------------
Images == [Blocks -> Values]
Header == [Sequence1 : 0..SeqModulus - 1, Sequence2 : 0..SeqModulus - 1,
           TimeStamp : 0..MaxTime, CheckSum : BOOLEAN]
\* Link is the time stamp laid over the first bin's link field.
Primary == [head : Header, Link : 0..MaxTime, data : [Blocks -> Values \cup {Torn}]]
\* Signature tells whether there is a dirty vector at all.
Log == [head : Header, Signature : BOOLEAN, vector : SUBSET Blocks,
        data : [Blocks -> Values \cup {Torn}]]
Files == [prim : Primary, log : Log]

Raised(n) == (n + 1) % SeqModulus
Consistent(head) == head.Sequence1 = head.Sequence2

EmptyLog(log) == [log EXCEPT !.head.CheckSum = FALSE, !.Signature = FALSE,
                             !.vector = {}, !.data = [b \in Blocks |-> Torn]]

----------------------------------------------------------------------------
(* The loader.                                                             *)

NoHeader == [Sequence1 |-> 0, Sequence2 |-> 1, TimeStamp |-> 0, CheckSum |-> FALSE]

\* Is the base block unusable, or does it say a write did not complete
HvpGetHiveHeader(f) ==
    CASE ~f.prim.head.CheckSum -> "RecoverHeader"
      [] f.prim.head.CheckSum /\ ~Consistent(f.prim.head) -> "RecoverData"
      [] OTHER -> "HiveSuccess"

HvpGetLogHeader(f) ==
    IF f.log.head.CheckSum /\ Consistent(f.log.head) /\ f.log.head.TimeStamp = f.prim.Link
    THEN "HiveSuccess"
    ELSE IF CmDoSelfHeal THEN "SelfHeal" ELSE "Fail"

\* Does the load fail
LoadFails(f) ==
    \/ HvpGetHiveHeader(f) = "RecoverHeader" /\ HvpGetLogHeader(f) = "Fail"
    \/ HvpGetHiveHeader(f) # "HiveSuccess" /\ ~f.log.Signature /\ ~CmDoSelfHeal

\* The log's pages over the file's: what HvpRecoverData leaves in memory.
\* It looks at the signature of the dirty vector, not at the log's header.
RecoveredData(f) ==
    [b \in Blocks |-> IF f.log.Signature /\ b \in f.log.vector
                      THEN f.log.data[b] ELSE f.prim.data[b]]

LoadedImage(f) ==
    IF LoadFails(f) THEN Down
    ELSE IF HvpGetHiveHeader(f) = "HiveSuccess" THEN f.prim.data
    ELSE RecoveredData(f)

\* The base block the load leaves in memory, its sequence numbers made equal
LoadedHeader(f) ==
    CASE HvpGetHiveHeader(f) # "RecoverHeader" ->
            [f.prim.head EXCEPT !.Sequence2 = f.prim.head.Sequence1]
      [] HvpGetHiveHeader(f) = "RecoverHeader" /\ HvpGetLogHeader(f) = "HiveSuccess" ->
            [f.log.head EXCEPT !.Sequence2 = f.log.head.Sequence1]
      [] OTHER -> [f.log.head EXCEPT !.Sequence1 = 1, !.Sequence2 = 1, !.CheckSum = TRUE]

\* Any part of an unloaded hive's memory.
Unloaded ==
    /\ pc' = "down"
    /\ loading' = FALSE
    /\ image' = Down
    /\ Dirty' = {}
    /\ BaseBlock' = NoHeader

\* HvLoadHive and HvMapHive.  A recovered image is dirty where the log said
\* so and in the first bin's header, and is written to the primary at once:
\* HvpDoWriteHive, which has nothing to write when nothing was recovered.
Load ==
    /\ pc = "down"
    /\ ~LoadFails(cache)
    /\ image' = LoadedImage(cache)
    /\ BaseBlock' = LoadedHeader(cache)
    /\ attempt' = LoadedImage(cache)
    /\ loading' = (HvpGetHiveHeader(cache) # "HiveSuccess")
    /\ \/ ~loading' /\ pc' = "idle" /\ Dirty' = {}
       \/ loading' /\ cache.log.Signature /\ pc' = "HiveFlush0" /\ Dirty' = cache.log.vector \cup {0}
       \/ loading' /\ ~cache.log.Signature /\ pc' = "ClearLog" /\ Dirty' = {}
    /\ UNCHANGED <<cache, disk>>

\* HvMarkDirty, then the write to the cell.  A failure to grow the log leaves
\* everything as it was.
HvMarkDirty(b, v) ==
    /\ pc = "idle"
    /\ Dirty' = Dirty \cup {b} \cup (IF Dirty = {} THEN {0} ELSE {})
    /\ image' = [image EXCEPT ![b] = v]
    /\ UNCHANGED <<pc, loading, BaseBlock, cache, disk, attempt>>

----------------------------------------------------------------------------
(* One write or one flush.                                                 *)

Proceed(next, head) ==
    /\ pc' = next
    /\ BaseBlock' = head
    /\ UNCHANGED <<loading, image, Dirty>>

\* A routine returns FALSE: HvSyncHive returns and keeps the dirty vector and
\* whatever became of the base block, a load is abandoned.
Fail(head) ==
    \/ ~loading /\ Proceed("idle", head)
    \/ loading /\ Unloaded

\* A write succeeds, or fails with the file changed or not.
WriteFile(at, next, head, files) ==
    /\ pc = at
    /\ \/ cache' = files /\ Proceed(next, head)
       \/ cache' \in {cache, files} /\ Fail(head)
    /\ UNCHANGED disk

FlushFile(at, next, files) ==
    /\ pc = at
    /\ \/ disk' = files /\ Proceed(next, BaseBlock)
       \/ UNCHANGED disk /\ Fail(BaseBlock)
    /\ UNCHANGED <<cache, attempt>>

FlushLog(at, next) == FlushFile(at, next, [disk EXCEPT !.log = cache.log])
FlushHive(at, next) == FlushFile(at, next, [disk EXCEPT !.prim = cache.prim])
\* The range of the base block alone.
FlushHeader(at, next) == FlushFile(at, next, [disk EXCEPT !.prim.head = cache.prim.head])

\* Some previous attempt failed: punt, before anything is written.
Punt(at) ==
    /\ pc = at
    /\ ~Consistent(BaseBlock)
    /\ Fail(BaseBlock)
    /\ UNCHANGED <<cache, disk, attempt>>

----------------------------------------------------------------------------
(* HvSyncHive: HvpWriteLog, then HvpDoWriteHive.                           *)

HvSyncHive ==
    /\ pc = "idle"
    /\ Dirty # {}
    /\ Proceed("LogHead1", BaseBlock)
    /\ UNCHANGED <<cache, disk, attempt>>

\* The log could not be grown to the size the dirty pages need.
LogGrowFails ==
    /\ pc = "LogHead1"
    /\ Fail(BaseBlock)
    /\ UNCHANGED <<cache, disk, attempt>>

\* Mutant: a save goes on after one that failed.
LogHead1Unguarded ==
    /\ attempt' = image
    /\ LET head == [BaseBlock EXCEPT !.Sequence1 = Raised(@)]
       IN  WriteFile("LogHead1", "LogFlush1", head, [cache EXCEPT !.log.head = head])

\* The clock may not have advanced since the last save.
LogHead1 ==
    /\ Consistent(BaseBlock)
    /\ attempt' = image
    /\ \E time \in {BaseBlock.TimeStamp, BaseBlock.TimeStamp + 1} :
        LET head == [BaseBlock EXCEPT !.Sequence1 = Raised(@), !.TimeStamp = time]
        IN  /\ time <= MaxTime
            /\ WriteFile("LogHead1", "LogFlush1", head, [cache EXCEPT !.log.head = head])

LogFlush1 == FlushLog("LogFlush1", "LogVector")

LogVector ==
    /\ WriteFile("LogVector", "LogBody", BaseBlock,
                 [cache EXCEPT !.log.Signature = TRUE, !.log.vector = Dirty])
    /\ UNCHANGED attempt

LogBody ==
    /\ WriteFile("LogBody", "LogFlush2", BaseBlock,
                 [cache EXCEPT !.log.data = [b \in Blocks |-> IF b \in Dirty THEN image[b] ELSE Torn]])
    /\ UNCHANGED attempt

LogFlush2 == FlushLog("LogFlush2", "LogHead2")

LogHead2 ==
    /\ LET head == [BaseBlock EXCEPT !.Sequence2 = Raised(@)]
       IN  WriteFile("LogHead2", "LogFlush3", head, [cache EXCEPT !.log.head = head])
    /\ UNCHANGED attempt

LogFlush3 == FlushLog("LogFlush3", "HiveFlush0")

HiveFlush0 == FlushHive("HiveFlush0", "HiveHead1")

HiveHead1 ==
    /\ Consistent(BaseBlock)
    /\ LET head == [BaseBlock EXCEPT !.Sequence1 = Raised(@)]
       IN  WriteFile("HiveHead1", "HiveFlush1", head, [cache EXCEPT !.prim.head = head])
    /\ UNCHANGED attempt

\* Mutant: the data may reach the disk before the header that announces them.
HiveFlush1Skipped == FlushFile("HiveFlush1", "HiveData", disk)

HiveFlush1 == FlushHeader("HiveFlush1", "HiveData")

\* The mapped views and the remaining dirty pages, in no order; the time stamp
\* goes with the first bin's header.
HiveData ==
    /\ WriteFile("HiveData", "HiveFlush2", BaseBlock,
           [cache EXCEPT !.prim.Link = IF 0 \in Dirty THEN BaseBlock.TimeStamp ELSE @,
                         !.prim.data = [b \in Blocks |-> IF b \in Dirty THEN image[b] ELSE @[b]]])
    /\ UNCHANGED attempt

\* Mutant: the data are not flushed before the completing header.
HiveFlush2Skipped == FlushFile("HiveFlush2", "HiveHead2", disk)

HiveFlush2 == FlushHive("HiveFlush2", "HiveHead2")

HiveHead2 ==
    /\ LET head == [BaseBlock EXCEPT !.Sequence2 = Raised(@)]
       IN  WriteFile("HiveHead2", "HiveFlush3", head, [cache EXCEPT !.prim.head = head])
    /\ LateFailure \/ pc' = "HiveFlush3"
    /\ UNCHANGED attempt

HiveFlush3 ==
    /\ FlushHeader("HiveFlush3", "ShrinkLog")
    /\ LateFailure \/ pc' = "ShrinkLog"

\* The save is complete: the log gives back its space, which is lost to the
\* data beyond HLOG_MINSIZE, and nothing is dirty.
ShrinkLog ==
    /\ pc = "ShrinkLog"
    /\ cache' = [cache EXCEPT !.log.data = [b \in Blocks |-> IF b \in MinLog THEN @[b] ELSE Torn]]
    /\ IF loading
       THEN Proceed("ClearLog", BaseBlock)
       ELSE /\ pc' = "idle"
            /\ Dirty' = {}
            /\ UNCHANGED <<loading, image, BaseBlock>>
    /\ UNCHANGED <<disk, attempt>>

\* HvInitializeHive, once the recovered hive is on disk.
ClearLog ==
    /\ pc = "ClearLog"
    /\ cache' = [cache EXCEPT !.log = EmptyLog(@)]
    /\ pc' = "idle"
    /\ loading' = FALSE
    /\ Dirty' = {}
    /\ UNCHANGED <<image, BaseBlock, disk, attempt>>

----------------------------------------------------------------------------
(* The machine stops.                                                      *)

\* What may have become of a base block of which one write was not flushed
Heads(old, new) ==
    {old, new} \cup (IF old = new THEN {} ELSE {[new EXCEPT !.CheckSum = FALSE]})

Pages(old, new) ==
    {data \in [Blocks -> Values \cup {Torn}] :
        \A b \in Blocks : data[b] \in {old[b], new[b]} \cup (IF old[b] = new[b] THEN {} ELSE {Torn})}

\* The vector and its signature are one sector.
CrashedPrimary ==
    [head : Heads(disk.prim.head, cache.prim.head),
     Link : {disk.prim.Link, cache.prim.Link},
     data : Pages(disk.prim.data, cache.prim.data)]

CrashedLog ==
    {[head |-> h, Signature |-> v.Signature, vector |-> v.vector, data |-> d] :
        h \in Heads(disk.log.head, cache.log.head), v \in {disk.log, cache.log},
        d \in Pages(disk.log.data, cache.log.data)}

\* Also while the hive is not loaded: an abandoned recovery may have left
\* writes that no flush followed.
Crash ==
    /\ \E p \in CrashedPrimary, l \in CrashedLog :
        /\ disk' = [prim |-> p, log |-> l]
        /\ cache' = disk'
    /\ Unloaded
    /\ UNCHANGED attempt

----------------------------------------------------------------------------
Init ==
    \E f \in Values :
        LET head == [Sequence1 |-> 0, Sequence2 |-> 0, TimeStamp |-> 0, CheckSum |-> TRUE]
            prim == [head |-> head, Link |-> 0, data |-> [b \in Blocks |-> f]]
            log  == [head |-> [head EXCEPT !.CheckSum = FALSE], Signature |-> FALSE,
                     vector |-> {}, data |-> [b \in Blocks |-> Torn]]
        IN  /\ pc = "idle"
            /\ loading = FALSE
            /\ image = prim.data
            /\ Dirty = {}
            /\ BaseBlock = head
            /\ disk = [prim |-> prim, log |-> log]
            /\ cache = disk
            /\ attempt = image

WriteLog == LogGrowFails \/ Punt("LogHead1") \/ LogHead1 \/ LogFlush1 \/ LogVector
            \/ LogBody \/ LogFlush2 \/ LogHead2 \/ LogFlush3
DoWriteHive == HiveFlush0 \/ Punt("HiveHead1") \/ HiveHead1 \/ HiveFlush1 \/ HiveData
               \/ HiveFlush2 \/ HiveHead2 \/ HiveFlush3 \/ ShrinkLog

Next == \/ \E b \in Blocks, v \in Values : HvMarkDirty(b, v)
        \/ HvSyncHive
        \/ WriteLog
        \/ DoWriteHive
        \/ ClearLog
        \/ Crash
        \/ Load

Spec == Init /\ [][Next]_vars

----------------------------------------------------------------------------
TypeOK ==
    /\ image \in Images \cup {Down}
    /\ Dirty \subseteq Blocks
    /\ BaseBlock \in Header
    /\ cache \in Files
    /\ disk \in Files

\* The save is atomic: a load finds the image of the last completed save or of
\* the one under way, whole, and finds the same again after a crash in the
\* middle of the recovery.
Abstract == INSTANCE AtomicHive WITH view <- image, saved <- LoadedImage(disk)
ImplementsAtomicHive == Abstract!Spec

\* HvSyncHive returned TRUE, or the load did: what is in memory is what the next
\* load finds, unless a page has been dirtied since.
CleanMeansSaved == pc = "idle" /\ Dirty = {} => LoadedImage(disk) = image

\* While the primary file is inconsistent the durable log is complete: its
\* header, which HvpRecoverData does not look at, would pass, and what the
\* primary lost is in it.
TornHasLog ==
    HvpGetHiveHeader(disk) # "HiveSuccess" =>
        /\ disk.log.head.CheckSum
        /\ Consistent(disk.log.head)
        /\ disk.log.Signature
        /\ \A b \in disk.log.vector : disk.log.data[b] = attempt[b]
        /\ \A b \in Blocks \ disk.log.vector : disk.prim.data[b] = attempt[b]

\* "We have a good hive, with a log, and a dirty map": what a recovery is about
\* to write to the primary holds no page the crash cut in two.
GoodLogInHand == loading => image \in Images
=============================================================================
