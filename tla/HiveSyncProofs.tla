--------------------------- MODULE HiveSyncProofs ---------------------------
(***************************************************************************)
(* The save of a hive is atomic, for every number of pages, every width of *)
(* the sequence numbers and every clock.                                   *)
(*                                                                         *)
(* The invariant follows the protocol: it says of every step in which of   *)
(* four states the pair of files is, and a crash is then a step between    *)
(* these states.                                                           *)
(***************************************************************************)
EXTENDS HiveSync, TLAPS

----------------------------------------------------------------------------
(* The states the two files can be in.                                     *)

Good(head) == head.CheckSum /\ Consistent(head)

\* The log is durable and whole, and holds what the primary may lack of the
\* image being saved.
LogHolds ==
    /\ cache.log = disk.log
    /\ Good(disk.log.head)
    /\ disk.log.Signature
    /\ \A b \in disk.log.vector : disk.log.data[b] = attempt[b]
    /\ \A b \in Blocks \ disk.log.vector :
          disk.prim.data[b] = attempt[b] /\ cache.prim.data[b] = attempt[b]

\* The primary is whole and there is nothing unflushed in it.
Settled ==
    /\ Good(disk.prim.head)
    /\ cache.prim.head = disk.prim.head
    /\ cache.prim.data = disk.prim.data
    /\ disk.prim.data \in Images

\* The header that announces the write may have been written, not flushed.
Announced ==
    /\ LogHolds
    /\ Good(disk.prim.head)
    /\ cache.prim.data = disk.prim.data
    /\ disk.prim.data \in Images

\* The primary is not whole: the log decides.
Exposed ==
    /\ LogHolds
    /\ ~Good(disk.prim.head)
    /\ ~Good(cache.prim.head)

\* The completing header is written, not flushed.
Completing ==
    /\ LogHolds
    /\ ~Good(disk.prim.head)
    /\ Good(cache.prim.head)
    /\ disk.prim.data = attempt
    /\ cache.prim.data = attempt

----------------------------------------------------------------------------
(* The inductive invariant, step by step of the protocol.                  *)

LogSteps == {"LogFlush1", "LogVector", "LogBody", "LogFlush2", "LogHead2", "LogFlush3"}
HiveSteps == {"HiveFlush0", "HiveHead1", "HiveFlush1", "HiveData", "HiveFlush2", "HiveHead2", "HiveFlush3"}

Announcing == BaseBlock.Sequence1 = Raised(BaseBlock.Sequence2)
CleanAsSaved == \A b \in Blocks \ Dirty : image[b] = disk.prim.data[b]

DownInv == image = Down /\ ~loading /\ (Settled \/ Exposed)

UpInv == image \in Images /\ BaseBlock.CheckSum

RestInv ==
    /\ ~loading
    /\ \/ Settled /\ CleanAsSaved
       \/ (Announced \/ Exposed) /\ ~Consistent(BaseBlock) /\ Dirty # {}

LogInv ==
    /\ ~loading
    /\ Settled
    /\ CleanAsSaved
    /\ attempt = image
    /\ Dirty # {}
    /\ pc # "LogFlush3" => Announcing
    /\ pc = "LogFlush3" => Consistent(BaseBlock) /\ cache.log.head = BaseBlock
    /\ pc \notin {"LogFlush1", "LogVector"} => cache.log.Signature /\ cache.log.vector = Dirty
    /\ pc \in {"LogFlush2", "LogHead2", "LogFlush3"} => \A b \in Dirty : cache.log.data[b] = image[b]

HiveInv ==
    /\ LogHolds
    /\ attempt = image
    /\ Dirty # {}
    /\ disk.log.vector \subseteq Dirty
    /\ pc \in {"HiveFlush0", "HiveHead1"} =>
          /\ Consistent(BaseBlock)
          /\ IF loading THEN Exposed ELSE Settled
    /\ pc = "HiveHead1" => cache.prim = disk.prim
    /\ pc = "HiveFlush1" =>
          /\ cache.prim.head = BaseBlock
          /\ IF loading THEN Exposed ELSE Announced
    /\ pc \in {"HiveFlush1", "HiveData", "HiveFlush2", "HiveHead2"} => Announcing
    /\ pc \in {"HiveFlush1", "HiveData"} => cache.prim.data = disk.prim.data
    /\ pc \in {"HiveData", "HiveFlush2", "HiveHead2"} => Exposed
    /\ pc \in {"HiveFlush2", "HiveHead2"} => cache.prim.data = attempt
    /\ pc = "HiveHead2" => disk.prim.data = attempt
    /\ pc = "HiveFlush3" => Completing /\ Consistent(BaseBlock) /\ cache.prim.head = BaseBlock

DoneInv == Settled /\ image = disk.prim.data

StepInv ==
    /\ pc = "down" => DownInv
    /\ pc # "down" => UpInv
    /\ pc \in {"idle", "LogHead1"} => RestInv
    /\ pc = "LogHead1" => Dirty # {}
    /\ pc \in LogSteps => LogInv
    /\ pc \in HiveSteps => HiveInv
    /\ pc \in {"ShrinkLog", "ClearLog"} => DoneInv

\* The control state is one the protocol has.
PCs == {"down", "idle", "LogHead1", "ShrinkLog", "ClearLog"} \cup LogSteps \cup HiveSteps

IInv ==
    /\ TypeOK
    /\ pc \in PCs
    /\ loading \in BOOLEAN
    /\ attempt \in Images
    /\ StepInv

----------------------------------------------------------------------------
\* A raised sequence number is another one of the same type.
LEMMA RaisedType ==
    ASSUME NEW n \in 0..SeqModulus - 1
    PROVE  Raised(n) \in 0..SeqModulus - 1 /\ Raised(n) # n
<1>1. CASE n = SeqModulus - 1
  <2>1. Raised(n) = 0
    BY <1>1, SeqAssumption DEF Raised
  <2> QED  BY <1>1, <2>1, SeqAssumption
<1>2. CASE n < SeqModulus - 1
  <2>1. Raised(n) = n + 1
    BY <1>2, SeqAssumption DEF Raised
  <2> QED  BY <1>2, <2>1, SeqAssumption
<1> QED  BY <1>1, <1>2, SeqAssumption

\* When HvpGetHiveHeader is content, and when it wants the header recovered.
LEMMA HeaderSuccess ==
    ASSUME NEW f \in Files
    PROVE  /\ HvpGetHiveHeader(f) = "HiveSuccess" <=> Good(f.prim.head)
           /\ HvpGetHiveHeader(f) = "RecoverHeader" <=> ~f.prim.head.CheckSum
  BY DEF HvpGetHiveHeader, Good, Consistent, Files, Primary, Header

\* What a load makes of each of the states of the files.
LEMMA LoadedFrom ==
    ASSUME CmDoSelfHeal, NEW f \in Files
    PROVE  /\ Good(f.prim.head) => LoadedImage(f) = f.prim.data
           /\ ~Good(f.prim.head) /\ f.log.Signature =>
                 LoadedImage(f) = [b \in Blocks |-> IF b \in f.log.vector
                                                    THEN f.log.data[b] ELSE f.prim.data[b]]
           /\ ~LoadFails(f)
<1>1. ~LoadFails(f)
  BY DEF LoadFails, HvpGetLogHeader
<1>2. ASSUME f.log.Signature
      PROVE  RecoveredData(f) = [b \in Blocks |-> IF b \in f.log.vector
                                                  THEN f.log.data[b] ELSE f.prim.data[b]]
  BY <1>2 DEF RecoveredData
<1> QED  BY <1>1, <1>2, HeaderSuccess DEF LoadedImage

\* The pages of the log over the primary are the image of the save under way.
LEMMA LoadedAttempt ==
    ASSUME NEW f \in Files, NEW A \in Images,
           \A b \in f.log.vector : f.log.data[b] = A[b],
           \A b \in Blocks \ f.log.vector : f.prim.data[b] = A[b]
    PROVE  [b \in Blocks |-> IF b \in f.log.vector
                             THEN f.log.data[b] ELSE f.prim.data[b]] = A
  BY DEF Images, Files, Log

\* What a load would find, in each of the four states of the files.
LEMMA LoadedImageOf ==
    ASSUME CmDoSelfHeal, TypeOK, attempt \in Images
    PROVE  /\ Settled \/ Announced => LoadedImage(disk) = disk.prim.data
           /\ Exposed \/ Completing => LoadedImage(disk) = attempt
           /\ Settled => LoadedImage(cache) = disk.prim.data
           /\ Exposed => LoadedImage(cache) = attempt
<1>1. Settled \/ Announced => LoadedImage(disk) = disk.prim.data
  BY LoadedFrom DEF TypeOK, Settled, Announced
<1>2. Exposed \/ Completing => LoadedImage(disk) = attempt
  BY LoadedFrom, LoadedAttempt DEF TypeOK, Exposed, Completing, LogHolds
<1>3. Settled => LoadedImage(cache) = disk.prim.data
  BY LoadedFrom DEF TypeOK, Settled
<1>4. Exposed => LoadedImage(cache) = attempt
  BY LoadedFrom, LoadedAttempt DEF TypeOK, Exposed, LogHolds
<1> QED  BY <1>1, <1>2, <1>3, <1>4

\* The files are always in one of the four states.
LEMMA FilesKnown ==
    ASSUME IInv
    PROVE  Settled \/ Announced \/ Exposed \/ Completing
  BY DEF IInv, PCs, StepInv, DownInv, RestInv, LogInv, HiveInv, DoneInv, LogSteps, HiveSteps

----------------------------------------------------------------------------
(* A crash.                                                                *)

\* What a crash leaves is a pair of files, made of old and new pieces.
LEMMA CrashedFiles ==
    ASSUME TypeOK, NEW p \in CrashedPrimary, NEW l \in CrashedLog
    PROVE  /\ p \in Primary
           /\ l \in Log
           /\ p.head \in Heads(disk.prim.head, cache.prim.head)
           /\ p.data \in Pages(disk.prim.data, cache.prim.data)
           /\ cache.log = disk.log => l = disk.log
<1>1. p \in Primary /\ p.head \in Heads(disk.prim.head, cache.prim.head)
      /\ p.data \in Pages(disk.prim.data, cache.prim.data)
  <2>1. /\ p.head \in Heads(disk.prim.head, cache.prim.head)
        /\ p.Link \in {disk.prim.Link, cache.prim.Link}
        /\ p.data \in Pages(disk.prim.data, cache.prim.data)
        /\ p = [head |-> p.head, Link |-> p.Link, data |-> p.data]
    BY DEF CrashedPrimary
  <2>2. disk.prim \in Primary /\ cache.prim \in Primary
    BY DEF TypeOK, Files
  <2>3. Heads(disk.prim.head, cache.prim.head) \subseteq Header
    BY <2>2 DEF Primary, Heads, Header
  <2>4. p.Link \in 0 .. MaxTime /\ p.data \in [Blocks -> Values \cup {Torn}]
    BY <2>1, <2>2 DEF Primary, Pages
  <2> QED  BY <2>1, <2>3, <2>4 DEF Primary
<1>2. PICK h \in Heads(disk.log.head, cache.log.head), v \in {disk.log, cache.log},
           d \in Pages(disk.log.data, cache.log.data) :
              l = [head |-> h, Signature |-> v.Signature, vector |-> v.vector, data |-> d]
  BY DEF CrashedLog
<1>3. h \in Header /\ v \in Log /\ d \in [Blocks -> Values \cup {Torn}]
  <2>1. disk.log \in Log /\ cache.log \in Log
    BY DEF TypeOK, Files
  <2>2. Heads(disk.log.head, cache.log.head) \subseteq Header
    BY <2>1 DEF Log, Heads, Header
  <2>3. d \in [Blocks -> Values \cup {Torn}]
    BY DEF Pages
  <2> QED  BY <1>2, <2>1, <2>2, <2>3
<1>4. l \in Log
  BY <1>2, <1>3 DEF Log
<1>5. ASSUME cache.log = disk.log
      PROVE  l = disk.log
  <2>1. h = disk.log.head /\ v = disk.log
    BY <1>2, <1>5 DEF Heads
  <2>2. d = disk.log.data
    BY <1>2, <1>3, <1>5 DEF Pages, TypeOK, Files, Log
  <2> QED  BY <1>2, <2>1, <2>2 DEF TypeOK, Files, Log
<1> QED  BY <1>1, <1>4, <1>5

\* A crash makes no good header out of two bad ones.
LEMMA CrashedHead ==
    ASSUME NEW o \in Header, NEW n \in Header, NEW h \in Heads(o, n)
    PROVE  /\ h \in Header
           /\ o = n => h = o
           /\ ~Good(o) /\ ~Good(n) => ~Good(h)
<1>1. h = o \/ h = n \/ (o # n /\ h = [n EXCEPT !.CheckSum = FALSE])
  BY DEF Heads
<1> QED  BY <1>1 DEF Header, Good, Consistent

\* A crash leaves a page that was flushed alone.
LEMMA CrashedPages ==
    ASSUME NEW o \in [Blocks -> Values \cup {Torn}], NEW n \in [Blocks -> Values \cup {Torn}],
           NEW d \in Pages(o, n)
    PROVE  /\ d \in [Blocks -> Values \cup {Torn}]
           /\ \A b \in Blocks : o[b] = n[b] => d[b] = o[b]
           /\ o = n => d = o
<1>1. d \in [Blocks -> Values \cup {Torn}] /\ \A b \in Blocks : o[b] = n[b] => d[b] = o[b]
  BY DEF Pages
<1>2. o = n => d = o
  BY <1>1
<1> QED  BY <1>1, <1>2

\* A crash leaves the primary whole or the log in charge, and loses nothing
\* but the choice between the last completed save and the one under way.
LEMMA CrashStep ==
    ASSUME CmDoSelfHeal, IInv, Crash
    PROVE  IInv' /\ LoadedImage(disk)' \in {LoadedImage(disk), attempt}
<1> PICK p \in CrashedPrimary, l \in CrashedLog :
        disk' = [prim |-> p, log |-> l] /\ cache' = disk'
  BY DEF Crash
<1>f. disk'.prim = p /\ disk'.log = l /\ cache'.prim = p /\ cache'.log = l
  OBVIOUS
<1>d. Unloaded /\ attempt' = attempt
  BY DEF Crash
<1>t. TypeOK /\ attempt \in Images
  BY DEF IInv
<1>h. /\ disk.prim.head \in Header
      /\ cache.prim.head \in Header
      /\ disk.prim.data \in [Blocks -> Values \cup {Torn}]
      /\ cache.prim.data \in [Blocks -> Values \cup {Torn}]
      /\ attempt \in [Blocks -> Values \cup {Torn}]
  BY <1>t DEF TypeOK, Files, Primary, Images
<1>p. /\ p \in Primary
      /\ l \in Log
      /\ p.head \in Heads(disk.prim.head, cache.prim.head)
      /\ p.data \in Pages(disk.prim.data, cache.prim.data)
      /\ cache.log = disk.log => l = disk.log
  BY <1>t, CrashedFiles
<1>ph. /\ p.head \in Header
       /\ disk.prim.head = cache.prim.head => p.head = disk.prim.head
       /\ ~Good(disk.prim.head) /\ ~Good(cache.prim.head) => ~Good(p.head)
  BY <1>h, <1>p, CrashedHead
<1>pd. /\ p.data \in [Blocks -> Values \cup {Torn}]
       /\ \A b \in Blocks : disk.prim.data[b] = cache.prim.data[b] => p.data[b] = disk.prim.data[b]
       /\ disk.prim.data = cache.prim.data => p.data = disk.prim.data
  BY <1>h, <1>p, CrashedPages
<1>1. TypeOK'
  <2>1. disk' \in Files /\ cache' \in Files
    BY <1>p DEF Files
  <2>2. NoHeader \in Header
    BY SeqAssumption, MaxTimeAssumption DEF NoHeader, Header
  <2> QED  BY <2>1, <2>2, <1>d DEF TypeOK, Unloaded
<1>q. ASSUME LogHolds, ~Good(p.head)
      PROVE  Exposed'
  <2>1. l = disk.log
    BY <1>q, <1>p DEF LogHolds
  <2>2. \A b \in Blocks \ disk.log.vector : p.data[b] = attempt[b]
    BY <1>q, <1>pd DEF LogHolds
  <2>3. LogHolds'
    BY <1>q, <1>f, <1>d, <2>1, <2>2 DEF LogHolds
  <2> QED  BY <2>3, <1>q, <1>f DEF Exposed
<1>2. Settled' \/ Exposed'
  <2>1. CASE Settled
    BY <2>1, <1>f, <1>ph, <1>pd DEF Settled
  <2>2. CASE Announced /\ Good(p.head)
    BY <2>2, <1>f, <1>pd DEF Settled, Announced
  <2>3. CASE Announced /\ ~Good(p.head)
    BY <2>3, <1>q DEF Announced
  <2>4. CASE Exposed
    BY <2>4, <1>q, <1>ph DEF Exposed
  <2>5. CASE Completing /\ Good(p.head)
    BY <2>5, <1>f, <1>pd, <1>t DEF Settled, Completing
  <2>6. CASE Completing /\ ~Good(p.head)
    BY <2>6, <1>q DEF Completing
  <2> QED  BY <2>1, <2>2, <2>3, <2>4, <2>5, <2>6, FilesKnown
<1>3. LoadedImage(disk)' \in {LoadedImage(disk), attempt}
  <2>1. /\ Settled' => LoadedImage(disk)' = p.data
        /\ Exposed' => LoadedImage(disk)' = attempt
    <3>1. disk' \in Files /\ cache' \in Files
      BY <1>1 DEF TypeOK
    <3>2. Settled' => LoadedImage(disk') = p.data
      BY <3>1, <1>f, LoadedFrom DEF Settled
    <3>3. Exposed' => LoadedImage(disk') = attempt
      BY <3>1, <1>f, <1>d, <1>t, LoadedFrom, LoadedAttempt DEF Exposed, LogHolds
    <3> QED  BY <3>2, <3>3
  <2>2. CASE Exposed'
    BY <2>1, <2>2
  <2>3. CASE Settled' /\ (Settled \/ Announced)
    BY <2>1, <2>3, <1>pd, <1>t, LoadedImageOf DEF Settled, Announced
  <2>4. CASE Settled' /\ Completing
    BY <2>1, <2>4, <1>pd DEF Completing
  <2>5. Settled' => ~Exposed
    BY <1>f, <1>ph DEF Settled, Exposed
  <2> QED  BY <1>2, <2>2, <2>3, <2>4, <2>5, FilesKnown
<1>4. StepInv'
  BY <1>2, <1>d DEF Unloaded, StepInv, DownInv, LogSteps, HiveSteps
<1>5. pc' \in PCs /\ loading' \in BOOLEAN /\ attempt' \in Images
  BY <1>d, <1>t DEF Unloaded, PCs
<1> QED  BY <1>1, <1>3, <1>4, <1>5 DEF IInv

----------------------------------------------------------------------------
(* The steps that touch neither file, and the end of a save.               *)

\* A page that is written and marked dirty keeps the invariant.
LEMMA MarkDirtyStep ==
    ASSUME IInv, NEW b \in Blocks, NEW v \in Values, HvMarkDirty(b, v)
    PROVE  IInv'
<1>1. /\ pc = "idle" /\ pc' = "idle"
      /\ Dirty' \subseteq Blocks
      /\ Dirty \subseteq Dirty' /\ b \in Dirty'
      /\ UNCHANGED <<loading, BaseBlock, cache, disk, attempt>>
  BY BlocksAssumption DEF HvMarkDirty, IInv, TypeOK
<1>2. image \in Images /\ image' = [image EXCEPT ![b] = v]
  BY <1>1 DEF IInv, StepInv, UpInv, HvMarkDirty
<1>3. image' \in Images /\ \A c \in Blocks \ {b} : image'[c] = image[c]
  BY <1>2 DEF Images
<1>4. TypeOK'
  BY <1>1, <1>3 DEF IInv, TypeOK
<1>5. UpInv'
  BY <1>1, <1>3 DEF IInv, StepInv, UpInv
<1>6. RestInv'
  <2>1. ~loading /\ (Settled \/ Announced \/ Exposed)
    BY <1>1 DEF IInv, StepInv, RestInv
  <2>2. /\ Settled' = Settled
        /\ Announced' = Announced
        /\ Exposed' = Exposed
    BY <1>1 DEF Settled, Announced, Exposed, LogHolds
  <2>3. CleanAsSaved => CleanAsSaved'
    BY <1>1, <1>3 DEF CleanAsSaved
  <2> QED  BY <1>1, <2>1, <2>2, <2>3 DEF IInv, StepInv, RestInv
<1>7. StepInv'
  BY <1>1, <1>5, <1>6 DEF StepInv, LogSteps, HiveSteps
<1> QED  BY <1>1, <1>4, <1>7 DEF IInv, PCs

\* A failure before anything was written leaves a rest state or no hive.
LEMMA SyncStep ==
    ASSUME IInv, HvSyncHive \/ LogGrowFails \/ Punt("LogHead1")
    PROVE  IInv'
<1>1. /\ UNCHANGED <<cache, disk, attempt, loading, image, Dirty, BaseBlock>>
      /\ pc \in {"idle", "LogHead1"}
      /\ \/ pc' = "idle"
         \/ pc' = "LogHead1" /\ Dirty # {}
  <2>1. pc \in {"idle", "LogHead1"}
    BY DEF HvSyncHive, LogGrowFails, Punt
  <2>2. ~loading
    BY <2>1 DEF IInv, StepInv, RestInv
  <2> QED  BY <2>1, <2>2 DEF HvSyncHive, LogGrowFails, Punt, Fail, Proceed
<1>2. TypeOK' /\ UpInv' /\ RestInv'
  BY <1>1 DEF IInv, TypeOK, StepInv, UpInv, RestInv, CleanAsSaved, Settled, Announced, Exposed, LogHolds
<1>3. StepInv'
  BY <1>1, <1>2 DEF StepInv, LogSteps, HiveSteps
<1> QED  BY <1>1, <1>2, <1>3 DEF IInv, PCs

\* The base block in memory stays consistent until the header is written.
LEMMA NoPuntInHive ==
    ASSUME IInv
    PROVE  ~Punt("HiveHead1")
  BY DEF Punt, IInv, StepInv, HiveSteps, HiveInv

\* The log cut back to its smallest size: the invariant is kept.
LEMMA ShrinkStep ==
    ASSUME IInv, ShrinkLog
    PROVE  IInv'
<1>1. /\ pc = "ShrinkLog"
      /\ Settled /\ image = disk.prim.data /\ UpInv
      /\ UNCHANGED <<disk, attempt, loading, image, BaseBlock>>
      /\ \/ loading /\ pc' = "ClearLog" /\ Dirty' = Dirty
         \/ ~loading /\ pc' = "idle" /\ Dirty' = {}
  BY DEF IInv, StepInv, DoneInv, ShrinkLog, Proceed
<1>2. cache' = [cache EXCEPT !.log.data = [b \in Blocks |-> IF b \in MinLog THEN cache.log.data[b] ELSE Torn]]
  BY DEF ShrinkLog
<1>3. cache' \in Files /\ cache'.prim = cache.prim
  BY <1>2 DEF IInv, TypeOK, Files, Log
<1>4. TypeOK' /\ UpInv'
  BY <1>1, <1>3 DEF IInv, TypeOK, UpInv
<1>5. Settled' /\ DoneInv' /\ CleanAsSaved'
  BY <1>1, <1>3 DEF Settled, DoneInv, CleanAsSaved
<1>6. StepInv'
  BY <1>1, <1>4, <1>5 DEF StepInv, RestInv, LogSteps, HiveSteps
<1> QED  BY <1>1, <1>4, <1>6 DEF IInv, PCs

\* The log cleared after a recovery: the invariant is kept.
LEMMA ClearStep ==
    ASSUME IInv, ClearLog
    PROVE  IInv'
<1>1. /\ pc = "ClearLog" /\ pc' = "idle"
      /\ Settled /\ image = disk.prim.data /\ UpInv
      /\ UNCHANGED <<disk, attempt, image, BaseBlock>>
      /\ loading' = FALSE /\ Dirty' = {}
  BY DEF IInv, StepInv, DoneInv, ClearLog
<1>2. cache' = [cache EXCEPT !.log = EmptyLog(cache.log)]
  BY DEF ClearLog
<1>3. EmptyLog(cache.log) \in Log
  BY DEF EmptyLog, IInv, TypeOK, Files, Log, Header
<1>4. cache' \in Files /\ cache'.prim = cache.prim
  BY <1>2, <1>3 DEF IInv, TypeOK, Files
<1>5. TypeOK' /\ UpInv'
  BY <1>1, <1>4 DEF IInv, TypeOK, UpInv
<1>6. RestInv'
  BY <1>1, <1>4 DEF Settled, RestInv, CleanAsSaved
<1>7. StepInv'
  BY <1>1, <1>5, <1>6 DEF StepInv, LogSteps, HiveSteps
<1> QED  BY <1>1, <1>5, <1>7 DEF IInv, PCs

----------------------------------------------------------------------------
(* The load.                                                               *)

\* The header a load leaves in memory is a consistent one.
LEMMA LoadedHeaderGood ==
    ASSUME NEW f \in Files
    PROVE  LoadedHeader(f) \in Header /\ Good(LoadedHeader(f))
<1> DEFINE h1 == [f.prim.head EXCEPT !.Sequence2 = f.prim.head.Sequence1]
           h2 == [f.log.head EXCEPT !.Sequence2 = f.log.head.Sequence1]
           h3 == [f.log.head EXCEPT !.Sequence1 = 1, !.Sequence2 = 1, !.CheckSum = TRUE]
<1>1. f.prim.head \in Header /\ f.log.head \in Header
  BY DEF Files, Primary, Log
<1>2. h1 \in Header /\ h2 \in Header /\ h3 \in Header /\ Good(h3)
  <2>1. h1 \in Header /\ h2 \in Header
    BY <1>1 DEF Header
  <2>2. 1 \in 0..SeqModulus - 1
    BY SeqAssumption
  <2>3. h3 \in Header
    BY <1>1, <2>2 DEF Header
  <2>4. h3.Sequence1 = 1 /\ h3.Sequence2 = 1 /\ h3.CheckSum
    BY <1>1 DEF Header
  <2> QED  BY <2>1, <2>3, <2>4 DEF Good, Consistent
<1>3. f.prim.head.CheckSum => Good(h1)
  BY <1>1 DEF Header, Good, Consistent
<1>4. f.log.head.CheckSum => Good(h2)
  BY <1>1 DEF Header, Good, Consistent
<1>5. HvpGetLogHeader(f) = "HiveSuccess" => f.log.head.CheckSum
  BY DEF HvpGetLogHeader
<1>6. CASE HvpGetHiveHeader(f) # "RecoverHeader"
  BY <1>6, <1>2, <1>3, HeaderSuccess DEF LoadedHeader
<1>7. CASE HvpGetHiveHeader(f) = "RecoverHeader" /\ HvpGetLogHeader(f) = "HiveSuccess"
  BY <1>7, <1>2, <1>4, <1>5 DEF LoadedHeader
<1>8. CASE HvpGetHiveHeader(f) = "RecoverHeader" /\ HvpGetLogHeader(f) # "HiveSuccess"
  BY <1>8, <1>2 DEF LoadedHeader
<1> QED  BY <1>6, <1>7, <1>8

\* A load keeps the invariant and finds what LoadedImage says.
LEMMA LoadStep ==
    ASSUME CmDoSelfHeal, IInv, Load
    PROVE  IInv' /\ image = Down /\ image' = LoadedImage(disk) /\ attempt' = LoadedImage(disk)
           /\ disk' = disk
<1>1. /\ pc = "down" /\ DownInv
      /\ image' = LoadedImage(cache)
      /\ attempt' = LoadedImage(cache)
      /\ BaseBlock' = LoadedHeader(cache)
      /\ UNCHANGED <<cache, disk>>
      /\ cache \in Files
      /\ TypeOK /\ attempt \in Images
  BY DEF IInv, StepInv, Load, TypeOK
<1>2. BaseBlock' \in Header /\ Good(BaseBlock')
  BY <1>1, LoadedHeaderGood
<1>3. LoadedImage(cache) = LoadedImage(disk)
  BY <1>1, LoadedImageOf DEF DownInv
<1>4. CASE Settled
  <2>1. image' = disk.prim.data /\ image' \in Images
    BY <1>1, <1>4, LoadedImageOf DEF Settled
  <2>2. loading' = FALSE /\ pc' = "idle" /\ Dirty' = {}
    <3>1. HvpGetHiveHeader(cache) = "HiveSuccess"
      BY <1>1, <1>4, HeaderSuccess DEF Settled
    <3> QED  BY <3>1 DEF Load
  <2>3. Settled' /\ CleanAsSaved'
    BY <1>1, <1>4, <2>1, <2>2 DEF Settled, CleanAsSaved
  <2>4. TypeOK' /\ UpInv' /\ RestInv'
    BY <1>1, <1>2, <2>1, <2>2, <2>3 DEF TypeOK, UpInv, RestInv, Good
  <2>5. StepInv'
    BY <2>2, <2>4 DEF StepInv, LogSteps, HiveSteps
  <2> QED  BY <1>1, <1>3, <2>1, <2>2, <2>4, <2>5 DEF IInv, PCs, DownInv
<1>5. CASE Exposed
  <2>1. image' = attempt /\ attempt' = attempt /\ image' \in Images
    BY <1>1, <1>5, LoadedImageOf
  <2>2. loading' = TRUE /\ pc' = "HiveFlush0" /\ Dirty' = cache.log.vector \cup {0}
    <3>1. HvpGetHiveHeader(cache) # "HiveSuccess"
      BY <1>1, <1>5, HeaderSuccess DEF Exposed
    <3>2. cache.log.Signature
      BY <1>5 DEF Exposed, LogHolds
    <3> QED  BY <3>1, <3>2 DEF Load
  <2>3. Dirty' \subseteq Blocks /\ Dirty' # {} /\ disk.log.vector \subseteq Dirty'
    BY <1>1, <1>5, <2>2, BlocksAssumption DEF Files, Log, Exposed, LogHolds
  <2>4. Exposed' /\ LogHolds'
    BY <1>1, <1>5, <2>1 DEF Exposed, LogHolds
  <2>5. TypeOK' /\ UpInv'
    BY <1>1, <1>2, <2>1, <2>3 DEF TypeOK, UpInv, Good
  <2>6. HiveInv'
    BY <1>1, <1>2, <2>1, <2>2, <2>3, <2>4 DEF HiveInv, Good
  <2>7. StepInv'
    BY <2>2, <2>5, <2>6 DEF StepInv, LogSteps, HiveSteps
  <2> QED  BY <1>1, <1>3, <2>1, <2>2, <2>5, <2>7 DEF IInv, PCs, HiveSteps, DownInv
<1> QED  BY <1>1, <1>4, <1>5 DEF DownInv

----------------------------------------------------------------------------
(* One write or one flush.                                                 *)

\* A write keeps the types.
LEMMA WriteType ==
    ASSUME TypeOK, NEW at, NEW next, NEW head \in Header, NEW files \in Files,
           WriteFile(at, next, head, files)
    PROVE  TypeOK'
<1>1. NoHeader \in Header
  BY SeqAssumption, MaxTimeAssumption DEF NoHeader, Header
<1> QED  BY <1>1 DEF TypeOK, WriteFile, Proceed, Fail, Unloaded

\* A flush keeps the types.
LEMMA FlushType ==
    ASSUME TypeOK, NEW at, NEW next, NEW files \in Files, FlushFile(at, next, files)
    PROVE  TypeOK'
<1>1. NoHeader \in Header
  BY SeqAssumption, MaxTimeAssumption DEF NoHeader, Header
<1> QED  BY <1>1 DEF TypeOK, FlushFile, Proceed, Fail, Unloaded

\* What a failed write or flush must leave behind.
LEMMA FailStep ==
    ASSUME IInv, pc # "down", TypeOK', attempt' \in Images,
           NEW head, head.CheckSum, Fail(head),
           loading => Settled' \/ Exposed',
           ~loading => \/ Settled' /\ \A b \in Blocks \ Dirty : image[b] = disk'.prim.data[b]
                       \/ (Announced' \/ Exposed') /\ ~Consistent(head) /\ Dirty # {}
    PROVE  IInv'
<1>1. UpInv
  BY DEF IInv, StepInv
<1>2. CASE ~loading /\ Proceed("idle", head)
  <2>1. pc' = "idle" /\ BaseBlock' = head /\ UNCHANGED <<loading, image, Dirty>>
    BY <1>2 DEF Proceed
  <2>2. UpInv'
    BY <1>1, <2>1 DEF UpInv
  <2>3. RestInv'
    BY <1>2, <2>1 DEF RestInv, CleanAsSaved
  <2>4. StepInv'
    BY <2>1, <2>2, <2>3 DEF StepInv, LogSteps, HiveSteps
  <2> QED  BY <2>1, <2>4 DEF IInv, PCs
<1>3. CASE loading /\ Unloaded
  <2>1. pc' = "down" /\ image' = Down /\ loading' = FALSE
    BY <1>3 DEF Unloaded
  <2>2. DownInv'
    BY <1>3, <2>1 DEF DownInv
  <2>3. StepInv'
    BY <2>1, <2>2 DEF StepInv, LogSteps, HiveSteps
  <2> QED  BY <2>1, <2>3 DEF IInv, PCs
<1> QED  BY <1>2, <1>3 DEF Fail

\* While the log is written the primary stays as the last save left it.
LEMMA LogWriteFails ==
    ASSUME IInv, pc # "down", TypeOK', attempt' \in Images, ~loading, Settled, CleanAsSaved,
           disk'.prim = disk.prim, cache'.prim = cache.prim,
           NEW head, head.CheckSum, Fail(head)
    PROVE  IInv'
<1>1. Settled'
  BY DEF Settled
<1>2. \A b \in Blocks \ Dirty : image[b] = disk'.prim.data[b]
  BY DEF CleanAsSaved
<1> QED  BY <1>1, <1>2, FailStep

\* The types of the pieces of the state.
LEMMA Types ==
    ASSUME TypeOK
    PROVE  /\ BaseBlock \in Header
           /\ BaseBlock.Sequence1 \in 0..SeqModulus - 1
           /\ BaseBlock.Sequence2 \in 0..SeqModulus - 1
           /\ BaseBlock.TimeStamp \in 0..MaxTime
           /\ cache.prim \in Primary /\ cache.log \in Log
           /\ disk.prim \in Primary /\ disk.log \in Log
           /\ cache.prim.head \in Header /\ disk.prim.head \in Header
           /\ Dirty \subseteq Blocks
  BY DEF TypeOK, Files, Primary, Header

----------------------------------------------------------------------------
(* HvpWriteLog.                                                            *)

\* The first header of the log keeps the invariant.
LEMMA LogHead1Step ==
    ASSUME IInv, LogHead1
    PROVE  IInv'
<1>1. PICK time \in {BaseBlock.TimeStamp, BaseBlock.TimeStamp + 1} :
          /\ time <= MaxTime
          /\ WriteFile("LogHead1", "LogFlush1",
                       [BaseBlock EXCEPT !.Sequence1 = Raised(@), !.TimeStamp = time],
                       [cache EXCEPT !.log.head =
                          [BaseBlock EXCEPT !.Sequence1 = Raised(@), !.TimeStamp = time]])
  BY DEF LogHead1
<1> DEFINE h == [BaseBlock EXCEPT !.Sequence1 = Raised(@), !.TimeStamp = time]
           f == [cache EXCEPT !.log.head = h]
<1>2. /\ pc = "LogHead1" /\ Consistent(BaseBlock) /\ attempt' = image
      /\ TypeOK /\ UpInv /\ RestInv /\ Dirty # {}
  BY <1>1 DEF LogHead1, WriteFile, IInv, StepInv
<1>3. ~loading /\ Settled /\ CleanAsSaved
  BY <1>2 DEF RestInv
<1>4. h \in Header
  <2>1. time \in 0..MaxTime
    BY <1>1, <1>2, Types, MaxTimeAssumption
  <2>2. Raised(BaseBlock.Sequence1) \in 0..SeqModulus - 1
    BY <1>2, Types, RaisedType
  <2> QED  BY <2>1, <2>2, <1>2, Types DEF Header
<1>5. h.CheckSum /\ h.Sequence1 = Raised(h.Sequence2)
  BY <1>2, Types DEF Consistent, UpInv, Header
<1>6. f \in Files /\ f.prim = cache.prim
  BY <1>2, <1>4 DEF TypeOK, Files, Log
<1> HIDE DEF h, f
<1>w. WriteFile("LogHead1", "LogFlush1", h, f)
  BY <1>1 DEF h, f
<1>7. TypeOK'
  BY <1>2, <1>4, <1>6, <1>w, WriteType
<1>8. disk' = disk /\ cache'.prim = cache.prim
  BY <1>6, <1>w DEF WriteFile
<1>9. attempt' \in Images
  BY <1>2 DEF UpInv
<1>10. CASE Fail(h)
  BY <1>10, <1>2, <1>3, <1>5, <1>7, <1>8, <1>9, LogWriteFails
<1>11. CASE Proceed("LogFlush1", h)
  <2>1. pc' = "LogFlush1" /\ BaseBlock' = h /\ UNCHANGED <<loading, image, Dirty>>
    BY <1>11 DEF Proceed
  <2>2. UpInv' /\ Settled' /\ CleanAsSaved' /\ Announcing'
    BY <1>2, <1>3, <1>5, <1>8, <2>1 DEF UpInv, Settled, CleanAsSaved, Announcing
  <2>3. LogInv'
    BY <1>2, <1>3, <2>1, <2>2 DEF LogInv
  <2>4. StepInv'
    BY <2>1, <2>2, <2>3 DEF StepInv, LogSteps, HiveSteps
  <2> QED  BY <1>3, <1>7, <1>9, <2>1, <2>4 DEF IInv, PCs, LogSteps
<1> QED  BY <1>10, <1>11, <1>w DEF WriteFile

\* What is known while the log is written.
LEMMA LogFacts ==
    ASSUME IInv, pc \in LogSteps
    PROVE  /\ TypeOK /\ UpInv /\ LogInv
           /\ ~loading /\ Settled /\ CleanAsSaved
           /\ pc # "down" /\ attempt \in Images
  BY DEF IInv, StepInv, LogInv, LogSteps

\* A write of the log that changes nothing of the primary.
LEMMA LogVectorStep ==
    ASSUME IInv, LogVector
    PROVE  IInv'
<1> DEFINE f == [cache EXCEPT !.log.Signature = TRUE, !.log.vector = Dirty]
<1>1. pc = "LogVector" /\ attempt' = attempt /\ WriteFile("LogVector", "LogBody", BaseBlock, f)
  BY DEF LogVector, WriteFile
<1>2. /\ TypeOK /\ UpInv /\ LogInv
      /\ ~loading /\ Settled /\ CleanAsSaved
      /\ pc # "down" /\ attempt \in Images
  BY <1>1, LogFacts DEF LogSteps
<1>3. f \in Files /\ f.prim = cache.prim /\ f.log.Signature /\ f.log.vector = Dirty
  BY <1>2 DEF TypeOK, Files, Log
<1> HIDE DEF f
<1>4. TypeOK'
  BY <1>1, <1>2, <1>3, Types, WriteType
<1>5. disk' = disk /\ cache'.prim = cache.prim
  BY <1>1, <1>3 DEF WriteFile
<1>6. CASE Fail(BaseBlock)
  BY <1>1, <1>2, <1>4, <1>5, <1>6, LogWriteFails DEF UpInv
<1>7. CASE Proceed("LogBody", BaseBlock) /\ cache' = f
  <2>1. pc' = "LogBody" /\ UNCHANGED <<BaseBlock, loading, image, Dirty>>
    BY <1>7 DEF Proceed
  <2>2. UpInv' /\ Settled' /\ CleanAsSaved' /\ Announcing'
    BY <1>1, <1>2, <1>5, <2>1 DEF UpInv, Settled, CleanAsSaved, Announcing, LogInv
  <2>3. LogInv'
    BY <1>1, <1>2, <1>3, <1>7, <2>1, <2>2 DEF LogInv
  <2>4. StepInv'
    BY <2>1, <2>2, <2>3 DEF StepInv, LogSteps, HiveSteps
  <2> QED  BY <1>1, <1>2, <1>4, <2>1, <2>4 DEF IInv, PCs, LogSteps
<1> QED  BY <1>1, <1>6, <1>7 DEF WriteFile

\* The dirty pages written to the log keep the invariant.
LEMMA LogBodyStep ==
    ASSUME IInv, LogBody
    PROVE  IInv'
<1> DEFINE d == [b \in Blocks |-> IF b \in Dirty THEN image[b] ELSE Torn]
           f == [cache EXCEPT !.log.data = d]
<1>1. pc = "LogBody" /\ attempt' = attempt /\ WriteFile("LogBody", "LogFlush2", BaseBlock, f)
  BY DEF LogBody, WriteFile
<1>2. /\ TypeOK /\ UpInv /\ LogInv
      /\ ~loading /\ Settled /\ CleanAsSaved
      /\ pc # "down" /\ attempt \in Images
  BY <1>1, LogFacts DEF LogSteps
<1>3. d \in [Blocks -> Values \cup {Torn}] /\ \A b \in Dirty : d[b] = image[b]
  BY <1>2, Types DEF UpInv, Images
<1>4. /\ f \in Files /\ f.prim = cache.prim /\ f.log.data = d
      /\ f.log.Signature = cache.log.Signature /\ f.log.vector = cache.log.vector
  <2> HIDE DEF d
  <2> QED  BY <1>2, <1>3 DEF TypeOK, Files, Log
<1> HIDE DEF d, f
<1>5. TypeOK'
  BY <1>1, <1>2, <1>4, Types, WriteType
<1>6. disk' = disk /\ cache'.prim = cache.prim
  BY <1>1, <1>4 DEF WriteFile
<1>7. CASE Fail(BaseBlock)
  BY <1>1, <1>2, <1>5, <1>6, <1>7, LogWriteFails DEF UpInv
<1>8. CASE Proceed("LogFlush2", BaseBlock) /\ cache' = f
  <2>1. pc' = "LogFlush2" /\ UNCHANGED <<BaseBlock, loading, image, Dirty>>
    BY <1>8 DEF Proceed
  <2>2. UpInv' /\ Settled' /\ CleanAsSaved' /\ Announcing'
    BY <1>1, <1>2, <1>6, <2>1 DEF UpInv, Settled, CleanAsSaved, Announcing, LogInv
  <2>3. LogInv'
    BY <1>1, <1>2, <1>3, <1>4, <1>8, <2>1, <2>2 DEF LogInv
  <2>4. StepInv'
    BY <2>1, <2>2, <2>3 DEF StepInv, LogSteps, HiveSteps
  <2> QED  BY <1>1, <1>2, <1>5, <2>1, <2>4 DEF IInv, PCs, LogSteps
<1> QED  BY <1>1, <1>7, <1>8 DEF WriteFile

\* The second header of the log keeps the invariant.
LEMMA LogHead2Step ==
    ASSUME IInv, LogHead2
    PROVE  IInv'
<1> DEFINE h == [BaseBlock EXCEPT !.Sequence2 = Raised(@)]
           f == [cache EXCEPT !.log.head = h]
<1>1. pc = "LogHead2" /\ attempt' = attempt /\ WriteFile("LogHead2", "LogFlush3", h, f)
  BY DEF LogHead2, WriteFile
<1>2. /\ TypeOK /\ UpInv /\ LogInv
      /\ ~loading /\ Settled /\ CleanAsSaved
      /\ pc # "down" /\ attempt \in Images
  BY <1>1, LogFacts DEF LogSteps
<1>3. Announcing
  BY <1>1, <1>2 DEF LogInv
<1>4. h \in Header
  BY <1>2, Types, RaisedType DEF Header
<1>5. h.CheckSum /\ Consistent(h)
  BY <1>2, <1>3, Types DEF UpInv, Consistent, Announcing, Header
<1>6. /\ f \in Files /\ f.prim = cache.prim /\ f.log.head = h
      /\ f.log.Signature = cache.log.Signature /\ f.log.vector = cache.log.vector
      /\ f.log.data = cache.log.data
  <2> HIDE DEF h
  <2> QED  BY <1>2, <1>4 DEF TypeOK, Files, Log
<1> HIDE DEF h, f
<1>7. TypeOK'
  BY <1>1, <1>2, <1>4, <1>6, WriteType
<1>8. disk' = disk /\ cache'.prim = cache.prim
  BY <1>1, <1>6 DEF WriteFile
<1>9. CASE Fail(h)
  BY <1>1, <1>2, <1>5, <1>7, <1>8, <1>9, LogWriteFails
<1>10. CASE Proceed("LogFlush3", h) /\ cache' = f
  <2>1. pc' = "LogFlush3" /\ BaseBlock' = h /\ UNCHANGED <<loading, image, Dirty>>
    BY <1>10 DEF Proceed
  <2>2. UpInv' /\ Settled' /\ CleanAsSaved'
    BY <1>2, <1>5, <1>8, <2>1 DEF UpInv, Settled, CleanAsSaved
  <2>3. LogInv'
    BY <1>1, <1>2, <1>5, <1>6, <1>10, <2>1, <2>2 DEF LogInv
  <2>4. StepInv'
    BY <2>1, <2>2, <2>3 DEF StepInv, LogSteps, HiveSteps
  <2> QED  BY <1>1, <1>2, <1>7, <2>1, <2>4 DEF IInv, PCs, LogSteps
<1> QED  BY <1>1, <1>9, <1>10 DEF WriteFile

\* A flush of the log touches the primary on neither side.
LEMMA LogFlushFrame ==
    ASSUME IInv, NEW at \in LogSteps, NEW next, FlushLog(at, next)
    PROVE  /\ TypeOK' /\ attempt' = attempt
           /\ cache' = cache /\ disk'.prim = disk.prim
           /\ Settled' /\ pc = at
           /\ IInv' \/ (Proceed(next, BaseBlock) /\ disk'.log = cache.log)
<1>1. TypeOK /\ UpInv /\ ~loading /\ Settled /\ CleanAsSaved /\ pc # "down" /\ attempt \in Images
  BY LogFacts DEF FlushLog, FlushFile
<1>2. [disk EXCEPT !.log = cache.log] \in Files
  BY <1>1 DEF TypeOK, Files
<1>3. TypeOK'
  BY <1>1, <1>2, FlushType DEF FlushLog
<1>4. cache' = cache /\ disk'.prim = disk.prim /\ attempt' = attempt /\ pc = at
  BY <1>1 DEF FlushLog, FlushFile, TypeOK, Files
<1>5. Settled'
  BY <1>1, <1>4 DEF Settled
<1>6. CASE Fail(BaseBlock)
  BY <1>1, <1>3, <1>4, <1>6, LogWriteFails, <1>5 DEF UpInv
<1>7. CASE Proceed(next, BaseBlock) /\ disk' = [disk EXCEPT !.log = cache.log]
  BY <1>1, <1>3, <1>4, <1>5, <1>7 DEF TypeOK, Files
<1> QED  BY <1>3, <1>4, <1>5, <1>6, <1>7 DEF FlushLog, FlushFile

\* The first two flushes of the log keep the invariant.
LEMMA LogFlush12Step ==
    ASSUME IInv, LogFlush1 \/ LogFlush2
    PROVE  IInv'
<1>1. PICK at \in {"LogFlush1", "LogFlush2"}, next \in {"LogVector", "LogHead2"} :
          /\ FlushLog(at, next)
          /\ at = "LogFlush1" <=> next = "LogVector"
  BY DEF LogFlush1, LogFlush2
<1>2. at \in LogSteps
  BY DEF LogSteps
<1>3. /\ TypeOK' /\ attempt' = attempt
      /\ cache' = cache /\ disk'.prim = disk.prim
      /\ Settled' /\ pc = at
      /\ IInv' \/ Proceed(next, BaseBlock)
  BY <1>1, <1>2, LogFlushFrame
<1>4. ASSUME Proceed(next, BaseBlock)
      PROVE  IInv'
  <2>1. UpInv /\ LogInv /\ CleanAsSaved /\ ~loading /\ attempt \in Images
    BY <1>2, <1>3, LogFacts
  <2>2. pc' = next /\ UNCHANGED <<BaseBlock, loading, image, Dirty>>
    BY <1>4 DEF Proceed
  <2>3. UpInv' /\ CleanAsSaved' /\ Announcing'
    BY <1>1, <1>3, <2>1, <2>2 DEF UpInv, CleanAsSaved, LogInv, Announcing
  <2>4. LogInv'
    BY <1>1, <1>3, <2>1, <2>2, <2>3 DEF LogInv
  <2>5. StepInv'
    BY <1>1, <2>2, <2>3, <2>4 DEF StepInv, LogSteps, HiveSteps
  <2> QED  BY <1>1, <1>3, <2>1, <2>2, <2>5 DEF IInv, PCs, LogSteps
<1> QED  BY <1>3, <1>4

\* The log is durable: the primary may be written.
LEMMA LogFlush3Step ==
    ASSUME IInv, LogFlush3
    PROVE  IInv'
<1>1. /\ TypeOK' /\ attempt' = attempt
      /\ cache' = cache /\ disk'.prim = disk.prim
      /\ Settled' /\ pc = "LogFlush3"
      /\ IInv' \/ (Proceed("HiveFlush0", BaseBlock) /\ disk'.log = cache.log)
  BY LogFlushFrame DEF LogFlush3, LogSteps
<1>2. ASSUME Proceed("HiveFlush0", BaseBlock), disk'.log = cache.log
      PROVE  IInv'
  <2>1. TypeOK /\ UpInv /\ LogInv /\ CleanAsSaved /\ ~loading /\ Settled /\ attempt \in Images
    BY <1>1, LogFacts DEF LogSteps
  <2>2. pc' = "HiveFlush0" /\ UNCHANGED <<BaseBlock, loading, image, Dirty>>
    BY <1>2 DEF Proceed
  <2>3. /\ Consistent(BaseBlock) /\ cache.log.head = BaseBlock
        /\ cache.log.Signature /\ cache.log.vector = Dirty
        /\ \A b \in Dirty : cache.log.data[b] = image[b]
        /\ attempt = image /\ Dirty # {}
    BY <1>1, <2>1 DEF LogInv
  <2>4. LogHolds'
    BY <1>1, <1>2, <2>1, <2>2, <2>3 DEF LogHolds, Good, UpInv, CleanAsSaved, Settled
  <2>5. HiveInv'
    BY <1>1, <1>2, <2>1, <2>2, <2>3, <2>4 DEF HiveInv
  <2>6. UpInv'
    BY <2>1, <2>2 DEF UpInv
  <2>7. StepInv'
    BY <2>2, <2>5, <2>6 DEF StepInv, LogSteps, HiveSteps
  <2> QED  BY <1>1, <2>1, <2>2, <2>7 DEF IInv, PCs, HiveSteps
<1> QED  BY <1>1, <1>2

----------------------------------------------------------------------------
(* HvpDoWriteHive.                                                         *)

\* What is known while the primary is written.
LEMMA HiveFacts ==
    ASSUME IInv, pc \in HiveSteps
    PROVE  /\ TypeOK /\ UpInv /\ HiveInv /\ LogHolds
           /\ attempt = image /\ Dirty # {} /\ disk.log.vector \subseteq Dirty
           /\ pc # "down" /\ attempt \in Images /\ loading \in BOOLEAN
  BY DEF IInv, StepInv, HiveInv, HiveSteps

\* What is not dirty is in the primary already.
LEMMA CleanInPrimary ==
    ASSUME LogHolds, attempt = image, disk.log.vector \subseteq Dirty
    PROVE  \A b \in Blocks \ Dirty : image[b] = disk.prim.data[b] /\ image[b] = cache.prim.data[b]
  BY DEF LogHolds

\* The log still holds when only the data of the primary moved, towards the
\* image being saved.
LEMMA LogStillHolds ==
    ASSUME LogHolds, cache'.log = cache.log, disk'.log = disk.log, attempt' = attempt,
           disk'.prim.data \in {disk.prim.data, cache.prim.data},
           cache'.prim.data \in {cache.prim.data, attempt}
    PROVE  LogHolds'
  BY DEF LogHolds

\* A step that succeeded, with everything it must establish.
LEMMA HiveProceeds ==
    ASSUME IInv, pc \in HiveSteps, NEW next \in HiveSteps, NEW head, head.CheckSum,
           Proceed(next, head), TypeOK', attempt' = attempt, HiveInv'
    PROVE  IInv'
<1>1. pc' = next /\ BaseBlock' = head /\ UNCHANGED <<loading, image, Dirty>>
  BY DEF Proceed
<1>2. UpInv /\ attempt \in Images /\ loading \in BOOLEAN
  BY HiveFacts
<1>3. UpInv'
  BY <1>1, <1>2 DEF UpInv
<1>4. StepInv'
  BY <1>1, <1>3 DEF StepInv, LogSteps, HiveSteps
<1> QED  BY <1>1, <1>2, <1>4 DEF IInv, PCs

\* The flush before the primary is touched keeps the invariant.
LEMMA HiveFlush0Step ==
    ASSUME IInv, HiveFlush0
    PROVE  IInv'
<1> DEFINE f == [disk EXCEPT !.prim = cache.prim]
<1>1. pc = "HiveFlush0" /\ cache' = cache /\ attempt' = attempt /\ FlushFile("HiveFlush0", "HiveHead1", f)
  BY DEF HiveFlush0, FlushHive, FlushFile
<1>2. /\ TypeOK /\ UpInv /\ HiveInv /\ LogHolds
      /\ attempt = image /\ Dirty # {} /\ disk.log.vector \subseteq Dirty
      /\ pc # "down" /\ attempt \in Images /\ loading \in BOOLEAN
  BY <1>1, HiveFacts DEF HiveSteps
<1>3. f \in Files /\ f.prim = cache.prim /\ f.log = disk.log
  BY <1>2 DEF TypeOK, Files
<1> HIDE DEF f
<1>4. TypeOK'
  BY <1>1, <1>2, <1>3, FlushType
<1>5. Consistent(BaseBlock) /\ (IF loading THEN Exposed ELSE Settled)
  BY <1>1, <1>2 DEF HiveInv
<1>6. CASE Fail(BaseBlock) /\ disk' = disk
  <2>1. loading => Exposed'
    BY <1>1, <1>5, <1>6 DEF Exposed, LogHolds
  <2>2. ~loading => Settled'
    BY <1>1, <1>5, <1>6 DEF Settled
  <2>3. \A b \in Blocks \ Dirty : image[b] = disk'.prim.data[b]
    BY <1>2, <1>6, CleanInPrimary
  <2> QED  BY <1>1, <1>2, <1>4, <1>6, <2>1, <2>2, <2>3, FailStep DEF UpInv
<1>7. CASE Proceed("HiveHead1", BaseBlock) /\ disk' = f
  <2>1. pc' = "HiveHead1" /\ UNCHANGED <<BaseBlock, loading, image, Dirty>>
    BY <1>7 DEF Proceed
  <2>2. LogHolds'
    BY <1>1, <1>2, <1>3, <1>7, LogStillHolds
  <2>3. IF loading' THEN Exposed' ELSE Settled'
    BY <1>1, <1>3, <1>5, <1>7, <2>1, <2>2 DEF Exposed, Settled
  <2>4. HiveInv'
    BY <1>1, <1>2, <1>3, <1>5, <1>7, <2>1, <2>2, <2>3 DEF HiveInv
  <2> QED  BY <1>1, <1>2, <1>4, <1>7, <2>4, HiveProceeds DEF HiveSteps, UpInv
<1> QED  BY <1>1, <1>6, <1>7 DEF FlushFile

\* The header with Sequence1 raised keeps the invariant.
LEMMA HiveHead1Step ==
    ASSUME IInv, HiveHead1
    PROVE  IInv'
<1> DEFINE h == [BaseBlock EXCEPT !.Sequence1 = Raised(@)]
           f == [cache EXCEPT !.prim.head = h]
<1>1. /\ pc = "HiveHead1" /\ attempt' = attempt /\ disk' = disk
      /\ WriteFile("HiveHead1", "HiveFlush1", h, f)
  BY DEF HiveHead1, WriteFile
<1>2. /\ TypeOK /\ UpInv /\ HiveInv /\ LogHolds
      /\ attempt = image /\ Dirty # {} /\ disk.log.vector \subseteq Dirty
      /\ pc # "down" /\ attempt \in Images /\ loading \in BOOLEAN
  BY <1>1, HiveFacts DEF HiveSteps
<1>3. Consistent(BaseBlock) /\ cache.prim = disk.prim /\ (IF loading THEN Exposed ELSE Settled)
  BY <1>1, <1>2 DEF HiveInv
<1>4. h \in Header /\ ~Consistent(h) /\ h.CheckSum /\ h.Sequence1 = Raised(h.Sequence2)
  BY <1>2, <1>3, Types, RaisedType DEF Header, Consistent, UpInv
<1>5. f \in Files /\ f.prim.head = h /\ f.prim.data = cache.prim.data /\ f.log = cache.log
  <2> HIDE DEF h
  <2> QED  BY <1>2, <1>4 DEF TypeOK, Files, Primary
<1> HIDE DEF h, f
<1>6. TypeOK'
  BY <1>1, <1>2, <1>4, <1>5, WriteType
<1>7. cache'.log = cache.log /\ cache'.prim.data = cache.prim.data /\ cache'.prim.head \in {cache.prim.head, h}
  BY <1>1, <1>5 DEF WriteFile
<1>8. LogHolds'
  BY <1>1, <1>2, <1>7, LogStillHolds
<1>9. ~Good(h)
  BY <1>4 DEF Good
<1>10. IF loading THEN Exposed' ELSE Announced'
  BY <1>1, <1>3, <1>7, <1>8, <1>9 DEF Exposed, Announced, Settled
<1>11. CASE Fail(h)
  BY <1>1, <1>2, <1>4, <1>6, <1>10, <1>11, FailStep
<1>12. CASE Proceed("HiveFlush1", h) /\ cache' = f
  <2>1. pc' = "HiveFlush1" /\ BaseBlock' = h /\ UNCHANGED <<loading, image, Dirty>>
    BY <1>12 DEF Proceed
  <2>2. HiveInv'
    BY <1>1, <1>2, <1>3, <1>4, <1>5, <1>7, <1>8, <1>10, <1>12, <2>1 DEF HiveInv, Announcing
  <2> QED  BY <1>1, <1>4, <1>6, <1>12, <2>2, HiveProceeds DEF HiveSteps
<1> QED  BY <1>1, <1>11, <1>12 DEF WriteFile

\* An announced write makes a header that a load does not trust.
LEMMA AnnouncingBad ==
    ASSUME TypeOK, Announcing
    PROVE  ~Consistent(BaseBlock) /\ ~Good(BaseBlock)
  BY Types, RaisedType DEF Announcing, Consistent, Good

\* Its flush announces the save: the invariant is kept.
LEMMA HiveFlush1Step ==
    ASSUME IInv, HiveFlush1
    PROVE  IInv'
<1> DEFINE f == [disk EXCEPT !.prim.head = cache.prim.head]
<1>1. pc = "HiveFlush1" /\ cache' = cache /\ attempt' = attempt /\ FlushFile("HiveFlush1", "HiveData", f)
  BY DEF HiveFlush1, FlushHeader, FlushFile
<1>2. /\ TypeOK /\ UpInv /\ HiveInv /\ LogHolds
      /\ attempt = image /\ Dirty # {} /\ disk.log.vector \subseteq Dirty
      /\ pc # "down" /\ attempt \in Images /\ loading \in BOOLEAN
  BY <1>1, HiveFacts DEF HiveSteps
<1>3. /\ Announcing /\ cache.prim.head = BaseBlock /\ cache.prim.data = disk.prim.data
      /\ IF loading THEN Exposed ELSE Announced
  BY <1>1, <1>2 DEF HiveInv
<1>4. f \in Files /\ f.prim.head = cache.prim.head /\ f.prim.data = disk.prim.data /\ f.log = disk.log
  BY <1>2, Types DEF TypeOK, Files, Primary
<1> HIDE DEF f
<1>5. TypeOK'
  BY <1>1, <1>2, <1>4, FlushType
<1>6. ~Consistent(BaseBlock) /\ ~Good(BaseBlock)
  BY <1>2, <1>3, AnnouncingBad
<1>7. CASE Fail(BaseBlock) /\ disk' = disk
  <2>1. IF loading THEN Exposed' ELSE Announced'
    BY <1>1, <1>3, <1>7 DEF Exposed, Announced, LogHolds
  <2> QED  BY <1>1, <1>2, <1>5, <1>6, <1>7, <2>1, FailStep DEF UpInv
<1>8. CASE Proceed("HiveData", BaseBlock) /\ disk' = f
  <2>1. pc' = "HiveData" /\ UNCHANGED <<BaseBlock, loading, image, Dirty>>
    BY <1>8 DEF Proceed
  <2>2. LogHolds'
    BY <1>1, <1>2, <1>4, <1>8, LogStillHolds
  <2>3. Exposed'
    BY <1>1, <1>3, <1>4, <1>6, <1>8, <2>2 DEF Exposed
  <2>4. HiveInv'
    BY <1>1, <1>2, <1>3, <1>4, <1>8, <2>1, <2>2, <2>3 DEF HiveInv, Announcing
  <2> QED  BY <1>1, <1>2, <1>5, <1>8, <2>4, HiveProceeds DEF HiveSteps, UpInv
<1> QED  BY <1>1, <1>7, <1>8 DEF FlushFile

\* The dirty pages written to the primary keep the invariant.
LEMMA HiveDataStep ==
    ASSUME IInv, HiveData
    PROVE  IInv'
<1> DEFINE d == [b \in Blocks |-> IF b \in Dirty THEN image[b] ELSE cache.prim.data[b]]
           k == IF 0 \in Dirty THEN BaseBlock.TimeStamp ELSE cache.prim.Link
           f == [cache EXCEPT !.prim.Link = k, !.prim.data = d]
<1>1. /\ pc = "HiveData" /\ attempt' = attempt /\ disk' = disk
      /\ WriteFile("HiveData", "HiveFlush2", BaseBlock, f)
  BY DEF HiveData, WriteFile
<1>2. /\ TypeOK /\ UpInv /\ HiveInv /\ LogHolds
      /\ attempt = image /\ Dirty # {} /\ disk.log.vector \subseteq Dirty
      /\ pc # "down" /\ attempt \in Images /\ loading \in BOOLEAN
  BY <1>1, HiveFacts DEF HiveSteps
<1>3. Announcing /\ Exposed
  BY <1>1, <1>2 DEF HiveInv
<1>4. d = attempt
  BY <1>2, CleanInPrimary, Types DEF Images
<1>5. k \in 0..MaxTime
  BY <1>2, Types DEF Primary
<1>6. d \in [Blocks -> Values \cup {Torn}]
  BY <1>2, <1>4 DEF Images
<1>7. f \in Files /\ f.prim.head = cache.prim.head /\ f.prim.data = attempt /\ f.log = cache.log
  <2> HIDE DEF d, k
  <2> QED  BY <1>2, <1>4, <1>5, <1>6 DEF TypeOK, Files, Primary
<1> HIDE DEF d, k, f
<1>8. TypeOK'
  BY <1>1, <1>2, <1>7, Types, WriteType
<1>9. /\ cache'.log = cache.log /\ cache'.prim.head = cache.prim.head
      /\ cache'.prim.data \in {cache.prim.data, attempt}
  BY <1>1, <1>7 DEF WriteFile
<1>10. LogHolds'
  BY <1>1, <1>2, <1>9, LogStillHolds
<1>11. Exposed'
  BY <1>1, <1>3, <1>9, <1>10 DEF Exposed
<1>12. CASE Fail(BaseBlock)
  BY <1>1, <1>2, <1>3, <1>8, <1>11, <1>12, AnnouncingBad, FailStep DEF UpInv
<1>13. CASE Proceed("HiveFlush2", BaseBlock) /\ cache' = f
  <2>1. pc' = "HiveFlush2" /\ UNCHANGED <<BaseBlock, loading, image, Dirty>>
    BY <1>13 DEF Proceed
  <2>2. HiveInv'
    BY <1>1, <1>2, <1>3, <1>7, <1>10, <1>11, <1>13, <2>1 DEF HiveInv, Announcing
  <2> QED  BY <1>1, <1>2, <1>8, <1>13, <2>2, HiveProceeds DEF HiveSteps, UpInv
<1> QED  BY <1>1, <1>12, <1>13 DEF WriteFile

\* Their flush keeps the invariant.
LEMMA HiveFlush2Step ==
    ASSUME IInv, HiveFlush2
    PROVE  IInv'
<1> DEFINE f == [disk EXCEPT !.prim = cache.prim]
<1>1. pc = "HiveFlush2" /\ cache' = cache /\ attempt' = attempt /\ FlushFile("HiveFlush2", "HiveHead2", f)
  BY DEF HiveFlush2, FlushHive, FlushFile
<1>2. /\ TypeOK /\ UpInv /\ HiveInv /\ LogHolds
      /\ attempt = image /\ Dirty # {} /\ disk.log.vector \subseteq Dirty
      /\ pc # "down" /\ attempt \in Images /\ loading \in BOOLEAN
  BY <1>1, HiveFacts DEF HiveSteps
<1>3. Announcing /\ Exposed /\ cache.prim.data = attempt
  BY <1>1, <1>2 DEF HiveInv
<1>4. f \in Files /\ f.prim = cache.prim /\ f.log = disk.log
  BY <1>2 DEF TypeOK, Files
<1> HIDE DEF f
<1>5. TypeOK'
  BY <1>1, <1>2, <1>4, FlushType
<1>6. disk'.log = disk.log /\ disk'.prim \in {disk.prim, cache.prim}
  BY <1>1, <1>4 DEF FlushFile
<1>7. LogHolds'
  BY <1>1, <1>2, <1>6, LogStillHolds
<1>8. Exposed'
  BY <1>1, <1>3, <1>6, <1>7 DEF Exposed
<1>9. CASE Fail(BaseBlock)
  BY <1>1, <1>2, <1>3, <1>5, <1>8, <1>9, AnnouncingBad, FailStep DEF UpInv
<1>10. CASE Proceed("HiveHead2", BaseBlock) /\ disk' = f
  <2>1. pc' = "HiveHead2" /\ UNCHANGED <<BaseBlock, loading, image, Dirty>>
    BY <1>10 DEF Proceed
  <2>2. HiveInv'
    BY <1>1, <1>2, <1>3, <1>4, <1>7, <1>8, <1>10, <2>1 DEF HiveInv, Announcing
  <2> QED  BY <1>1, <1>2, <1>5, <1>10, <2>2, HiveProceeds DEF HiveSteps, UpInv
<1> QED  BY <1>1, <1>9, <1>10 DEF FlushFile

\* The header with Sequence2 raised keeps the invariant.
LEMMA HiveHead2Step ==
    ASSUME ~LateFailure, IInv, HiveHead2
    PROVE  IInv'
<1> DEFINE h == [BaseBlock EXCEPT !.Sequence2 = Raised(@)]
           f == [cache EXCEPT !.prim.head = h]
<1>1. /\ pc = "HiveHead2" /\ attempt' = attempt /\ disk' = disk
      /\ WriteFile("HiveHead2", "HiveFlush3", h, f)
      /\ pc' = "HiveFlush3"
  BY DEF HiveHead2, WriteFile
<1>2. /\ TypeOK /\ UpInv /\ HiveInv /\ LogHolds
      /\ attempt = image /\ Dirty # {} /\ disk.log.vector \subseteq Dirty
      /\ pc # "down" /\ attempt \in Images /\ loading \in BOOLEAN
  BY <1>1, HiveFacts DEF HiveSteps
<1>3. Announcing /\ Exposed /\ cache.prim.data = attempt /\ disk.prim.data = attempt
  BY <1>1, <1>2 DEF HiveInv
<1>4. h \in Header
  BY <1>2, Types, RaisedType DEF Header
<1>5. h.CheckSum /\ Consistent(h)
  BY <1>2, <1>3, Types DEF UpInv, Consistent, Announcing, Header
<1>6. f \in Files /\ f.prim.head = h /\ f.prim.data = cache.prim.data /\ f.log = cache.log
  <2> HIDE DEF h
  <2> QED  BY <1>2, <1>4 DEF TypeOK, Files, Primary
<1> HIDE DEF h, f
<1>7. TypeOK'
  BY <1>1, <1>2, <1>4, <1>6, WriteType
<1>8. Proceed("HiveFlush3", h) /\ cache' = f
  BY <1>1 DEF WriteFile, Fail, Proceed, Unloaded
<1>9. BaseBlock' = h /\ UNCHANGED <<loading, image, Dirty>>
  BY <1>8 DEF Proceed
<1>10. LogHolds'
  BY <1>1, <1>2, <1>6, <1>8, LogStillHolds
<1>11. Completing'
  BY <1>1, <1>3, <1>5, <1>6, <1>8, <1>10 DEF Completing, Exposed, Good
<1>12. HiveInv'
  BY <1>1, <1>2, <1>5, <1>6, <1>8, <1>9, <1>10, <1>11 DEF HiveInv
<1> QED  BY <1>1, <1>5, <1>7, <1>8, <1>12, HiveProceeds DEF HiveSteps

\* The completing header is durable: the save is done.
LEMMA HiveFlush3Step ==
    ASSUME ~LateFailure, IInv, HiveFlush3
    PROVE  IInv'
<1> DEFINE f == [disk EXCEPT !.prim.head = cache.prim.head]
<1>1. /\ pc = "HiveFlush3" /\ cache' = cache /\ attempt' = attempt
      /\ FlushFile("HiveFlush3", "ShrinkLog", f)
      /\ pc' = "ShrinkLog"
  BY DEF HiveFlush3, FlushHeader, FlushFile
<1>2. /\ TypeOK /\ UpInv /\ HiveInv /\ LogHolds
      /\ attempt = image /\ Dirty # {} /\ disk.log.vector \subseteq Dirty
      /\ pc # "down" /\ attempt \in Images /\ loading \in BOOLEAN
  BY <1>1, HiveFacts DEF HiveSteps
<1>3. Completing
  BY <1>1, <1>2 DEF HiveInv
<1>4. f \in Files /\ f.prim.head = cache.prim.head /\ f.prim.data = disk.prim.data /\ f.log = disk.log
  BY <1>2, Types DEF TypeOK, Files, Primary
<1> HIDE DEF f
<1>5. TypeOK'
  BY <1>1, <1>2, <1>4, FlushType
<1>6. Proceed("ShrinkLog", BaseBlock) /\ disk' = f
  BY <1>1 DEF FlushFile, Fail, Proceed, Unloaded
<1>7. UNCHANGED <<BaseBlock, loading, image, Dirty>>
  BY <1>6 DEF Proceed
<1>8. Settled' /\ DoneInv' /\ UpInv'
  BY <1>1, <1>2, <1>3, <1>4, <1>6, <1>7 DEF Settled, DoneInv, UpInv, Completing
<1>9. StepInv'
  BY <1>1, <1>8 DEF StepInv, LogSteps, HiveSteps
<1> QED  BY <1>1, <1>2, <1>5, <1>7, <1>9 DEF IInv, PCs

----------------------------------------------------------------------------
(* The theorems.  CmDoSelfHeal is how the system ships.  Without it a torn *)
(* header whose log carries another time stamp makes the load fail.        *)

\* The invariant holds initially.
LEMMA InitInv == Init => IInv
<1> SUFFICES ASSUME Init PROVE IInv
  OBVIOUS
<1> DEFINE head == [Sequence1 |-> 0, Sequence2 |-> 0, TimeStamp |-> 0, CheckSum |-> TRUE]
           prim(v) == [head |-> head, Link |-> 0, data |-> [b \in Blocks |-> v]]
           log == [head |-> [head EXCEPT !.CheckSum = FALSE], Signature |-> FALSE,
                   vector |-> {}, data |-> [b \in Blocks |-> Torn]]
<1>1. PICK v \in Values :
          /\ pc = "idle" /\ loading = FALSE /\ image = prim(v).data /\ Dirty = {}
          /\ BaseBlock = head /\ disk = [prim |-> prim(v), log |-> log]
          /\ cache = disk /\ attempt = image
  BY DEF Init
<1>2. head \in Header /\ [head EXCEPT !.CheckSum = FALSE] \in Header /\ Good(head)
  <2>1. head \in Header
    BY SeqAssumption, MaxTimeAssumption DEF Header
  <2>2. Good(head)
    BY DEF Good, Consistent
  <2> QED  BY <2>1, <2>2 DEF Header
<1>3. prim(v).data \in Images /\ prim(v) \in Primary /\ prim(v).head = head
  BY <1>2, MaxTimeAssumption DEF Images, Primary
<1>4. log \in Log
  BY <1>2 DEF Log
<1> HIDE DEF head, prim, log
<1>5. disk \in Files /\ cache \in Files /\ disk.prim = prim(v) /\ cache.prim = prim(v)
  BY <1>1, <1>3, <1>4 DEF Files
<1>6. TypeOK /\ attempt \in Images
  BY <1>1, <1>2, <1>3, <1>5 DEF TypeOK
<1>7. UpInv /\ RestInv
  BY <1>1, <1>2, <1>3, <1>5 DEF UpInv, RestInv, Settled, CleanAsSaved, Good
<1>8. StepInv
  BY <1>1, <1>7 DEF StepInv, LogSteps, HiveSteps
<1> QED  BY <1>1, <1>6, <1>8 DEF IInv, PCs

\* Every step, also a failure and a crash, keeps the invariant.
LEMMA NextInv ==
    ASSUME CmDoSelfHeal, ~LateFailure, IInv, [Next]_vars
    PROVE  IInv'
<1>1. CASE \E b \in Blocks, v \in Values : HvMarkDirty(b, v)
  BY <1>1, MarkDirtyStep
<1>2. CASE HvSyncHive \/ LogGrowFails \/ Punt("LogHead1")
  BY <1>2, SyncStep
<1>3. CASE LogHead1 \/ LogFlush1 \/ LogVector \/ LogBody \/ LogFlush2 \/ LogHead2 \/ LogFlush3
  BY <1>3, LogHead1Step, LogFlush12Step, LogVectorStep, LogBodyStep, LogHead2Step, LogFlush3Step
<1>4. CASE HiveFlush0 \/ HiveHead1 \/ HiveFlush1 \/ HiveData
  BY <1>4, HiveFlush0Step, HiveHead1Step, HiveFlush1Step, HiveDataStep
<1>5. CASE HiveFlush2 \/ HiveHead2 \/ HiveFlush3 \/ ShrinkLog
  BY <1>5, HiveFlush2Step, HiveHead2Step, HiveFlush3Step, ShrinkStep
<1>6. CASE Punt("HiveHead1")
  BY <1>6, NoPuntInHive
<1>7. CASE ClearLog \/ Crash \/ Load
  BY <1>7, ClearStep, CrashStep, LoadStep
<1>8. CASE UNCHANGED vars
  <2>1. TypeOK' /\ pc' \in PCs /\ loading' \in BOOLEAN /\ attempt' \in Images
    BY <1>8 DEF vars, IInv, TypeOK
  <2>2. /\ LogHolds' = LogHolds /\ Settled' = Settled /\ Announced' = Announced
        /\ Exposed' = Exposed /\ Completing' = Completing
    BY <1>8 DEF vars, LogHolds, Settled, Announced, Exposed, Completing
  <2>3. DownInv' = DownInv /\ UpInv' = UpInv /\ RestInv' = RestInv /\ DoneInv' = DoneInv
    BY <1>8, <2>2 DEF vars, DownInv, UpInv, RestInv, DoneInv, CleanAsSaved
  <2>4. LogInv' = LogInv
    BY <1>8, <2>2 DEF vars, LogInv, CleanAsSaved, Announcing
  <2>5. HiveInv' = HiveInv
    BY <1>8, <2>2 DEF vars, HiveInv, Announcing
  <2>6. StepInv'
    BY <1>8, <2>3, <2>4, <2>5 DEF vars, IInv, StepInv
  <2> QED  BY <2>1, <2>6 DEF IInv
<1> QED  BY <1>1, <1>2, <1>3, <1>4, <1>5, <1>6, <1>7, <1>8 DEF Next, WriteLog, DoWriteHive

\* The inductive invariant of the save and the load holds whatever step a
\* write failed at and wherever the machine stopped.
THEOREM HiveInvariant ==
    ASSUME CmDoSelfHeal, ~LateFailure
    PROVE  Spec => []IInv
<1>1. Init => IInv
  BY InitInv
<1>2. IInv /\ [Next]_vars => IInv'
  BY NextInv
<1> QED  BY <1>1, <1>2, PTL DEF Spec

\* The files and the hive in memory stay well formed, time stamps and the
\* wrapping sequence numbers included.
THEOREM TypeCorrect ==
    ASSUME CmDoSelfHeal, ~LateFailure
    PROVE  Spec => []TypeOK
<1>1. IInv => TypeOK
  BY DEF IInv
<1> QED  BY <1>1, HiveInvariant, PTL

\* HvSyncHive that returned TRUE, or a load that did, left on disk what is in
\* memory: with no page dirty, the next load finds the same image.
THEOREM CleanIsSaved ==
    ASSUME CmDoSelfHeal, ~LateFailure
    PROVE  Spec => []CleanMeansSaved
<1>1. IInv => CleanMeansSaved
  <2> SUFFICES ASSUME IInv, pc = "idle", Dirty = {} PROVE LoadedImage(disk) = image
    BY DEF CleanMeansSaved
  <2>1. TypeOK /\ attempt \in Images /\ UpInv /\ Settled /\ CleanAsSaved
    BY DEF IInv, StepInv, RestInv
  <2>2. LoadedImage(disk) = disk.prim.data
    BY <2>1, LoadedImageOf
  <2>3. disk.prim.data = image
    BY <2>1 DEF Settled, UpInv, CleanAsSaved, Images
  <2> QED  BY <2>2, <2>3
<1> QED  BY <1>1, HiveInvariant, PTL

\* HvpRecoverData may trust the log without a look at its header: whenever the
\* primary is torn the durable log is whole and holds what the primary lost.
THEOREM TornIsLogged ==
    ASSUME CmDoSelfHeal, ~LateFailure
    PROVE  Spec => []TornHasLog
<1>1. IInv => TornHasLog
  <2> SUFFICES ASSUME IInv, HvpGetHiveHeader(disk) # "HiveSuccess"
               PROVE  /\ disk.log.head.CheckSum
                      /\ Consistent(disk.log.head)
                      /\ disk.log.Signature
                      /\ \A b \in disk.log.vector : disk.log.data[b] = attempt[b]
                      /\ \A b \in Blocks \ disk.log.vector : disk.prim.data[b] = attempt[b]
    BY DEF TornHasLog
  <2>1. ~Good(disk.prim.head)
    BY HeaderSuccess DEF IInv, TypeOK
  <2>2. Exposed \/ Completing
    BY <2>1, FilesKnown DEF Settled, Announced
  <2> QED  BY <2>2 DEF Exposed, Completing, LogHolds, Good
<1> QED  BY <1>1, HiveInvariant, PTL

\* A recovery never writes a page the crash cut in two: what HvpRecoverData
\* leaves in memory is a whole image.
THEOREM RecoveredIsWhole ==
    ASSUME CmDoSelfHeal, ~LateFailure
    PROVE  Spec => []GoodLogInHand
<1>1. IInv => GoodLogInHand
  BY DEF IInv, StepInv, DownInv, UpInv, GoodLogInHand
<1> QED  BY <1>1, HiveInvariant, PTL

----------------------------------------------------------------------------
(* The save is atomic.                                                     *)

\* What a load would find after a step.
LEMMA LoadedNext ==
    ASSUME CmDoSelfHeal, IInv'
    PROVE  /\ Settled' => LoadedImage(disk') = disk'.prim.data
           /\ Exposed' => LoadedImage(disk') = attempt'
<1>1. disk' \in Files /\ cache' \in Files /\ attempt' \in Images
  BY DEF IInv, TypeOK
<1>2. Settled' => LoadedImage(disk') = disk'.prim.data
  BY <1>1, LoadedFrom DEF Settled
<1>3. Exposed' => LoadedImage(disk') = attempt'
  BY <1>1, LoadedFrom, LoadedAttempt DEF Exposed, LogHolds
<1> QED  BY <1>2, <1>3

\* A flush changes what a load finds only when it makes the announcing header
\* durable.
LEMMA FlushSaves ==
    ASSUME CmDoSelfHeal, IInv, IInv', NEW at, NEW next, NEW files, FlushFile(at, next, files),
           disk' # disk => \/ Settled /\ Settled' /\ disk'.prim.data = disk.prim.data
                           \/ (Exposed \/ Completing) /\ Exposed'
                           \/ Completing /\ Settled' /\ disk'.prim.data = attempt
    PROVE  LoadedImage(disk') = LoadedImage(disk) /\ attempt' = attempt
<1>1. TypeOK /\ attempt \in Images /\ attempt' = attempt
  BY DEF IInv, FlushFile
<1> QED  BY <1>1, LoadedNext, LoadedImageOf

\* A step of a save, failed or not, leaves the image in memory or unloads it.
LEMMA FailViews ==
    ASSUME NEW next, NEW head, Proceed(next, head) \/ Fail(head)
    PROVE  image' = image \/ image' = Down
  BY DEF Proceed, Fail, Unloaded

\* The image of a hive stays in memory through a save, or goes with the hive.
LEMMA QuietStep ==
    ASSUME image' = image \/ image' = Down, attempt' = attempt,
           LoadedImage(disk') = LoadedImage(disk)
    PROVE  [Abstract!Next]_(Abstract!vars)
<1>1. CASE image' = image
  BY <1>1 DEF Abstract!vars
<1>2. CASE image' = Down
  <2>1. Abstract!Crash
    BY <1>2 DEF Abstract!Crash
  <2> QED  BY <2>1 DEF Abstract!Next
<1> QED  BY <1>1, <1>2

\* A write is not seen by the abstract hive.
LEMMA WriteQuiet ==
    ASSUME NEW at, NEW next, NEW head, NEW files, WriteFile(at, next, head, files),
           attempt' = attempt
    PROVE  [Abstract!Next]_(Abstract!vars)
<1>1. disk' = disk /\ (Proceed(next, head) \/ Fail(head))
  BY DEF WriteFile
<1>2. image' = image \/ image' = Down
  BY <1>1, FailViews
<1> QED  BY <1>1, <1>2, QuietStep

\* A flush settles the save under way, or is not seen.
LEMMA FlushQuiet ==
    ASSUME CmDoSelfHeal, IInv, IInv', NEW at, NEW next, NEW files, FlushFile(at, next, files),
           disk' # disk => \/ Settled /\ Settled' /\ disk'.prim.data = disk.prim.data
                           \/ (Exposed \/ Completing) /\ Exposed'
                           \/ Completing /\ Settled' /\ disk'.prim.data = attempt
    PROVE  [Abstract!Next]_(Abstract!vars)
<1>1. LoadedImage(disk') = LoadedImage(disk) /\ attempt' = attempt
  BY FlushSaves
<1>2. image' = image \/ image' = Down
  BY FailViews DEF FlushFile
<1> QED  BY <1>1, <1>2, QuietStep

\* HvpWriteLog takes no step the abstract hive does not allow.
LEMMA WriteLogAtomic ==
    ASSUME CmDoSelfHeal, IInv, IInv', WriteLog
    PROVE  [Abstract!Next]_(Abstract!vars)
<1>1. CASE LogGrowFails \/ Punt("LogHead1")
  <2>1. Fail(BaseBlock) /\ disk' = disk /\ attempt' = attempt
    BY <1>1 DEF LogGrowFails, Punt
  <2>2. image' = image \/ image' = Down
    BY <2>1 DEF Fail, Proceed, Unloaded
  <2> QED  BY <2>1, <2>2, QuietStep
<1>2. CASE LogHead1
  <2>1. pc = "LogHead1" /\ disk' = disk /\ attempt' = image
    BY <1>2 DEF LogHead1, WriteFile
  <2>2. image \in Images /\ ~loading
    BY <2>1 DEF IInv, StepInv, UpInv, RestInv
  <2>3. image' = image
    BY <1>2, <2>2 DEF LogHead1, WriteFile, Fail, Proceed
  <2>4. Abstract!Attempt
    BY <2>1, <2>2, <2>3 DEF Abstract!Attempt
  <2> QED  BY <2>4 DEF Abstract!Next
<1>3. CASE LogVector \/ LogBody \/ LogHead2
  BY <1>3, WriteQuiet DEF LogVector, LogBody, LogHead2
<1>4. ASSUME NEW at \in {"LogFlush1", "LogFlush2", "LogFlush3"}, NEW next, FlushLog(at, next)
      PROVE  [Abstract!Next]_(Abstract!vars)
  <2>1. Settled' /\ disk'.prim = disk.prim /\ pc = at
    BY <1>4, LogFlushFrame DEF LogSteps
  <2>2. Settled
    BY <1>4, <2>1, LogFacts DEF LogSteps
  <2> QED  BY <1>4, <2>1, <2>2, FlushQuiet DEF FlushLog
<1> QED  BY <1>1, <1>2, <1>3, <1>4 DEF WriteLog, LogFlush1, LogFlush2, LogFlush3

\* Nor does HvpDoWriteHive,
LEMMA DoWriteHiveAtomic ==
    ASSUME CmDoSelfHeal, ~LateFailure, IInv, IInv', DoWriteHive
    PROVE  [Abstract!Next]_(Abstract!vars)
<1>t. TypeOK /\ attempt \in Images /\ TypeOK'
  BY DEF IInv
<1>1. CASE HiveFlush0
  <2>1. /\ pc = "HiveFlush0" /\ FlushFile("HiveFlush0", "HiveHead1", [disk EXCEPT !.prim = cache.prim])
        /\ IF loading THEN Exposed ELSE Settled
    BY <1>1 DEF HiveFlush0, FlushHive, FlushFile, IInv, StepInv, HiveSteps, HiveInv
  <2>2. ASSUME disk' # disk
        PROVE  /\ pc' = "HiveHead1" /\ loading' = loading
               /\ disk'.prim = cache.prim
    BY <1>t, <2>1, <2>2 DEF FlushFile, Proceed, TypeOK, Files
  <2>3. ASSUME disk' # disk
        PROVE  IF loading THEN Exposed' ELSE Settled'
    BY <2>2, <2>3 DEF IInv, StepInv, HiveSteps, HiveInv
  <2> QED  BY <2>1, <2>2, <2>3, FlushQuiet DEF Settled
<1>2. CASE HiveHead1 \/ HiveData \/ HiveHead2
  BY <1>2, WriteQuiet DEF HiveHead1, HiveData, HiveHead2
<1>3. CASE HiveFlush1
  <2>1. pc = "HiveFlush1" /\ FlushFile("HiveFlush1", "HiveData", [disk EXCEPT !.prim.head = cache.prim.head])
    BY <1>3 DEF HiveFlush1, FlushHeader, FlushFile
  <2>2. CASE disk' = disk
    BY <2>1, <2>2, FlushQuiet
  <2>3. CASE disk' # disk
    <3>1. pc' = "HiveData" /\ image' = image /\ attempt' = attempt
      BY <2>1, <2>3 DEF FlushFile, Proceed
    <3>2. Exposed'
      BY <3>1 DEF IInv, StepInv, HiveSteps, HiveInv
    <3>3. LoadedImage(disk') = attempt
      BY <3>1, <3>2, LoadedNext
    <3>4. Abstract!Commit
      BY <3>1, <3>3 DEF Abstract!Commit
    <3> QED  BY <3>4 DEF Abstract!Next
  <2> QED  BY <2>2, <2>3
<1>4. CASE HiveFlush2
  <2>1. /\ pc = "HiveFlush2" /\ FlushFile("HiveFlush2", "HiveHead2", [disk EXCEPT !.prim = cache.prim])
        /\ Exposed
    BY <1>4 DEF HiveFlush2, FlushHive, FlushFile, IInv, StepInv, HiveSteps, HiveInv
  <2>2. ASSUME disk' # disk
        PROVE  Exposed'
    <3>1. pc' = "HiveHead2"
      BY <2>1, <2>2 DEF FlushFile, Proceed
    <3> QED  BY <3>1 DEF IInv, StepInv, HiveSteps, HiveInv
  <2> QED  BY <2>1, <2>2, FlushQuiet
<1>5. CASE HiveFlush3
  <2>1. /\ pc = "HiveFlush3" /\ pc' = "ShrinkLog"
        /\ FlushFile("HiveFlush3", "ShrinkLog", [disk EXCEPT !.prim.head = cache.prim.head])
        /\ Completing
    BY <1>5 DEF HiveFlush3, FlushHeader, FlushFile, IInv, StepInv, HiveSteps, HiveInv
  <2>2. Settled'
    BY <2>1 DEF IInv, StepInv, DoneInv
  <2>3. disk'.prim.data = disk.prim.data
    BY <1>t, <2>1, Types DEF FlushFile, TypeOK, Files, Primary
  <2> QED  BY <2>1, <2>2, <2>3, FlushQuiet DEF Completing
<1>6. CASE ShrinkLog
  BY <1>6, QuietStep DEF ShrinkLog, Proceed
<1> QED  BY <1>1, <1>2, <1>3, <1>4, <1>5, <1>6, NoPuntInHive DEF DoWriteHive

\* nor any other step.
LEMMA StepAtomic ==
    ASSUME CmDoSelfHeal, ~LateFailure, IInv, IInv', [Next]_vars
    PROVE  [Abstract!Next]_(Abstract!vars)
<1>1. ASSUME NEW b \in Blocks, NEW v \in Values, HvMarkDirty(b, v)
      PROVE  [Abstract!Next]_(Abstract!vars)
  <2>1. image \in Images /\ image' \in Images /\ disk' = disk /\ attempt' = attempt
    BY <1>1 DEF HvMarkDirty, IInv, StepInv, UpInv, Images
  <2>2. Abstract!Write
    BY <2>1 DEF Abstract!Write
  <2> QED  BY <2>2 DEF Abstract!Next
<1>2. CASE HvSyncHive
  BY <1>2, QuietStep DEF HvSyncHive, Proceed
<1>3. CASE WriteLog
  BY <1>3, WriteLogAtomic
<1>4. CASE DoWriteHive
  BY <1>4, DoWriteHiveAtomic
<1>5. CASE ClearLog
  BY <1>5, QuietStep DEF ClearLog
<1>6. CASE Crash
  <2>1. LoadedImage(disk)' \in {LoadedImage(disk), attempt} /\ image' = Down /\ attempt' = attempt
    BY <1>6, CrashStep DEF Crash, Unloaded
  <2>2. Abstract!Crash
    BY <2>1 DEF Abstract!Crash
  <2> QED  BY <2>2 DEF Abstract!Next
<1>7. CASE Load
  <2>1. image = Down /\ image' = LoadedImage(disk) /\ attempt' = LoadedImage(disk) /\ disk' = disk
    BY <1>7, LoadStep
  <2>2. Abstract!Load
    BY <2>1 DEF Abstract!Load
  <2> QED  BY <2>2 DEF Abstract!Next
<1>8. CASE UNCHANGED vars
  BY <1>8 DEF vars, Abstract!vars
<1> QED  BY <1>1, <1>2, <1>3, <1>4, <1>5, <1>6, <1>7, <1>8 DEF Next

\* The save is atomic: under every interleaving of writes, failed writes and
\* flushes, crashes and recoveries, the files behave as one image that changes
\* in one step, the flush of the announcing header.
THEOREM SaveIsAtomic ==
    ASSUME CmDoSelfHeal, ~LateFailure
    PROVE  Spec => ImplementsAtomicHive
<1>1. Init => Abstract!Init
  <2> SUFFICES ASSUME Init PROVE Abstract!Init
    OBVIOUS
  <2>1. IInv /\ pc = "idle" /\ Dirty = {} /\ attempt = image
    BY InitInv DEF Init
  <2>2. TypeOK /\ attempt \in Images /\ UpInv /\ Settled /\ CleanAsSaved
    BY <2>1 DEF IInv, StepInv, RestInv
  <2>3. LoadedImage(disk) = image
    BY <2>1, <2>2, LoadedImageOf DEF Settled, UpInv, CleanAsSaved, Images
  <2> QED  BY <2>1, <2>2, <2>3 DEF Abstract!Init
<1>2. IInv /\ IInv' /\ [Next]_vars => [Abstract!Next]_(Abstract!vars)
  BY StepAtomic
<1> QED  BY <1>1, <1>2, HiveInvariant, PTL DEF Spec, ImplementsAtomicHive, Abstract!Spec
=============================================================================
