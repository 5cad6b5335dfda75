--------------------------- MODULE ExHandleTable ---------------------------
(***************************************************************************)
(* The tree of a handle table (ex/handle.c): one level of entries, growing   *)
(* to two and to three levels under the table lock while lookups walk it     *)
(* without any lock; the table of additional information that the first      *)
(* entry of a page may have; creation and destruction of the table. Pool     *)
(* and quota may be refused at every allocation. Handles are counted in      *)
(* entries, HANDLE_VALUE_INC apart in the code.                             *)
(***************************************************************************)
EXTENDS ExHandle

CONSTANTS
    Region,             \* the addresses the pool has for each kind of block
    LOWLEVEL_COUNT, MIDLEVEL_COUNT, HIGHLEVEL_COUNT

Kinds == {"low", "mid", "high", "info"}

ASSUME HandleTableAssumptions ==
    /\ IsFiniteSet(Threads)
    /\ \A k \in Kinds : IsFiniteSet(Region[k]) /\ NULL \notin Region[k]
    /\ LOWLEVEL_COUNT \in Nat \ {0}
    /\ MIDLEVEL_COUNT \in Nat /\ MIDLEVEL_COUNT > 1
    /\ HIGHLEVEL_COUNT \in Nat /\ HIGHLEVEL_COUNT > 1

VARIABLES
    Pool,                   \* what each block holds
    TableCode,              \* the root and its level
    NextHandleNeedingPool,  \* the number of entries
    ExtraInfoPages,
    Handle,                 \* the handle a thread looks up
    TableLevel,             \* the table it has come to
    NewHighLevel, NewMidLevel, NewLowLevel,     \* what a growth has allocated
    InfoTable               \* the information table in the hands of a thread

growth == <<NewHighLevel, NewMidLevel, NewLowLevel>>
walk == <<Handle, TableLevel, growth, InfoTable>>
shared == <<Pool, TableCode, NextHandleNeedingPool, ExtraInfoPages>>
tableVars == <<shared, pc, walk>>

Blocks == UNION {Region[k] : k \in Kinds}

\* The handles of the largest table, and one more.
Handles == 0 .. LOWLEVEL_COUNT * MIDLEVEL_COUNT * HIGHLEVEL_COUNT

(***************************************************************************)
(* The contents of a block. A page is known by the first of its handles.     *)
(***************************************************************************)
Unallocated == [kind |-> "none"]
LowLevel(h) == [kind |-> "low", base |-> h, info |-> NULL]
Slots(kind) == 0 .. (IF kind = "mid" THEN MIDLEVEL_COUNT ELSE HIGHLEVEL_COUNT) - 1
Zeroed(kind) == [kind |-> kind, slot |-> [i \in Slots(kind) |-> NULL]]
Info == [kind |-> "info"]

NoTable == [Level |-> 0, Ptr |-> NULL]

\* The page of a handle, and its place in the levels above.
PageOf(h) == h \div LOWLEVEL_COUNT
MidIndex(h) == PageOf(h) % MIDLEVEL_COUNT
HighIndex(h) == PageOf(h) \div MIDLEVEL_COUNT

TableInit ==
    /\ Pool = [b \in Blocks |-> Unallocated]
    /\ TableCode = NoTable
    /\ NextHandleNeedingPool = 0
    /\ ExtraInfoPages = 0
    /\ pc = [t \in Threads |-> "idle"]
    /\ Handle = [t \in Threads |-> 0]
    /\ TableLevel = [t \in Threads |-> NULL]
    /\ NewHighLevel = [t \in Threads |-> NULL]
    /\ NewMidLevel = [t \in Threads |-> NULL]
    /\ NewLowLevel = [t \in Threads |-> NULL]
    /\ InfoTable = [t \in Threads |-> NULL]

TableReturn(t) ==
    /\ Goto(t, "idle")
    /\ Handle' = [Handle EXCEPT ![t] = 0]
    /\ TableLevel' = [TableLevel EXCEPT ![t] = NULL]
    /\ NewHighLevel' = [NewHighLevel EXCEPT ![t] = NULL]
    /\ NewMidLevel' = [NewMidLevel EXCEPT ![t] = NULL]
    /\ NewLowLevel' = [NewLowLevel EXCEPT ![t] = NULL]
    /\ InfoTable' = [InfoTable EXCEPT ![t] = NULL]

(***************************************************************************)
(* ExpAllocateTablePagedPool and ExpFreeTablePagedPool. That an allocation   *)
(* can fail, for pool or for quota, is a choice of the actions below.        *)
(***************************************************************************)
Available(kind) == {b \in Region[kind] : Pool[b] = Unallocated}

\* The block the pool hands out: nothing is known of its choice among the free ones.
NewBlock(kind) == CHOOSE b \in Available(kind) : TRUE

\* The pool without the blocks of S.
Without(S) == [b \in Blocks |-> IF b \in S THEN Unallocated ELSE Pool[b]]

(***************************************************************************)
(* ExpAllocateHandleTable: the first page.                                  *)
(***************************************************************************)
CreateTable(t) ==
    /\ pc[t] = "idle"
    /\ TableCode = NoTable
    /\ Available("low") # {}
    /\ Pool' = [Pool EXCEPT ![NewBlock("low")] = LowLevel(0)]
    /\ TableCode' = [Level |-> 0, Ptr |-> NewBlock("low")]
    /\ NextHandleNeedingPool' = LOWLEVEL_COUNT
    /\ ExtraInfoPages' = 0
    /\ UNCHANGED <<pc, walk>>

(***************************************************************************)
(* ExpFreeHandleTable. Nobody uses the table any more.                      *)
(***************************************************************************)
\* The pointers of a table, up to the first that is NULL.
Leading(b) == {Pool[b].slot[i] : i \in {j \in DOMAIN Pool[b].slot : \A k \in 0 .. j : Pool[b].slot[k] # NULL}}

\* Mutant: the information tables are forgotten.
FreedPage_Bare(b) == {b}

\* ExpFreeLowLevelTable.
FreedPage(b) == {b} \cup ({Pool[b].info} \ {NULL})
FreedMid(b) == {b} \cup UNION {FreedPage(p) : p \in Leading(b)}
FreedHigh(b) == {b} \cup UNION {FreedMid(m) : m \in Leading(b)}

FreeTable(t) ==
    /\ TableCode # NoTable
    /\ \A u \in Threads : pc[u] = "idle"
    /\ pc[t] = "idle"
    /\ Pool' = Without(CASE TableCode.Level = 0 -> FreedPage(TableCode.Ptr)
                         [] TableCode.Level = 1 -> FreedMid(TableCode.Ptr)
                         [] TableCode.Level = 2 -> FreedHigh(TableCode.Ptr))
    /\ TableCode' = NoTable
    /\ NextHandleNeedingPool' = 0
    /\ ExtraInfoPages' = 0
    /\ UNCHANGED <<pc, walk>>

(***************************************************************************)
(* ExpLookupHandleTableEntry.                                              *)
(***************************************************************************)
Lookup(t, h) ==
    /\ pc[t] = "idle"
    /\ TableCode # NoTable
    /\ Handle' = [Handle EXCEPT ![t] = h]
    /\ Goto(t, "Bound")
    /\ UNCHANGED <<shared, TableLevel, growth, InfoTable>>

\* Mutant: the first handle beyond the table passes.
Bound_Inclusive(t) ==
    /\ pc[t] = "Bound"
    /\ \/ /\ Handle[t] > NextHandleNeedingPool
          /\ TableReturn(t)
       \/ /\ Handle[t] <= NextHandleNeedingPool
          /\ Goto(t, "Capture")
          /\ UNCHANGED walk
    /\ UNCHANGED shared

\* The bound is read before the table, which may grow in between.
Bound(t) ==
    /\ pc[t] = "Bound"
    /\ \/ /\ Handle[t] >= NextHandleNeedingPool
          /\ TableReturn(t)
       \/ /\ Handle[t] < NextHandleNeedingPool
          /\ Goto(t, "Capture")
          /\ UNCHANGED walk
    /\ UNCHANGED shared

Capture(t) ==
    /\ pc[t] = "Capture"
    /\ TableLevel' = [TableLevel EXCEPT ![t] = TableCode.Ptr]
    /\ Goto(t, CASE TableCode.Level = 0 -> "Found"
                 [] TableCode.Level = 1 -> "WalkTwo"
                 [] TableCode.Level = 2 -> "WalkThree")
    /\ UNCHANGED <<shared, Handle, growth, InfoTable>>

\* Two levels: the page number is the index.
WalkTwo(t) ==
    /\ pc[t] = "WalkTwo"
    /\ TableLevel' = [TableLevel EXCEPT ![t] = Pool[TableLevel[t]].slot[PageOf(Handle[t])]]
    /\ Goto(t, "Found")
    /\ UNCHANGED <<shared, Handle, growth, InfoTable>>

\* Three levels.
WalkThree(t) ==
    /\ pc[t] = "WalkThree"
    /\ TableLevel' = [TableLevel EXCEPT ![t] = Pool[TableLevel[t]].slot[HighIndex(Handle[t])]]
    /\ Goto(t, "WalkMid")
    /\ UNCHANGED <<shared, Handle, growth, InfoTable>>

WalkMid(t) ==
    /\ pc[t] = "WalkMid"
    /\ TableLevel' = [TableLevel EXCEPT ![t] = Pool[TableLevel[t]].slot[MidIndex(Handle[t])]]
    /\ Goto(t, "Found")
    /\ UNCHANGED <<shared, Handle, growth, InfoTable>>

LookupReturns(t) ==
    /\ pc[t] = "Found"
    /\ TableReturn(t)
    /\ UNCHANGED shared

(***************************************************************************)
(* ExSetHandleInfo, which looks up the first entry of the page.             *)
(***************************************************************************)
InfoRead(t) ==
    /\ pc[t] = "Found"
    /\ Handle[t] % LOWLEVEL_COUNT = 0
    /\ InfoTable' = [InfoTable EXCEPT ![t] = Pool[TableLevel[t]].info]
    /\ Goto(t, IF Pool[TableLevel[t]].info = NULL THEN "InfoAllocate" ELSE "InfoWrite")
    /\ UNCHANGED <<shared, Handle, TableLevel, growth>>

InfoAllocate(t) ==
    /\ pc[t] = "InfoAllocate"
    /\ \/ /\ Available("info") # {}
          /\ Pool' = [Pool EXCEPT ![NewBlock("info")] = Info]
          /\ InfoTable' = [InfoTable EXCEPT ![t] = NewBlock("info")]
          /\ Goto(t, "InfoCas")
          /\ UNCHANGED <<Handle, TableLevel, growth>>
       \/ /\ TableReturn(t)          \* STATUS_UNSUCCESSFUL
          /\ UNCHANGED Pool
    /\ UNCHANGED <<TableCode, NextHandleNeedingPool, ExtraInfoPages>>

\* Who comes second frees its table and takes the other.
InfoCas(t) ==
    /\ pc[t] = "InfoCas"
    /\ \/ /\ Pool[TableLevel[t]].info = NULL
          /\ Pool' = [Pool EXCEPT ![TableLevel[t]].info = InfoTable[t]]
          /\ Goto(t, "InfoCount")
          /\ UNCHANGED InfoTable
       \/ /\ Pool[TableLevel[t]].info # NULL
          /\ Pool' = Without({InfoTable[t]})
          /\ InfoTable' = [InfoTable EXCEPT ![t] = Pool[TableLevel[t]].info]
          /\ Goto(t, "InfoWrite")
    /\ UNCHANGED <<TableCode, NextHandleNeedingPool, ExtraInfoPages, Handle, TableLevel, growth>>

InfoCount(t) ==
    /\ pc[t] = "InfoCount"
    /\ ExtraInfoPages' = ExtraInfoPages + 1
    /\ Goto(t, "InfoWrite")
    /\ UNCHANGED <<Pool, TableCode, NextHandleNeedingPool, walk>>

\* The information of the handle is copied into the table.
InfoWrite(t) ==
    /\ pc[t] = "InfoWrite"
    /\ TableReturn(t)
    /\ UNCHANGED shared

(***************************************************************************)
(* ExpAllocateHandleTableEntrySlow, under the table lock.                   *)
(***************************************************************************)
Growing(t) == pc[t] \in {"AllocateHigh", "AllocateMid", "AllocateLow", "Publish", "AddPage"}

\* The levels decide what has to be allocated; a full top level is the end.
BeginGrowth(t) ==
    LET next == NextHandleNeedingPool
        i == HighIndex(next)
        wanted == CASE TableCode.Level = 0 -> "AllocateMid"
                    [] TableCode.Level = 1 -> IF PageOf(next) < MIDLEVEL_COUNT THEN "AllocateLow" ELSE "AllocateHigh"
                    [] TableCode.Level = 2 -> IF Pool[TableCode.Ptr].slot[i] = NULL THEN "AllocateMid" ELSE "AllocateLow"
    IN  /\ pc[t] = "idle"
        /\ TableCode # NoTable
        /\ \A u \in Threads : ~Growing(u)
        /\ TableCode.Level = 2 => i < HIGHLEVEL_COUNT
        /\ Goto(t, wanted)
        /\ UNCHANGED <<shared, walk>>

AllocateHigh(t) ==
    /\ pc[t] = "AllocateHigh"
    /\ \/ /\ Available("high") # {}
          /\ Pool' = [Pool EXCEPT ![NewBlock("high")] = Zeroed("high")]
          /\ NewHighLevel' = [NewHighLevel EXCEPT ![t] = NewBlock("high")]
          /\ Goto(t, "AllocateMid")
          /\ UNCHANGED <<Handle, TableLevel, NewMidLevel, NewLowLevel, InfoTable>>
       \/ /\ TableReturn(t)
          /\ UNCHANGED Pool
    /\ UNCHANGED <<TableCode, NextHandleNeedingPool, ExtraInfoPages>>

\* ExpAllocateMidLevelTable. A failure gives the high level table back.
AllocateMid(t) ==
    /\ pc[t] = "AllocateMid"
    /\ \/ /\ Available("mid") # {}
          /\ Pool' = [Pool EXCEPT ![NewBlock("mid")] = Zeroed("mid")]
          /\ NewMidLevel' = [NewMidLevel EXCEPT ![t] = NewBlock("mid")]
          /\ Goto(t, "AllocateLow")
          /\ UNCHANGED <<Handle, TableLevel, NewHighLevel, NewLowLevel, InfoTable>>
       \/ /\ Pool' = Without({NewHighLevel[t]})
          /\ TableReturn(t)
    /\ UNCHANGED <<TableCode, NextHandleNeedingPool, ExtraInfoPages>>

\* ExpAllocateLowLevelTable. A failure gives both back.
AllocateLow(t) ==
    /\ pc[t] = "AllocateLow"
    /\ \/ /\ Available("low") # {}
          /\ Pool' = [Pool EXCEPT ![NewBlock("low")] = LowLevel(NextHandleNeedingPool)]
          /\ NewLowLevel' = [NewLowLevel EXCEPT ![t] = NewBlock("low")]
          /\ Goto(t, "Publish")
          /\ UNCHANGED <<Handle, TableLevel, NewHighLevel, NewMidLevel, InfoTable>>
       \/ /\ Pool' = Without({NewHighLevel[t], NewMidLevel[t]})
          /\ TableReturn(t)
    /\ UNCHANGED <<TableCode, NextHandleNeedingPool, ExtraInfoPages>>

\* Mutant: the old page is not moved to the first place.
FirstMid_Swapped(t) == [i \in Slots("mid") |-> CASE i = 0 -> NewLowLevel[t]
                                                 [] i = 1 -> TableCode.Ptr
                                                 [] OTHER -> NULL]

\* The first mid level table: the page there was, and the new one.
FirstMid(t) == [i \in Slots("mid") |-> CASE i = 0 -> TableCode.Ptr
                                         [] i = 1 -> NewLowLevel[t]
                                         [] OTHER -> NULL]

\* A later one has the new page only.
LaterMid(t) == [Zeroed("mid").slot EXCEPT ![0] = NewLowLevel[t]]

\* One store makes the new page part of the tree: the root, or a pointer in it.
Publish(t) ==
    LET root == TableCode.Ptr
        next == NextHandleNeedingPool
    IN  /\ pc[t] = "Publish"
        /\ \/ /\ TableCode.Level = 0
              /\ Pool' = [Pool EXCEPT ![NewMidLevel[t]].slot = FirstMid(t)]
              /\ TableCode' = [Level |-> 1, Ptr |-> NewMidLevel[t]]
           \/ /\ TableCode.Level = 1 /\ NewHighLevel[t] = NULL
              /\ Pool' = [Pool EXCEPT ![root].slot[PageOf(next)] = NewLowLevel[t]]
              /\ UNCHANGED TableCode
           \/ /\ TableCode.Level = 1 /\ NewHighLevel[t] # NULL
              /\ Pool' = [Pool EXCEPT ![NewMidLevel[t]].slot = LaterMid(t),
                                      ![NewHighLevel[t]].slot[0] = root,
                                      ![NewHighLevel[t]].slot[1] = NewMidLevel[t]]
              /\ TableCode' = [Level |-> 2, Ptr |-> NewHighLevel[t]]
           \/ /\ TableCode.Level = 2 /\ NewMidLevel[t] # NULL
              /\ Pool' = [Pool EXCEPT ![NewMidLevel[t]].slot = LaterMid(t),
                                      ![root].slot[HighIndex(next)] = NewMidLevel[t]]
              /\ UNCHANGED TableCode
           \/ /\ TableCode.Level = 2 /\ NewMidLevel[t] = NULL
              /\ Pool' = [Pool EXCEPT ![Pool[root].slot[HighIndex(next)]].slot[MidIndex(next)] = NewLowLevel[t]]
              /\ UNCHANGED TableCode
        /\ Goto(t, "AddPage")
        /\ UNCHANGED <<NextHandleNeedingPool, ExtraInfoPages, walk>>

\* Only then do the new handles become valid.
AddPage(t) ==
    /\ pc[t] = "AddPage"
    /\ NextHandleNeedingPool' = NextHandleNeedingPool + LOWLEVEL_COUNT
    /\ TableReturn(t)
    /\ UNCHANGED <<Pool, TableCode, ExtraInfoPages>>

(***************************************************************************)
(* The specification.                                                      *)
(***************************************************************************)
TableNext ==
    \E t \in Threads :
        \/ CreateTable(t) \/ FreeTable(t)
        \/ \E h \in Handles : Lookup(t, h)
        \/ Bound(t) \/ Capture(t) \/ WalkTwo(t) \/ WalkThree(t) \/ WalkMid(t) \/ LookupReturns(t)
        \/ InfoRead(t) \/ InfoAllocate(t) \/ InfoCas(t) \/ InfoCount(t) \/ InfoWrite(t)
        \/ BeginGrowth(t) \/ AllocateHigh(t) \/ AllocateMid(t) \/ AllocateLow(t) \/ Publish(t) \/ AddPage(t)

TableSpec == TableInit /\ [][TableNext]_tableVars

(***************************************************************************)
(* Properties.                                                             *)
(***************************************************************************)
\* Every variable has its type.
TableTypeOK ==
    LET pointer == Blocks \cup {NULL}
    IN  /\ \A b \in Blocks :
              \/ Pool[b] \in {Unallocated, Info}
              \/ Pool[b] \in [kind : {"low"}, base : Handles, info : pointer]
              \/ \E k \in {"mid", "high"} : Pool[b] \in [kind : {k}, slot : [Slots(k) -> pointer]]
        /\ TableCode \in [Level : 0 .. 2, Ptr : pointer]
        /\ NextHandleNeedingPool \in Handles
        /\ ExtraInfoPages \in Nat
        /\ \A v \in {TableLevel, NewHighLevel, NewMidLevel, NewLowLevel, InfoTable} : v \in [Threads -> pointer]
        /\ Handle \in [Threads -> Handles]

\* The pointer p leads to a table of kind k.
IsA(p, k) == p # NULL /\ Pool[p].kind = k

\* A lookup that runs without a lock while the tree gains levels under it goes
\* through tables of the kind it takes them for, at indexes they have, and ends
\* at the page that holds its handle.
LookupSound ==
    \A t \in Threads :
        /\ pc[t] = "WalkTwo" => IsA(TableLevel[t], "mid") /\ PageOf(Handle[t]) \in Slots("mid")
        /\ pc[t] = "WalkThree" => IsA(TableLevel[t], "high") /\ HighIndex(Handle[t]) \in Slots("high")
        /\ pc[t] = "WalkMid" => IsA(TableLevel[t], "mid")
        /\ pc[t] = "Found" => IsA(TableLevel[t], "low") /\ Pool[TableLevel[t]].base = PageOf(Handle[t]) * LOWLEVEL_COUNT
        /\ pc[t] = "InfoWrite" => IsA(InfoTable[t], "info") /\ Pool[TableLevel[t]].info = InfoTable[t]

\* What a table points to.
Children(b) ==
    CASE Pool[b].kind = "low" -> {Pool[b].info} \ {NULL}
      [] Pool[b].kind \in {"mid", "high"} -> {Pool[b].slot[i] : i \in DOMAIN Pool[b].slot} \ {NULL}
      [] OTHER -> {}

Below(S) == UNION {Children(b) : b \in S}

\* The blocks of the tree: its root, and at most three levels below it.
Tree ==
    LET zero == {TableCode.Ptr} \ {NULL}
        one == Below(zero)
        two == Below(one)
    IN  zero \cup one \cup two \cup Below(two)

\* The blocks a thread has allocated and neither linked nor freed yet.
InHand(t) ==
    CASE pc[t] \in {"AllocateMid", "AllocateLow", "Publish"} -> {NewHighLevel[t], NewMidLevel[t], NewLowLevel[t]} \ {NULL}
      [] pc[t] = "InfoCas" -> {InfoTable[t]}
      [] OTHER -> {}

\* ExtraInfoPages is the number of pages that have information, once the threads
\* that have linked a table have counted it.
InfoCounted ==
    ExtraInfoPages + Cardinality({t \in Threads : pc[t] = "InfoCount"})
        = Cardinality({b \in Blocks : Pool[b].kind = "low" /\ Pool[b].info # NULL})

\* No block leaks and none is freed while it can be reached: the pool has handed
\* out just the tree, every part of which hangs in one place, and what the calls
\* in progress hold. This covers every order of failed allocations, the threads
\* that lose the race for an information table, and the destruction. And
\* ExtraInfoPages, without which ExGetHandleInfo does not look for information,
\* counts the pages that have some.
PoolAccounted ==
    /\ {b \in Blocks : Pool[b] # Unallocated} = Tree \cup UNION {InHand(t) : t \in Threads}
    /\ \A t \in Threads : InHand(t) \cap Tree = {}
    /\ \A b \in Tree : Cardinality({c \in Tree : b \in Children(c)}) = IF b = TableCode.Ptr THEN 0 ELSE 1
    /\ InfoCounted

\* The page that a lookup would find now.
Resolve(h) ==
    LET root == TableCode.Ptr
    IN  CASE TableCode.Level = 0 -> root
          [] TableCode.Level = 1 -> Pool[root].slot[PageOf(h)]
          [] TableCode.Level = 2 -> Pool[Pool[root].slot[HighIndex(h)]].slot[MidIndex(h)]

\* A valid handle stays where it is until the table is freed: callers keep
\* pointers to entries while other threads make the table grow.
EntriesStay ==
    [][TableCode # NoTable /\ TableCode' # NoTable =>
          \A h \in Handles : h < NextHandleNeedingPool => Resolve(h)' = Resolve(h)]_tableVars
=============================================================================
