-------------------------- MODULE HandleTableIndex --------------------------
(***************************************************************************)
(* The multi-level index of the executive handle table                    *)
(* (src/ntoskrnl/ex/handle.c): ExpLookupHandleTableEntry and               *)
(* ExMapHandleToPointer's index check run by lookup threads, while a      *)
(* grower (the holder of HandleTableLock[0]) runs                          *)
(* ExpAllocateHandleTableEntrySlow, and ExpFreeHandleTable's walk.         *)
(*                                                                         *)
(* Handle values are byte-scaled as in the code: SizeOfHandle(1) = 4,      *)
(* sizeof(HANDLE_TABLE_ENTRY) = 8, a table pointer is 4 bytes.  Page-sized *)
(* tables are ids 1..; id 0 is NULL.  A mid or high table's contents are   *)
(* its pointer slots; an entry is named <<low table id, slot>>.            *)
(***************************************************************************)
EXTENDS Integers, FiniteSets, Bitwise, SequencesExt

CONSTANTS
  Lookers,             \* threads looking up handles
  LOW_LEVEL_ENTRIES,   \* entries per low-level table
  MID_LEVEL_ENTRIES,   \* pointers per mid-level table
  HIGH_LEVEL_ENTRIES,  \* pointers in the high-level table
  MaxTables            \* page allocations the model provides

ASSUME /\ LOW_LEVEL_ENTRIES \in {2^k : k \in 1..4}
       /\ MID_LEVEL_ENTRIES >= 2 /\ HIGH_LEVEL_ENTRIES >= 2

SizeOfHandle(x) == 4 * x
EntrySize == 8
PtrSize == 4
\* MAX_MID_INDEX as the NT headers define it: entries below one mid table.
MAX_MID_INDEX == MID_LEVEL_ENTRIES * LOW_LEVEL_ENTRIES

\* Entries the index can address: a full high table of full mid tables.
Capacity == MAX_MID_INDEX * HIGH_LEVEL_ENTRIES
\* Every handle value a caller can pass, tag bits included.
HandleValues == 0 .. SizeOfHandle(Capacity) + 3
Ids == 1..MaxTables
Slots == 0 .. (IF MID_LEVEL_ENTRIES > HIGH_LEVEL_ENTRIES
               THEN MID_LEVEL_ENTRIES ELSE HIGH_LEVEL_ENTRIES) - 1
\* A page from ExpAllocateTablePagedPool, cleared with RtlZeroMemory: every
\* pointer slot NULL, which is where ExpFreeHandleTable's loops stop.
NoTable == [s \in Slots |-> 0]
\* A lookup's result is an entry <<low table, slot>>; table 0 is NULL:
\* no result yet, the NULL the code returns, or a read through NULL or
\* past a table.
NoResult == << 0, 0 >>
NULL == << 0, 1 >>
Fault == << 0, 2 >>

VARIABLES
  TableCode,              \* [level, base]
  mem,                    \* pointer slots of every page-sized table
  live,                   \* tables allocated from the pool and not freed
  nextId,                 \* next page the pool hands out
  NextHandleNeedingPool,  \* commit boundary, a handle value
  gpc,                    \* the grower's program counter
  pub,                    \* the InterlockedExchangePointer the grower will do
  newLow,                 \* the low table the grower allocated
  blockLow,               \* low table of every committed block (history)
  lpc, lop, val, nh, tbl, idx, result,  \* lookup threads
  listed,                 \* the table is on HandleTableListHead
  destroyed               \* ExDestroyHandleTable has run

vars == << TableCode, mem, live, nextId, NextHandleNeedingPool, gpc, pub, newLow,
           blockLow, lpc, lop, val, nh, tbl, idx, result, listed, destroyed >>
growVars == << TableCode, mem, live, nextId, NextHandleNeedingPool, gpc, pub,
               newLow, blockLow >>
lookVars == << lpc, lop, val, nh, tbl, idx, result >>
tableVars == << listed, destroyed >>

----------------------------------------------------------------------------
(* The index arithmetic of ExpLookupHandleTableEntry, in bytes.           *)

\* Handle.TagBits = 0.
ClearTag(v) == v - (v % 4)
\* Level 0: &Level1[Handle.Value * (sizeof(ENTRY) / SizeOfHandle(1))].
Level0Offset(v) == v * (EntrySize \div SizeOfHandle(1))
\* i = Handle.Value % SizeOfHandle(LOW_LEVEL_ENTRIES), scaled to an entry.
LowOffset(v) ==
  (v % SizeOfHandle(LOW_LEVEL_ENTRIES)) * (EntrySize \div SizeOfHandle(1))
\* Handle.Value -= i; j (level 1) or k (level 2) = Value / (SizeOfHandle(LOW) / sizeof(PTR)).
BlockOffset(v) ==
  (v - (v % SizeOfHandle(LOW_LEVEL_ENTRIES)))
    \div (SizeOfHandle(LOW_LEVEL_ENTRIES) \div PtrSize)
\* Mutant: the mid modulus taken with the low table's size.
MidOffsetLow(v) == BlockOffset(v) % (LOW_LEVEL_ENTRIES * PtrSize)
\* Level 2: j = k % (MID_LEVEL_ENTRIES * sizeof(PTR)).
MidOffset(v) == BlockOffset(v) % (MID_LEVEL_ENTRIES * PtrSize)
\* Level 2: k -= j; k /= MID_LEVEL_ENTRIES.
HighOffset(v) == (BlockOffset(v) - MidOffset(v)) \div MID_LEVEL_ENTRIES

\* The decomposition the index stands for: entry n of block n \div LOW,
\* block b at mid slot b % MID of high slot b \div MID.
RefIndex(v) == v \div 4
RefBlock(v) == RefIndex(v) \div LOW_LEVEL_ENTRIES
RefSlot(v) == RefIndex(v) % LOW_LEVEL_ENTRIES

\* ExMapHandleToPointer: if (!(ExHandle.Index & (LOW_LEVEL_ENTRIES - 1))) return NULL.
MapIndexRejected(v) == (RefIndex(v) & (LOW_LEVEL_ENTRIES - 1)) = 0

----------------------------------------------------------------------------
(* ExpAllocateHandleTable: one low-level table at level 0.                *)

Init ==
  /\ TableCode = [level |-> 0, base |-> 1]
  /\ mem = [t \in Ids |-> NoTable]
  /\ live = {1}
  /\ nextId = 2
  /\ NextHandleNeedingPool = SizeOfHandle(LOW_LEVEL_ENTRIES)
  /\ gpc = "idle"
  /\ pub = [kind |-> "none"]
  /\ newLow = 0
  /\ blockLow = [b \in 0 .. Capacity \div LOW_LEVEL_ENTRIES - 1 |->
                   IF b = 0 THEN 1 ELSE 0]
  /\ lpc = [t \in Lookers |-> "idle"]
  /\ lop = [t \in Lookers |-> "lookup"]
  /\ val = [t \in Lookers |-> 0]
  /\ nh = [t \in Lookers |-> 0]
  /\ tbl = [t \in Lookers |-> 0]
  /\ idx = [t \in Lookers |-> 0]
  /\ result = [t \in Lookers |-> NoResult]
  \* ExCreateHandleTable has inserted the new table into the global list.
  /\ listed = TRUE
  /\ destroyed = FALSE

----------------------------------------------------------------------------
(* ExpAllocateHandleTableEntrySlow, run by the holder of lock 0.  The      *)
(* first step reads TableCode and builds the new tables privately          *)
(* (ExpAllocateMidLevelTable allocates the mid table, then its low one);  *)
(* the second is the InterlockedExchangePointer that publishes them; the  *)
(* third the InterlockedExchangeAdd of NextHandleNeedingPool.  A growth    *)
(* at i >= HIGH_LEVEL_ENTRIES returns FALSE without touching the table.   *)

\* A freshly zeroed table with one pointer set.
Slot(s, p) == [NoTable EXCEPT ![s] = p]
Link(m, t, s, p) == [m EXCEPT ![t][s] = p]

\* i at level 1: the mid slot of the next block.
GrowI == NextHandleNeedingPool \div SizeOfHandle(LOW_LEVEL_ENTRIES)
\* i at level 2: the high slot of the next block.
GrowI2 == NextHandleNeedingPool \div SizeOfHandle(MAX_MID_INDEX)
\* j at level 2: Index = NHNP / SizeOfHandle(1) - i * MAX_MID_INDEX; j = Index / LOW.
GrowJ2 == (NextHandleNeedingPool \div SizeOfHandle(1) - GrowI2 * MAX_MID_INDEX)
            \div LOW_LEVEL_ENTRIES

\* The pool allocations the growth makes, in order; 0 when it returns
\* FALSE at once (i >= HIGH_LEVEL_ENTRIES).
GrowNeeded ==
  CASE TableCode.level = 0 -> 2                                  \* Mid, Low
    [] TableCode.level = 1 /\ GrowI < MID_LEVEL_ENTRIES -> 1     \* Low
    [] TableCode.level = 1 -> 3                                  \* High, Mid, Low
    [] GrowI2 >= HIGH_LEVEL_ENTRIES -> 0
    [] mem[TableCode.base][GrowI2] = 0 -> 2                      \* Mid, Low
    [] OTHER -> 1                                                \* Low

\* Every allocation succeeds: the new tables are built privately.
GrowAllocate ==
  LET base == TableCode.base
      a == nextId
  IN
  /\ gpc = "idle"
  /\ GrowNeeded > 0
  /\ nextId + GrowNeeded - 1 <= MaxTables
  /\ nextId' = nextId + GrowNeeded
  /\ live' = live \cup (nextId .. nextId + GrowNeeded - 1)
  /\ CASE TableCode.level = 0 ->
            \* Mid[1] = Mid[0] (the new low); Mid[0] = TableBase
            /\ mem' = [mem EXCEPT ![a] = [Slot(0, base) EXCEPT ![1] = a + 1]]
            /\ newLow' = a + 1
            /\ pub' = [kind |-> "code", level |-> 1, base |-> a]
       [] TableCode.level = 1 /\ GrowI < MID_LEVEL_ENTRIES ->
            /\ newLow' = a
            /\ pub' = [kind |-> "slot", table |-> base, slot |-> GrowI, ptr |-> a]
            /\ UNCHANGED mem
       [] TableCode.level = 1 ->
            \* High[0] = TableBase; High[1] = the new mid with its low
            /\ mem' = [mem EXCEPT ![a] = [Slot(0, base) EXCEPT ![1] = a + 1],
                                  ![a + 1] = Slot(0, a + 2)]
            /\ newLow' = a + 2
            /\ pub' = [kind |-> "code", level |-> 2, base |-> a]
       [] mem[base][GrowI2] = 0 ->
            /\ mem' = [mem EXCEPT ![a] = Slot(0, a + 1)]
            /\ newLow' = a + 1
            /\ pub' = [kind |-> "slot", table |-> base, slot |-> GrowI2, ptr |-> a]
       [] OTHER ->
            /\ newLow' = a
            /\ pub' = [kind |-> "slot", table |-> mem[base][GrowI2],
                        slot |-> GrowJ2, ptr |-> a]
            /\ UNCHANGED mem
  /\ gpc' = "publish"
  /\ UNCHANGED << TableCode, NextHandleNeedingPool, blockLow >>
  /\ UNCHANGED lookVars

\* Mutant: a failed growth returns FALSE without freeing what it allocated.
GrowAllocateFailsLeaks ==
  /\ gpc = "idle"
  /\ \E k \in 0 .. GrowNeeded - 1 :
       /\ nextId + k <= MaxTables + 1
       /\ nextId' = nextId + k
       /\ live' = live \cup (nextId .. nextId + k - 1)
  /\ UNCHANGED << TableCode, mem, NextHandleNeedingPool, gpc, pub, newLow,
                  blockLow >>
  /\ UNCHANGED lookVars

\* Allocation k + 1 fails after k succeeded.  Every failure path frees what
\* was allocated before it (ExpAllocateMidLevelTable frees the mid when its
\* low fails; the level-1 path frees the high when the mid fails) and
\* returns FALSE with the table untouched.
GrowAllocateFails ==
  /\ gpc = "idle"
  /\ \E k \in 0 .. GrowNeeded - 1 :
       /\ nextId + k <= MaxTables + 1
       /\ nextId' = nextId + k
  /\ UNCHANGED << TableCode, mem, live, NextHandleNeedingPool, gpc, pub,
                  newLow, blockLow >>
  /\ UNCHANGED lookVars

\* InterlockedExchangePointer on TableCode or on the parent's slot.
GrowPublish ==
  /\ gpc = "publish"
  /\ IF pub.kind = "code"
       THEN /\ TableCode' = [level |-> pub.level, base |-> pub.base]
            /\ UNCHANGED mem
       ELSE /\ mem' = Link(mem, pub.table, pub.slot, pub.ptr)
            /\ UNCHANGED TableCode
  /\ gpc' = "commit"
  /\ UNCHANGED << live, nextId, NextHandleNeedingPool, pub, newLow, blockLow >>
  /\ UNCHANGED lookVars

\* InterlockedExchangeAdd(&NextHandleNeedingPool, SizeOfHandle(LOW_LEVEL_ENTRIES)).
GrowCommit ==
  /\ gpc = "commit"
  /\ NextHandleNeedingPool' = NextHandleNeedingPool + SizeOfHandle(LOW_LEVEL_ENTRIES)
  /\ blockLow' = [blockLow EXCEPT
                    ![NextHandleNeedingPool \div SizeOfHandle(LOW_LEVEL_ENTRIES)] = newLow]
  /\ gpc' = "idle"
  /\ pub' = [kind |-> "none"]
  /\ newLow' = 0
  /\ UNCHANGED << TableCode, mem, live, nextId >>
  /\ UNCHANGED lookVars

----------------------------------------------------------------------------
(* ExMapHandleToPointer's index check and ExpLookupHandleTableEntry, one  *)
(* shared-memory read per step.  A read past a table or through a NULL    *)
(* pointer is a "fault".                                                   *)

Set(f, t, v) == [f EXCEPT ![t] = v]

\* Mutant: the lookup without the NextHandleNeedingPool check.
LookupStartNoBoundary(t) ==
  /\ lpc[t] = "idle"
  /\ \E v \in HandleValues, o \in {"lookup", "map"} :
       /\ lop' = Set(lop, t, o)
       /\ val' = Set(val, t, ClearTag(v))
       /\ nh' = Set(nh, t, NextHandleNeedingPool)
       /\ IF o = "map" /\ MapIndexRejected(v)
            THEN /\ result' = Set(result, t, NULL)
                 /\ lpc' = Set(lpc, t, "done")
            ELSE /\ lpc' = Set(lpc, t, "l_tc")
                 /\ UNCHANGED result
  /\ UNCHANGED << tbl, idx >>
  /\ UNCHANGED growVars

\* The index check of ExMapHandleToPointer (map only), then Handle.TagBits
\* = 0 and NextHandle = NextHandleNeedingPool; past it, return NULL.
LookupStart(t) ==
  /\ lpc[t] = "idle"
  /\ \E v \in HandleValues, o \in {"lookup", "map"} :
       /\ lop' = Set(lop, t, o)
       /\ val' = Set(val, t, ClearTag(v))
       /\ nh' = Set(nh, t, NextHandleNeedingPool)
       /\ IF (o = "map" /\ MapIndexRejected(v))
             \/ ClearTag(v) >= NextHandleNeedingPool
            THEN /\ result' = Set(result, t, NULL)
                 /\ lpc' = Set(lpc, t, "done")
            ELSE /\ lpc' = Set(lpc, t, "l_tc")
                 /\ UNCHANGED result
  /\ UNCHANGED << tbl, idx >>
  /\ UNCHANGED growVars

\* TableBase = TableCode; switch (TableLevel).
LookupReadTableCode(t) ==
  LET v == val[t] IN
  /\ lpc[t] = "l_tc"
  /\ tbl' = Set(tbl, t, TableCode.base)
  /\ CASE TableCode.level = 0 ->
            /\ result' = Set(result, t,
                  IF Level0Offset(v) \div EntrySize < LOW_LEVEL_ENTRIES
                  THEN << TableCode.base, Level0Offset(v) \div EntrySize >>
                  ELSE Fault)
            /\ lpc' = Set(lpc, t, "done")
            /\ UNCHANGED idx
       [] TableCode.level = 1 ->
            /\ idx' = Set(idx, t, BlockOffset(v) \div PtrSize)
            /\ lpc' = Set(lpc, t, "l_mid")
            /\ UNCHANGED result
       [] OTHER ->
            /\ idx' = Set(idx, t, HighOffset(v) \div PtrSize)
            /\ lpc' = Set(lpc, t, "l_high")
            /\ UNCHANGED result
  /\ UNCHANGED << lop, val, nh >>
  /\ UNCHANGED growVars

\* Level2 = Level3[k].
LookupReadHigh(t) ==
  LET p == IF idx[t] \in Slots THEN mem[tbl[t]][idx[t]] ELSE 0 IN
  /\ lpc[t] = "l_high"
  /\ IF p = 0
       THEN /\ result' = Set(result, t, Fault)
            /\ lpc' = Set(lpc, t, "done")
            /\ UNCHANGED << tbl, idx >>
       ELSE /\ tbl' = Set(tbl, t, p)
            /\ idx' = Set(idx, t, MidOffset(val[t]) \div PtrSize)
            /\ lpc' = Set(lpc, t, "l_mid")
            /\ UNCHANGED result
  /\ UNCHANGED << lop, val, nh >>
  /\ UNCHANGED growVars

\* Level1 = Level2[j]; Entry = &Level1[i * (sizeof(ENTRY) / SizeOfHandle(1))].
LookupReadMid(t) ==
  LET p == IF idx[t] \in Slots THEN mem[tbl[t]][idx[t]] ELSE 0 IN
  /\ lpc[t] = "l_mid"
  /\ result' = Set(result, t, IF p = 0 THEN Fault
                              ELSE << p, LowOffset(val[t]) \div EntrySize >>)
  /\ lpc' = Set(lpc, t, "done")
  /\ UNCHANGED << lop, val, nh, tbl, idx >>
  /\ UNCHANGED growVars

\* The caller takes the result; the lookup's locals are dead.
LookupReturn(t) ==
  /\ lpc[t] = "done"
  /\ lpc' = Set(lpc, t, "idle")
  /\ lop' = Set(lop, t, "lookup")
  /\ val' = Set(val, t, 0)
  /\ nh' = Set(nh, t, 0)
  /\ tbl' = Set(tbl, t, 0)
  /\ idx' = Set(idx, t, 0)
  /\ result' = Set(result, t, NoResult)
  /\ UNCHANGED growVars

----------------------------------------------------------------------------
(* ExpFreeHandleTable: the walk that frees every table, each loop leaving  *)
(* at the first NULL pointer, as a sequence of the tables it frees.        *)

\* The index of the first NULL among the first n pointers of table t, or n.
FirstNull(t, n) ==
  CHOOSE f \in 0 .. n : /\ f = n \/ mem[t][f] = 0
                        /\ \A i \in 0 .. f - 1 : mem[t][i] # 0
\* The pointers the loop visits.
Pointers(t, n) == [i \in 1 .. FirstNull(t, n) |-> mem[t][i - 1]]
\* ExpFreeLowLevelTable: TableEntry[0].Object is the 0 that
\* ExpAllocateLowLevelTable wrote, so only the page is freed.
FreeLowLevelTable(t) == << t >>
\* Each mid table's lows, then the mid table itself.
FreeMid(m) ==
  FlattenSeq([i \in DOMAIN Pointers(m, MID_LEVEL_ENTRIES) |->
                FreeLowLevelTable(Pointers(m, MID_LEVEL_ENTRIES)[i])])
    \o << m >>
FreedTables ==
  LET base == TableCode.base IN
  CASE TableCode.level = 0 -> FreeLowLevelTable(base)
    [] TableCode.level = 1 -> FreeMid(base)
    [] OTHER ->
         FlattenSeq([i \in DOMAIN Pointers(base, HIGH_LEVEL_ENTRIES) |->
                       FreeMid(Pointers(base, HIGH_LEVEL_ENTRIES)[i])])
           \o << base >>

----------------------------------------------------------------------------
Lookup(t) == \/ LookupStart(t)
             \/ LookupReadTableCode(t)
             \/ LookupReadHigh(t)
             \/ LookupReadMid(t)
             \/ LookupReturn(t)

----------------------------------------------------------------------------
(* The end of the table.  The caller destroys it once nobody uses it: no   *)
(* growth or lookup is in progress.                                        *)

\* ExRemoveHandleTable: RemoveEntryList and InitializeListHead under
\* HandleTableListLock; on a table already removed the entry is linked to
\* itself and the removal changes nothing.
ExRemoveHandleTable ==
  /\ ~destroyed
  /\ listed' = FALSE
  /\ UNCHANGED << growVars, lookVars, destroyed >>

\* Mutant: the table is freed without being taken off the global list.
ExDestroyHandleTableNoRemove ==
  /\ ~destroyed
  /\ gpc = "idle" /\ \A t \in Lookers : lpc[t] = "idle"
  /\ live' = live \ ToSet(FreedTables)
  /\ destroyed' = TRUE
  /\ UNCHANGED << TableCode, mem, nextId, NextHandleNeedingPool, gpc, pub,
                  newLow, blockLow, listed >>
  /\ UNCHANGED lookVars

\* ExDestroyHandleTable: ExRemoveHandleTable, then ExpFreeHandleTable's
\* walk.  A DestroyHandleProcedure would hit ASSERT(FALSE), a no-op: it is
\* never called, and the model leaves it out.
ExDestroyHandleTable ==
  /\ ~destroyed
  /\ gpc = "idle" /\ \A t \in Lookers : lpc[t] = "idle"
  /\ listed' = FALSE
  /\ live' = live \ ToSet(FreedTables)
  /\ destroyed' = TRUE
  /\ UNCHANGED << TableCode, mem, nextId, NextHandleNeedingPool, gpc, pub,
                  newLow, blockLow >>
  /\ UNCHANGED lookVars

----------------------------------------------------------------------------
Next == \/ /\ ~destroyed
           /\ \/ GrowAllocate
              \/ GrowAllocateFails
              \/ GrowPublish
              \/ GrowCommit
              \/ \E t \in Lookers : Lookup(t)
           /\ UNCHANGED tableVars
        \/ ExRemoveHandleTable
        \/ ExDestroyHandleTable

Spec == Init /\ [][Next]_vars

----------------------------------------------------------------------------
(* Properties.                                                            *)

\* Every variable in its range.  A lookup never faults: it never follows a
\* NULL pointer nor indexes past a table, because it only walks handles
\* below the NextHandleNeedingPool it read first, and the grower raises
\* that boundary only after the new tables are reachable from TableCode.
TypeOK ==
  /\ TableCode \in [level : 0..2, base : Ids]
  /\ live \subseteq Ids
  /\ nextId \in 2 .. MaxTables + 1
  /\ NextHandleNeedingPool \in
       {SizeOfHandle(LOW_LEVEL_ENTRIES * b) : b \in 1 .. Capacity \div LOW_LEVEL_ENTRIES}
  /\ gpc \in {"idle", "publish", "commit"}
  /\ lpc \in [Lookers -> {"idle", "l_tc", "l_high", "l_mid", "done"}]
  /\ result \in [Lookers -> {NoResult, NULL} \cup (Ids \X (0 .. LOW_LEVEL_ENTRIES - 1))]

\* ExpLookupHandleTableEntry's byte arithmetic, on whatever TableCode and
\* tables it reads while the index grows from level 0 to level 2, finds
\* the entry the handle names: slot n % LOW of the low table committed for
\* block n \div LOW.  It returns NULL exactly for a handle at or past the
\* boundary it read, and ExMapHandleToPointer also for a block's reserved
\* entry 0.
LookupFindsEntry ==
  \A t \in Lookers : lpc[t] = "done" =>
    IF \/ lop[t] = "map" /\ MapIndexRejected(val[t])
       \/ val[t] >= nh[t]
    THEN result[t] = NULL
    ELSE result[t] = << blockLow[RefBlock(val[t])], RefSlot(val[t]) >>

\* With no growth in progress, ExpFreeHandleTable's walk frees exactly the
\* tables the growths allocated and did not free on a failure path, each
\* once; and once ExDestroyHandleTable has run, no page of the table is
\* left in the pool and the table is off HandleTableListHead, so no walker
\* of the global list reaches freed memory.
FreeWalkReleasesAll ==
  /\ (gpc = "idle" /\ ~destroyed) =>
       /\ ToSet(FreedTables) = live
       /\ IsInjective(FreedTables)
  /\ destroyed => live = {} /\ ~listed

====
