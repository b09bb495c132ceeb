--------------------------- MODULE HandleFreeList ---------------------------
(***************************************************************************)
(* The free lists and the entry allocator of the executive handle table   *)
(* (src/ntoskrnl/ex/handle.c): ExpAllocateHandleTableEntry,                *)
(* ExpMoveFreeHandles, ExpAllocateHandleTableEntrySlow (with DoInit) and  *)
(* ExpFreeHandleTableEntry, run by several threads on one table.          *)
(*                                                                         *)
(* A handle value is 4 * index; the model works with the index n.  Entry  *)
(* n lives in low-level block n \div LOW_LEVEL_ENTRIES; the first entry   *)
(* of every block is a reserved sentinel.  Each shared-memory access of   *)
(* the code (a read of FirstFree, one compare-and-swap, one pushlock       *)
(* operation) is one step of the thread that performs it.                  *)
(***************************************************************************)
EXTENDS Integers, FiniteSets, FiniteSetsExt

CONSTANTS
  Threads,            \* the threads operating on the table
  NoThread,           \* model value: no exclusive owner of a pushlock
  LOW_LEVEL_ENTRIES,  \* entries per low-level block
  MaxBlocks,          \* blocks the index tree can hold (HIGH_LEVEL_ENTRIES limit)
  MaxHeld             \* handles one thread holds at a time

ASSUME /\ NoThread \notin Threads
       /\ LOW_LEVEL_ENTRIES \in Nat /\ LOW_LEVEL_ENTRIES >= 3
       /\ MaxBlocks \in Nat \ {0}
       /\ MaxHeld \in Nat \ {0}

VARIABLES
  FirstFree,              \* HandleTable->FirstFree (an index, 0 = empty)
  LastFree,               \* HandleTable->LastFree
  NextHandleNeedingPool,  \* first index not backed by a low-level block
  link,                   \* NextFreeTableEntry of every entry
  HandleCount,            \* HandleTable->HandleCount
  HandleTableLock,        \* the four pushlocks: [excl, shared]
  pc,                     \* program counter of each thread
  OldValue,               \* thread locals of the code
  NewValue,
  Moved,                  \* the chain ExpMoveFreeHandles took from LastFree
  entry,                  \* entry being freed / head of a new block's chain
  target,                 \* list head ExpFreeHandleTableEntry pushes onto
  ok,                     \* Result of the slow path / outcome of a CAS
  waitIdx,                \* lock ExpMoveFreeHandles is waiting on
  held,                   \* handles each thread owns (history)
  grants                  \* times each index is currently handed out (history)

vars == << FirstFree, LastFree, NextHandleNeedingPool, link, HandleCount,
           HandleTableLock, pc, OldValue, NewValue, Moved, entry, target, ok,
           waitIdx, held, grants >>

Indices == 0 .. (MaxBlocks * LOW_LEVEL_ENTRIES - 1)
Committed == 0 .. (NextHandleNeedingPool - 1)
IsSentinel(n) == n % LOW_LEVEL_ENTRIES = 0
\* NextFreeTableEntry = -2 marks the reserved first entry of a block.
SentinelLink == -2

\* (Value >> 2) % 4 with Value = 4 * n: the lock guarding pops of entry n.
LockIndex(n) == n % 4

Locked(i) ==
  HandleTableLock[i].excl # NoThread \/ HandleTableLock[i].shared # {}

Free(i) ==
  HandleTableLock[i].excl = NoThread /\ HandleTableLock[i].shared = {}

Goto(t, from, to) == pc[t] = from /\ pc' = [pc EXCEPT ![t] = to]

Set(f, t, v) == [f EXCEPT ![t] = v]

\* Return to the caller: the locals of the finished call are dead.
Return(t) ==
  /\ pc' = Set(pc, t, "idle")
  /\ OldValue' = Set(OldValue, t, 0)
  /\ NewValue' = Set(NewValue, t, 0)
  /\ Moved' = Set(Moved, t, 0)
  /\ entry' = Set(entry, t, 0)
  /\ target' = Set(target, t, "LastFree")
  /\ ok' = Set(ok, t, FALSE)
  /\ waitIdx' = Set(waitIdx, t, 1)

----------------------------------------------------------------------------
(* Low-level block initialisation: ExpAllocateHandleTable with NewTable   *)
(* and ExpAllocateLowLevelTable with DoInit thread the entries of block   *)
(* base..base+LOW-1 into a chain base+1 -> base+2 -> ... -> 0.            *)
BlockLinks(base) ==
  [n \in base .. base + LOW_LEVEL_ENTRIES - 1 |->
     IF n = base THEN SentinelLink
     ELSE IF n = base + LOW_LEVEL_ENTRIES - 1 THEN 0
     ELSE n + 1]

\* Faulty variant: the chain starts at the block's reserved first entry.
NewChainHeadAtSentinel(base) == base

\* The head of a new block's chain: Index += SizeOfHandle(1).
NewChainHead(base) == base + 1

Init ==
  /\ FirstFree = 1
  /\ LastFree = 0
  /\ NextHandleNeedingPool = LOW_LEVEL_ENTRIES
  /\ link = [n \in Indices |->
               IF n < LOW_LEVEL_ENTRIES THEN BlockLinks(0)[n] ELSE 0]
  /\ HandleCount = 0
  /\ HandleTableLock = [i \in 0..3 |-> [excl |-> NoThread, shared |-> {}]]
  /\ pc = [t \in Threads |-> "idle"]
  /\ OldValue = [t \in Threads |-> 0]
  /\ NewValue = [t \in Threads |-> 0]
  /\ Moved = [t \in Threads |-> 0]
  /\ entry = [t \in Threads |-> 0]
  /\ target = [t \in Threads |-> "LastFree"]
  /\ ok = [t \in Threads |-> FALSE]
  /\ waitIdx = [t \in Threads |-> 1]
  /\ held = [t \in Threads |-> {}]
  /\ grants = [n \in Indices |-> 0]

----------------------------------------------------------------------------
(* ExpAllocateHandleTableEntry                                             *)

\* OldValue = HandleTable->FirstFree; an empty list enters the while loop.
ReadFirstFree(t) ==
  /\ OldValue' = Set(OldValue, t, FirstFree)
  /\ pc' = Set(pc, t, IF FirstFree = 0 THEN "a_lock0" ELSE "a_lookup")
  /\ UNCHANGED << FirstFree, LastFree, NextHandleNeedingPool, link, HandleCount,
                  HandleTableLock, NewValue, Moved, entry, target, ok,
                  waitIdx, held, grants >>

\* A caller with room for another handle enters ExpAllocateHandleTableEntry.
StartAllocate(t) ==
  /\ pc[t] = "idle"
  /\ Cardinality(held[t]) < MaxHeld
  /\ ReadFirstFree(t)

\* The top of the allocation loop, entered again after a failed attempt.
AllocReadFirstFree(t) ==
  /\ pc[t] = "a_read"
  /\ ReadFirstFree(t)

\* ExAcquirePushLockExclusive(&HandleTableLock[0]).
AllocAcquireLock0(t) ==
  /\ Free(0)
  /\ HandleTableLock' = [HandleTableLock EXCEPT ![0].excl = t]
  /\ Goto(t, "a_lock0", "a_recheck0")
  /\ UNCHANGED << FirstFree, LastFree, NextHandleNeedingPool, link, HandleCount,
                  OldValue, NewValue, Moved, entry, target, ok, waitIdx,
                  held, grants >>

\* Check FirstFree again under lock 0; if still empty, ExpMoveFreeHandles
\* starts by swapping LastFree out.
AllocRecheckFirstFree(t) ==
  /\ pc[t] = "a_recheck0"
  /\ OldValue' = Set(OldValue, t, FirstFree)
  /\ pc' = Set(pc, t, IF FirstFree # 0 THEN "a_release0" ELSE "m_xchg")
  /\ UNCHANGED << FirstFree, LastFree, NextHandleNeedingPool, link, HandleCount,
                  HandleTableLock, NewValue, Moved, entry, target, ok,
                  waitIdx, held, grants >>

\* Leave the while loop with a non-empty OldValue: release lock 0.
AllocReleaseLock0(t) ==
  /\ HandleTableLock' = [HandleTableLock EXCEPT ![0].excl = NoThread]
  /\ Goto(t, "a_release0", "a_lookup")
  /\ UNCHANGED << FirstFree, LastFree, NextHandleNeedingPool, link, HandleCount,
                  OldValue, NewValue, Moved, entry, target, ok, waitIdx,
                  held, grants >>

\* ExpMoveFreeHandles: LastFree = InterlockedExchange(&LastFree, 0); an
\* empty LastFree returns 0 and the caller grows the table.
MoveExchangeLastFree(t) ==
  /\ pc[t] = "m_xchg"
  /\ Moved' = Set(Moved, t, LastFree)
  /\ LastFree' = 0
  /\ waitIdx' = Set(waitIdx, t, 1)
  /\ pc' = Set(pc, t, IF LastFree = 0 THEN "a_slow" ELSE "m_wait")
  /\ UNCHANGED << FirstFree, NextHandleNeedingPool, link, HandleCount,
                  HandleTableLock, OldValue, NewValue, entry, target, ok,
                  held, grants >>

\* ExWaitOnPushLock(&HandleTableLock[i]) for i = 1..3: wait until the lock
\* is free, without keeping it.
MoveWaitOnLock(t) ==
  /\ pc[t] = "m_wait"
  /\ Free(waitIdx[t])
  /\ waitIdx' = Set(waitIdx, t, IF waitIdx[t] < 3 THEN waitIdx[t] + 1 ELSE 1)
  /\ pc' = Set(pc, t, IF waitIdx[t] < 3 THEN "m_wait" ELSE "m_cas")
  /\ UNCHANGED << FirstFree, LastFree, NextHandleNeedingPool, link, HandleCount,
                  HandleTableLock, OldValue, NewValue, Moved, entry, target,
                  ok, held, grants >>

\* InterlockedCompareExchange(&FirstFree, LastFree, 0).  StrictFIFO is
\* never set (Flags = 0), so a failed exchange falls through to
\* ASSERT(FALSE), and both outcomes return LastFree as the caller's OldValue.
MoveInstallChain(t) ==
  /\ pc[t] = "m_cas"
  /\ FirstFree' = IF FirstFree = 0 THEN Moved[t] ELSE FirstFree
  /\ OldValue' = Set(OldValue, t, Moved[t])
  /\ Moved' = Set(Moved, t, 0)
  /\ pc' = Set(pc, t, "a_release0")
  /\ UNCHANGED << LastFree, NextHandleNeedingPool, link, HandleCount,
                  HandleTableLock, NewValue, entry, target, ok,
                  waitIdx, held, grants >>

\* ExpAllocateHandleTableEntrySlow(HandleTable, TRUE) up to the
\* InterlockedExchangeAdd of NextHandleNeedingPool: a new low-level block is
\* allocated, threaded into a chain and committed.  It fails when the tree
\* is full (i >= HIGH_LEVEL_ENTRIES) or when the pool allocation fails.
AllocateSlowCommit(t) ==
  /\ pc[t] = "a_slow"
  /\ \/ /\ NextHandleNeedingPool < MaxBlocks * LOW_LEVEL_ENTRIES
        /\ link' = [n \in Indices |->
                      IF n \in NextHandleNeedingPool ..
                               NextHandleNeedingPool + LOW_LEVEL_ENTRIES - 1
                      THEN BlockLinks(NextHandleNeedingPool)[n]
                      ELSE link[n]]
        /\ NextHandleNeedingPool' = NextHandleNeedingPool + LOW_LEVEL_ENTRIES
        /\ entry' = Set(entry, t, NewChainHead(NextHandleNeedingPool))
        /\ pc' = Set(pc, t, "g_read")
        /\ UNCHANGED ok
     \/ /\ ok' = Set(ok, t, FALSE)
        /\ pc' = Set(pc, t, "a_release_slow")
        /\ UNCHANGED << link, NextHandleNeedingPool, entry >>
  /\ UNCHANGED << FirstFree, LastFree, HandleCount, HandleTableLock, OldValue,
                  NewValue, Moved, target, waitIdx, held, grants >>

\* FirstFree = HandleTable->FirstFree; Low[LOW_LEVEL_ENTRIES-1] links to it.
GrowReadFirstFree(t) ==
  /\ pc[t] = "g_read"
  /\ NewValue' = Set(NewValue, t, FirstFree)
  /\ link' = [link EXCEPT ![entry[t] + LOW_LEVEL_ENTRIES - 2] = FirstFree]
  /\ pc' = Set(pc, t, "g_cas")
  /\ UNCHANGED << FirstFree, LastFree, NextHandleNeedingPool, HandleCount,
                  HandleTableLock, OldValue, Moved, entry, target, ok,
                  waitIdx, held, grants >>

\* InterlockedCompareExchange(&FirstFree, Index, FirstFree), retried.
GrowPushChain(t) ==
  /\ pc[t] = "g_cas"
  /\ IF FirstFree = NewValue[t]
       THEN /\ FirstFree' = entry[t]
            /\ ok' = Set(ok, t, TRUE)
            /\ entry' = Set(entry, t, 0)
            /\ NewValue' = Set(NewValue, t, 0)
            /\ pc' = Set(pc, t, "a_release_slow")
       ELSE /\ pc' = Set(pc, t, "g_read")
            /\ UNCHANGED << FirstFree, ok, entry, NewValue >>
  /\ UNCHANGED << LastFree, NextHandleNeedingPool, link, HandleCount,
                  HandleTableLock, OldValue, Moved, target,
                  waitIdx, held, grants >>

\* Release lock 0 after the slow path.
AllocReleaseLock0Slow(t) ==
  /\ HandleTableLock' = [HandleTableLock EXCEPT ![0].excl = NoThread]
  /\ Goto(t, "a_release_slow", "a_after_slow")
  /\ UNCHANGED << FirstFree, LastFree, NextHandleNeedingPool, link, HandleCount,
                  OldValue, NewValue, Moved, entry, target, ok, waitIdx,
                  held, grants >>

\* OldValue = FirstFree; fail only if the slow path failed and the list is
\* still empty, otherwise stay in the while loop until it is non-empty.
AllocAfterSlow(t) ==
  /\ pc[t] = "a_after_slow"
  /\ IF FirstFree = 0 /\ ~ok[t]
       THEN Return(t)
       ELSE /\ OldValue' = Set(OldValue, t, FirstFree)
            /\ ok' = Set(ok, t, FALSE)
            /\ pc' = Set(pc, t, IF FirstFree # 0 THEN "a_lookup" ELSE "a_lock0")
            /\ UNCHANGED << NewValue, Moved, entry, target, waitIdx >>
  /\ UNCHANGED << FirstFree, LastFree, NextHandleNeedingPool, link, HandleCount,
                  HandleTableLock, held, grants >>

\* Look up the entry and ExAcquirePushLockShared(&HandleTableLock[i]).
AllocAcquireShared(t) ==
  /\ pc[t] = "a_lookup"
  /\ LET i == LockIndex(OldValue[t]) IN
       /\ HandleTableLock[i].excl = NoThread
       /\ HandleTableLock' =
            [HandleTableLock EXCEPT ![i].shared = @ \cup {t}]
  /\ pc' = Set(pc, t, "a_check")
  /\ UNCHANGED << FirstFree, LastFree, NextHandleNeedingPool, link, HandleCount,
                  OldValue, NewValue, Moved, entry, target, ok, waitIdx,
                  held, grants >>

\* if (OldValue != FirstFree) retry.
AllocCheckFirstFree(t) ==
  /\ pc[t] = "a_check"
  /\ pc' = Set(pc, t, IF FirstFree # OldValue[t] THEN "a_retry" ELSE "a_next")
  /\ UNCHANGED << FirstFree, LastFree, NextHandleNeedingPool, link, HandleCount,
                  HandleTableLock, OldValue, NewValue, Moved, entry, target,
                  ok, waitIdx, held, grants >>

\* Faulty variant: the retry path forgets to release the shared lock.
AllocReleaseRetryKeepsLock(t) ==
  /\ Goto(t, "a_retry", "a_read")
  /\ UNCHANGED << FirstFree, LastFree, NextHandleNeedingPool, link, HandleCount,
                  HandleTableLock, OldValue, NewValue, Moved, entry, target,
                  ok, waitIdx, held, grants >>

\* ExReleasePushLockShared and continue the allocation loop.
AllocReleaseRetry(t) ==
  /\ HandleTableLock' =
       [HandleTableLock EXCEPT ![LockIndex(OldValue[t])].shared = @ \ {t}]
  /\ Goto(t, "a_retry", "a_read")
  /\ UNCHANGED << FirstFree, LastFree, NextHandleNeedingPool, link, HandleCount,
                  OldValue, NewValue, Moved, entry, target, ok, waitIdx,
                  held, grants >>

\* NewValue = Entry->NextFreeTableEntry.
AllocReadNext(t) ==
  /\ pc[t] = "a_next"
  /\ NewValue' = Set(NewValue, t, link[OldValue[t]])
  /\ pc' = Set(pc, t, "a_cas")
  /\ UNCHANGED << FirstFree, LastFree, NextHandleNeedingPool, link, HandleCount,
                  HandleTableLock, OldValue, Moved, entry, target, ok,
                  waitIdx, held, grants >>

\* Faulty variant: a plain store instead of the compare-and-swap.
AllocPopUnconditional(t) ==
  /\ pc[t] = "a_cas"
  /\ ok' = Set(ok, t, TRUE)
  /\ FirstFree' = NewValue[t]
  /\ pc' = Set(pc, t, "a_release")
  /\ UNCHANGED << LastFree, NextHandleNeedingPool, link, HandleCount,
                  HandleTableLock, OldValue, NewValue, Moved, entry, target,
                  waitIdx, held, grants >>

\* InterlockedCompareExchange(&FirstFree, NewValue, OldValue).
AllocPop(t) ==
  /\ pc[t] = "a_cas"
  /\ ok' = Set(ok, t, FirstFree = OldValue[t])
  /\ FirstFree' = IF FirstFree = OldValue[t] THEN NewValue[t] ELSE FirstFree
  /\ pc' = Set(pc, t, "a_release")
  /\ UNCHANGED << LastFree, NextHandleNeedingPool, link, HandleCount,
                  HandleTableLock, OldValue, NewValue, Moved, entry, target,
                  waitIdx, held, grants >>

\* ExReleasePushLockShared; on success InterlockedIncrement(&HandleCount)
\* and the entry is handed to the caller, otherwise loop again.
AllocRelease(t) ==
  /\ pc[t] = "a_release"
  /\ HandleTableLock' =
       [HandleTableLock EXCEPT ![LockIndex(OldValue[t])].shared = @ \ {t}]
  /\ IF ok[t]
       THEN /\ HandleCount' = HandleCount + 1
            /\ held' = Set(held, t, held[t] \cup {OldValue[t]})
            \* saturating: 2 already means "handed out twice"
            /\ grants' = [grants EXCEPT ![OldValue[t]] =
                            IF @ >= 2 THEN 2 ELSE @ + 1]
            /\ Return(t)
       ELSE /\ pc' = Set(pc, t, "a_read")
            /\ ok' = Set(ok, t, FALSE)
            /\ NewValue' = Set(NewValue, t, 0)
            /\ UNCHANGED << HandleCount, held, grants, OldValue,
                            Moved, entry, target, waitIdx >>
  /\ UNCHANGED << FirstFree, LastFree, NextHandleNeedingPool, link >>

----------------------------------------------------------------------------
(* ExpFreeHandleTableEntry                                                 *)

\* The list a freed entry is pushed on: FirstFree when the entry's lock is
\* held, LastFree otherwise (StrictFIFO is never set).
FreeTarget(e) == IF Locked(LockIndex(e)) THEN "FirstFree" ELSE "LastFree"

\* Faulty variant: the free forgets InterlockedDecrement(&HandleCount).
StartFreeNoDecrement(t) ==
  /\ pc[t] = "idle"
  /\ \E e \in held[t] :
       /\ held' = Set(held, t, held[t] \ {e})
       /\ grants' = [grants EXCEPT ![e] = @ - 1]
       /\ entry' = Set(entry, t, e)
       /\ target' = Set(target, t, FreeTarget(e))
  /\ pc' = Set(pc, t, "f_read")
  /\ UNCHANGED << FirstFree, LastFree, NextHandleNeedingPool, link, HandleCount,
                  HandleTableLock, OldValue, NewValue, Moved, ok, waitIdx >>

\* A caller frees an entry it owns (ExDestroyHandle has cleared its Object):
\* InterlockedDecrement(&HandleCount) and the choice of the list head.
StartFree(t) ==
  /\ pc[t] = "idle"
  /\ \E e \in held[t] :
       /\ held' = Set(held, t, held[t] \ {e})
       /\ grants' = [grants EXCEPT ![e] = @ - 1]
       /\ entry' = Set(entry, t, e)
       /\ target' = Set(target, t, FreeTarget(e))
  /\ HandleCount' = HandleCount - 1
  /\ pc' = Set(pc, t, "f_read")
  /\ UNCHANGED << FirstFree, LastFree, NextHandleNeedingPool, link,
                  HandleTableLock, OldValue, NewValue, Moved, ok, waitIdx >>

Head(t) == IF target[t] = "FirstFree" THEN FirstFree ELSE LastFree

\* OldValue = *Free; Entry->NextFreeTableEntry = OldValue.
FreeReadHead(t) ==
  /\ NewValue' = Set(NewValue, t, Head(t))
  /\ link' = [link EXCEPT ![entry[t]] = Head(t)]
  /\ Goto(t, "f_read", "f_cas")
  /\ UNCHANGED << FirstFree, LastFree, NextHandleNeedingPool, HandleCount,
                  HandleTableLock, OldValue, Moved, entry, target, ok,
                  waitIdx, held, grants >>

\* InterlockedCompareExchange(Free, NewValue, OldValue), retried on failure.
FreePush(t) ==
  /\ pc[t] = "f_cas"
  /\ IF Head(t) = NewValue[t]
       THEN /\ FirstFree' = IF target[t] = "FirstFree" THEN entry[t] ELSE FirstFree
            /\ LastFree' = IF target[t] = "LastFree" THEN entry[t] ELSE LastFree
            /\ Return(t)
       ELSE /\ pc' = Set(pc, t, "f_read")
            /\ UNCHANGED << FirstFree, LastFree, OldValue, NewValue, Moved,
                            entry, target, ok, waitIdx >>
  /\ UNCHANGED << NextHandleNeedingPool, link, HandleCount, HandleTableLock,
                  held, grants >>

----------------------------------------------------------------------------
\* Every step a thread takes once it is inside an operation.
Busy(t) ==
  \/ AllocReadFirstFree(t) \/ AllocAcquireLock0(t) \/ AllocRecheckFirstFree(t)
  \/ AllocReleaseLock0(t) \/ MoveExchangeLastFree(t) \/ MoveWaitOnLock(t)
  \/ MoveInstallChain(t) \/ AllocateSlowCommit(t) \/ GrowReadFirstFree(t)
  \/ GrowPushChain(t) \/ AllocReleaseLock0Slow(t) \/ AllocAfterSlow(t)
  \/ AllocAcquireShared(t) \/ AllocCheckFirstFree(t) \/ AllocReleaseRetry(t)
  \/ AllocReadNext(t) \/ AllocPop(t) \/ AllocRelease(t)
  \/ FreeReadHead(t) \/ FreePush(t)

Next == \E t \in Threads : StartAllocate(t) \/ StartFree(t) \/ Busy(t)

\* A thread inside an operation keeps running (weak fairness).  Pushlock
\* acquisition is assumed strongly fair: a waiter is queued on the lock and
\* woken by every release, so it cannot be passed over forever.
Fairness ==
  \A t \in Threads :
    /\ WF_vars(Busy(t))
    /\ SF_vars(AllocAcquireLock0(t))
    /\ SF_vars(AllocAcquireShared(t))
    /\ SF_vars(MoveWaitOnLock(t))

Spec == Init /\ [][Next]_vars /\ Fairness

----------------------------------------------------------------------------
(* Properties                                                              *)

\* Every variable stays in its range; in particular HandleCount, which
\* ExpAllocateHandleTableEntry increments (778) and ExpFreeHandleTableEntry
\* decrements (298), counts exactly the handles the callers hold: the sum,
\* over the threads, of the entries each one owns.
TypeOK ==
  /\ FirstFree \in Indices /\ LastFree \in Indices
  /\ NextHandleNeedingPool \in {b * LOW_LEVEL_ENTRIES : b \in 1..MaxBlocks}
  /\ link \in [Indices -> Indices \cup {SentinelLink}]
  /\ HandleCount = MapThenSumSet(LAMBDA t : Cardinality(held[t]), Threads)
  /\ HandleTableLock \in [0..3 -> [excl : Threads \cup {NoThread},
                                   shared : SUBSET Threads]]
  /\ OldValue \in [Threads -> Indices] /\ NewValue \in [Threads -> Int]
  /\ Moved \in [Threads -> Indices] /\ entry \in [Threads -> Indices]
  /\ target \in [Threads -> {"FirstFree", "LastFree"}]
  /\ ok \in [Threads -> BOOLEAN] /\ waitIdx \in [Threads -> 1..3]
  /\ held \in [Threads -> SUBSET Indices] /\ grants \in [Indices -> 0..2]

\* The entries reachable from list head h through NextFreeTableEntry.
RECURSIVE ChainFrom(_, _)
ChainFrom(h, seen) ==
  IF h \notin Indices \/ h = 0 \/ h \in seen THEN seen
  ELSE ChainFrom(link[h], seen \cup {h})

\* The ASSERTs of ExpFreeHandleTableEntry and ExpAllocateHandleTableEntry:
\* both list heads, and every entry reachable from them, are committed
\* entries below NextHandleNeedingPool and never a block's reserved first
\* entry, so the lookup an allocator does on a popped value never fails.
\* It depends on the slow path committing the block before it publishes
\* the chain, and on the chain starting past the sentinel.
FreeHeadsCommitted ==
  \A n \in ChainFrom(FirstFree, {}) \cup ChainFrom(LastFree, {}) :
    n \in Committed /\ ~IsSentinel(n)

\* No entry is handed out by ExpAllocateHandleTableEntry twice without
\* being freed in between (the spec's Uniqueness property).
UniqueAllocation == \A n \in Indices : grants[n] <= 1

\* ExpMoveFreeHandles never reaches its ASSERT(FALSE): when it installs the
\* chain it took from LastFree, FirstFree is still empty, so the chain is
\* not dropped.
MoveNeverAbandonsChain ==
  \A t \in Threads : pc[t] = "m_cas" => FirstFree = 0

WaitingForLock(t) == pc[t] \in {"a_lock0", "a_lookup", "m_wait"}

\* Every thread that waits for one of the four HandleTableLock pushlocks
\* (growth, the shared pop locks, ExpMoveFreeHandles' ExWaitOnPushLock)
\* eventually gets past it: every path through the allocator releases the
\* locks it takes.
LockWaitersProgress ==
  \A t \in Threads : WaitingForLock(t) ~> ~WaitingForLock(t)

====
