# TLA+ models of the executive handle table

These modules mostly model the handle table of the NT executive, `src/ntoskrnl/ex/handle.c`.
A handle table maps small integers (handles) to object pointers. Many threads use it
concurrently, and much of it is lock-free.

Two other parts of `src/` that have control worth checking are modelled on their own. Neither
interacts with the handle table:

- the event selection of the Winsock helper DLL, `src/dll/win32/msafd/misc/event.c`;
- the FAT16 formatter, `src/lib/fslib/vfatlib/fat16.c`.

The remaining files are listed in `PROJECT.json` as not modelled, each with the reason.

## The system

| Part | Code | State | Operations |
|---|---|---|---|
| Table-level allocator | `ExpAllocateTablePagedPool*`, `ExpFreeTablePagedPool` | pool pages, quota | allocate/free pages, which may fail |
| Multi-level index | `ExpLookupHandleTableEntry`, the level code of `ExpAllocateHandleTableEntrySlow` | `TableCode` (base plus level 0..2), `NextHandleNeedingPool` (the commit boundary) | lookup, grow by one low-level block |
| Free lists and entry allocator | `ExpAllocateHandleTableEntry`, `ExpMoveFreeHandles`, `ExpFreeHandleTableEntry` | `FirstFree`, `LastFree`, `NextFreeTableEntry` links, `HandleCount`, four `HandleTableLock` pushlocks | pop (CAS under a shared lock), move `LastFree` to `FirstFree` under lock 0, grow, push (CAS) |
| Entry locking | `ExpLockHandleTableEntry`, `ExpBlockOnLockedHandleEntry`, `ExUnlockHandleTableEntry` | bit 0 of each entry's value (set = unlocked; 0 = no object), the `HandleContentionEvent` pushlock | lock (CAS loop), block and re-check, unlock (OR, then wake everyone) |
| Table operations | `ExCreateHandle`, `ExDestroyHandle`, `ExMapHandleToPointer`, `ExChangeHandle`, `ExEnumHandleTable`, `ExSweepHandleTable`, `ExDupHandleTable`, `ExCreate/DestroyHandleTable` | all of the above | |
| Global table list | `ExCreateHandleTable`, `ExRemoveHandleTable`, `ExDestroyHandleTable` | `HandleTableListHead` under `HandleTableListLock` | insert, remove |

How the parts interact:

- Every operation finds its entry through the index.
- `ExCreateHandle` takes an entry from the free lists, and `ExDestroyHandle` returns one to them.
- When both lists are empty, the allocator grows the index under lock 0.
- Threads that want the same entry are arbitrated by the entry lock.
- A thread that finds an entry locked blocks on the contention event. Every unlock and every destroy wakes it.

The hard behaviours are these:

- **Lock-free free lists.** Two heads are manipulated with CAS, so ABA is possible. The four pushlocks exist to rule it out: a popper holds the lock of the index it pops, shared. A free must then not put that index back where the popper's CAS can succeed on a stale link.
- **The move.** `ExpMoveFreeHandles` swaps `LastFree` out and then CASes it into `FirstFree`. These are two steps.
- **Growth.** Growth publishes the new tree, raises the boundary, then pushes the new chain.
- **Waiting.** A waiter registers on the contention event and then re-checks the entry. This guards against a lost wakeup.
- **Checks without the lock.** Destroy, change and enumerate check the entry without the lock before locking it.
- **Sweep and dup leave entries locked.** `ExSweepHandleTable` and `ExDupHandleTable` lock entries and never unlock them themselves.

The model follows a free (release) build, in which an `ASSERT` is not evaluated. `ASSERT`
is not defined under `src/`, so this is an assumption about the build. An `ASSERT` is
therefore stated as a property, and the model follows the code past it. `Flags` is 0, so `StrictFIFO` is never set.

## Modules

### `HandleFreeList`: the free lists and the allocator

This module models `ExpAllocateHandleTableEntry`, `ExpMoveFreeHandles`,
`ExpAllocateHandleTableEntrySlow` with `DoInit = TRUE`, and `ExpFreeHandleTableEntry`.

- **Steps.** Each shared-memory access of the code is one step of the thread doing it: a read of `FirstFree`, a CAS, or a pushlock acquire or release.
- **State.** The variables are the table fields of the same names. `link[n]` is `NextFreeTableEntry`. `pc` holds the threads' program counters, and there are the code's locals.
- **Handles.** Handle value `4n` is index `n`.
- **Pushlocks.** A pushlock is a record `[excl, shared]`.
  - Exclusive acquisition waits for the lock to be free.
  - Shared acquisition waits only for no exclusive holder.
  - `ExWaitOnPushLock` waits until the lock is free and does not keep it.
- **Growth.** It is one step up to the `InterlockedExchangeAdd` of the boundary, then the chain push loop. Its pool failure and the capacity limit are a nondeterministic failure.
- **Callers.** A caller holds at most `MaxHeld` handles (`held`, a history variable) and frees only handles it holds.
- **Grants.** `grants[n]` counts how often `n` is currently handed out.

### `HandleEntryLock`: the entry lock and the operations that use it

This module models the lock, block and unlock functions step by step, together with
`ExCreateHandle`, `ExDestroyHandle`, `ExMapHandleToPointer`, `ExChangeHandle`,
`ExEnumHandleTable` and `ExSweepHandleTable`. Each operation continues at the point the code
continues after lock and unlock return, given by `AfterLock` and `AfterUnlock`.

- **Entry values.** An entry value is one of four:
  - `Empty` (0);
  - `Unlocked` (an object with the bit set);
  - `Locked`;
  - `Bogus` (0 with the bit set). This is what `InterlockedOr` makes of a cleared entry, and it passes every `Object != NULL` check.
- **Object identity.** The identity of objects is abstracted.
- **Allocation and freeing.** These are one step each on `freeEntries`. Their steps are `HandleFreeList`'s.
- **The contention event.** `HandleContentionEvent` is the set of queued, unsignalled waiters. `ExfUnblockPushLock(.., NULL)` empties it. A waiter's own unblock removes only itself.
- **Callbacks.** The callbacks are inputs:
  - a change callback does nothing the model tells apart;
  - an enumerate callback returns TRUE or FALSE;
  - a sweep callback is "close" or "inspect" (`SweepCallbacks`). "Close" destroys the entry with the entry given, as a process-exit sweep does. "Inspect" leaves the entry as it is.
- **Ownership.** `owns` is a history variable: the entries each thread has locked or written.

### `HandleTableAbstract`: what the table operations promise

This module is the abstract specification of the table operations. Each operation is one
atomic step on two functions of the entry:

- `state[e]` is `Free`, `Reserved`, `Object` or `Dead`;
- `holders[e]` is the set of threads holding the entry.

An entry goes round `Free -> Reserved -> Object -> Dead -> Free`, by these steps:

- `Reserve` and `Publish` are `ExCreateHandle`;
- `Acquire` and `Release` are the entry lock;
- `Kill` and `Free` are `ExDestroyHandle`.

`Acquire` needs an entry with an object that nobody holds.

`HandleEntryLock` ends with the refinement mapping. `AbsHolders` is the lock owners (`owns`)
plus the thread that is creating or destroying the entry (by its `pc`). `AbsState` is the
following, by cases:

- `Free` for an entry on the free lists;
- `Object` while `Value` is not 0;
- `Reserved` while a creator is about to write it;
- `Dead` otherwise.

`Abs == INSTANCE HandleTableAbstract WITH state <- AbsState, holders <- AbsHolders`. The
property `HandleTableRefined == Abs!Spec` says that every step of the interleaved code is one
abstract operation or a stutter. The lock-free block and wake steps, the callbacks and the
walks' cursor moves are the stutters.

### `HandleTableIndex`: the multi-level index

This module models `ExpLookupHandleTableEntry`, the index check of `ExMapHandleToPointer`,
the level code of `ExpAllocateHandleTableEntrySlow` and the walk of `ExpFreeHandleTable`.

- **Arithmetic.** Handle values keep the code's byte scaling: a handle is 4 per index, an
  entry 8 bytes, a pointer 4 bytes. The lookup is translated offset by offset: `Level0Offset`,
  `LowOffset`, `MidOffset` and `HighOffset`. `RefIndex`, `RefBlock` and `RefSlot` are a
  reference decomposition the lookup is checked against.
- **Tables.** Pages are ids. `mem` holds a mid or high table's pointer slots.
- **The grower.** The grower holds `HandleTableLock[0]`. Its steps follow the code:
  1. `GrowAllocate` allocates the new tables for the current level, or `GrowAllocateFails`
     frees what it took.
  2. `GrowPublish` writes `TableCode` or the new pointer.
  3. `GrowCommit` raises `NextHandleNeedingPool`.
- **Lookups.** A lookup is four steps, each one shared-memory read of the code:
  1. read `NextHandleNeedingPool`;
  2. read `TableCode`;
  3. read the high table;
  4. read the mid table.
- **The free walk.** `FreedTables` is `ExpFreeHandleTable`'s walk, written as a sequence of
  the tables it frees.
- **The end of the table.** `listed` says whether the table is on `HandleTableListHead`;
  `ExCreateHandleTable` has put it there (`Init`). `ExRemoveHandleTable` takes it off, and
  again is a no-op, because the code re-initialises the entry to point to itself.
  `ExDestroyHandleTable` removes it and then runs the free walk. It runs only once no growth or
  lookup is in progress, as its callers guarantee. After it nothing runs.

### `HandleDup`: `ExDupHandleTable`

This module models the dup step by step, against a source thread:

- the new table's `DoInit = FALSE` growth, with its failure;
- the `Mask` test, the lock, the copy, the callback and the choice between counting the
  entry and pushing it on the free list;
- the skip of the reserved entry at each block end.

Its state is as follows:

- **The source entries.** `Value` is `Empty`, `Unlocked` or `Locked`. `Inherit` is the audit
  bit the mask selects.
- **The source thread.** It creates, locks, destroys and grows the source table while the
  dup runs.
- **The new table.** `NewValue` is `Uninit`, `Reserved`, `Live` or `Free`. The table comes
  from the unzeroed pool, so an entry the dup never writes stays `Uninit`.
- **History.** `copiedUnmasked` is a history variable: a copy of an entry without the bit.

`DupHandleProcedure` is not in `src/`. `DupCallbacks` says whether it unlocks the source
entry ("unlock") or leaves it locked ("keep").

### `MsafdEvent`: `WSPEventSelect` and `WSPEnumNetworkEvents`

This module models the two functions of `event.c`. One application thread calls them.

- **Event masks.** An event mask is a set of names. `SelectEvents` is the FD-to-AFD
  translation of lines 62-92, and `EnumEvents` the AFD-to-FD one of lines 204-244.
- **Calls.** Each call may:
  - fail in `NtCreateEvent`;
  - find no socket;
  - get an IOCTL outcome of success, failure or pending. A pending IOCTL completes later
    (`EventSelectComplete`, `EnumComplete`), and network activity may come in between.
- **The socket.** The socket fields are the variables of the same names.
- **The driver.** The AFD driver is the environment (`AfdEventSelect`, `AfdEnum`,
  `NetworkActivity`). It keeps a selection and the events raised but not yet enumerated, and
  an enumeration hands over and forgets the selected ones.
- **`*lpErrno`.** `errnoSet` records whether the call wrote `*lpErrno`.

### `Fat16Format`: the FAT16 formatter

The geometry is a set of operators over the inputs:

- `ClusterSizeOf`;
- `GetShiftCount`, translated as its loop, `RECURSIVE`;
- `SectorCount`, `SectorsPerCluster` (with its `UCHAR` width), `SectorsField` and `SectorsHuge`;
- `RootDirSectors`, `FATSectors` (with its `& 0xffff`) and `TotalSectorCount`.

The rest is steps:

- **Writers.** Each writer is a start step, a chunk-loop step and an end step. The start
  step allocates the buffer and, for the FAT, writes the first sector. The writers are
  `WriteBootSector`, `FatStart`/`FatChunk`/`FatEnd` (run for both copies) and
  `RootStart`/`RootChunk`/`RootEnd`.
- **Failure.** Every heap allocation and every `NtWriteFile` may fail. `Fail` ends the format
  with the error, as `Fat16Format`'s checks after each writer do.
- **Writes.** A write is an extent: its first sector, its number of sectors, and whether it
  starts with the media marker, which is what the reused buffer holds.
- **Not modelled.** The boot sector's other fields (names, label, serial, CHS) are left out.
  No property reads them.

### MC modules

Each `MC` module extends its module. `MCHandleFreeList`, `MCHandleEntryLock` and
`MCHandleDup` define the thread symmetry; threads and event objects are model values from the
cfg.

## Runs

| Run | cfg | Result | What it shows |
|---|---|---|---|
| free_list_safety | FreeListSafety.cfg (2 threads, LOW = 4, 2 blocks, 1 handle each, symmetry) | pass, about 356k states | `TypeOK` (`HandleCount` equals the number of entries the threads hold), `FreeHeadsCommitted` (every entry on either list is committed and not a block's reserved entry), `UniqueAllocation` |
| free_list_liveness | FreeListLiveness.cfg (1 block) | pass | `LockWaitersProgress`: whoever waits for a `HandleTableLock` gets past it |
| free_list_aba | FreeListABA.cfg (2 handles each) | **violation** | `UniqueAllocation` breaks: see finding 1 |
| free_list_move_leak | FreeListMoveLeak.cfg | **violation** | `MoveNeverAbandonsChain` breaks: see finding 2 |
| entry_lock_safety | EntryLockSafety.cfg (3 threads, 2 entries, close callbacks, symmetry) | pass, about 698k states | `TypeOK` (no `Bogus` value) and `EntryLockExclusive`: an entry is locked exactly when one thread holds it, and a free entry holds nothing |
| entry_lock_liveness | EntryLockLiveness.cfg (2 threads, 2 entries) | pass, about 31k states | `WaitersWoken` (no lost wakeup), `EntryLocksReleased` (every lock is given back), `HandleTableRefined` (the code implements `HandleTableAbstract`) |
| entry_lock_sweep | EntryLockSweep.cfg (inspect callbacks, no deadlock check) | **violation** | `EntryLocksReleased` breaks: see finding 3 |
| index_safety | IndexSafety.cfg (1 lookup thread, LOW = 2, MID = 3, HIGH = 3, 14 pages) | pass, about 297k states, no deadlock check | `TypeOK` (a lookup never faults), `LookupFindsEntry` (a lookup racing growth returns exactly the entry its handle names, or NULL when the handle is not yet committed or the index mask rejects it), `FreeWalkReleasesAll` (the free walk frees every live table once, after failed growths too; after `ExDestroyHandleTable` no page is left and the table is off the global list) |
| dup_safety | DupSafety.cfg (1 source thread, LOW = 4, 2 blocks, unlocking callback) | pass, about 2.3M states | `TypeOK`, `DupTableConsistent`: when the dup ends, every handle below the boundary is `Live` or `Free`, the reserved entries are untouched, the free chain holds exactly the `Free` entries once each, and `HandleCount` counts the `Live` ones |
| dup_mask_recheck | DupMaskRecheck.cfg (1 block) | **violation** | `DupCopiesOnlyMasked` breaks: see finding 4 |
| msafd_event_safety | MsafdEventSafety.cfg (1 event object, CONNECT/CLOSE and an unknown bit selectable, RECEIVE/CONNECT_FAIL/ABORT raised) | pass, about 13k states | `TypeOK` and `NoSelectedEventLost`: a raised event of a selected kind is in the driver's selection, and every event an enumeration collects is reported as an FD event the socket selected, over pending and failing IOCTLs |
| fat16_format | Fat16Format.cfg (7 partition sizes, 512/1024-byte sectors, default/4 KB/32 KB clusters, no deadlock check) | pass, 884 states | `FormatLayout` (a successful format writes sectors 0 .. `TotalSectorCount` - 1 once each, inside the partition, with the media marker only at the two FAT starts, and reports exactly that progress), `VolumeGeometry` (the shifted sector count is the partition length in sectors, stored in `Sectors` or `SectorsHuge` at the 0x10000 boundary), `HeapBalanced` (no buffer leaks on any failure path) |

Every property of a passing run has a mutant in `PROJECT.json`: a plausible bug in the
mapped definition that TLC catches. Examples:

- `FD_CONNECT` selecting only `AFD_EVENT_CONNECT`, so a connect failure is never reported;
- the media-marker `memset` dropped;
- `GetShiftCount` off by one;
- a failing chunk write that does not free its buffer.

**Bounds.**

- **Free lists.** Two threads, four entries per block (one reserved) and two blocks give:
  - pops racing pushes on both heads;
  - a move racing a free;
  - growth racing a pop;
  - the capacity failure.
- **The passing free-list run caps callers at one handle each.** With two handles per thread the ABA of finding 1 occurs, so uniqueness cannot be checked there. That bound is therefore the violation run.
- **Entry lock.** Three threads on two entries suffice for a lock race with a third thread blocked. They also allow a destroy racing a lock, and enumerate or sweep walking past entries other threads create and destroy.
- **Index.** `LOW = 2, MID = 3, HIGH = 3` makes every growth arm happen within 14 pages:
  - level 0 → 1;
  - a new low table in the mid table;
  - level 1 → 2;
  - a new low table under an existing mid table;
  - a new mid table;
  - the capacity stop at 9 blocks.

  One lookup thread suffices, because lookups do not write. Reversing either of the two
  orderings the code relies on breaks `LookupFindsEntry`. The two orderings are:
  - the lookup reads `NextHandleNeedingPool` (line 47) before `TableCode`;
  - the grower publishes before its `InterlockedExchangeAdd` (line 605).
- **Dup.** Two blocks let the source grow while the new table grows. The source thread can destroy and re-create an entry between every two dup steps.
- **Event select.** One event object and three selectable bits (one of them unknown to the DLL) are enough. They cover both translations that map several AFD events to one FD event, and an unknown bit. The raised events include one outside the selection.
- **Format.** The format is sequential, so the inputs are the point. The partition sizes lie:
  - at every boundary of the default cluster size (16, 128 and 256 MB, and just below them);
  - at 0x10000 sectors (32 MB);
  - at the ends of the FAT16 range.

  The FAT then takes from 1 to 8 chunks, and the last chunk is clamped.

**Fairness.** Threads are preemptively scheduled, so a thread inside an operation keeps being
run (weak fairness on its steps). Idle callers may stay idle. Pushlock acquisition in
`HandleFreeList` is strongly fair: a pushlock queues its waiters and wakes them on release. In
`HandleEntryLock` a signalled waiter stays enabled, so weak fairness suffices there. The
other modules have only safety runs and no fairness. `HandleTableAbstract` has no fairness
either: the refinement is checked for its safety part, because the code promises no progress
to an idle caller.

The deadlock check is on everywhere except in three runs:

- **`entry_lock_sweep`.** With "inspect" callbacks the table really does stop: every thread
  ends up blocked on an entry nobody will unlock.
- **`fat16_format`.** `Fat16Format` returns, so a finished format has no next step.
- **`index_safety`.** A destroyed table has no next step. Before that, a lookup can always
  start, so the run has no other state without a successor.

## Findings

1. **ABA in the free path** (`handle.c:310`). `ExpFreeHandleTableEntry` pushes onto `FirstFree`
   when the entry's lock is held, and onto `LastFree` otherwise. Spec §4.3 states the
   opposite, which is the rule that protects a popper holding that lock. TLC's trace (32 steps):
   1. t2 reads `FirstFree = 1`, locks 1 shared and reads `next = 2`.
   2. t1 pops 1 and 2, then frees 1 onto `FirstFree`.
   3. t2's CAS 1 → 2 succeeds, so entry 2 is handed out while t1 still has it.
2. **Chain leak in the move** (`handle.c:656`).
   1. A free chooses `FirstFree` because its lock was held when it looked.
   2. It pushes after `ExpMoveFreeHandles` has swapped `LastFree` out.
   3. The move's CAS then fails and falls to `ASSERT(FALSE)`, which a free build does not evaluate.
   4. The moved chain is on no list, but its head is returned as `OldValue`.
3. **Sweep never unlocks** (`handle.c:1234`). Spec §4.5 and its open question ask for an unlock
   after each visit. A sweep callback that does not destroy the entry leaves it locked forever.
4. **Dup copies without the audit bit** (`handle.c:1105`). `ExDupHandleTable` tests
   `Value & Mask` on the unlocked entry, then locks it and copies it without testing again.
   Spec §4.5 says only entries whose value intersects the mask are copied. TLC's trace
   (11 steps):
   1. The dup sees an inheritable handle.
   2. The source thread destroys it and creates a handle without the bit in the same slot.
   3. The dup locks and copies that handle.

## Hazards without a checked property

`PROJECT.json` lists every hazard. Seven of them have no run that checks them. Two of those
are described elsewhere: the `ExDestroyHandleTable` procedure stub under "Not modelled", and a
waiter relocking a reused handle (`handle.c:1050`), which is handle reuse by design. The
other five are below.

- **`fat16.c:360`: the FAT can be one entry short.** `FATSectors` divides by
  `BytesPerSector/2 * SectorsPerCluster + 2` and leaves out the two reserved FAT entries.
  Evaluating the model's operators over every FAT16 partition size from 8400 to 1048575
  sectors of 512 bytes, with the default cluster size, gives 4589 sizes whose FAT has one
  entry fewer than the data area's clusters plus two. The first is 8769 sectors: 17 FAT
  sectors give 4352 entries, and 4351 clusters need 4353. `VolumeGeometry` therefore checks
  the sector-count fields only.
- **`fat16.c:322`: `SectorsPerCluster` can be 0.** This happens when the cluster size is
  below the sector size, for example the default 1 KB cluster on a disk with 2048-byte
  sectors. The FAT is then sized for one sector a cluster, and the layout no longer fits.
  At 4300800 bytes the format writes 2101 sectors into 2100. The run's inputs use 512- and
  1024-byte sectors, where this cannot happen.
- **`event.c:50`: the async select is not deactivated.** The comment says "Deactivate Async
  Select if there is one", but the test is on `Socket->EventObject`. For a socket under
  `WSPAsyncSelect` (`hWnd` set, no event object), the first successful `WSPEventSelect`
  leaves the following state, and the model reaches it in one step:
  - `hWnd` and `AsyncEvents` stay set;
  - `SequenceNumber` is not bumped.

  What the live async select then does is decided by code outside `src/`.
- **`event.c:33`: `*lpErrno` is not written.** When `NtCreateEvent` fails, both functions
  return -1, which is `SOCKET_ERROR`, without writing `*lpErrno`. The model records this in
  `errnoSet`. The rule that it must be written is the Winsock provider interface's, not this
  repository's.
- **`handle.c:1113`: the dup never unlocks the source entry.** `ExDupHandleTable` leaves each
  copied source entry locked for `DupHandleProcedure`. Whether that callback unlocks it
  cannot be decided from `src/`. With a callback that does not (`DupCallbacks = {"keep"}`),
  every copied source handle stays locked.

## Plan (next steps, most important first)

1. **`HandleTable`**: the entry lock composed with the real free lists, including the
   overwrite of `NextFreeTableEntry` by `*NewEntry = *HandleTableEntry`. The composition
   would be checked against `HandleTableAbstract`, as `HandleEntryLock` is now.
2. **The global table list with several tables**: the other tables' links on
   `HandleTableListHead`, where a second `RemoveEntryList` without the re-initialisation
   would corrupt neighbours that changed in between.

## Not modelled

- **Pool and quota calls.** These are I/O. Their failure is kept as nondeterminism.
- **The other tables on the global list.** Each insert and remove is one step under an
  exclusive lock. Only the modelled table's membership is kept.
- **`StrictFIFO`.** It is never set.
- **`ExDestroyHandleTable` with a destroy procedure.** This is an `ASSERT(FALSE)` stub, which a
  free build does not evaluate, so the procedure is never called. This is listed as a hazard. Objects
  are abstracted everywhere, so nothing checks it.
- **The AFD driver and the rest of msafd.** They are not in `src/`. Only `event.c` is, and the
  driver is its environment.
- **`CalcVolumeSerialNumber` and the boot sector's names and label.** These are data that no
  property reads.
- **The other unrelated files.** `init.c`, `perfpage.c`, `voice.c`, `palette.c`, `rdel.c` and
  `tcsrchr.h` are not modelled. The headers and `kbdindev.c` are declarations and data
  tables, and `decimfmt.cpp` is ICU library code.
