------------------------------ MODULE HandleDup ------------------------------
(***************************************************************************)
(* ExDupHandleTable (src/ntoskrnl/ex/handle.c) copying a source table      *)
(* into a new one while the source's own threads keep creating, locking,  *)
(* unlocking and destroying handles and growing the source.               *)
(*                                                                         *)
(* Entries are named by index n (handle value 4n); index 0 of every block  *)
(* is the reserved entry.  A source entry's Value is "Empty" (0),          *)
(* "Unlocked" (object, lock bit set) or "Locked"; Inherit is its          *)
(* audit-mask bit.  The entry lock's blocking protocol is HandleEntryLock's; *)
(* here a locker waits until the entry is not locked.  The duplicate      *)
(* callback is an input: it returns TRUE or FALSE, and it releases the    *)
(* source entry or not as DupCallbacks says.                              *)
(***************************************************************************)
EXTENDS Integers, FiniteSets, SequencesExt

CONSTANTS
  Threads,             \* threads of the source process
  LOW_LEVEL_ENTRIES,   \* entries per low-level table
  MaxBlocks,           \* blocks the source table may grow to
  DupCallbacks         \* subset of {"unlock", "keep"}: what the callback does to the source entry

ASSUME /\ LOW_LEVEL_ENTRIES \in {2^k : k \in 1..4}
       /\ MaxBlocks >= 1
       /\ DupCallbacks \subseteq {"unlock", "keep"} /\ DupCallbacks # {}

Indices == 0 .. MaxBlocks * LOW_LEVEL_ENTRIES - 1
IsReserved(n) == n % LOW_LEVEL_ENTRIES = 0
Handles == {n \in Indices : ~IsReserved(n)}
Committed(n, blocks) == n < blocks * LOW_LEVEL_ENTRIES
Dup == "dup"
NoOwner == "none"

VARIABLES
  srcBlocks,          \* source NextHandleNeedingPool, in blocks
  Value,              \* source entries
  Inherit,            \* source entries' audit bit
  holder,             \* who holds each source entry's lock (history)
  dpc,                \* the dup's program counter
  newBlocks,          \* NewTable->NextHandleNeedingPool, in blocks
  Handle,             \* the dup's Handle, as an index
  Failed,             \* the dup's Failed flag
  NewValue,           \* new table entries: "Uninit", "Reserved", "Live", "Free"
  NextFreeTableEntry, \* new table entries' free links
  FirstFree,          \* NewTable->FirstFree, as an index
  HandleCount,        \* NewTable->HandleCount
  copiedUnmasked      \* a live copy lacked the audit bit (history)

srcVars == << srcBlocks, Value, Inherit, holder >>
dupVars == << dpc, newBlocks, Handle, Failed, NewValue, NextFreeTableEntry,
              FirstFree, HandleCount, copiedUnmasked >>
vars == << srcVars, dupVars >>

\* Entries of a block just allocated: ExpAllocateLowLevelTable and
\* ExpAllocateHandleTable with DoInit / NewTable FALSE write only entry 0;
\* the page is not zeroed.
FreshBlock(b, nv) ==
  [n \in Indices |-> IF n \div LOW_LEVEL_ENTRIES = b
                     THEN IF IsReserved(n) THEN "Reserved" ELSE "Uninit"
                     ELSE nv[n]]

\* The source table starts as ExpAllocateHandleTable leaves it (one block,
\* no handles); its thread fills it before or while the dup runs.  The new
\* table from ExpAllocateHandleTable(Process, FALSE): one block.
Init ==
  /\ srcBlocks = 1
  /\ Value = [n \in Indices |-> "Empty"]
  /\ Inherit = [n \in Indices |-> FALSE]
  /\ holder = [n \in Indices |-> NoOwner]
  /\ dpc = "grow"
  /\ newBlocks = 1
  /\ Handle = 1
  /\ Failed = FALSE
  /\ NewValue = FreshBlock(0, [n \in Indices |-> "Uninit"])
  /\ NextFreeTableEntry = [n \in Indices |-> 0]
  /\ FirstFree = 0
  /\ HandleCount = 0
  /\ copiedUnmasked = FALSE

----------------------------------------------------------------------------
(* The source process's threads.                                          *)

Holds(t) == \E n \in Indices : holder[n] = t

\* ExCreateHandle: an empty committed entry gets an object.
ThreadCreate(t) ==
  /\ ~Holds(t)
  /\ \E n \in Handles, b \in BOOLEAN :
       /\ Committed(n, srcBlocks) /\ Value[n] = "Empty"
       /\ Value' = [Value EXCEPT ![n] = "Unlocked"]
       /\ Inherit' = [Inherit EXCEPT ![n] = b]
  /\ UNCHANGED << srcBlocks, holder >>
  /\ UNCHANGED dupVars

\* ExpAllocateHandleTableEntrySlow, when no committed entry is free.
ThreadGrow(t) ==
  /\ ~Holds(t)
  /\ srcBlocks < MaxBlocks
  /\ \A n \in Handles : Committed(n, srcBlocks) => Value[n] # "Empty"
  /\ srcBlocks' = srcBlocks + 1
  /\ UNCHANGED << Value, Inherit, holder >>
  /\ UNCHANGED dupVars

\* ExpLockHandleTableEntry's CAS, for ExMapHandleToPointer or ExDestroyHandle.
ThreadLock(t) ==
  /\ ~Holds(t)
  /\ \E n \in Handles :
       /\ Value[n] = "Unlocked"
       /\ Value' = [Value EXCEPT ![n] = "Locked"]
       /\ holder' = [holder EXCEPT ![n] = t]
  /\ UNCHANGED << srcBlocks, Inherit >>
  /\ UNCHANGED dupVars

\* ExUnlockHandleTableEntry after a map, or ExDestroyHandle clearing the
\* locked entry.
ThreadRelease(t) ==
  \E n \in Indices :
    /\ holder[n] = t
    /\ \/ Value' = [Value EXCEPT ![n] = "Unlocked"] /\ UNCHANGED Inherit
       \/ Value' = [Value EXCEPT ![n] = "Empty"]
          /\ Inherit' = [Inherit EXCEPT ![n] = FALSE]
    /\ holder' = [holder EXCEPT ![n] = NoOwner]
    /\ UNCHANGED srcBlocks
    /\ UNCHANGED dupVars

----------------------------------------------------------------------------
(* ExDupHandleTable.                                                       *)

\* while (NewTable->NextHandleNeedingPool < HandleTable->NextHandleNeedingPool)
\* ExpAllocateHandleTableEntrySlow(NewTable, FALSE); on failure the new
\* table is freed and NULL returned.
DupGrow ==
  /\ dpc = "grow"
  /\ IF newBlocks < srcBlocks
       THEN \/ /\ newBlocks' = newBlocks + 1
               /\ NewValue' = FreshBlock(newBlocks, NewValue)
               /\ UNCHANGED dpc
            \/ /\ dpc' = "failed"
               /\ UNCHANGED << newBlocks, NewValue >>
       ELSE /\ dpc' = "lookup"
            /\ UNCHANGED << newBlocks, NewValue >>
  /\ UNCHANGED << Handle, Failed, NextFreeTableEntry, FirstFree, HandleCount,
                  copiedUnmasked >>
  /\ UNCHANGED srcVars

\* while ((NewEntry = ExpLookupHandleTableEntry(NewTable, Handle))):
\* NULL once Handle reaches the new table's boundary; then the table is
\* inserted into the global list.
DupLookup ==
  /\ dpc = "lookup"
  /\ dpc' = IF Committed(Handle, newBlocks) THEN "mask" ELSE "done"
  /\ UNCHANGED << newBlocks, Handle, Failed, NewValue, NextFreeTableEntry,
                  FirstFree, HandleCount, copiedUnmasked >>
  /\ UNCHANGED srcVars

\* Mutant: Handle += SizeOfHandle(1) only, without skipping the reserved
\* entry of the next block.
FinishNoSkip(failed, nv) ==
  /\ Failed' = failed
  /\ IF failed
       THEN /\ NewValue' = [NewValue EXCEPT ![Handle] = "Free"]
            /\ NextFreeTableEntry' = [NextFreeTableEntry EXCEPT ![Handle] = FirstFree]
            /\ FirstFree' = Handle
       ELSE /\ NewValue' = [NewValue EXCEPT ![Handle] = nv]
            /\ UNCHANGED << NextFreeTableEntry, FirstFree >>
  /\ Handle' = Handle + 1
  /\ dpc' = IF (Handle + 1) % LOW_LEVEL_ENTRIES # 0 THEN "mask" ELSE "lookup"

\* The end of one entry, whose new value so far is nv: if (Failed) push
\* NewEntry on the new free list (Object = NULL); Handle +=
\* SizeOfHandle(1), and past the block's last entry skip the next block's
\* reserved entry and look it up again.
Finish(failed, nv) ==
  /\ Failed' = failed
  /\ IF failed
       THEN /\ NewValue' = [NewValue EXCEPT ![Handle] = "Free"]
            /\ NextFreeTableEntry' = [NextFreeTableEntry EXCEPT ![Handle] = FirstFree]
            /\ FirstFree' = Handle
       ELSE /\ NewValue' = [NewValue EXCEPT ![Handle] = nv]
            /\ UNCHANGED << NextFreeTableEntry, FirstFree >>
  /\ IF (Handle + 1) % LOW_LEVEL_ENTRIES # 0
       THEN /\ Handle' = Handle + 1
            /\ dpc' = "mask"
       ELSE /\ Handle' = Handle + 2
            /\ dpc' = "lookup"

\* if (!(HandleTableEntry->Value & Mask)) Failed = TRUE.  The read is of the
\* unlocked entry; a locked entry keeps its attribute bits.
DupCheckMask ==
  /\ dpc = "mask"
  /\ IF Value[Handle] = "Empty" \/ ~Inherit[Handle]
       THEN Finish(TRUE, "Uninit")
       ELSE /\ dpc' = "lock"
            /\ UNCHANGED << Handle, Failed, NewValue, NextFreeTableEntry, FirstFree >>
  /\ UNCHANGED << newBlocks, HandleCount, copiedUnmasked >>
  /\ UNCHANGED srcVars

\* ExpLockHandleTableEntry(HandleTable, HandleTableEntry): FALSE if the
\* entry was freed meanwhile; waits while it is locked.
DupLock ==
  /\ dpc = "lock"
  /\ Value[Handle] # "Locked"
  /\ IF Value[Handle] = "Empty"
       THEN /\ Finish(TRUE, "Uninit")
            /\ UNCHANGED << Value, holder >>
       ELSE /\ Value' = [Value EXCEPT ![Handle] = "Locked"]
            /\ holder' = [holder EXCEPT ![Handle] = Dup]
            /\ dpc' = "callback"
            /\ UNCHANGED << Handle, Failed, NewValue, NextFreeTableEntry, FirstFree >>
  /\ UNCHANGED << newBlocks, HandleCount, copiedUnmasked, srcBlocks, Inherit >>

\* The callback releases the source entry or not, as DupCallbacks says.
CallbackRelease(cb) ==
  IF cb = "unlock"
    THEN /\ Value' = [Value EXCEPT ![Handle] = "Unlocked"]
         /\ holder' = [holder EXCEPT ![Handle] = NoOwner]
    ELSE UNCHANGED << Value, holder >>

\* Mutant: a successful callback leaves Failed as an earlier entry set it.
DupCallbackKeepsFailed ==
  /\ dpc = "callback"
  /\ \E ok \in BOOLEAN, cb \in DupCallbacks :
       /\ CallbackRelease(cb)
       /\ Finish(IF ok THEN Failed ELSE TRUE, "Live")
       /\ HandleCount' = IF ok THEN HandleCount + 1 ELSE HandleCount
       /\ copiedUnmasked' = (copiedUnmasked \/ (ok /\ ~Inherit[Handle]))
  /\ UNCHANGED << newBlocks, srcBlocks, Inherit >>

\* *NewEntry = *HandleTableEntry, then DupHandleProcedure: on TRUE,
\* Failed = FALSE, NewEntry->Value |= LOCK_BIT and HandleCount++; on FALSE,
\* Failed = TRUE.  The source entry stays locked unless the callback
\* releases it.
DupCallback ==
  /\ dpc = "callback"
  /\ \E ok \in BOOLEAN, cb \in DupCallbacks :
       /\ CallbackRelease(cb)
       /\ Finish(~ok, "Live")
       /\ HandleCount' = IF ok THEN HandleCount + 1 ELSE HandleCount
       /\ copiedUnmasked' = (copiedUnmasked \/ (ok /\ ~Inherit[Handle]))
  /\ UNCHANGED << newBlocks, srcBlocks, Inherit >>

----------------------------------------------------------------------------
Thread(t) == \/ ThreadCreate(t)
             \/ ThreadGrow(t)
             \/ ThreadLock(t)
             \/ ThreadRelease(t)

DupStep == \/ DupGrow
           \/ DupLookup
           \/ DupCheckMask
           \/ DupLock
           \/ DupCallback

Next == DupStep \/ \E t \in Threads : Thread(t)

Spec == Init /\ [][Next]_vars

----------------------------------------------------------------------------
(* Properties.                                                            *)

\* The new table's free list from FirstFree, following NextFreeTableEntry
\* until 0, at most k entries.
RECURSIVE FreeChain(_, _)
FreeChain(n, k) ==
  IF n = 0 \/ k = 0 THEN << >>
  ELSE << n >> \o FreeChain(NextFreeTableEntry[n], k - 1)

\* Every variable in its range; in particular the dup's walk only ever
\* puts handles, never a block's reserved entry, at the head of the new
\* free list.
TypeOK ==
  /\ srcBlocks \in 1 .. MaxBlocks
  /\ Value \in [Indices -> {"Empty", "Unlocked", "Locked"}]
  /\ holder \in [Indices -> Threads \cup {Dup, NoOwner}]
  /\ dpc \in {"grow", "lookup", "mask", "lock", "callback", "done", "failed"}
  /\ newBlocks \in 1 .. MaxBlocks
  /\ Handle \in 1 .. MaxBlocks * LOW_LEVEL_ENTRIES + 1
  /\ FirstFree \in {0} \cup Handles
  /\ NewValue \in [Indices -> {"Uninit", "Reserved", "Live", "Free"}]
  /\ HandleCount \in 0 .. Cardinality(Handles)

\* When ExDupHandleTable returns the new table, every handle below its
\* boundary was filled: each is either a live copy or on the free list,
\* the free list from FirstFree holds exactly the free ones, each once,
\* no reserved entry is on it, and HandleCount counts the live ones.  The
\* pages were not zeroed, so an entry the walk skipped would be garbage.
DupTableConsistent ==
  dpc = "done" =>
    LET Below == {n \in Handles : Committed(n, newBlocks)}
        chain == FreeChain(FirstFree, Cardinality(Handles) + 1)
    IN /\ \A n \in Below : NewValue[n] \in {"Live", "Free"}
       /\ \A n \in Indices : IsReserved(n) /\ Committed(n, newBlocks)
                              => NewValue[n] = "Reserved"
       /\ ToSet(chain) = {n \in Indices : NewValue[n] = "Free"}
       /\ IsInjective(chain)
       /\ Len(chain) <= Cardinality(Handles)
       /\ HandleCount = Cardinality({n \in Indices : NewValue[n] = "Live"})

\* Every handle the new table holds carries the audit bit ExDupHandleTable
\* selects with Mask (spec 4.5: only entries whose value intersects the
\* mask are copied).  The mask is tested on the unlocked entry and the
\* entry is copied after ExpLockHandleTableEntry, with no re-check.
DupCopiesOnlyMasked == ~copiedUnmasked

====
