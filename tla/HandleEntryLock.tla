--------------------------- MODULE HandleEntryLock ---------------------------
(***************************************************************************)
(* The per-entry lock of the executive handle table and the operations    *)
(* that take it (src/ntoskrnl/ex/handle.c): ExpLockHandleTableEntry,       *)
(* ExpBlockOnLockedHandleEntry, ExUnlockHandleTableEntry, ExCreateHandle,  *)
(* ExDestroyHandle, ExMapHandleToPointer, ExChangeHandle,                  *)
(* ExEnumHandleTable and ExSweepHandleTable, run by several threads.       *)
(*                                                                         *)
(* An entry's Value is its object pointer with bit 0 (the lock bit) SET   *)
(* when the entry is unlocked; 0 means no object.  The object itself is   *)
(* abstracted away: Value is one of                                        *)
(*   Empty    - 0: free, not yet written, or destroyed                     *)
(*   Unlocked - object pointer | EXHANDLE_TABLE_ENTRY_LOCK_BIT             *)
(*   Locked   - object pointer with the bit clear                          *)
(*   Bogus    - 0 | EXHANDLE_TABLE_ENTRY_LOCK_BIT: what InterlockedOr      *)
(*              makes of an entry whose object was already cleared         *)
(* HandleContentionEvent, the pushlock waiters block on, is the set of     *)
(* threads whose wait block is queued and not yet signalled.               *)
(* Allocation and freeing of entries (HandleFreeList) are single steps    *)
(* here, on a set of free entries.                                         *)
(***************************************************************************)
EXTENDS Integers, FiniteSets

CONSTANTS
  Threads,         \* the threads using the table
  N,               \* committed entries 1..N (entry 0 is the reserved one)
  SweepCallbacks   \* what the ExSweepHandleTable callbacks do: "close", "inspect"

ASSUME /\ N \in Nat \ {0}
       /\ SweepCallbacks \subseteq {"close", "inspect"}

Empty == "Empty"
Unlocked == "Unlocked"
Locked == "Locked"
Bogus == "Bogus"

Entries == 1..N

VARIABLES
  Value,                  \* Value of every entry
  freeEntries,            \* entries on the free lists
  HandleContentionEvent,  \* threads queued on the contention pushlock
  pc,                     \* program counter of each thread
  op,                     \* operation each thread is in
  cur,                    \* entry the thread works on (the handle / cursor)
  found,                  \* result of an ExEnumHandleTable callback
  owns                    \* entries each thread holds locked (history)

vars == << Value, freeEntries, HandleContentionEvent, pc, op, cur, found, owns >>

Set(f, t, v) == [f EXCEPT ![t] = v]

\* Where a thread continues once ExpLockHandleTableEntry returns.
AfterLock(o, success) ==
  IF success
    THEN CASE o = "map"     -> "u_or"
           [] o = "change"  -> "ch_cb"
           [] o = "destroy" -> "d_clear"
           [] o = "enum"    -> "e_cb"
           [] o = "sweep"   -> "s_cb"
    ELSE CASE o = "enum"    -> "e_advance"
           [] o = "sweep"   -> "s_advance"
           [] OTHER         -> "idle"

\* Where a thread continues once ExUnlockHandleTableEntry returns.
AfterUnlock(t) ==
  IF op[t] = "enum" /\ ~found[t] THEN "e_advance" ELSE "idle"

\* Where a thread continues once ExDestroyHandle has freed the entry.
AfterDestroy(o) == IF o = "sweep" THEN "s_advance" ELSE "idle"

Init ==
  /\ Value = [e \in Entries |-> Empty]
  /\ freeEntries = Entries
  /\ HandleContentionEvent = {}
  /\ pc = [t \in Threads |-> "idle"]
  /\ op = [t \in Threads |-> "none"]
  /\ cur = [t \in Threads |-> 1]
  /\ found = [t \in Threads |-> FALSE]
  /\ owns = [t \in Threads |-> {}]

Start(t, o, e, next) ==
  /\ pc[t] = "idle"
  /\ pc' = Set(pc, t, next)
  /\ op' = Set(op, t, o)
  /\ cur' = Set(cur, t, e)

----------------------------------------------------------------------------
(* ExpLockHandleTableEntry and ExpBlockOnLockedHandleEntry                 *)

\* OldValue = Entry->Object: unlocked -> try the exchange; 0 -> return
\* FALSE; locked -> block.
LockRead(t) ==
  /\ pc[t] = "l_read"
  /\ pc' = Set(pc, t, CASE Value[cur[t]] \in {Unlocked, Bogus} -> "l_cas"
                        [] Value[cur[t]] = Empty -> AfterLock(op[t], FALSE)
                        [] OTHER -> "b_register")
  /\ UNCHANGED << Value, freeEntries, HandleContentionEvent, op, cur, found, owns >>

LockCasUnchecked(t) ==
  /\ pc[t] = "l_cas"
  /\ Value' = [Value EXCEPT ![cur[t]] = Locked]
  /\ owns' = Set(owns, t, owns[t] \cup {cur[t]})
  /\ pc' = Set(pc, t, AfterLock(op[t], TRUE))
  /\ UNCHANGED << freeEntries, HandleContentionEvent, op, cur, found >>

\* InterlockedCompareExchangePointer clearing the lock bit; a failed
\* exchange falls through to ExpBlockOnLockedHandleEntry.
LockCas(t) ==
  /\ pc[t] = "l_cas"
  /\ IF Value[cur[t]] \in {Unlocked, Bogus}
       THEN /\ Value' = [Value EXCEPT ![cur[t]] =
                           IF @ = Bogus THEN Empty ELSE Locked]
            /\ owns' = Set(owns, t, owns[t] \cup {cur[t]})
            /\ pc' = Set(pc, t, AfterLock(op[t], TRUE))
       ELSE /\ pc' = Set(pc, t, "b_register")
            /\ UNCHANGED << Value, owns >>
  /\ UNCHANGED << freeEntries, HandleContentionEvent, op, cur, found >>

BlockRegisterNoRecheck(t) ==
  /\ pc[t] = "b_register"
  /\ HandleContentionEvent' = HandleContentionEvent \cup {t}
  /\ pc' = Set(pc, t, "b_wait")
  /\ UNCHANGED << Value, freeEntries, op, cur, found, owns >>

\* ExBlockPushLock(&HandleContentionEvent, WaitBlock).
BlockRegister(t) ==
  /\ pc[t] = "b_register"
  /\ HandleContentionEvent' = HandleContentionEvent \cup {t}
  /\ pc' = Set(pc, t, "b_check")
  /\ UNCHANGED << Value, freeEntries, op, cur, found, owns >>

\* Re-read the entry after queueing: unlocked or 0 -> ExfUnblockPushLock
\* on the own wait block and retry, else ExWaitForUnblockPushLock.
BlockCheck(t) ==
  /\ pc[t] = "b_check"
  /\ IF Value[cur[t]] # Locked
       THEN /\ HandleContentionEvent' = HandleContentionEvent \ {t}
            /\ pc' = Set(pc, t, "l_read")
       ELSE /\ pc' = Set(pc, t, "b_wait")
            /\ UNCHANGED HandleContentionEvent
  /\ UNCHANGED << Value, freeEntries, op, cur, found, owns >>

\* ExWaitForUnblockPushLock returns once the wait block is signalled.
BlockWait(t) ==
  /\ pc[t] = "b_wait"
  /\ t \notin HandleContentionEvent
  /\ pc' = Set(pc, t, "l_read")
  /\ UNCHANGED << Value, freeEntries, HandleContentionEvent, op, cur, found, owns >>

----------------------------------------------------------------------------
(* ExUnlockHandleTableEntry                                                *)

\* InterlockedOr(&Entry->Value, EXHANDLE_TABLE_ENTRY_LOCK_BIT).
UnlockOr(t) ==
  /\ pc[t] = "u_or"
  /\ Value' = [Value EXCEPT ![cur[t]] = IF @ = Empty THEN Bogus ELSE Unlocked]
  /\ owns' = Set(owns, t, owns[t] \ {cur[t]})
  /\ pc' = Set(pc, t, "u_wake")
  /\ UNCHANGED << freeEntries, HandleContentionEvent, op, cur, found >>

\* ExfUnblockPushLock(&HandleContentionEvent, NULL) wakes every waiter.
UnlockWake(t) ==
  /\ pc[t] = "u_wake"
  /\ HandleContentionEvent' = {}
  /\ pc' = Set(pc, t, AfterUnlock(t))
  /\ found' = Set(found, t, FALSE)
  /\ UNCHANGED << Value, freeEntries, op, cur, owns >>

----------------------------------------------------------------------------
(* ExCreateHandle                                                          *)

\* ExpAllocateHandleTableEntry hands out a free entry (its free-list steps
\* are HandleFreeList's); an allocation failure returns NULL, a stutter.
StartCreate(t) ==
  /\ \E e \in freeEntries :
       /\ Start(t, "create", e, "c_write")
       /\ freeEntries' = freeEntries \ {e}
  /\ UNCHANGED << Value, HandleContentionEvent, found, owns >>

\* *NewEntry = *HandleTableEntry: the object is written with the lock bit
\* clear, then ExUnlockHandleTableEntry publishes it.
CreateWrite(t) ==
  /\ pc[t] = "c_write"
  /\ Value' = [Value EXCEPT ![cur[t]] = Locked]
  /\ owns' = Set(owns, t, owns[t] \cup {cur[t]})
  /\ pc' = Set(pc, t, "u_or")
  /\ UNCHANGED << freeEntries, HandleContentionEvent, op, cur, found >>

----------------------------------------------------------------------------
(* ExDestroyHandle, ExMapHandleToPointer, ExChangeHandle                   *)

\* The validity check reads Object without the lock, then locks.
StartDestroy(t) ==
  /\ \E h \in Entries :
       /\ Value[h] # Empty
       /\ Start(t, "destroy", h, "l_read")
  /\ UNCHANGED << Value, freeEntries, HandleContentionEvent, found, owns >>

\* InterlockedExchangePointer(&Entry->Object, NULL) on the locked entry.
DestroyClear(t) ==
  /\ pc[t] = "d_clear"
  /\ Value' = [Value EXCEPT ![cur[t]] = Empty]
  /\ owns' = Set(owns, t, owns[t] \ {cur[t]})
  /\ pc' = Set(pc, t, "d_wake")
  /\ UNCHANGED << freeEntries, HandleContentionEvent, op, cur, found >>

DestroyWakeUnlocks(t) ==
  /\ pc[t] = "d_wake"
  /\ Value' = [Value EXCEPT ![cur[t]] = IF @ = Empty THEN Bogus ELSE Unlocked]
  /\ HandleContentionEvent' = {}
  /\ pc' = Set(pc, t, "d_free")
  /\ UNCHANGED << freeEntries, op, cur, found, owns >>

\* ExfUnblockPushLock(&HandleContentionEvent, NULL).
DestroyWake(t) ==
  /\ pc[t] = "d_wake"
  /\ HandleContentionEvent' = {}
  /\ pc' = Set(pc, t, "d_free")
  /\ UNCHANGED << Value, freeEntries, op, cur, found, owns >>

\* ExpFreeHandleTableEntry puts the entry back on a free list.
DestroyFree(t) ==
  /\ pc[t] = "d_free"
  /\ freeEntries' = freeEntries \cup {cur[t]}
  /\ pc' = Set(pc, t, AfterDestroy(op[t]))
  /\ UNCHANGED << Value, HandleContentionEvent, op, cur, found, owns >>

\* ExMapHandleToPointer locks without a validity check; the caller uses
\* the entry and releases it with ExUnlockHandleTableEntry.
StartMap(t) ==
  /\ \E h \in Entries : Start(t, "map", h, "l_read")
  /\ UNCHANGED << Value, freeEntries, HandleContentionEvent, found, owns >>

\* ExChangeHandle validates without the lock, locks, runs ChangeRoutine.
StartChange(t) ==
  /\ \E h \in Entries :
       /\ Value[h] # Empty
       /\ Start(t, "change", h, "l_read")
  /\ UNCHANGED << Value, freeEntries, HandleContentionEvent, found, owns >>

\* ChangeRoutine(HandleTableEntry, Context) under the lock, then unlock.
ChangeCallback(t) ==
  /\ pc[t] = "ch_cb"
  /\ pc' = Set(pc, t, "u_or")
  /\ UNCHANGED << Value, freeEntries, HandleContentionEvent, op, cur, found, owns >>

----------------------------------------------------------------------------
(* ExEnumHandleTable and ExSweepHandleTable                                *)

\* Entry 0 is the reserved entry the validation always rejects.
StartEnum(t) ==
  /\ Start(t, "enum", 1, "e_next")
  /\ UNCHANGED << Value, freeEntries, HandleContentionEvent, found, owns >>

\* ExpLookupHandleTableEntry fails past the last committed entry; an
\* entry whose Object is 0 is skipped, a valid one is locked.
EnumNext(t) ==
  /\ pc[t] = "e_next"
  /\ pc' = Set(pc, t, CASE cur[t] > N -> "idle"
                        [] Value[cur[t]] = Empty -> "e_advance"
                        [] OTHER -> "l_read")
  /\ UNCHANGED << Value, freeEntries, HandleContentionEvent, op, cur, found, owns >>

EnumCallbackBreakBeforeUnlock(t) ==
  /\ pc[t] = "e_cb"
  /\ \E r \in BOOLEAN :
       /\ found' = Set(found, t, r)
       /\ pc' = Set(pc, t, IF r THEN "idle" ELSE "u_or")
  /\ UNCHANGED << Value, freeEntries, HandleContentionEvent, op, cur, owns >>

\* Result = EnumHandleProcedure(...), then unlock; a TRUE result ends the
\* walk after the unlock.
EnumCallback(t) ==
  /\ pc[t] = "e_cb"
  /\ \E r \in BOOLEAN : found' = Set(found, t, r)
  /\ pc' = Set(pc, t, "u_or")
  /\ UNCHANGED << Value, freeEntries, HandleContentionEvent, op, cur, owns >>

EnumAdvance(t) ==
  /\ pc[t] = "e_advance"
  /\ cur' = Set(cur, t, cur[t] + 1)
  /\ pc' = Set(pc, t, "e_next")
  /\ UNCHANGED << Value, freeEntries, HandleContentionEvent, op, found, owns >>

StartSweep(t) ==
  /\ Start(t, "sweep", 1, "s_next")
  /\ UNCHANGED << Value, freeEntries, HandleContentionEvent, found, owns >>

\* Every entry up to the commit boundary is locked, with no validity check.
SweepNext(t) ==
  /\ pc[t] = "s_next"
  /\ pc' = Set(pc, t, IF cur[t] > N THEN "idle" ELSE "l_read")
  /\ UNCHANGED << Value, freeEntries, HandleContentionEvent, op, cur, found, owns >>

\* EnumHandleProcedure on the locked entry; nothing unlocks it afterwards.
\* A "close" callback destroys it (ExDestroyHandle with the entry given,
\* which asserts it is locked and skips the lookup); an "inspect" callback
\* leaves it as it is.
SweepCallback(t) ==
  /\ pc[t] = "s_cb"
  /\ \E c \in SweepCallbacks :
       pc' = Set(pc, t, IF c = "close" THEN "d_clear" ELSE "s_advance")
  /\ UNCHANGED << Value, freeEntries, HandleContentionEvent, op, cur, found, owns >>

SweepAdvance(t) ==
  /\ pc[t] = "s_advance"
  /\ cur' = Set(cur, t, cur[t] + 1)
  /\ pc' = Set(pc, t, "s_next")
  /\ UNCHANGED << Value, freeEntries, HandleContentionEvent, op, found, owns >>

----------------------------------------------------------------------------

Busy(t) ==
  \/ LockRead(t) \/ LockCas(t)
  \/ BlockRegister(t) \/ BlockCheck(t) \/ BlockWait(t)
  \/ UnlockOr(t) \/ UnlockWake(t)
  \/ CreateWrite(t)
  \/ DestroyClear(t) \/ DestroyWake(t) \/ DestroyFree(t)
  \/ ChangeCallback(t)
  \/ EnumNext(t) \/ EnumCallback(t) \/ EnumAdvance(t)
  \/ SweepNext(t) \/ SweepCallback(t) \/ SweepAdvance(t)

Next ==
  \E t \in Threads :
    \/ StartCreate(t) \/ StartDestroy(t) \/ StartMap(t) \/ StartChange(t)
    \/ StartEnum(t) \/ StartSweep(t)
    \/ Busy(t)

\* Threads are preemptively scheduled: a thread inside an operation keeps
\* being run.  Callers may stay out of the table forever.
Spec == Init /\ [][Next]_vars /\ \A t \in Threads : WF_vars(Busy(t))

----------------------------------------------------------------------------
(* Properties                                                              *)

\* Entries only hold 0, an unlocked object or a locked object: the
\* InterlockedOr of ExUnlockHandleTableEntry never lands on a cleared entry.
TypeOK ==
  /\ Value \in [Entries -> {Empty, Unlocked, Locked}]
  /\ freeEntries \subseteq Entries
  /\ HandleContentionEvent \subseteq Threads
  /\ cur \in [Threads -> 1..(N + 1)]
  /\ owns \in [Threads -> SUBSET Entries]

\* The entry lock is exclusive and means what it says: an entry's lock bit
\* is clear exactly when one thread holds it (having won the exchange in
\* ExpLockHandleTableEntry or written it in ExCreateHandle), and a free
\* entry is held by nobody and holds no object.
EntryLockExclusive ==
  \A e \in Entries :
    /\ Cardinality({t \in Threads : e \in owns[t]}) <= 1
    /\ (Value[e] = Locked) <=> (\E t \in Threads : e \in owns[t])
    /\ e \in freeEntries => Value[e] = Empty

\* A thread that waits in ExpBlockOnLockedHandleEntry is eventually woken:
\* the re-check after ExBlockPushLock and the wake in every unlock and
\* destroy leave no lost wakeup.
WaitersWoken ==
  \A t \in Threads : pc[t] = "b_wait" ~> pc[t] # "b_wait"

\* Every entry that is locked is eventually unlocked or cleared: each
\* operation that takes an entry lock gives it back.
EntryLocksReleased ==
  \A e \in Entries : Value[e] = Locked ~> Value[e] # Locked

----------------------------------------------------------------------------
(* Refinement of HandleTableAbstract                                       *)

\* The threads holding an entry: the lock owner, and the thread that has
\* reserved it in ExCreateHandle or cleared it in ExDestroyHandle.
AbsHolders ==
  [e \in Entries |->
     {t \in Threads : \/ e \in owns[t]
                      \/ cur[t] = e /\ pc[t] \in {"c_write", "d_wake", "d_free"}}]

\* An entry is free on the free lists, has an object while Value is not 0,
\* and otherwise is being created or has been destroyed.
AbsState ==
  [e \in Entries |->
     CASE e \in freeEntries -> "Free"
       [] Value[e] # Empty -> "Object"
       [] \E t \in Threads : pc[t] = "c_write" /\ cur[t] = e -> "Reserved"
       [] OTHER -> "Dead"]

Abs == INSTANCE HandleTableAbstract WITH state <- AbsState, holders <- AbsHolders

\* The interleaved steps of ExCreateHandle, ExDestroyHandle, the entry lock
\* and the table walks implement the atomic handle table: every step is
\* one abstract operation or none, so an entry is only locked by one thread
\* while it has an object, an object appears only in an entry its creator
\* reserved, and an entry goes back to the free lists only after the
\* destroyer cleared it, with nobody else holding it.
HandleTableRefined == Abs!Spec

====
