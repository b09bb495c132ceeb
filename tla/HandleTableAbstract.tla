------------------------ MODULE HandleTableAbstract -------------------------
(***************************************************************************)
(* What the executive handle table promises its callers                  *)
(* (src/ntoskrnl/ex/handle.c), with every operation a single atomic step. *)
(* An entry goes round                                                     *)
(*   Free -> Reserved -> Object -> Dead -> Free                            *)
(* ExCreateHandle reserves a free entry and publishes its object;         *)
(* ExDestroyHandle kills the object and gives the entry back.  An entry   *)
(* with an object is held by at most one thread at a time (the entry      *)
(* lock of ExMapHandleToPointer, ExChangeHandle, ExEnumHandleTable and     *)
(* ExSweepHandleTable); a reserved or dead entry is held by the thread    *)
(* creating or destroying it, and a free entry by nobody.                  *)
(***************************************************************************)
CONSTANTS Threads, Entries

VARIABLES
  state,    \* state[e]: "Free", "Reserved", "Object" or "Dead"
  holders   \* holders[e]: the threads holding entry e

vars == << state, holders >>

Init ==
  /\ state = [e \in Entries |-> "Free"]
  /\ holders = [e \in Entries |-> {}]

Move(e, from, to, h, h2) ==
  /\ state[e] = from /\ holders[e] = h
  /\ state' = [state EXCEPT ![e] = to]
  /\ holders' = [holders EXCEPT ![e] = h2]

\* ExCreateHandle: ExpAllocateHandleTableEntry takes a free entry ...
Reserve(t, e) == Move(e, "Free", "Reserved", {}, {t})

\* ... and the object is written into it, still locked.
Publish(t, e) == Move(e, "Reserved", "Object", {t}, {t})

\* ExpLockHandleTableEntry succeeds only on an entry nobody holds.
Acquire(t, e) == Move(e, "Object", "Object", {}, {t})

\* ExUnlockHandleTableEntry.
Release(t, e) == Move(e, "Object", "Object", {t}, {})

\* ExDestroyHandle on the entry it holds clears the object ...
Kill(t, e) == Move(e, "Object", "Dead", {t}, {t})

\* ... and ExpFreeHandleTableEntry gives the entry back.
Free(t, e) == Move(e, "Dead", "Free", {t}, {})

Next ==
  \E t \in Threads, e \in Entries :
    \/ Reserve(t, e) \/ Publish(t, e) \/ Acquire(t, e)
    \/ Release(t, e) \/ Kill(t, e) \/ Free(t, e)

Spec == Init /\ [][Next]_vars
====
