------------------------- MODULE MCHandleEntryLock --------------------------
(* Instantiates HandleEntryLock for TLC.  Threads are model values from   *)
(* the cfg and interchangeable, so the safety run uses symmetry.           *)
EXTENDS HandleEntryLock, TLC

ThreadSymmetry == Permutations(Threads)
====
