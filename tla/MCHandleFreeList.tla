-------------------------- MODULE MCHandleFreeList --------------------------
(* Instantiates HandleFreeList for TLC.  The threads are model values      *)
(* given in the cfg; they are interchangeable, so safety runs use          *)
(* symmetry.                                                               *)
EXTENDS HandleFreeList, TLC

ThreadSymmetry == Permutations(Threads)
====
