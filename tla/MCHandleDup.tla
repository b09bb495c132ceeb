----------------------------- MODULE MCHandleDup -----------------------------
(* HandleDup with the source threads as model values.                      *)
EXTENDS HandleDup, TLC
ThreadSymmetry == Permutations(Threads)
====
