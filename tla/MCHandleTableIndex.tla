------------------------- MODULE MCHandleTableIndex -------------------------
(* HandleTableIndex with the lookup threads as model values.               *)
EXTENDS HandleTableIndex, TLC
====
