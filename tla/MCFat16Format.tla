--------------------------- MODULE MCFat16Format ---------------------------
EXTENDS Fat16Format, TLC
====
