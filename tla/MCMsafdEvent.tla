--------------------------- MODULE MCMsafdEvent ---------------------------
EXTENDS MsafdEvent, TLC
====
