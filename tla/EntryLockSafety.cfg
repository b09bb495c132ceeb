CONSTANTS
  Threads = {t1, t2, t3}
  N = 2
  SweepCallbacks = {"close"}
SPECIFICATION Spec
INVARIANT TypeOK
INVARIANT EntryLockExclusive
SYMMETRY ThreadSymmetry
