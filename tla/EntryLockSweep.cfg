CONSTANTS
  Threads = {t1, t2}
  N = 2
  SweepCallbacks = {"inspect"}
SPECIFICATION Spec
PROPERTY EntryLocksReleased
CHECK_DEADLOCK FALSE
