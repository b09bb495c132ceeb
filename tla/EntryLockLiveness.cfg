CONSTANTS
  Threads = {t1, t2}
  N = 2
  SweepCallbacks = {"close"}
SPECIFICATION Spec
PROPERTY WaitersWoken
PROPERTY EntryLocksReleased
PROPERTY HandleTableRefined
