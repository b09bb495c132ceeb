CONSTANTS
  Threads = {t1, t2}
  NoThread = NoThread
  LOW_LEVEL_ENTRIES = 4
  MaxBlocks = 1
  MaxHeld = 1
SPECIFICATION Spec
PROPERTY LockWaitersProgress
