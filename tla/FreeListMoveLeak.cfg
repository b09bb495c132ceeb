CONSTANTS
  Threads = {t1, t2}
  NoThread = NoThread
  LOW_LEVEL_ENTRIES = 4
  MaxBlocks = 2
  MaxHeld = 1
SPECIFICATION Spec
INVARIANT MoveNeverAbandonsChain
