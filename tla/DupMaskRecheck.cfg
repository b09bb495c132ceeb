\* One block: the source thread destroys a handle the dup has found
\* inheritable and re-creates it without the bit before the dup locks it.
CONSTANTS
  Threads = {t1}
  LOW_LEVEL_ENTRIES = 4
  MaxBlocks = 1
  DupCallbacks = {"unlock"}
SPECIFICATION Spec
INVARIANT DupCopiesOnlyMasked
