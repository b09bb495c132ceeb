\* One source thread racing the dup over two blocks of four entries: a
\* handle created, locked, destroyed or re-created between the dup's mask
\* check and its lock, the source growing while the new table grows, and
\* callbacks that succeed or fail.  The callback releases the source entry.
CONSTANTS
  Threads = {t1}
  LOW_LEVEL_ENTRIES = 4
  MaxBlocks = 2
  DupCallbacks = {"unlock"}
SPECIFICATION Spec
INVARIANT TypeOK
INVARIANT DupTableConsistent

