\* One lookup thread against the grower; LOW = 2, MID = 3, HIGH = 3 makes
\* every growth arm happen: level 0 -> 1, a low in the mid, level 1 -> 2,
\* a low in an existing mid, a new mid, and the capacity stop at 9 blocks.
CONSTANTS
  Lookers = {l1}
  LOW_LEVEL_ENTRIES = 2
  MID_LEVEL_ENTRIES = 3
  HIGH_LEVEL_ENTRIES = 3
  MaxTables = 14
SPECIFICATION Spec
CHECK_DEADLOCK FALSE
INVARIANT TypeOK
INVARIANT LookupFindsEntry
INVARIANT FreeWalkReleasesAll
