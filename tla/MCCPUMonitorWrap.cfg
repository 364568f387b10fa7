\* iowait never drops: the wrap of the sum alone makes the sample wrong.
CONSTANTS
  W = 4
  Window = 2
  MaxDrop = 0
  NoInfo = NoInfo
  FopenMayFail = FALSE
SPECIFICATION Spec
INVARIANTS UsageIsBusyShare
CHECK_DEADLOCK FALSE
