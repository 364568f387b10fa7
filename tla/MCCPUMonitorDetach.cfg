CONSTANTS
  W = 4
  Window = 2
  MaxDrop = 0
  NoInfo = NoInfo
  FopenMayFail = FALSE
SPECIFICATION Spec
INVARIANTS ThreadStoppedByDestructor
CHECK_DEADLOCK FALSE
