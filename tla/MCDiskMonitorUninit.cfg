CONSTANTS
  Outputs <- MCOutputs
  Leftovers <- MCLeftovers
  Uninit = Uninit
  NotLoaded = NotLoaded
  MaxRounds = 2
  PopenMayFail = FALSE
SPECIFICATION Spec
INVARIANTS RatesDefined
CHECK_DEADLOCK FALSE
