\* Three rounds: a call of GetDiskIO can span two of them, and one is left for
\* the destructor. The behaviour ends when the object is destroyed or the process
\* has crashed.
CONSTANTS
  Outputs <- MCOutputs
  Leftovers <- MCLeftovers
  Uninit = Uninit
  NotLoaded = NotLoaded
  MaxRounds = 3
  PopenMayFail = TRUE
SPECIFICATION FairSpec
INVARIANTS TypeOK AtomicsMatchHistory FreshReply NoAccessAfterDestroy
PROPERTIES DestroyCompletes FirstRatesArrive
CHECK_DEADLOCK FALSE
