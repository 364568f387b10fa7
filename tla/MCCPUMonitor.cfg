\* Words of four values and up to two ticks between the readings: each of idle,
\* other and their sum can wrap, alone or together, and iowait can drop.
CONSTANTS
  W = 4
  Window = 2
  MaxDrop = 1
  NoInfo = NoInfo
  FopenMayFail = TRUE
SPECIFICATION FairSpec
INVARIANTS UsageExactWithoutWrap WrapReportsFullLoad SentinelNeverReturned
PROPERTIES FirstUsageArrives
CHECK_DEADLOCK FALSE
