CONSTANTS
  Devices = {"sda", "sdb"}
  Rates = {0, 1}
  MaxRows = 2
  Chars = {8, 9, 13, 14, 32}
  MaxChars = 4
  MaxLines = 5
  W = 64
  GB = 2
  MemTotal = 4
  MaxAmount = 2
  Base = 4
  SizeBytes = 2
  MaxParts = 3
  MaxBytes = 5
  DefaultSize = 8
  KeySize = 3
  Z85Size = 5
  MaxLength = 3
SPECIFICATION Spec
INVARIANTS RatesAreSecondReport
CHECK_DEADLOCK FALSE
