\* Two devices and two rows per report: the last device differs from the others.
\* Characters on both sides of isSpace's bounds. Bytes of four values and sizes of
\* two bytes: parts below, at and above the largest byte.
CONSTANTS
  Devices = {"sda", "sdb"}
  Rates = {0, 1}
  MaxRows = 2
  Chars = {8, 9, 13, 14, 32}
  MaxChars = 4
  MaxLines = 5
  W = 64
  GB = 2
  MemTotal = 4
  MaxAmount = 2
  Base = 4
  SizeBytes = 2
  MaxParts = 3
  MaxBytes = 5
  DefaultSize = 8
  KeySize = 3
  Z85Size = 5
  MaxLength = 3
SPECIFICATION Spec
INVARIANTS
  LastDeviceRecounted TrimmedExactly FirstNameAndClock
   EncodeRoundTrip DecodeStaysInside
  BufferStaysInside OptionReturned
CHECK_DEADLOCK FALSE
