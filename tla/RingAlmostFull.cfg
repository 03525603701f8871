SPECIFICATION RingSpec
CONSTANTS
  Byte = {"p"}
  Size = 128
  TooClose = 16
INVARIANT AlmostFullInTime
CHECK_DEADLOCK FALSE
