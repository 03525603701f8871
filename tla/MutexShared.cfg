SPECIFICATION FairSpec
CONSTANTS
  a = a
  b = b
  c = c
  Task <- MCThreeTasks
  Id <- MCThreeIds
  Drawing = TRUE
  Nesting = 2
  MaxDepth = 2
INVARIANT NestingCounted
PROPERTY UnlockWakes
CHECK_DEADLOCK FALSE
