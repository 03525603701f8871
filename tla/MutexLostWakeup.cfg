SPECIFICATION FairSpec
CONSTANTS
  a = a
  b = b
  c = c
  Task <- MCTwoTasks
  Id <- MCTwoIds
  Drawing = FALSE
  Nesting = 1
  MaxDepth = 4
PROPERTY WaitersCleared
CHECK_DEADLOCK FALSE
