CONSTANTS
  m = m
  a = a
  b = b
  idle = idle
  rx = rx
  Task <- MCTwoTasks
  Main = m
  Idle = idle
  Shell = a
  Name <- MCName
  Prio <- MCEqualPrio
  MaxTasks = 4
  MaxEvents = 8
  Calls = {"yield", "delay", "new", "wait", "notify", "join", "end"}
SPECIFICATION FairSpec
PROPERTIES
  TopTasksRun
  DelayReturns
CHECK_DEADLOCK FALSE
