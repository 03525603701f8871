CONSTANTS
  m = m
  a = a
  b = b
  idle = idle
  rx = rx
  Task <- MCTask
  Main = m
  Idle = idle
  Shell = b
  Name <- MCName
  Prio <- MCStrictPrio
  MaxTasks = 4
  MaxEvents = 1
  Calls = {"new", "join"}
SPECIFICATION Spec
INVARIANT BlockedTasksCounted
CHECK_DEADLOCK FALSE
