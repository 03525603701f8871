CONSTANTS
  m = m
  a = a
  b = b
  idle = idle
  rx = rx
  Task <- MCTask
  Main = m
  Idle = idle
  Shell = b
  Name <- MCName
  Prio <- MCPrio
  MaxTasks = 4
  MaxEvents = 8
  Calls = {"new", "join", "wait", "start", "stop"}
SPECIFICATION Spec
INVARIANT FreedTasksUnlisted
CHECK_DEADLOCK FALSE
