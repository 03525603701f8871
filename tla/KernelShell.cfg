CONSTANTS
  m = m
  a = a
  b = b
  idle = idle
  rx = rx
  Task <- MCTask
  Main = m
  Idle = idle
  Shell = b
  Name <- MCName
  Prio <- MCPrio
  MaxTasks = 4
  MaxEvents = 8
  Calls = {"wait", "delay", "new", "start", "stop", "irq_notify"}
SPECIFICATION Spec
INVARIANT ListAssertionsHold
