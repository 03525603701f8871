CONSTANTS
  m = m
  a = a
  b = b
  idle = idle
  rx = rx
  Task <- MCTask
  Main = m
  Idle = idle
  Shell = b
  Name <- MCName
  Prio <- MCPrio
  MaxTasks = 4
  MaxEvents = 8
  Calls = {"yield", "wait", "notify", "delay", "new", "join", "end", "irq_notify"}
SPECIFICATION Spec
INVARIANTS
  NoLostWakeup
  ListsAgree
  PriorityRespected
  SliceArmed
  JoinedHasEnded
PROPERTIES
  ReleasedByNotify
  ChecksFailOnlyByRace
