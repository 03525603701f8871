CONSTANTS
  m = m
  a = a
  b = b
  idle = idle
  rx = rx
  Task <- MCTask
  Main = m
  Idle = idle
  Shell = b
  Name <- MCName
  Prio <- MCLowPrio
  MaxTasks = 4
  MaxEvents = 8
  Calls = {"new", "wait", "delay"}
SPECIFICATION FairSpec
PROPERTY IdleGivesWay
CHECK_DEADLOCK FALSE
