SPECIFICATION FairSpec
CONSTANTS
  d = d
  e = e
  slice = slice
  watchdog = watchdog
  Delay = {d, e}
  Slice = slice
  Watchdog = watchdog
  Leds = {}
  Period <- MCPeriod
  DelayPeriods <- MCDelays
  Wrap = 8
  Reload = 4
  Slow = {}
INVARIANTS
  NothingFails
PROPERTIES
  ImplementsAlarms
  TimersRun
