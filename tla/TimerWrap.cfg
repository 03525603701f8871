SPECIFICATION Spec
CONSTANTS
  d = d
  e = e
  slice = slice
  watchdog = watchdog
  Delay = {d}
  Slice = slice
  Watchdog = watchdog
  Leds = {}
  Period <- MCPeriod
  DelayPeriods <- MCDelays
  Wrap = 8
  Reload = 4
  Slow = {"service"}
INVARIANT NoneLeftBehind
CHECK_DEADLOCK FALSE
