SPECIFICATION Spec
CONSTANTS
  h1 = h1
  h2 = h2
  x1 = x1
  x2 = x2
  x3 = x3
  main = main
  t1 = t1
  t2 = t2
  Task <- MCTasks
  Main = main
  Idle = idle
  Ready = ready
  MaxTasks = 4
  NoTask = null
  ListHead <- MCHeads
  ListItem <- MCItems
  ItemKey <- MCKeys
  NoNode = null
  OnlyUnlinked = TRUE
  Byte = {"p", "q", "r"}
  Size = 4
  TooClose = 2
  HeapThing <- MCItems
  HeapKey <- MCHeapKeys
  NoThing = null
  MaxSize = 7
  HalfRange = 128
  HeapBegin = 4
  HeapLimit = 56
  Request = {2, 5, 12}
  Alignment = 8
  BufferSize = 24
  MaxInt = 2147483647
  Values <- MCValues
  Hundredths = {0, 5, 105, 1250, 1999999}
  Precisions = {0, 1, 2}
  Lengths = {2, 40}
  Plain = TRUE
  Index <- MCIndex
  Chains <- MCChains
  Wild <- MCWild
  Top = 1000
  Frames = 4
  IoSize = 5
  MaxLine = 3
  Key = {"echo", "stop", "1", "SP", "["}
  Digit = {"1"}
  Command = {"echo", "stop"}
  MaxOpenFiles = 4
  HostHandle = {1, 2, 3}
  Path = {"f"}
  FlagSets = {{}, {"rdwr"}, {"rdwr", "creat", "excl"}}
  FileCaller = {"t"}
  HostFails = {"transfer", "close"}
  MaxLength = 2
  MasterPeriod = 2
  SlavePeriod = 2
  LastUsec = 9
  TickRange = 8
  Timeout = 3
INVARIANTS
  LinksAgree
  PlacesApart
  BlocksApart
  PrintsAsAsked
  CallersListed
  ReadingsAlternate
  RunsWhatIsShown
  HandlesKept
  PositionsAgree
  ExclusiveCreates
  TimeTold
  TurnComes
  SearchEndsOnTask
PROPERTIES
  ImplementsLists
  ImplementsQueue
  ImplementsPriorityQueue
  AdcTaskGoesOn
  StartUpEnds
  StopsOnlyByRace
  SchedulerRuns
CHECK_DEADLOCK FALSE
