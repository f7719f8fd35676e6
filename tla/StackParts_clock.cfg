SPECIFICATION StackSpec
CONSTANTS
  NumSockets = 4
  MaxClients = 2
  FdAlias = 3
  MinCount = 1
  LeaseAddr = {"a", "b"}
  AnyAddr = "any"
  LeaseTimes <- MCLeaseTimes
  Forever = forever
  CoarseMod = 4
  TriesMod = 4
  SelectTries = 1
  RebindTries = 1
  TryTimes = 2
  MaxNoMem = 3
  Task = {"u"}
  CyclicTimers <- MCCyclicTimers
  Interval <- MCInterval
  MaxInterval = 4
  TimeoutPool = 5
  InpktPool = 1
  ApiPool = 1
  MboxSize = 2
  PostTries = 2
  MsPerSec = 2
  TicksPerSec = 1
  WordMod = 8
  MaxPend = 4
  ClockStart = {5}
  MaxDelay = 2
  MaxTick = 1
  TornLists <- MCTornLists
INVARIANT
  TellsTimeSpent
CHECK_DEADLOCK FALSE
