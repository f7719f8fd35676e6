SPECIFICATION LayersSpec
CONSTANTS
  Layers = {"cells"}
  Task = {2, 4, 5}
  LowestPrio = 6
  Pip = 1
  Spare = 3
  MaxCnt = 1
  QSize = 2
  Msg = {m1, m2}
  NoMsg = null
  MaxDly = 1
  Apps <- MCApps
  User = {"u", "v"}
  NoUser = "none"
  NumConn = 2
  RecvMbox = 2
  AcceptMbox = 1
  SndBuf = 1
  SndLowat = 0
  WriteSizes = {2}
  FdSets <- MCFdSets
  Programs <- MCPrograms
  Shared = FALSE
  Pool = 3
  CyclicTimers <- MCCyclicTimers
  Interval <- MCInterval
  MaxInterval = 3
  WordMod = 8
  MaxTick = 1
  FollowTorn = TRUE
INVARIANT
  ReschedulesItself
CHECK_DEADLOCK FALSE
