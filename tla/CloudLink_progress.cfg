SPECIFICATION FairSpec
CONSTANTS
  NumSockets = 1
  MaxInbox = 1
  MaxSelErr = 0
PROPERTIES
  SendReturns
  ResetTearsDown
  PeerCloseNoticed
CHECK_DEADLOCK FALSE
