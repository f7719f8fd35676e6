SPECIFICATION FairSpec
CONSTANTS
  NumSockets = 1
  MaxInbox = 1
  MaxSelErr = 0
PROPERTY HeartbeatKeepsGoing
CHECK_DEADLOCK FALSE
