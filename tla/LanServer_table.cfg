SPECIFICATION Spec
CONSTANTS
  NumSockets = 4
  MaxClients = 2
  FdAlias = 3
  MinCount = 1
INVARIANT TableLimit
