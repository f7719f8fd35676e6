SPECIFICATION Spec
CONSTANTS
  NumSockets = 2
  MaxInbox = 2
  MaxSelErr = 1
INVARIANTS
  TypeOK
  MutexDiscipline
  NoFdLeak
  DoneIsFresh
