SPECIFICATION FairSpec
CONSTANTS
  Queues <- MCQueues
  PollEvery = 2
  MaxLen = 1
  MaxMgmt = 1
  Faults = TRUE
INVARIANTS
  TypeOK
  NothingLeftBehind
PROPERTIES
  MgmtFrameSent
CHECK_DEADLOCK FALSE
