SPECIFICATION Spec
CONSTANTS
  BA_RANGE = 8
  Windows <- MCWindows
  PeerWindow = 4
  MaxSeq = 17
INVARIANTS
  TypeOK
  SlotsMatchWindow
  InOrderOnce
  NothingLost
PROPERTIES
  WindowMovesForward
CHECK_DEADLOCK FALSE
