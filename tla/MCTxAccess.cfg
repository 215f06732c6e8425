SPECIFICATION FairSpec
CONSTANTS
  Techs <- MCWlanBt
  PsEnabled <- MCPsOn
  MaxPkts = 1
  Tokens = {"t1"}
  Faults = TRUE
INVARIANTS
  TypeOK
  AsleepMeansNoAccess
  AckAnswersRequest
  RegisteredWlanWriteIsAwake
  RequestNotForgotten
PROPERTIES
  ImplementsHandshake
  RequestServed
  AccessComesBack
