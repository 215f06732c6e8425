SPECIFICATION Spec
CONSTANTS
  Techs <- MCWlanBt
  PsEnabled <- MCPsOn
  MaxPkts = 1
  Tokens = {"t1"}
  Faults = FALSE
INVARIANT
  NoXmitWithoutAccess
