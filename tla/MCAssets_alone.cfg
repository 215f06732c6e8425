SPECIFICATION FairSpec
CONSTANTS
  Techs <- MCWlanBt
  FwTechs <- MCWlan
  MaxProbes = 1
  MaxFrames = 2
  Unload = FALSE
  Unplug = FALSE
  Faults = TRUE
INVARIANTS
  SingleInsert
PROPERTIES
  BringUpEnds
CHECK_DEADLOCK FALSE
