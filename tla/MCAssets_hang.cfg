SPECIFICATION FairSpec
CONSTANTS
  Techs <- MCWlanBt
  FwTechs <- MCWlanBt
  MaxProbes = 1
  MaxFrames = 2
  Unload = FALSE
  Unplug = FALSE
  Faults = FALSE
PROPERTIES
  BringUpEnds
CHECK_DEADLOCK FALSE
