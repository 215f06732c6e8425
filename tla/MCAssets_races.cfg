SPECIFICATION Spec
CONSTANTS
  Techs <- MCWlanZb
  FwTechs <- MCWlanZb
  MaxProbes = 1
  MaxFrames = 2
  Unload = TRUE
  Unplug = TRUE
  Faults = FALSE
INVARIANTS
  TypeOK
  NoLostActivation
CHECK_DEADLOCK FALSE
