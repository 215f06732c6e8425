SPECIFICATION FairSpec
CONSTANTS
  Profiles <- MCSteady
  TrafficProfiles <- MCNone
  Usb = TRUE
  MultiVap = TRUE
  HandshakeLoss = FALSE
  Faults = FALSE
  MaxMgmt = 1
INVARIANTS
  TypeOK
  StateMatchesDevice
PROPERTIES
  TransitionEnds
  MgmtFrameLeaves
  DelayEnds
