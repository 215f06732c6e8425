SPECIFICATION FairSpec
CONSTANTS
  Profiles <- MCSteady
  TrafficProfiles <- MCNone
  Usb = FALSE
  MultiVap = FALSE
  HandshakeLoss = FALSE
  Faults = FALSE
  MaxMgmt = 1
PROPERTIES
  TransitionEnds
