SPECIFICATION Spec
CONSTANTS
  Profiles <- MCOn
  TrafficProfiles <- MCTraffic
  Usb = TRUE
  MultiVap = FALSE
  HandshakeLoss = TRUE
  Faults = TRUE
  MaxMgmt = 1
INVARIANTS
  RequestMatchesState
  MonitoringGoesOn
