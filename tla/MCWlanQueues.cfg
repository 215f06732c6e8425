SPECIFICATION Spec
CONSTANTS
  Queues <- MCQueues
  Weights <- MCWeights
  Burst <- MCBurst
  MaxLen = 4
  WaterMark = 3
  Reserve = 2
  MaxJoin = 5
  MaxMgmt = 1
INVARIANTS
  TypeOK
  InterfaceComesBack
PROPERTIES
  ChoiceHasWork
  NoStarvation
