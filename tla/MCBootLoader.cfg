SPECIFICATION FairSpec
CONSTANTS
  Modes <- MCModes
  Sizes <- MCSizes
  Chunk = 2
  Faults = TRUE
INVARIANTS
  TypeOK
  ImageInOrder
  AnswerFitsCommand
  RunsGoodImage
  SuccessMeansLoaded
  TimerStopped
PROPERTIES
  TimerArmedOnce
  LoadEnds
CHECK_DEADLOCK FALSE
