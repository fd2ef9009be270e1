CONSTANTS
  silent = silent
  drums = drums
  straight = straight
  swung = swung
  PatternValues <- MCPatternValues
  ProjectValues <- MCProjectValues
  DefaultState <- MCDefaultState
  MaxUndoDepth = 1
  MaxRevision = 3
  MaxDepth = 2
  MaxBuilds = 4
  RetireRoom = 4
  MaxTicks = 1
SPECIFICATION FairEditingSpec
\* The system stops when it has been torn down.
CHECK_DEADLOCK FALSE
INVARIANTS
  OneOwner
  AllFreedAtExit
  NeverHalfAGesture
PROPERTIES
  ImplementsHistory
  AudioCatchesUp
