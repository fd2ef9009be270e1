CONSTANTS
  MaxSteps = 10
  MaxPreChainDepth = 8
  Threshold = 64
  EuclidRequests <- MCEuclid
  BaseLane <- MCBase
  PoolSizes = {0, 1, 2, 3}
  Tables <- MCTables
  Patterns <- MCPatterns
  FirstStep <- MCFirst
  LastStep = 14
  MaxFills = 1
  Rolls <- MCRolls
SPECIFICATION Spec
INVARIANTS
  TraversalShape
  EuclidEven
  NotesFit
PROPERTIES
  ImplementsWalk
CHECK_DEADLOCK FALSE
