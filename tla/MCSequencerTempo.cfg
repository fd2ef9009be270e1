CONSTANTS
  Bpms = {1, 2}
  Rates = {1}
  TempoRequests = {1, 2}
  BlockSizes = {5, 11}
  LocateTargets <- MCLocateTargets
  Horizon = 26
  MaxStops = 1
  MaxPrepares = 1
  TableCapacity = 1
  Patterns = {0, 1}
  Snapshots = {"plain", "edited"}
  NoSnapshot = NoSnapshot
  Grid <- MCGrid
  Steps <- MCSteps
  StartPattern <- MCStart
  Pitches = {"A", "C", "D", "E", "F", "G"}
  LongestNote = 32
  Beat = 16
  Bar = 32
  Quantizes = {}
  Requests = {}
  MaxEdits = 1
  MaxCommands = 1
  MaxRequests = 0
SPECIFICATION SeqSpec
INVARIANTS
  NoHungNote
PROPERTIES
  BlocksTile
CHECK_DEADLOCK FALSE
