CONSTANTS
  Bpms = {1}
  Rates = {1}
  TempoRequests = {}
  BlockSizes = {3, 12}
  LocateTargets = {}
  Horizon = 26
  MaxStops = 0
  MaxPrepares = 0
  TableCapacity = 4
  Patterns = {0, 1}
  Snapshots = {"ahead"}
  NoSnapshot = NoSnapshot
  Grid <- MCGrid
  Steps <- MCSteps
  StartPattern <- MCStart
  Pitches = {"A", "C", "D", "E", "F", "G"}
  LongestNote = 32
  Beat = 16
  Bar = 32
  Quantizes = {"beat"}
  Requests = {1}
  MaxEdits = 0
  MaxCommands = 1
  MaxRequests = 1
SPECIFICATION SeqSpec
PROPERTIES
  PlaysTheMusic
CHECK_DEADLOCK FALSE
