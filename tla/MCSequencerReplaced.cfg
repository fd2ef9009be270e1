\* A resolved switch replaced by another request, over notes that meet.
CONSTANTS
  Bpms = {1}
  Rates = {1}
  TempoRequests = {}
  BlockSizes = {2, 5, 12}
  LocateTargets = {}
  Horizon = 34
  MaxStops = 0
  MaxPrepares = 0
  TableCapacity = 4
  Patterns = {0, 1}
  Snapshots = {"plain"}
  NoSnapshot = NoSnapshot
  Grid <- MCGrid
  Steps <- MCSteps
  StartPattern <- MCStart
  Pitches = {"A", "C", "D", "E", "F", "G"}
  LongestNote = 32
  Beat = 16
  Bar = 32
  Quantizes = {"instant", "beat"}
  Requests = {1}
  MaxEdits = 0
  MaxCommands = 1
  MaxRequests = 2
SPECIFICATION SeqSpec
INVARIANTS
  GapKept
CHECK_DEADLOCK FALSE
