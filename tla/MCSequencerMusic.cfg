CONSTANTS
  Bpms = {1}
  Rates = {1}
  TempoRequests = {}
  BlockSizes = {2, 5, 12}
  LocateTargets = {}
  Horizon = 34
  MaxStops = 1
  MaxPrepares = 1
  TableCapacity = 4
  Patterns = {0, 1}
  Snapshots = {"plain", "apart", "edited"}
  NoSnapshot = NoSnapshot
  Grid <- MCGrid
  Steps <- MCSteps
  StartPattern <- MCStart
  Pitches = {"A", "C", "D", "E", "F", "G"}
  LongestNote = 32
  Beat = 16
  Bar = 32
  Quantizes = {"instant", "beat", "bar", "patternEnd", "never"}
  Requests = {1, 2}
  MaxEdits = 0
  MaxCommands = 1
  MaxRequests = 2
SPECIFICATION MCSpec
INVARIANTS
  GapKept
  SwitchAhead
PROPERTIES
  CleanStream
  PlaysTheMusic
  SwitchHonoured
CHECK_DEADLOCK FALSE
