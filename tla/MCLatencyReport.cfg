CONSTANTS
  MaxGenerations = 3
  MaxFadeOutPolls = 2
  Unity = 2
  MaxDeviceStops = 1
  Latencies = {1, 2}
  MaxChanges = 2
  EventRoom = 2
\* The system stops once the slot is destroyed and every call is spent.
CHECK_DEADLOCK FALSE
SPECIFICATION FairLatencySpec
INVARIANTS
  CurrentIsInserted
  LatestWins
PROPERTIES
  NoChoppedTail
  EventuallySettles
  LatencyIsShown
