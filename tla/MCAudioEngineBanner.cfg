CONSTANTS
  Devices <- MCDevices
  Offered <- MCOffered
  NoDevice = NoDevice
  Ceiling = 2
  MaxAttempts = 2
  Window = 2
  Modulus = 4
  Starts = {0, 3}
  Horizon = 3
  MaxErrors = 4
  MaxSelections = 1
SPECIFICATION Spec
CHECK_DEADLOCK FALSE
INVARIANTS
  DeadMeansSilent
