CONSTANTS
  Devices <- MCDevices
  Offered <- MCOffered
  NoDevice = NoDevice
  Ceiling = 2
  MaxAttempts = 2
  Window = 2
  Modulus = 4
  Starts = {0, 3}
  Horizon = 3
  MaxErrors = 4
  MaxSelections = 1
SPECIFICATION FairSpec
\* The system stops when every error and every selection is spent.
CHECK_DEADLOCK FALSE
INVARIANTS
  ChurnBounded
  WithinCeiling
PROPERTIES
  GivesUpOnlyWhenChurning
  ClampIsTrue
  BannerStays
  LossIsAnswered
