CONSTANTS
  good = good
  hostile = hostile
  stuck = stuck
  dud = dud
  Plugins = {good, hostile, stuck, dud}
  NoPlugin = NoPlugin
  NumFormats = 2
  FilesOf <- MCFilesOf
  Crashers = {hostile}
  Hangers = {stuck}
  Duds = {dud}
  LegacySettings <- MCLegacy
  MaxSessions = 3
  MaxScans = 2
  MaxFailures = 1
  MaxKills = 1
SPECIFICATION FairSpec
INVARIANTS
  QuarantineHolds
  CancelStops
  UncancelledIsComplete
PROPERTIES
  BankedNeverLost
  BlacklistQuiet
  BankedOrTold
CHECK_DEADLOCK FALSE
