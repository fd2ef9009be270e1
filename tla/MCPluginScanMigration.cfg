CONSTANTS
  good = good
  hostile = hostile
  stuck = stuck
  dud = dud
  Plugins = {good, hostile, stuck, dud}
  NoPlugin = NoPlugin
  NumFormats = 2
  FilesOf <- MCFilesOf
  Crashers = {hostile}
  Hangers = {stuck}
  Duds = {dud}
  LegacySettings <- MCLegacy
  MaxSessions = 3
  MaxScans = 3
  MaxFailures = 1
  MaxKills = 0
SPECIFICATION Spec
INVARIANTS
  MigrationRetries
CHECK_DEADLOCK FALSE
