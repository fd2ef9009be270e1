CONSTANTS
  good = good
  hostile = hostile
  stuck = stuck
  dud = dud
  Plugins = {good, hostile, stuck, dud}
  NoPlugin = NoPlugin
  NumFormats = 2
  FilesOf <- MCFilesOf
  Crashers = {hostile, stuck}
  Hangers = {}
  Duds = {dud}
  LegacySettings <- MCLegacy
  MaxSessions = 3
  MaxScans = 3
  MaxFailures = 0
  MaxKills = 0
SPECIFICATION Spec
INVARIANTS
  KnownBadStaysOut
CHECK_DEADLOCK FALSE
