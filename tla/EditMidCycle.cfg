SPECIFICATION Spec
CONSTANTS
  Paths = {1, 2}
  LargePaths = {}
  MaxUserOps = 2
  MaxRemoteOps = 2
  MaxCrashes = 0
  MaxFaults = 1
  MaxGone = 0
  UserDeletes = TRUE
  UserMidCycle = TRUE
  RemoteMidCycle = TRUE
  MaxDeletePct = 0
INVARIANTS NoLocalEditLost ArchiveTruthful
PROPERTIES NoBlindOverwrite
