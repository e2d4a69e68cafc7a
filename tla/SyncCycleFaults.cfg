SPECIFICATION Spec
CONSTANTS
  Paths = {1, 2}
  LargePaths = {2}
  MaxUserOps = 2
  MaxRemoteOps = 2
  MaxCrashes = 1
  MaxFaults = 1
  MaxGone = 0
  UserDeletes = TRUE
  UserMidCycle = FALSE
  RemoteMidCycle = TRUE
  MaxDeletePct = 50
INVARIANTS TypeOK NoLocalEditLost ArchiveTruthful
PROPERTIES NoBlindOverwrite
