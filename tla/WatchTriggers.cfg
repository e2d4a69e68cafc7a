SPECIFICATION WatchSpec
CONSTANTS
  Paths = {1}
  LargePaths = {}
  MaxUserOps = 2
  MaxRemoteOps = 2
  MaxCrashes = 0
  MaxFaults = 0
  MaxGone = 0
  UserDeletes = FALSE
  UserMidCycle = FALSE
  RemoteMidCycle = FALSE
  MaxDeletePct = 0
PROPERTIES Converges
