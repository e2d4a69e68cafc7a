SPECIFICATION Spec
CONSTANTS
  Paths = {1, 2}
  LargePaths = {}
  MaxUserOps = 2
  MaxRemoteOps = 2
  MaxCrashes = 0
  MaxFaults = 0
  MaxGone = 0
  UserDeletes = FALSE
  UserMidCycle = TRUE
  RemoteMidCycle = FALSE
  MaxDeletePct = 0
INVARIANTS NoMissedRemoteChange
