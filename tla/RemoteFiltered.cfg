SPECIFICATION Spec
CONSTANTS
  Paths = {1, 2}
  LargePaths = {2}
  MaxUserOps = 2
  MaxRemoteOps = 2
  MaxCrashes = 0
  MaxFaults = 0
  MaxGone = 0
  UserDeletes = TRUE
  UserMidCycle = FALSE
  RemoteMidCycle = TRUE
  MaxDeletePct = 0
INVARIANTS NoMissedRemoteChange
