SPECIFICATION WatchSpec
CONSTANTS
  Paths = {1, 2}
  LargePaths = {2}
  MaxUserOps = 2
  MaxRemoteOps = 2
  MaxCrashes = 1
  MaxFaults = 0
  MaxGone = 1
  UserDeletes = TRUE
  UserMidCycle = FALSE
  RemoteMidCycle = FALSE
  MaxDeletePct = 0
INVARIANTS NoMissedRemoteChange
PROPERTIES PullsMoveForward ConvergesOnTriggers
