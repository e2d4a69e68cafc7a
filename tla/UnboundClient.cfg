SPECIFICATION Spec
CONSTANTS
  Callbacks = {"c1", "c2"}
  MaxRemote = 1
  MaxEdits = 1
  MaxFaults = 0
  BoundClient = FALSE
  EarlyEdits = FALSE
INVARIANT ShutdownSaves
CHECK_DEADLOCK FALSE
