SPECIFICATION Spec
CONSTANTS
  Callbacks = {"c1", "c2"}
  MaxRemote = 0
  MaxEdits = 1
  MaxFaults = 0
  BoundClient = TRUE
  EarlyEdits = TRUE
PROPERTY EditAnswered
CHECK_DEADLOCK FALSE
