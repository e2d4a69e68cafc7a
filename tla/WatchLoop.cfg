SPECIFICATION Spec
CONSTANTS
  Callbacks = {"c1", "c2"}
  MaxRemote = 1
  MaxEdits = 1
  MaxFaults = 1
  BoundClient = TRUE
  EarlyEdits = FALSE
INVARIANTS TypeOK ShutdownSaves
PROPERTIES EditAnswered RemoteAnswered Settles ShutdownEnds
CHECK_DEADLOCK FALSE
