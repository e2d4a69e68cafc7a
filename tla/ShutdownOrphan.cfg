SPECIFICATION Spec
CONSTANTS
  MaxRuns = 2
  MaxFaults = 2
  MaxStops = 2
  StartEarly = TRUE
INVARIANT GracefulExit
CHECK_DEADLOCK FALSE
