SPECIFICATION Spec
CONSTANTS
  MaxRuns = 2
  MaxFaults = 2
  MaxStops = 2
  StartEarly = FALSE
PROPERTY StoppingEnds
CHECK_DEADLOCK FALSE
