SPECIFICATION Spec
CONSTANTS
  MaxRuns = 2
  MaxFaults = 2
  MaxStops = 2
  StartEarly = FALSE
INVARIANTS TypeOK IdleMeansStopped GracefulExit IndicatorHonest ClosesOnce
PROPERTIES HoldsLease ShutdownEnds LiveStopsEnd
CHECK_DEADLOCK FALSE
