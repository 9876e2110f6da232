SPECIFICATION Spec
CONSTANTS
  c1 = c1
  Calls <- MCCalls
  ProbeTimeout = 1
  RequestTimeout = 2
  Grace = 3
  ServeSettings <- MCServeSettings
  CommandLines <- MCCommandLines
  MaxStarts <- MCMaxStarts
INVARIANTS TypeOK ZeroWasAskedFor ForwardedInTimeIsNotCut SuccessIsWitnessed ShutdownShortCircuits
PROPERTIES StopsWhenTold WaitingEnds HealthcheckEnds
CHECK_DEADLOCK FALSE
