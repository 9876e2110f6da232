CONSTANTS
  MaxQueue = 2
SPECIFICATION Spec
INVARIANTS SignalIsTheStatus
CHECK_DEADLOCK FALSE
