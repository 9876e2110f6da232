CONSTANTS
  MaxQueue = 2
SPECIFICATION Spec
INVARIANTS SignalsAreForwarded
CHECK_DEADLOCK FALSE
