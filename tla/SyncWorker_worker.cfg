CONSTANTS
  MaxQueue = 6
SPECIFICATION FairSpec
INVARIANTS TypeOK ReadySound FileCatchesUp ReportsBeforeForwarding NoOrphan
PROPERTIES FileGoesForward StopsWhenAsked
CHECK_DEADLOCK FALSE
