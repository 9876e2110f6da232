CONSTANTS
  c1 = c1
  c2 = c2
  c3 = c3
  today = today
  tomorrow = tomorrow
  Calls = {c1, c2, c3}
  Days = {today, tomorrow}
  DayOf <- MCTwoDays
  Cut = {c3}
SPECIFICATION Spec
INVARIANTS TypeOK AcknowledgedIsDurable
PROPERTIES ImplementsTrail
CHECK_DEADLOCK FALSE
