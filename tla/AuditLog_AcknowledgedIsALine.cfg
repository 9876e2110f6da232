CONSTANTS
  c1 = c1
  c2 = c2
  c3 = c3
  today = today
  tomorrow = tomorrow
  Calls = {c1, c2, c3}
  Days = {today}
  DayOf <- MCOneDay
  Cut = {c1, c2, c3}
SPECIFICATION Spec
INVARIANTS AcknowledgedIsALine
CHECK_DEADLOCK FALSE
