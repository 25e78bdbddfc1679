SPECIFICATION Spec
CONSTANTS
  None = None
  Processes = {p1, p2}
  DayMinutes = 3
  WeekDays = 2
  Target = 1
  Retention = 1
  MaxTime = 11
  MaxByHand = 1
  MaxMisses = 1
  MaxRestarts = 1
CHECK_DEADLOCK FALSE
INVARIANT DaysAreReported
