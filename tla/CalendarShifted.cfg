SPECIFICATION Spec
CONSTANTS
  Starts <- MCStarts
  PerHour = 2
  Count = 5
  MaxDays = 62
CHECK_DEADLOCK FALSE
INVARIANT OnlyPeriodsMatch
