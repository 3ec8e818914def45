SPECIFICATION Spec
CONSTANTS
  Starts <- MCStarts
  PerHour = 2
  Count = 5
  MaxDays = 62
INVARIANTS TypeOK InstantIsInPeriod KindsTellApart NameTellsPeriod
PROPERTIES PremadeStands
CHECK_DEADLOCK FALSE
