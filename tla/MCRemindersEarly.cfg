\* Any reminder of the current UTC day is due.
SPECIFICATION Spec
CONSTANTS
  Users = {u1, u2}
  Reminders = {r1}
  MaxId = 1
  DayLength = 4
  LastHour = 3
  Offsets = {0, 1}
  Limit = 2
  MaxTopic = 1
  MaxFaults = 0
  None = none
PROPERTY NotBeforeFireAt
CHECK_DEADLOCK FALSE
