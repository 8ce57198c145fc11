\* The query's LIMIT covers every row: nothing due is left behind.
SPECIFICATION FairSpec
CONSTANTS
  Users = {u1, u2}
  Reminders = {r1, r2}
  MaxId = 2
  DayLength = 1
  LastHour = 0
  Offsets = {0}
  Limit = 2
  MaxTopic = 1
  MaxFaults = 1
  None = none
PROPERTY DueIsSettled
CHECK_DEADLOCK FALSE
