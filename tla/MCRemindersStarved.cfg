\* A LIMIT smaller than the rows of a user who opted out.
SPECIFICATION FairSpec
CONSTANTS
  Users = {u1, u2}
  Reminders = {r1, r2}
  MaxId = 2
  DayLength = 1
  LastHour = 0
  Offsets = {0}
  Limit = 1
  MaxTopic = 1
  MaxFaults = 0
  None = none
PROPERTY DueIsSettled
CHECK_DEADLOCK FALSE
