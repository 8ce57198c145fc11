\* Two users, two reminders over two days, one fault.
SPECIFICATION Spec
CONSTANTS
  Users = {u1, u2}
  Reminders = {r1, r2}
  MaxId = 2
  DayLength = 2
  LastHour = 2
  Offsets = {0}
  Limit = 2
  MaxTopic = 2
  MaxFaults = 1
  None = none
INVARIANTS
  TypeOK
  DuplicatesNeedFailure
  LostOnlyIfDisplaced
  StaleForOneTick
SYMMETRY Permutable
CHECK_DEADLOCK FALSE
