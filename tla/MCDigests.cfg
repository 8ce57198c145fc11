SPECIFICATION MCSpec
CONSTANTS
  Users = {u1, u2}
  Changing = {u1}
  Api = {api}
  Mcp = {mcp}
  Zones <- TimeZones
  Offsets <- GivenOffsets
  Wanted <- Asked
  DayLength = 2
  DefaultHour = 0
  LastHour = 2
  MaxPatches = 2
  MaxFaults = 1
  None = none
INVARIANTS
  TypeOK
  RepeatsNeedFault
  QuietDayHasDigest
  PatchesKept
PROPERTIES
  TodayIsCounted
CHECK_DEADLOCK FALSE
