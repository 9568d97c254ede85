CONSTANTS
  Sites = {a}
  Declarers = {d1}
  Heart = Heart
  None = None
  Torn = Torn
  MinGap = 3
  Grace = 2
  MaxPerMin = 2
  HeartbeatInterval = 1
  Minute = 2
  Skew = 0
  MaxDeclaredOutage = 1
  EnabledChoices = {TRUE}
  WritesMayFail = TRUE
  MaxTime = 5
  MaxDeclares = 1
  MaxHonored = 2
SPECIFICATION Spec
INVARIANTS DiskMatchesMemory WindowsAreReal HonoredPerMinute
PROPERTIES HonoredNearOutage
