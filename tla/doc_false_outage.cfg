CONSTANTS
  Sites = {a}
  Declarers = {d1}
  Heart = Heart
  None = None
  Torn = Torn
  MinGap = 3
  Grace = 1
  MaxPerMin = 1
  HeartbeatInterval = 1
  Minute = 2
  Skew = 0
  MaxDeclaredOutage = 2
  EnabledChoices = {TRUE, FALSE}
  WritesMayFail = FALSE
  MaxTime = 5
  MaxDeclares = 0
  MaxHonored = 2
SPECIFICATION Spec
INVARIANTS WindowsAreReal
