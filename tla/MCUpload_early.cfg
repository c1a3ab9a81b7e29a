CONSTANTS
  Sources <- MCSources
  Stations = {s1, s2}
  OldSource <- MCOld
  Mine = mine
  Other = other
  None = none
  OtherUploads <- MCOther
  Slow = TRUE
  MaxRows = 2
  MaxQueue = 2
  MaxClicks = 5
  MaxFaults = 1
SPECIFICATION Spec
CHECK_DEADLOCK FALSE
PROPERTY ScopeKept
