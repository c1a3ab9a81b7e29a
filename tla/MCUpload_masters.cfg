CONSTANTS
  Sources <- MCSources
  Stations = {s1, s2}
  OldSource <- MCOld
  Mine = mine
  Other = other
  None = none
  OtherUploads <- MCOther
  Slow = FALSE
  MaxRows = 3
  MaxQueue = 2
  MaxClicks = 4
  MaxFaults = 0
SPECIFICATION Spec
INVARIANT MasterKept
CHECK_DEADLOCK FALSE
