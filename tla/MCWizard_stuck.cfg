SPECIFICATION Spec
CONSTANTS
  Names = {"n1"}
  Clients = {"k1", "k2"}
  Raw = "raw"
  Code = "CODE"
  Known = {}
  Hidden = {"h"}
  None = None
  LateCatalog = FALSE
  MaxClicks = 7
  MaxFaults = 0
CHECK_DEADLOCK FALSE
PROPERTY CheckAlwaysEnds
