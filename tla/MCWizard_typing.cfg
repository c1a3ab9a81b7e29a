SPECIFICATION Spec
CONSTANTS
  Names = {"n1", "n2"}
  Clients = {"k1", "k2"}
  Raw = "raw"
  Code = "CODE"
  Known = {"a", "b"}
  Hidden = {"h"}
  None = None
  LateCatalog = FALSE
  MaxClicks = 6
  MaxFaults = 0
CHECK_DEADLOCK FALSE
PROPERTY TypingIsKept
