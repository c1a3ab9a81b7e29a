SPECIFICATION Spec
CONSTANTS
  c1 = c1
  c2 = c2
  d1 = d1
  w1 = w1
  w2 = w2
  None = None
  Cells <- MCCells
  Months = {1, 2}
  Picks <- MCPicks
  MonthOf <- MCMonthOf
  TypeOf <- MCTypeOf
  Shapes <- MCShapes
  RuleIds = {1, 2}
  FirstRules <- MCRules
  FirstOverrides <- MCOverrides
  MaxPlays = 2
  MaxClicks = 3
  MaxFaults = 1
CHECK_DEADLOCK FALSE
INVARIANT GridShowsServer
PROPERTY NoLostDraft
PROPERTY CommitEnds
