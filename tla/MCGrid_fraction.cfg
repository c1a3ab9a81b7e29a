SPECIFICATION Spec
CONSTANTS
  Weekday <- DaysOfWeek
  Tol = 1
  PerSec = 2
  Plays <- HalfPlays
  Moving <- HalfPlays
  TypeOf <- OneType
  Days = {1, 2, 3}
  Period <- TwoDays
  Bodies <- EdgeBodies
  Overrides <- OneOverride
  Retypes = FALSE
  MaxRules = 2
  MaxEdits = 2
  MaxFlights = 2
  Failures = TRUE
INVARIANT EnginesAgree
