SPECIFICATION Spec
CONSTANTS
  Weekday <- DaysOfWeek
  Tol = 1
  PerSec = 1
  Plays <- DayPlays
  Moving <- DayPlays
  TypeOf <- OneType
  Days = {1, 2, 3}
  Period <- TwoDays
  Bodies <- TwoTypes
  Overrides <- OneOverride
  Retypes = TRUE
  MaxRules = 2
  MaxEdits = 2
  MaxFlights = 2
  Failures = TRUE
INVARIANT StaleIsPending
