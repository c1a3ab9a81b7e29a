SPECIFICATION Spec
CONSTANTS
  Events = {e1, e2}
  Workers = {w1}
  BatchSize = 2
  MaxAttempts = 3
  Garbled = {}
  MaxCrashes = 1
  MaxConfig = 2
INVARIANT NoEarlyDeath
PROPERTY ImplementsDelivery
CHECK_DEADLOCK FALSE
