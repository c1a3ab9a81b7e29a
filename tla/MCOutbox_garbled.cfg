SPECIFICATION Spec
CONSTANTS
  Events = {e1, e2}
  Workers = {w1}
  BatchSize = 1
  MaxAttempts = 2
  Garbled = {e1}
  MaxCrashes = 0
  MaxConfig = 0
CHECK_DEADLOCK FALSE
PROPERTY PendingEnds
