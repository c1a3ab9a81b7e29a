SPECIFICATION Spec
CONSTANTS
  Events = {e1, e2}
  Workers = {w1, w2}
  BatchSize = 1
  MaxAttempts = 2
  Garbled = {}
  MaxCrashes = 0
  MaxConfig = 0
CHECK_DEADLOCK FALSE
INVARIANT NoDispute
