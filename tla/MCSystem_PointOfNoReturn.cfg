SPECIFICATION SystemSpec
CONSTANTS
  MaxAttempts = 1
  MaxRetries = 0
  RefusesResend = {}
INVARIANT
  PointOfNoReturn
CHECK_DEADLOCK FALSE
