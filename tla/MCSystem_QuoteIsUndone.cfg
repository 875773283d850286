SPECIFICATION SystemSpec
CONSTANTS
  MaxAttempts = 2
  MaxRetries = 0
  RefusesResend = {"GerarOrcamento"}
INVARIANT
  QuoteIsUndone
CHECK_DEADLOCK FALSE
