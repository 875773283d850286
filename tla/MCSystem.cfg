SPECIFICATION FairSystemSpec
CONSTANTS
  MaxAttempts = 1
  MaxRetries = 1
  RefusesResend = {"EnfileirarDiagnostico", "GerarOrcamento", "ConfirmarBaixa", "EnfileirarReparo"}
INVARIANTS
  NothingLeftStanding
  RepairIsReallyPaid
PROPERTIES
  PaidIsRepairedOrRefunded
  WorkDoneIsSeen
CHECK_DEADLOCK FALSE
