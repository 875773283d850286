SPECIFICATION Spec
CONSTANT MaxChanges = 2
INVARIANTS
  AcceptsByTheRule
  GeneratesTheValidNumber
CHECK_DEADLOCK FALSE
