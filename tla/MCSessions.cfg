SPECIFICATION FairSpec
CONSTANTS
  c1 = c1
  d1 = d1
  d2 = d2
  r1 = r1
  v1 = v1
  v2 = v2
  x1 = x1
  Nobody = Nobody
  Consumer = {c1}
  Checker = {d1, d2}
  Retrier = {r1}
  Deliverer = {v1, v2}
  Deleter = {x1}
  Reply = 1
  MaxClock = 2
INVARIANTS
  TypeOK
  DecidesOnCurrentRow
PROPERTIES
  ChecksActOnExpired
  DeliveryIsFinal
  EveryTransactionEnds
CHECK_DEADLOCK FALSE
