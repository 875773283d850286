SPECIFICATION FairSpec
CONSTANTS
  s1 = s1
  s2 = s2
  NoSaga = NoSaga
  w1 = w1
  w2 = w2
  Saga = {s1, s2}
  Relay = {w1, w2}
  MaxRow = 4
  BatchSize = 2
  Unroutable = {}
  MaxFailures = 1
INVARIANTS
  TypeOK
  DuplicatesComeFromFailures
  SagaOrderKept
PROPERTIES
  ImplementsAtLeastOnce
  PendingIsPublished
CHECK_DEADLOCK FALSE
