SPECIFICATION FairSpec
CONSTANTS
  m1 = m1
  m2 = m2
  m3 = m3
  m4 = m4
  e1 = e1
  e2 = e2
  e3 = e3
  w1 = w1
  w2 = w2
  Message = {m1, m2, m3, m4}
  NoMessage = NoMessage
  Malformed = {m4}
  NotAnObject = {}
  EventId = {e1, e2, e3}
  Id <- FourMessages
  Orphan = {}
  Poison = {e2}
  Finishing = {e1}
  Worker = {w1}
  NoWorker = NoWorker
  BatchSize = 3
  MaxReceives = 2
  MaxFaults = 2
INVARIANTS
  TypeOK
  DeletedWasProcessed
  DeadHasCause
PROPERTY
  EveryMessageSettles
CHECK_DEADLOCK FALSE
