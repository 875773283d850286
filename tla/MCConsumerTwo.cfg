SPECIFICATION Spec
CONSTANTS
  m1 = m1
  m2 = m2
  m3 = m3
  m4 = m4
  e1 = e1
  e2 = e2
  e3 = e3
  w1 = w1
  w2 = w2
  Message = {m1, m2, m3, m4}
  NoMessage = NoMessage
  Malformed = {}
  NotAnObject = {m4}
  EventId = {e1, e2, e3}
  Id <- FourMessages
  Orphan = {e2}
  Poison = {}
  Finishing = {e1}
  Worker = {w1, w2}
  NoWorker = NoWorker
  BatchSize = 2
  MaxReceives = 2
  MaxFaults = 2
SYMMETRY WorkerSymmetry
INVARIANTS
  AppliedOnce
  ToldAtMostOnce
CHECK_DEADLOCK FALSE
