SPECIFICATION FairSpec
CONSTANTS
  joao = joao
  abc = abc
  None = None
  Job = {j1, j2}
  Pod = {p1, p2}
  Person = {joao}
  Plate = {abc}
  OwnerOf <- Owners
  Customer = {c1}
  BackoffLimit = 4
  MaxFailures = 1
INVARIANTS
  VersionTellsSchema
  ServesOnItsModels
  SampleDataOnce
PROPERTY
  RolloutEnds
CHECK_DEADLOCK FALSE
