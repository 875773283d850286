SPECIFICATION Spec
CONSTANTS
  c1 = c1
  c2 = c2
  v1 = v1
  v2 = v2
  o1 = o1
  o2 = o2
  d1 = d1
  d2 = d2
  p1 = p1
  r1 = r1
  r2 = r2
  masked = masked
  garbage = garbage
  None = None
  Client = {c1, c2}
  Vehicle = {v1, v2}
  Order = {o1, o2}
  Document = {d1, d2}
  Plate = {p1}
  Spelling = {p1, masked, garbage}
  Norm <- Stands
  Request = {r1, r2}
SYMMETRY Symmetry
INVARIANTS
  TypeOK
  NoCopies
  NothingDangles
  OrderWithItsSaga
  BelongsToWhoAsked
CHECK_DEADLOCK FALSE
