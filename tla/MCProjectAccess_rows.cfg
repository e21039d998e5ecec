SPECIFICATION Spec
CONSTANTS
  Nobody = Nobody
  Before = Before
  admin = admin
  m1 = m1
  m2 = m2
  eng = eng
  p1 = p1
  p2 = p2
  s1 = s1
  s2 = s2
  v1 = v1
  v2 = v2
  x1 = x1
  User = {admin, m1, m2, eng}
  Project = {p1, p2}
  Site = {s1, s2}
  Survey = {v1, v2}
  Measurement = {x1}
  Request = {r1, r2, r3}
  Account <- Accounts
  Owner <- Owners
  Assigned <- Member1
  Ground <- Ground1
  Flown <- Flown1
  Input <- AllInputs
  TokenRole = {}
SYMMETRY RequestSymmetry
CHECK_DEADLOCK FALSE
INVARIANTS
  AuditTellsTheRows
  RowsHaveTheirParents
PROPERTIES
  OwnerAccessIsCurrent
  ArchivedIsFrozen
