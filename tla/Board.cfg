SPECIFICATION Spec
CONSTANTS
  None = None
  u1 = u1
  u2 = u2
  p1 = p1
  p2 = p2
  t1 = t1
  Tab = {w1}
  User = {u1}
  Project = {p1}
  Task = {t1}
  Slot = {s1}
  Changes = 3
  Owner <- OneOwner
  Home <- OneHome
SYMMETRY Symmetric
INVARIANTS
  TypeOK
  OwnWritesShown
  RefusalMeansStale
