SPECIFICATION Spec
CONSTANTS
  None = None
  u1 = u1
  u2 = u2
  p1 = p1
  p2 = p2
  t1 = t1
  Tab = {w1}
  User = {u1, u2}
  Project = {p1, p2}
  Task = {}
  Slot = {s1}
  Changes = 1
  Owner <- TwoOwners
  Home <- OneHome
INVARIANTS
  ListsOwnProjects
