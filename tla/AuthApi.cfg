SPECIFICATION Spec
CONSTANTS
  None = None
  Client = {c1, c2}
  User = {u1, u2}
  Email = {e1, e2}
  Token = {t1, t2}
  Process = {p1}
  Lifetime = 1
  Horizon = 2
  Faults = TRUE
SYMMETRY Symmetric
INVARIANTS
  TypeOK
  AckedAccountsLast
  NoLateAccess
