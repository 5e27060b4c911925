SPECIFICATION Spec
CONSTANTS
  None = None
  Client = {c1, c2}
  User = {u1, u2}
  Project = {p1, p2}
  Task = {t1}
  Comment = {k1}
  Ops = {"create_project", "create_task", "list_projects", "delete_task", "create_comment", "list_comments"}
  Overlap = TRUE
  Faults = FALSE
SYMMETRY Symmetric
INVARIANTS
  OwnDataOnly
PROPERTIES
  OwnerOnly
