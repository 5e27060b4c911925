SPECIFICATION Spec
CONSTANTS
  None = None
  Client = {c1, c2}
  User = {u1}
  Project = {p1}
  Task = {t1}
  Comment = {}
  Ops = {"create_project", "get_project", "delete_project", "create_task", "list_tasks", "get_task", "update_task", "delete_task"}
  Overlap = FALSE
  Faults = TRUE
SYMMETRY Symmetric
INVARIANTS
  DeletedIsGone
  NeverOvercounts
PROPERTIES
  ImplementsLifecycle
