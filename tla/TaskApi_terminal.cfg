SPECIFICATION Spec
CONSTANTS
  None = None
  Client = {c1, c2}
  User = {u1}
  Project = {p1}
  Task = {t1}
  Comment = {}
  Ops = {"create_project", "create_task", "update_task"}
  Overlap = TRUE
  Faults = FALSE
PROPERTIES
  TerminalIsFinal
