SPECIFICATION Spec
CONSTANTS
  Never = Never
  Host = Host
  browser = browser
  writer = writer
  verifier = verifier
  User = {browser, writer, verifier}
  Class <- Classes
  Task = {t1, t2}
  SeedTasks = 1
  Pace = 2
  Max = 1
  Window = 2
  Second = 1
  Horizon = 4
SYMMETRY Symmetric
INVARIANTS
  TypeOK
  NotesAreClose
  RefusedAfterLossOnly
  OwnPaceIsSafe
