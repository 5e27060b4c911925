SPECIFICATION Spec
CONSTANTS
  Never = Never
  Client = {c1, c2}
  Requests = 3
  Address = {a1, a2}
  Max = 1
  Window = 1
  Second = 1
  Horizon = 2
SYMMETRY Symmetric
INVARIANTS
  TypeOK
  BudgetIsForLogins
  CountersAddUp
  HandledAnswersAreMarked
