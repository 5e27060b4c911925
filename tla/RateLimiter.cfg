SPECIFICATION Spec
CONSTANTS
  Never = Never
  Address = {a1, a2}
  Max = 2
  Window = 2
  Second = 2
  Horizon = 9
SYMMETRY Symmetric
INVARIANTS
  TypeOK
  LimitHolds
  RetryAfterExact
PROPERTIES
  ImplementsWindow
