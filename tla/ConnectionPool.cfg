SPECIFICATION Spec
CONSTANTS
  c1 = c1
  Client = {c1, c2, c3, c4}
  Size = 1
  MaxOverflow = 1
  Transactions <- OneCreates
INVARIANTS
  TypeOK
  NothingLeaks
  NoLostWakeup
PROPERTIES
  ErrorsAreOutages
  Answered
