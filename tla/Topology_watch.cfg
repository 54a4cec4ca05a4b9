SPECIFICATION AdminFairSpec
CONSTANTS
  Alias = {k1, k2}
  Record <- MCRecord
  Invalid = "invalid"
  None = "none"
  MaxChanges = 3
  MayBreak = TRUE
INVARIANTS
  TypeOK
  ViewWasReal
  HealthInOrder
PROPERTY Converges
CHECK_DEADLOCK FALSE
