SPECIFICATION FairSpec
CONSTANTS
  Alias = {k1}
  Record <- MCRecord
  Invalid = "invalid"
  None = "none"
  MaxChanges = 2
  MayBreak = FALSE
PROPERTY FollowsEtcd
CHECK_DEADLOCK FALSE
