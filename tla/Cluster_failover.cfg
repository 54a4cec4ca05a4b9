SPECIFICATION ClusterFairSpec
CONSTANTS
  Alias <- MCAlias
  Record <- MCRecord
  Invalid = invalid
  None = none
  MaxChanges = 2
  MayBreak = TRUE
  Config <- MCConfig
  ShardedTables <- MCShardedTables
  Addr <- MCAddr
  Shard <- MCShard
  Stmts <- MCStmts
  Keys <- MCKeys
  Req = {r1}
  MaxSyncs = 3
  CursorWrap = 1
INVARIANT OldPrimaryFenced
PROPERTY FailoverCompletes
CHECK_DEADLOCK FALSE
