SPECIFICATION Spec
CONSTANTS
  ShardedTables <- MCShardedTables
  Addr <- MCAddr
  None = none
  Shard <- MCShard
  Topologies <- Leaderless
  Undialable = {"bad"}
  Stmts <- Inserts
  Keys <- MCKeys
  Req = {r1}
  MaxSyncs = 1
  CursorWrap = 2
INVARIANT WellPlaced
