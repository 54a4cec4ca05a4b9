SPECIFICATION Spec
CONSTANTS
  ShardedTables <- MCShardedTables
  Addr <- MCAddr
  None = none
  Shard <- MCShard
  Topologies <- AllTopologies
  Undialable = {"bad"}
  Stmts <- AllStmts
  Keys <- MCKeys
  Req = {r1}
  MaxSyncs = 3
  CursorWrap = 2
INVARIANTS
  TypeOK
  NoShardMissed
  ClientsMatchTopology
PROPERTIES
  OnlyPrimaries
  KeyedToItsShard
