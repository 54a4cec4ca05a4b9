----------------------------- MODULE MCCluster ------------------------------
(* A small instance of Cluster for TLC: one shard, whose two tablets may   *)
(* each be started as its primary or as a replica.                         *)
EXTENDS Cluster

MCAlias == {"k1", "k2"}
MCAddr == {"a1", "a2"}
MCShard == {"s1"}
MCAddrOf == [k1 |-> "a1", k2 |-> "a2"]

Tab(addr, type) ==
  [addr |-> addr, shard |-> "s1", type |-> type, lo |-> 0, hi |-> 4]

MCConfig ==
  [k \in MCAlias |-> {Tab(MCAddrOf[k], t) : t \in {"PRIMARY", "REPLICA"}}]
MCRecord == UNION {MCConfig[k] : k \in MCAlias}

MCShardedTables == [users |-> "id"]
MCKeys == {1}

\* UPDATE users SET ... WHERE id = 1
MCStmts ==
  {[kind |-> "update", plain |-> TRUE, table |-> "users", cols |-> <<>>,
    where |-> <<[op |-> "=", col |-> "id",
                 val |-> [n |-> 1, literal |-> TRUE, found |-> TRUE]]>>,
    rows |-> <<>>]}

\* The tablets meet what ClusterProofs asks of them.
ASSUME AddressesAssumption == OwnAddresses
=============================================================================
