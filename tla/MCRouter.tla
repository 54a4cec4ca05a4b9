------------------------------ MODULE MCRouter ------------------------------
(* Small instances of Router for TLC: table users with the key column id,  *)
(* keys 0 to 3, two shards with the ranges [0, 2) and [2, 4).              *)
EXTENDS Router

MCShardedTables == [users |-> "id"]
MCShard == {"s1", "s2"}
MCKeys == 0..3

Tab(addr, shard, type, lo, hi) ==
  [addr |-> addr, shard |-> shard, type |-> type, lo |-> lo, hi |-> hi]

\* Tablets of shard s1 at p1 and r1 (range not configured on the replica),
\* and of s2 at p2.
P1 == Tab("p1", "s1", "PRIMARY", 0, 2)
R1 == Tab("r1", "s1", "REPLICA", 0, 0)
Promoted == Tab("r1", "s1", "PRIMARY", 0, 2)
P2 == Tab("p2", "s2", "PRIMARY", 2, 4)

MCAddr == {"p1", "r1", "p2", "bad"}

\* Every shard has a primary: before, during and after a failover of s1.
Healthy == {{P1, R1, P2}, {P1, Promoted, P2}, {Promoted, P2}}

\* A shard without a primary, one whose primary cannot be dialled, two
\* tablets that claim one address, and an empty topology.
Degraded ==
  {{R1, P2}, {P1, Tab("bad", "s2", "PRIMARY", 2, 4)}, {R1, Promoted, P2}, {}}

AllTopologies == Healthy \cup Degraded
Leaderless == {{Tab("r1", "s1", "REPLICA", 0, 2), P2}}
ReplicaOnly == {{R1}}

\* Two replicas for each of two shards.
Replicated ==
  {{P1, R1, Tab("q1", "s1", "REPLICA", 0, 2),
    P2, Tab("r2", "s2", "REPLICA", 2, 4), Tab("q2", "s2", "REPLICA", 2, 4)}}
ReplicatedAddr == MCAddr \cup {"q1", "r2", "q2"}

Eq(col, n, literal) == [op |-> "=", col |-> col, val |-> Value(n, literal)]
Below(col, n) == [op |-> "<", col |-> col, val |-> Value(n, TRUE)]
Or == [op |-> "or", col |-> "", val |-> NoValue]

Stmt(kind, table, where, cols, rows) ==
  [kind |-> kind, plain |-> TRUE, table |-> table, where |-> where,
   cols |-> cols, rows |-> rows]

Where(kind, where) == Stmt(kind, "users", where, <<>>, <<>>)
Row(n) == <<Value(n, TRUE), Value(7, TRUE)>>
Insert(cols, rows) == Stmt("insert", "users", <<>>, cols, rows)

\* INSERT INTO users (id, name) VALUES (n, 7)
InsertOne(n) == Insert(<<"id", "name">>, <<Row(n)>>)
InsertTwo == Insert(<<"id", "name">>, <<Row(1), Row(2)>>)
SelectAll == Where("select", <<>>)

KeyedStmts ==
  {InsertOne(1), InsertOne(2), Where("select", <<Eq("id", 1, TRUE)>>),
   Where("delete", <<Eq("name", 0, TRUE), Eq("id", 3, TRUE)>>)}

OtherStmts ==
  {InsertTwo, SelectAll,
   Insert(<<>>, <<Row(1)>>),
   Insert(<<"name", "id">>, <<<<Value(3, TRUE), Value(1, FALSE)>>>>),
   Where("select", <<Below("id", 3)>>),
   Where("update", <<Or, Eq("name", 1, TRUE)>>),
   [Where("select", <<Eq("id", 1, TRUE)>>) EXCEPT !.plain = FALSE],
   Stmt("ddl", "users", <<>>, <<>>, <<>>)}

AllStmts == KeyedStmts \cup OtherStmts
ScatterReads == {SelectAll}
Inserts == {InsertOne(1)}
MultiRowInserts == {InsertTwo}

\* The topologies meet what the theorems of RouterProofs ask of them.
ASSUME RangesAssumption == RangesDisjoint /\ RangesAgree
=============================================================================
