----------------------------- MODULE MCTopology -----------------------------
(* Small instances of Topology for TLC: a tablet registers as the primary  *)
(* or as a replica of its shard, so that a failover takes two changes.     *)
EXTENDS Topology

MCRecord == {"PRIMARY", "REPLICA"}
=============================================================================
