-------------------------------- MODULE Admin --------------------------------
(***************************************************************************)
(* The pages of the admin server (gate/admin) that read the topology while *)
(* the watch goroutine changes it: the router's shards come from the last  *)
(* call of Router.Sync, the tablets from EtcdTopology's map, under a lock  *)
(* each.                                                                   *)
(***************************************************************************)
EXTENDS Topology

VARIABLE health  \* a request of handleHealth: the next field and the views read

adminVars == <<vars, health>>

NoRequest == [field |-> 1, shards |-> NoTablets, tablets |-> NoTablets]

AdminInit == Init /\ health = NoRequest

\* Mutant of Fields: the tablets are counted first.
FieldsSwapped == <<"tablets", "shards">>

\* The calls in handleHealth's response, in the order Go evaluates them.
Fields == <<"shards", "tablets">>

\* router.ShardCount(): the shards of the tablets of the last Sync.
ShardCount ==
  /\ health.field <= Len(Fields) /\ Fields[health.field] = "shards"
  /\ health' = [field |-> health.field + 1, shards |-> view,
                tablets |-> health.tablets]
  /\ UNCHANGED vars

\* len(topo.Tablets()), under t.mu.RLock: not while a response is applied.
TabletCount ==
  /\ health.field <= Len(Fields) /\ Fields[health.field] = "tablets"
  /\ pc # "apply"
  /\ health' = [field |-> health.field + 1, shards |-> health.shards,
                tablets |-> tablets]
  /\ UNCHANGED vars

\* writeJSON.
WriteHealth ==
  /\ health.field > Len(Fields)
  /\ health' = NoRequest
  /\ UNCHANGED vars

Serve == ShardCount \/ TabletCount \/ WriteHealth

AdminNext == (Next /\ UNCHANGED health) \/ Serve

AdminSpec == AdminInit /\ [][AdminNext]_adminVars

\* The watch as in Topology; nothing is assumed of the pages.
AdminFairSpec == AdminSpec /\ WF_vars(Watch)

-----------------------------------------------------------------------------
(* Properties                                                              *)

\* The health page reads the router and the topology one after the other
\* while the watch runs: what it counts are states of etcd, and its tablets
\* are never older than its shards.  (NoTablets: read before the get.)
HealthInOrder ==
  health.field > Len(Fields) /\ opened /\ ~missed =>
    \E i, j \in 1..Len(history) :
      /\ i <= j \/ health.shards = NoTablets
      /\ Shows(health.shards, history[i]) \/ health.shards = NoTablets
      /\ Shows(health.tablets, history[j]) \/ health.tablets = NoTablets

=============================================================================
