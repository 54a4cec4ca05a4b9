------------------------------- MODULE Cluster -------------------------------
(***************************************************************************)
(* A failover end to end: tablet processes that register, serve, crash and *)
(* lose their lease (cmd/vscale/tablet), etcd and the watch of the gate    *)
(* (Topology), and the router Watch feeds with the requests it routes      *)
(* (Router).  onUpdate is Router.Sync (gate/server); a request keeps the   *)
(* clients Route gave it while the topology changes under it.              *)
(***************************************************************************)
EXTENDS Topology, FiniteSets

CONSTANTS
  Config,         \* Config[k]: the records tablet k may be started with
  ShardedTables, Addr, Shard, Stmts, Keys, Req, MaxSyncs, CursorWrap

VARIABLES
  clients, groups, order, cursor, syncs, known, req, store,  \* of Router
  proc,     \* proc[k]: the record process k was started with, None: no process
  serving,  \* the processes that listen
  seen      \* history: how much of etcd's history the router's view shows

Topologies == {ts \in SUBSET Record : IsFiniteSet(ts)}
Undialable == {}

R == INSTANCE Router

ASSUME ClusterAssumption ==
  /\ IsFiniteSet(Alias) /\ \A k \in Alias : Config[k] \subseteq Record
  /\ MaxSyncs > MaxChanges

\* No two tablets may be started with one address: what a deployment looks
\* to.
OwnAddresses ==
  \A k, l \in Alias : \A v \in Config[k], w \in Config[l] :
    v.addr = w.addr => k = l

routeVars == <<clients, groups, order, cursor, syncs, known, req, store>>
procVars == <<proc, serving>>
clusterVars == <<vars, routeVars, procVars, seen>>

\* t.Tablets(), as a set.
TabletsOf(m) == {m[k] : k \in Alias} \ {None}

\* The tablets that are up when the gate starts have registered.
ClusterInit ==
  /\ Init
  /\ R!Init
  /\ \A k \in Alias : registry[k] \in Config[k] \cup {None}
  /\ proc = registry
  /\ serving = {k \in Alias : proc[k] # None}
  /\ seen = 0

-----------------------------------------------------------------------------
(* The tablets                                                             *)

\* main registers the tablet, over what its last process left behind ...
Start(k, v) ==
  /\ proc[k] = None
  /\ proc' = [proc EXCEPT ![k] = v]
  /\ Register(k, v)
  /\ UNCHANGED <<routeVars, serving, seen>>

\* ... and listens after that.
Listen(k) ==
  /\ proc[k] # None /\ k \notin serving
  /\ serving' = serving \cup {k}
  /\ UNCHANGED <<vars, routeVars, proc, seen>>

\* The record stays until the lease expires.
Crash(k) ==
  /\ proc[k] # None
  /\ proc' = [proc EXCEPT ![k] = None]
  /\ serving' = serving \ {k}
  /\ UNCHANGED <<vars, routeVars, seen>>

\* With the process, or without it when etcd cannot be reached.
LosesLease(k) ==
  /\ LeaseExpires(k)
  /\ UNCHANGED <<routeVars, procVars, seen>>

-----------------------------------------------------------------------------
(* The gate's watch                                                        *)

\* Router.Sync is called by the watch goroutine.
NotifyRouter ==
  /\ Notify
  /\ R!Sync(TabletsOf(tablets))
  /\ seen' = Len(history) - Len(events)
  /\ UNCHANGED procVars

WatchStep ==
  /\ GetAll \/ OpenWatch \/ ApplyEvent \/ EndBatch
       \/ \E n \in 1..MaxChanges : Receive(n)
  /\ UNCHANGED <<routeVars, procVars, seen>>

WatchBreaks == Breaks /\ UNCHANGED <<routeVars, procVars, seen>>

-----------------------------------------------------------------------------
(* Requests                                                                *)

\* Mutant of Takes: a replica takes writes.
TakesAll(k, a, stmt) == k \in serving /\ proc[k].addr = a

\* The process that runs a statement sent to address a: it listens there,
\* and a REPLICA refuses writes (ErrReadOnly).
Takes(k, a, stmt) ==
  /\ k \in serving /\ proc[k].addr = a
  /\ R!IsWrite(stmt) => proc[k].type = "PRIMARY"

Runs(r) == LET q == req[r] IN
  \E k \in Alias : Takes(k, Head(q.todo).addr, q.stmt)

RouteRequest(r) ==
  /\ \E stmt \in Stmts : R!Route(r, stmt, FALSE)
  /\ UNCHANGED <<vars, procVars, seen>>

\* A connection that a client lost comes back with the process (gRPC).
Send(r) ==
  /\ R!Send(r) /\ Runs(r)
  /\ UNCHANGED <<vars, procVars, seen>>

SendFails(r) ==
  /\ R!SendFails(r) /\ (Runs(r) \/ UNCHANGED store)
  /\ UNCHANGED <<vars, procVars, seen>>

Answer(r) ==
  /\ R!Answer(r)
  /\ UNCHANGED <<vars, procVars, seen>>

-----------------------------------------------------------------------------

Tablet(k) ==
  \/ \E v \in Config[k] : Start(k, v)
  \/ Listen(k) \/ Crash(k) \/ LosesLease(k)

Request(r) == RouteRequest(r) \/ Send(r) \/ SendFails(r) \/ Answer(r)

ClusterNext ==
  \/ \E k \in Alias : Tablet(k)
  \/ NotifyRouter \/ WatchStep \/ WatchBreaks
  \/ \E r \in Req : Request(r)

ClusterSpec == ClusterInit /\ [][ClusterNext]_clusterVars

\* The watch runs and etcd answers it, as in Topology.
ClusterFairSpec == ClusterSpec /\ WF_clusterVars(NotifyRouter \/ WatchStep)

-----------------------------------------------------------------------------
(* Properties                                                              *)

IsPrimaryOf(reg, a) ==
  \E k \in Alias : reg[k] \in Record /\ reg[k].addr = a
                     /\ reg[k].type = "PRIMARY"

\* Request r may yet take effect: its client is open and a process that
\* takes the statement listens there.
MayRun(r) ==
  /\ req[r].pc = "send" /\ Runs(r)
  /\ clients[Head(req[r].todo).addr] = Head(req[r].todo).id

\* Once the gate has learned of a failover the old primary takes no write
\* of the gate any more: a statement that was routed before and still
\* holds its client either finds the client closed (the tablet left etcd) or
\* is refused (the tablet came back as a replica).  A write runs only on a
\* tablet that etcd has shown as a primary since the moment the router's
\* view is of.
OldPrimaryFenced ==
  \A r \in Req : MayRun(r) /\ R!IsWrite(req[r].stmt) /\ ~missed =>
    \E j \in seen..Len(history) :
      IsPrimaryOf(history[j], Head(req[r].todo).addr)

\* The router ends with the primary that etcd ends with: when from some time
\* on etcd changes no more, names one primary for a shard and its process
\* listens, writes of that shard go to it, through an open client, for
\* good - unless a change fell into the gap or the watch has ended.
FailoverCompletes ==
  \A k \in Alias : \A v \in Config[k] :
    <>[](/\ opened /\ ~missed /\ v.type = "PRIMARY"
         /\ registry[k] = v
         /\ \A l \in Alias \ {k} : registry[l] \in Record =>
              registry[l].shard # v.shard \/ registry[l].type # "PRIMARY")
      => <>[](\/ pc = "stopped"
              \/ /\ v.shard \in DOMAIN groups
                 /\ groups[v.shard].primary = v.addr /\ clients[v.addr] # 0)

=============================================================================
