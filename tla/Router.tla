------------------------------- MODULE Router -------------------------------
(***************************************************************************)
(* Routing: router.Router, and the statements outside transactions that    *)
(* gateway.Gateway sends where Route says.  Sync and Route run under       *)
(* Router.mu and are one step each; a statement then takes one step per    *)
(* tablet, between which Sync may close the clients it was given.          *)
(***************************************************************************)
EXTENDS Statement

CONSTANTS
  Addr,        \* tablet addresses
  None,        \* the empty address
  Shard,       \* "keyspace/shard" names
  Topologies,  \* sets of tablets Sync may be called with
  Undialable,  \* addresses for which NewTabletClient fails
  Stmts,       \* statements clients send
  Keys,        \* shard keys
  Req,         \* request goroutines
  MaxSyncs,    \* bound: calls of Sync
  CursorWrap   \* the cursor is kept modulo this multiple of replica counts

ASSUME RouterAssumption ==
  /\ None \notin Addr /\ Undialable \subseteq Addr
  /\ MaxSyncs \in Nat /\ CursorWrap \in Nat \ {0}
  /\ \A ts \in Topologies : IsFiniteSet(ts) /\ None \notin ts
  /\ \A t \in UNION Topologies :
       t.addr \in Addr /\ t.shard \in Shard /\ t.lo \in Int /\ t.hi \in Int

\* Rows are inserted under shard keys.
ASSUME StmtsAssumption ==
  /\ Stmts # {} /\ Stmts \subseteq Statements /\ Keys \subseteq Int
  /\ \A s \in Stmts : s.kind = "insert" => Touches(s, Keys) \subseteq Keys

VARIABLES
  clients,  \* Router.clients: which client an address has, 0 if none
  groups,   \* Router.shardGroups
  order,    \* Router.orderedKeys
  cursor,   \* Router.replicaCursor
  syncs,    \* calls of Sync
  known,    \* the topology Sync was last given
  req,      \* the locals of each request
  store     \* store[s]: keys of the rows inserted on shard s

routerVars == <<clients, groups, order, cursor, syncs, known>>
vars == <<routerVars, req, store>>

\* S as a list, in an order the iteration of a Go map may give.
Orders(S) == Injection(1..Cardinality(S), S)

Group == [lo : Int, hi : Int, primary : Addr \cup {None}, replicas : Seq(Addr)]
Client == [addr : Addr, id : 1..MaxSyncs, shard : Shard]

Request == [pc : {"idle", "send", "done"}, stmt : Stmts, tx : BOOLEAN,
            ok : BOOLEAN, todo : Seq(Client), must : SUBSET Shard,
            did : SUBSET Shard]

NoRequest == [pc |-> "idle", stmt |-> CHOOSE s \in Stmts : TRUE, tx |-> FALSE,
              ok |-> FALSE, todo |-> <<>>, must |-> {}, did |-> {}]

\* Types of the state.
TypeOK ==
  /\ clients \in [Addr -> 0..MaxSyncs]
  /\ DOMAIN groups \subseteq Shard
  /\ \A s \in DOMAIN groups : groups[s] \in Group
  /\ order \in Orders(DOMAIN groups)
  /\ cursor \in 0..CursorWrap - 1 /\ syncs \in 0..MaxSyncs
  /\ known \in Topologies \cup {{}}
  /\ req \in [Req -> Request]
  /\ store \in [Shard -> SUBSET Keys]

Init ==
  /\ clients = [a \in Addr |-> 0]
  /\ groups = <<>> /\ order = <<>>
  /\ cursor = 0 /\ syncs = 0 /\ known = {}
  /\ req = [r \in Req |-> NoRequest]
  /\ store = [s \in Shard |-> {}]

-----------------------------------------------------------------------------
(* Router.Sync                                                             *)

IsPrimary(t) == t.type = "PRIMARY"
Unset(t) == t.lo = 0 /\ t.hi = 0

\* want: one tablet per address, any of those that share it.
Wanted(ts) ==
  {w \in SUBSET ts : \A t \in ts : \E u \in w :
                       u.addr = t.addr /\ \A v \in w : v.addr = t.addr => v = u}

\* What the order in which the map iteration gives the tablets ts of a shard
\* decides: the first tablet, the last primary and how the replicas follow
\* each other.
Iterations(ts) ==
  LET primaries == {t \in ts : IsPrimary(t)} IN
  {it \in [first    : ts,
           last     : IF primaries = {} THEN {None} ELSE primaries,
           replicas : Orders(ts \ primaries)] :
     IF IsPrimary(it.first) THEN it.first = it.last => primaries = {it.first}
     ELSE it.first = it.replicas[1]}

\* Mutant of ShardGroup: the range of the first tablet, set or not.
ShardGroupFirstRange(it) ==
  [lo |-> it.first.lo, hi |-> it.first.hi,
   primary |-> IF it.last = None THEN None ELSE it.last.addr,
   replicas |-> [j \in DOMAIN it.replicas |-> it.replicas[j].addr]]

\* The group of a shard: the last primary, and the range of the first tablet
\* or, when that has none, of the primary or the first replica.
ShardGroup(it) ==
  LET ranged == IF ~Unset(it.first) THEN it.first
                ELSE IF it.last # None THEN it.last
                ELSE it.replicas[1]
  IN  [lo |-> ranged.lo, hi |-> ranged.hi,
       primary |-> IF it.last = None THEN None ELSE it.last.addr,
       replicas |-> [j \in DOMAIN it.replicas |-> it.replicas[j].addr]]

\* The groups newGroups may end with.
ShardGroups(want) ==
  LET shards == {t.shard : t \in want}
      Its(s) == Iterations({t \in want : t.shard = s})
  IN  {[s \in shards |-> ShardGroup(its[s])] :
         its \in {f \in [shards -> UNION {Its(s) : s \in shards}] :
                    \A s \in shards : f[s] \in Its(s)}}

\* Mutant of SyncedClients: clients of removed tablets stay.
SyncedClientsKeepsRemoved(want) ==
  [a \in Addr |->
     IF clients[a] # 0 THEN clients[a]
     ELSE IF a \notin {t.addr : t \in want} \/ a \in Undialable THEN 0
     ELSE syncs + 1]

\* Clients of removed tablets are closed, the others are kept, and new
\* addresses are dialled.
SyncedClients(want) ==
  [a \in Addr |->
     IF a \notin {t.addr : t \in want} THEN 0
     ELSE IF clients[a] # 0 THEN clients[a]
     ELSE IF a \in Undialable THEN 0 ELSE syncs + 1]

\* Mutant of Sync: orderedKeys is appended to and not made anew.
SyncAppendsKeys(ts) ==
  /\ syncs < MaxSyncs /\ syncs' = syncs + 1
  /\ known' = ts
  /\ \E want \in Wanted(ts) :
       /\ groups' \in ShardGroups(want)
       /\ clients' = SyncedClients(want)
       /\ \E o \in Orders({t.shard : t \in want}) : order' = order \o o
  /\ UNCHANGED <<cursor, req, store>>

Sync(ts) ==
  /\ syncs < MaxSyncs /\ syncs' = syncs + 1
  /\ known' = ts
  /\ \E want \in Wanted(ts) :
       /\ groups' \in ShardGroups(want)
       /\ clients' = SyncedClients(want)
       /\ order' \in Orders({t.shard : t \in want})
  /\ UNCHANGED <<cursor, req, store>>

-----------------------------------------------------------------------------
(* Router.Route                                                            *)

contains(g, k) == g.lo <= k /\ k < g.hi

\* The clients found under address a, for shard s: one or none.
ClientOf(s, a) ==
  IF a \notin Addr \/ clients[a] = 0 THEN <<>>
  ELSE <<[addr |-> a, id |-> clients[a], shard |-> s]>>

PickOneForWrite(s) == ClientOf(s, groups[s].primary)

\* The next replica in turn, the turn being the same for all shards.
PickOneForRead(s, turn) ==
  LET rs == groups[s].replicas IN
  IF rs = <<>> THEN ClientOf(s, groups[s].primary)
  ELSE ClientOf(s, rs[(turn % Len(rs)) + 1])

\* Mutant of Primary: reads of a transaction are spread like others.
PrimaryUnlessRead(write, tx) == write

\* Writes, and everything in a transaction, go to the primary.
Primary(write, tx) == write \/ tx

\* How many turns it takes to pick from each of the given shards.
Turns(shards, write, tx) ==
  IF Primary(write, tx) THEN 0
  ELSE Cardinality({s \in shards : groups[s].replicas # <<>>})

Pick(s, write, tx, turn) ==
  IF Primary(write, tx) THEN PickOneForWrite(s) ELSE PickOneForRead(s, turn)

\* The pick for the j-th of orderedKeys, after the turns of those before.
PickAt(j, write, tx, turn) ==
  LET before == {order[i] : i \in 1..j - 1} IN
  Pick(order[j], write, tx, turn + Turns(before, write, tx))

\* scatterResult: one tablet of every shard that has a client for it, in the
\* order of orderedKeys.  (The set has one element.)
scatterResult(write, tx, turn) ==
  LET found == {j \in DOMAIN order : PickAt(j, write, tx, turn) # <<>>} IN
  {[n \in DOMAIN js |-> PickAt(js[n], write, tx, turn)[1]] :
     js \in {q \in Orders(found) :
               \A m, n \in DOMAIN q : m < n => q[m] < q[n]}}

\* Shards whose range holds a row the statement may touch and whose tablets
\* the router has clients for.
Concerned(stmt) ==
  {s \in DOMAIN groups :
     /\ \E k \in Touches(stmt, Keys) : contains(groups[s], k)
     /\ groups[s].primary # None
     /\ \A a \in {groups[s].primary} \cup Range(groups[s].replicas) :
          clients[a] # 0}

\* The request goes on with the clients tcs it was given; the coordinator
\* takes over what is in a transaction.
Routed(r, stmt, tx, tcs) ==
  LET shards == {tcs[j].shard : j \in DOMAIN tcs} IN
  req' = [req EXCEPT ![r] =
            [pc |-> IF tx \/ tcs = <<>> THEN "done" ELSE "send",
             stmt |-> stmt, tx |-> tx, ok |-> TRUE, todo |-> tcs,
             must |-> Concerned(stmt), did |-> IF tx THEN shards ELSE {}]]

\* No tablet is known: the one case in which Route's caller fails.
RouteNowhere(r) ==
  /\ req[r].pc = "idle" /\ order = <<>>
  /\ UNCHANGED vars

\* The key is in the range of shard s, which has a client.
RouteToKey(r, stmt, tx, s) ==
  LET write == IsWrite(stmt) tcs == Pick(s, write, tx, cursor) IN
  /\ req[r].pc = "idle" /\ HasKey(stmt) /\ contains(groups[s], Key(stmt))
  /\ tcs # <<>>
  /\ Routed(r, stmt, tx, tcs)
  /\ cursor' = (cursor + Turns({s}, write, tx)) % CursorWrap
  /\ UNCHANGED <<clients, groups, order, syncs, known, store>>

\* There is no key, no shard for it or no client for that shard (which has
\* taken a turn then): every shard gets the statement.
RouteToAll(r, stmt, tx, tried) ==
  LET write == IsWrite(stmt) turn == cursor + Turns(tried, write, tx) IN
  /\ req[r].pc = "idle" /\ order # <<>>
  /\ IF HasKey(stmt) /\ \E s \in DOMAIN groups : contains(groups[s], Key(stmt))
     THEN \E s \in DOMAIN groups :
            /\ tried = {s} /\ contains(groups[s], Key(stmt))
            /\ Pick(s, write, tx, cursor) = <<>>
     ELSE tried = {}
  /\ \E tcs \in scatterResult(write, tx, turn) : Routed(r, stmt, tx, tcs)
  /\ cursor' = (turn + Turns(DOMAIN groups, write, tx)) % CursorWrap
  /\ UNCHANGED <<clients, groups, order, syncs, known, store>>

\* Gateway.Health routes an empty query: it takes a turn on every shard.
Health ==
  /\ order # <<>>
  /\ cursor' = (cursor + Turns(DOMAIN groups, FALSE, FALSE)) % CursorWrap
  /\ UNCHANGED <<clients, groups, order, syncs, known, req, store>>

-----------------------------------------------------------------------------
(* Gateway.executeAutocommit                                               *)

\* The tablet runs the statement.
Run(stmt, s) ==
  store' = IF stmt.kind = "insert"
           THEN [store EXCEPT ![s] = @ \cup Touches(stmt, Keys)] ELSE store

\* The next tablet answers, while its client is open ...
Send(r) ==
  LET q == req[r] tc == Head(q.todo) IN
  /\ q.pc = "send" /\ clients[tc.addr] = tc.id
  /\ Run(q.stmt, tc.shard)
  /\ req' = [req EXCEPT ![r].todo = Tail(@), ![r].did = @ \cup {tc.shard},
                        ![r].pc = IF Len(q.todo) = 1 THEN "done" ELSE @]
  /\ UNCHANGED routerVars

\* ... or the call fails, before or after the tablet ran the statement, and
\* the remaining tablets are not tried.
SendFails(r) ==
  LET q == req[r] tc == Head(q.todo) IN
  /\ q.pc = "send"
  /\ \/ clients[tc.addr] = tc.id /\ Run(q.stmt, tc.shard)
     \/ UNCHANGED store
  /\ req' = [req EXCEPT ![r].pc = "done", ![r].ok = FALSE]
  /\ UNCHANGED routerVars

\* The answer goes out.
Answer(r) ==
  /\ req[r].pc = "done"
  /\ req' = [req EXCEPT ![r] = NoRequest]
  /\ UNCHANGED <<routerVars, store>>

-----------------------------------------------------------------------------

Route(r, stmt, tx) ==
  \/ \E s \in DOMAIN groups : RouteToKey(r, stmt, tx, s)
  \/ \E tried \in {{}} \cup {{s} : s \in DOMAIN groups} :
       RouteToAll(r, stmt, tx, tried)

Call(r) == \E stmt \in Stmts, tx \in BOOLEAN : Route(r, stmt, tx)

\* A read outside a transaction.
Read(r) == \E stmt \in Stmts : ~IsWrite(stmt) /\ Route(r, stmt, FALSE)

Step(r) == Send(r) \/ SendFails(r) \/ Answer(r)

SyncAny == \E ts \in Topologies : Sync(ts)

Next ==
  \/ SyncAny \/ Health
  \/ \E r \in Req : RouteNowhere(r) \/ Call(r) \/ Step(r)

Spec == Init /\ [][Next]_vars

\* The topology is delivered, clients keep sending reads outside of
\* transactions and requests are carried out.
FairSpec ==
  Spec /\ WF_vars(SyncAny) /\ \A r \in Req : SF_vars(Read(r)) /\ WF_vars(Step(r))

-----------------------------------------------------------------------------
(* Properties                                                              *)

\* A statement answered with success has run on every shard that may hold a
\* row it touches and that the router could reach when it was routed: a
\* key in a WHERE clause or a VALUES list never narrows the route too far,
\* and no shard of a scatter is left out, whatever Sync does meanwhile.
NoShardMissed ==
  \A r \in Req : req[r].pc = "done" /\ req[r].ok => req[r].must \subseteq req[r].did

\* A request is routed.
Starts(r) == req[r].pc = "idle" /\ req'[r].pc # "idle"

ToPrimaries(q) ==
  q.tx \/ IsWrite(q.stmt) =>
    \A j \in DOMAIN q.todo : q.todo[j].addr = groups[q.todo[j].shard].primary

\* Inside a transaction even reads go to the primary, and so do all writes
\* (scripts/test_read_write_splitting.sh): the route has no tablet that the
\* router does not hold for a primary.
OnlyPrimaries == [][\A r \in Req : Starts(r) => ToPrimaries(req'[r])]_vars

\* After any sequence of topologies the router has an open client for each
\* tablet of the last one and for no other, and its groups name no other:
\* a tablet that comes back is dialled again.
ClientsMatchTopology ==
  LET addrs == {t.addr : t \in known} IN
  /\ {a \in Addr : clients[a] # 0} = addrs \ Undialable
  /\ \A s \in DOMAIN groups :
       {groups[s].primary} \cup Range(groups[s].replicas) \subseteq
         addrs \cup {None}

\* No key is in the ranges of two shards, ...
RangesDisjoint ==
  \A ts \in Topologies : \A t, u \in ts : t.shard # u.shard =>
    t.hi <= t.lo \/ u.hi <= u.lo \/ t.hi <= u.lo \/ u.hi <= t.lo

\* ... tablets of one shard that have a range have the same, and primaries
\* have one: configurations the router is made for.
RangesAgree ==
  \A ts \in Topologies : \A t \in ts :
    /\ IsPrimary(t) => ~Unset(t)
    /\ \A u \in ts : t.shard = u.shard /\ ~Unset(t) /\ ~Unset(u) =>
                       t.lo = u.lo /\ t.hi = u.hi

\* The shards whose tablets claim key k.
Home(k) == {t.shard : t \in {u \in known : contains(u, k)}}

\* A topology in which each shard has a primary, every tablet can be dialled
\* and no two claim one address.
Sound(ts) ==
  /\ \A t \in ts : \E u \in ts : u.shard = t.shard /\ IsPrimary(u)
  /\ \A t \in ts : t.addr \notin Undialable
  /\ \A t, u \in ts : t.addr = u.addr => t = u

ToItsShard(q) ==
  Sound(known) /\ HasKey(q.stmt) /\ Home(Key(q.stmt)) # {} =>
    {q.todo[j].shard : j \in DOMAIN q.todo} = Home(Key(q.stmt))

\* While the topology is sound a statement with a key in some range goes to
\* the shard of that range and to no other, whatever Sync was given
\* before, in whatever order it saw the tablets, and when some of them
\* have no range configured.
KeyedToItsShard == [][\A r \in Req : Starts(r) => ToItsShard(req'[r])]_vars

\* Rows are where their key belongs (README.md: "Routes SQL to the right
\* backend shard based on table and key-range configuration").
WellPlaced ==
  \A s \in DOMAIN groups : \A k \in store[s] : contains(groups[s], k)

\* A write answered with success was sent to some primary (README.md: "Sends
\* writes to primaries").
WritesSomewhere ==
  \A r \in Req : req[r].pc = "done" /\ req[r].ok /\ IsWrite(req[r].stmt) =>
                   req[r].did # {}

\* Reads are distributed across replicas (README.md): under steady traffic
\* every replica is read again and again.
ReplicasShareReads ==
  \A a \in Addr :
    []<>(\/ \A s \in DOMAIN groups : a \notin Range(groups[s].replicas)
         \/ \E r \in Req : \E j \in DOMAIN req[r].todo : req[r].todo[j].addr = a)

=============================================================================
