---------------------------- MODULE ClusterProofs ----------------------------
(***************************************************************************)
(* Proof that a failover fences the old primary (Cluster), from the        *)
(* invariant of the watch (TopologyProofs).                                *)
(***************************************************************************)
EXTENDS TopologyProofs, Cluster, FiniteSetTheorems

\* Only tablets write under the prefix, each what it was started with.
FromConfig ==
  /\ proc = [k \in Alias |-> proc[k]]
  /\ \A k \in Alias : proc[k] \in Config[k] \cup {None}
  /\ \A i \in 1..Len(history) : \A k \in Alias : history[i][k] \in Config[k] \cup {None}

\* Since a process was started etcd has shown its record or none.
ProcsOK ==
  \A k \in Alias : proc[k] # None =>
    \E h \in 1..Len(history) :
      /\ history[h][k] = proc[k]
      /\ \A i \in h..Len(history) : history[i][k] \in {proc[k], None}

\* What listens is a process.
ServingOK == \A k \in serving : k \in Alias /\ proc[k] # None

\* The router was given the tablets of etcd's history at seen.
SeenOK ==
  /\ seen \in 0..Len(history)
  /\ seen = 0 => known = {}
  /\ seen # 0 /\ ~missed => known = TabletsOf(history[seen])

\* Its open clients are for those.
OpenOK == \A a \in Addr : clients[a] # 0 => \E t \in known : t.addr = a

\* It lists its shards.
OrderOK == \E n \in Nat : DOMAIN order = 1..n

\* A request holds clients that were open when it was routed.
Held(T) == \A c \in T : c.addr \in Addr /\ c.id # 0

Shape(S, T, M, D) ==
  [pc : {"idle", "send", "done"}, stmt : S, tx : BOOLEAN, ok : BOOLEAN,
   todo : Seq(T), must : M, did : D]

RequestOK(q) ==
  /\ \E S, T, M, D : q \in Shape(S, T, M, D) /\ Held(T)
  /\ q.pc = "send" => q.todo # <<>>

RequestsOK ==
  /\ req = [r \in Req |-> req[r]]
  /\ \A r \in Req : RequestOK(req[r])

RouterOK == OpenOK /\ OrderOK /\ RequestsOK

ClusterInv == IInv /\ FromConfig /\ ProcsOK /\ SeenOK /\ RouterOK

\* A step of the cluster is a step of etcd and the watch, or none.
LEMMA ClusterIsTopology == ClusterNext => [Next]_vars
<1>. SUFFICES ASSUME ClusterNext PROVE [Next]_vars
  BY Zenon
<1>1. ASSUME NEW k \in Alias, Tablet(k) PROVE [Next]_vars
  <2>1. \A v \in Config[k] : v \in Record
    BY ClusterAssumption, Zenon
  <2>. QED BY <1>1, <2>1, Zenon DEF Tablet, Start, Listen, Crash, LosesLease, Next, Etcd
<1>2. NotifyRouter \/ WatchStep \/ WatchBreaks => Next
  BY Zenon DEF NotifyRouter, WatchStep, WatchBreaks, Next, Watch
<1>3. ASSUME NEW r \in Req, Request(r) PROVE [Next]_vars
  BY <1>3, Zenon DEF Request, RouteRequest, Send, SendFails, Answer
<1>. QED BY <1>1, <1>2, <1>3, Zenon DEF ClusterNext

\* A goroutine that serves no request.
LEMMA IdleOK == RequestOK(R!NoRequest)
<1>. DEFINE q == R!NoRequest
<1>1. <<>> \in Seq({}) /\ Held({})
  BY DEF Held
<1>2. q \in Shape({q.stmt}, {}, {{}}, {{}}) /\ q.pc = "idle"
  BY <1>1, Zenon DEF Shape, R!NoRequest
<1>3. SUFFICES RequestOK(q)
  BY Zenon
<1>. HIDE DEF q
<1>. QED BY <1>1, <1>2, Zenon DEF RequestOK

\* At start the processes are those that have registered.
LEMMA InitCluster == ClusterInit => ClusterInv
<1>. SUFFICES ASSUME ClusterInit PROVE ClusterInv
  BY Zenon
<1>1. IInv
  BY InitIInv, Zenon DEF ClusterInit
<1>2. /\ proc = registry /\ seen = 0 /\ history = <<registry>>
      /\ registry \in [Alias -> Record \cup {None}]
      /\ \A k \in Alias : registry[k] \in Config[k] \cup {None}
  BY Zenon DEF ClusterInit, Init
<1>3. /\ clients = [a \in Addr |-> 0] /\ known = {}
      /\ req = [r \in Req |-> R!NoRequest] /\ order = <<>>
  BY Zenon DEF ClusterInit, R!Init
<1>4. Len(history) = 1 /\ history[1] = registry
  BY <1>2, Zenon
<1>5. FromConfig
  BY <1>2, <1>4 DEF FromConfig
<1>6. ProcsOK
  BY <1>2, <1>4 DEF ProcsOK
<1>7. SeenOK /\ OpenOK
  BY <1>2, <1>3, <1>4 DEF SeenOK, OpenOK
<1>8. RequestsOK
  BY <1>3, IdleOK, Zenon DEF RequestsOK
<1>9. OrderOK
  <2>1. DOMAIN (<<>>) = 1..0
    OBVIOUS
  <2>. QED BY <1>3, <2>1, Zenon DEF OrderOK
<1>. QED BY <1>1, <1>5, <1>6, <1>7, <1>8, <1>9, Zenon DEF ClusterInv, RouterOK

\* A tablet's record is written or removed: with the start of its process, or
\* without.
LEMMA RecordChanges ==
  ASSUME IInv, FromConfig, ProcsOK, NEW k \in Alias,
         NEW v \in Config[k] \cup {None}, Change(k, v),
         proc' = [proc EXCEPT ![k] = v] \/ (v = None /\ proc' = proc)
  PROVE  FromConfig' /\ ProcsOK'
<1>. DEFINE L == Len(history)
<1>1. /\ history \in Seq(Registry) /\ L \in Nat \ {0} /\ registry \in Registry
      /\ registry = history[L]
  BY DEF IInv, TypeOK
<1>2. /\ registry' = [registry EXCEPT ![k] = v] /\ history' = Append(history, registry')
  BY Zenon DEF Change
<1>3. /\ Len(history') = L + 1 /\ history'[L + 1] = registry'
      /\ \A i \in 1..L : history'[i] = history[i]
  BY <1>1, <1>2
<1>4. /\ registry'[k] = v
      /\ \A l \in Alias \ {k} : registry'[l] = history[L][l]
  BY <1>1, <1>2, Zenon DEF Registry
<1>5. /\ \A l \in Alias \ {k} : proc'[l] = proc[l]
      /\ proc'[k] = v \/ (v = None /\ proc'[k] = proc[k])
      /\ proc' = [l \in Alias |-> proc'[l]]
  BY Zenon DEF FromConfig
<1>. HIDE DEF L
<1>6. FromConfig'
  <2>1. \A l \in Alias : history[L][l] \in Config[l] \cup {None}
    BY <1>1 DEF FromConfig, L
  <2>2. ASSUME NEW i \in 1..L + 1, NEW l \in Alias
        PROVE  history'[i][l] \in Config[l] \cup {None}
    <3>1. CASE i = L + 1
      BY <1>3, <1>4, <2>1, <3>1, Zenon
    <3>2. CASE i \in 1..L
      BY <1>3, <3>2, Zenon DEF FromConfig, L
    <3>. QED BY <1>1, <3>1, <3>2
  <2>3. \A l \in Alias : proc'[l] \in Config[l] \cup {None}
    BY <1>5, Zenon DEF FromConfig
  <2>. QED BY <1>3, <1>5, <2>2, <2>3, Zenon DEF FromConfig
<1>7. ASSUME NEW l \in Alias, proc'[l] # None
      PROVE  \E h \in 1..L + 1 :
               /\ history'[h][l] = proc'[l]
               /\ \A i \in h..L + 1 : history'[i][l] \in {proc'[l], None}
  <2>1. CASE l = k /\ proc'[k] = v
    <3>1. \A i \in L + 1..L + 1 : i = L + 1
      BY <1>1
    <3>2. L + 1 \in 1..L + 1
      BY <1>1
    <3>. QED BY <1>3, <1>4, <2>1, <3>1, <3>2, Zenon
  <2>2. CASE proc'[l] = proc[l] /\ (l # k \/ v = None)
    <3>1. PICK h \in 1..L : /\ history[h][l] = proc[l]
                            /\ \A i \in h..L : history[i][l] \in {proc[l], None}
      BY <1>7, <2>2, Zenon DEF ProcsOK, L
    <3>2. history'[L + 1][l] \in {proc[l], None}
      <4>1. L \in h..L
        BY <1>1
      <4>. QED BY <1>3, <1>4, <2>2, <3>1, <4>1, Zenon
    <3>3. ASSUME NEW i \in h..L + 1 PROVE history'[i][l] \in {proc[l], None}
      <4>1. i = L + 1 \/ (i \in h..L /\ i \in 1..L)
        BY <1>1
      <4>. QED BY <1>3, <3>1, <3>2, <4>1, Zenon
    <3>4. h \in 1..L + 1 /\ history'[h][l] = proc[l]
      BY <1>1, <1>3, <3>1
    <3>. QED BY <2>2, <3>3, <3>4, Zenon
  <2>. QED BY <1>5, <2>1, <2>2, Zenon
<1>8. ProcsOK'
  BY <1>3, <1>7, Zenon DEF ProcsOK, L
<1>. QED BY <1>6, <1>8, Zenon

\* What the router was given stays in etcd's history.
LEMMA SeenKept ==
  ASSUME IInv, SeenOK, NEW k \in Alias, NEW v \in Record \cup {None}, Change(k, v),
         UNCHANGED <<seen, known>>
  PROVE  SeenOK'
<1>1. history \in Seq(Registry) /\ Len(history) \in Nat /\ missed \in BOOLEAN
  BY DEF IInv, TypeOK
<1>2. /\ history' = Append(history, registry') /\ registry' \in Registry
      /\ ~missed' => ~missed
  BY Zenon DEF Change, Registry, IInv, TypeOK
<1>3. /\ Len(history') = Len(history) + 1
      /\ \A i \in 1..Len(history) : history'[i] = history[i]
  BY <1>1, <1>2
<1>4. seen \in 0..Len(history) /\ (seen # 0 => seen \in 1..Len(history))
  BY <1>1 DEF SeenOK
<1>5. seen' \in 0..Len(history')
  BY <1>1, <1>3, <1>4
<1>6. seen # 0 => TabletsOf(history[seen])' = TabletsOf(history[seen])
  BY <1>3, <1>4, Zenon DEF TabletsOf
<1>. QED BY <1>2, <1>5, <1>6, Zenon DEF SeenOK

\* The steps of the tablets.
LEMMA TabletCluster ==
  ASSUME ClusterInv, NEW k \in Alias, Tablet(k)
  PROVE  (FromConfig /\ ProcsOK /\ SeenOK /\ RouterOK)'
<1>. USE DEF ClusterInv
<1>1. UNCHANGED routeVars /\ seen' = seen
  BY Zenon DEF Tablet, Start, Listen, Crash, LosesLease
<1>2. RouterOK'
  BY <1>1, Zenon DEF routeVars, RouterOK, OpenOK, OrderOK, RequestsOK, RequestOK
<1>3. ASSUME NEW v \in Config[k], Start(k, v) PROVE (FromConfig /\ ProcsOK /\ SeenOK)'
  <2>1. Change(k, v) /\ proc' = [proc EXCEPT ![k] = v]
    BY <1>3, Zenon DEF Start, Register
  <2>2. v \in Record
    BY ClusterAssumption, Zenon
  <2>3. SeenOK'
    BY <1>1, <2>1, <2>2, SeenKept, Zenon DEF routeVars
  <2>. QED BY <2>1, <2>3, RecordChanges, Zenon
<1>4. CASE LosesLease(k)
  <2>1. Change(k, None) /\ proc' = proc
    BY <1>4, Zenon DEF LosesLease, LeaseExpires, procVars
  <2>2. SeenOK'
    BY <1>1, <2>1, SeenKept, Zenon DEF routeVars
  <2>3. FromConfig' /\ ProcsOK'
    BY <2>1, RecordChanges, Zenon
  <2>. QED BY <1>2, <2>2, <2>3, Zenon
<1>5. CASE Listen(k) \/ Crash(k)
  <2>1. /\ proc' = proc \/ proc' = [proc EXCEPT ![k] = None]
        /\ history' = history /\ missed' = missed
    BY <1>5, Zenon DEF Listen, Crash, vars, etcdVars
  <2>2. SeenOK'
    BY <1>1, <2>1, Zenon DEF routeVars, SeenOK, TabletsOf
  <2>3. FromConfig' /\ ProcsOK'
    <3>1. proc = [l \in Alias |-> proc[l]]
      BY Zenon DEF FromConfig
    <3>2. /\ proc' = [l \in Alias |-> proc'[l]]
          /\ \A l \in Alias : proc'[l] \in {proc[l], None}
      BY <2>1, <3>1, Zenon
    <3>3. FromConfig'
      BY <2>1, <3>2, Zenon DEF FromConfig
    <3>4. ProcsOK'
      BY <2>1, <3>2, Zenon DEF ProcsOK
    <3>. QED BY <3>3, <3>4, Zenon
  <2>. QED BY <1>2, <2>2, <2>3, Zenon
<1>. QED BY <1>2, <1>3, <1>4, <1>5, Zenon DEF Tablet

\* What Orders lists.
LEMMA Lists ==
  ASSUME NEW S, IsFiniteSet(S), NEW q \in R!Orders(S)
  PROVE  /\ \E n \in Nat : DOMAIN q = 1..n
         /\ \A j \in DOMAIN q : q[j] \in S
<1>1. R!Cardinality(S) = Cardinality(S)
  BY Zenon DEF R!Cardinality, Cardinality
<1>2. Cardinality(S) \in Nat
  BY FS_CardinalityType, Zenon
<1>3. q \in [1..Cardinality(S) -> S]
  BY <1>1, Zenon DEF R!Orders, R!Injection
<1>. QED BY <1>2, <1>3, Zenon

\* Sync leaves no client open for an address it was not given.
LEMMA SyncCloses ==
  ASSUME NEW ts, IsFiniteSet(ts), R!Sync(ts)
  PROVE  /\ known' = ts /\ req' = req /\ OrderOK'
         /\ \A a \in Addr : clients'[a] # 0 => \E t \in ts : t.addr = a
<1>. DEFINE shards(want) == {t.shard : t \in want}
<1>1. PICK want \in R!Wanted(ts) : /\ clients' = R!SyncedClients(want)
                                   /\ order' \in R!Orders(shards(want))
  BY Zenon DEF R!Sync
<1>2. want \subseteq ts
  BY Zenon DEF R!Wanted
<1>3. \A a \in Addr : clients'[a] # 0 => a \in {t.addr : t \in want}
  BY <1>1, Zenon DEF R!SyncedClients
<1>4. IsFiniteSet(shards(want))
  <2>1. IsFiniteSet(want)
    BY <1>2, FS_Subset, Zenon
  <2>2. [t \in want |-> t.shard] \in Surjection(want, shards(want))
    BY Zenon DEF Surjection
  <2>. HIDE DEF shards
  <2>. QED BY <2>1, <2>2, FS_Surjection, Zenon
<1>. HIDE DEF shards
<1>5. OrderOK'
  BY <1>1, <1>4, Lists, Zenon DEF OrderOK
<1>. QED BY <1>2, <1>3, <1>5, Zenon DEF R!Sync

\* The router is given the tablets of the moment the map shows.
LEMMA NotifyCluster ==
  ASSUME ClusterInv, NotifyRouter
  PROVE  (FromConfig /\ ProcsOK /\ SeenOK /\ RouterOK)'
<1>. USE DEF ClusterInv
<1>1. /\ Notify /\ R!Sync(TabletsOf(tablets)) /\ seen' = Now /\ proc' = proc
      /\ history' = history /\ missed' = missed
  BY Zenon DEF NotifyRouter, Notify, etcdVars, procVars, Now
<1>2. FromConfig' /\ ProcsOK'
  BY <1>1, Zenon DEF FromConfig, ProcsOK
<1>3. /\ known' = TabletsOf(tablets) /\ req' = req /\ OrderOK'
      /\ \A a \in Addr : clients'[a] # 0 => \E t \in TabletsOf(tablets) : t.addr = a
  <2>. DEFINE ts == {tablets[k] : k \in Alias}
  <2>1. [k \in Alias |-> tablets[k]] \in Surjection(Alias, ts)
    BY Zenon DEF Surjection
  <2>. HIDE DEF ts
  <2>2. IsFiniteSet(ts)
    BY <2>1, FS_Surjection, ClusterAssumption, Zenon
  <2>3. IsFiniteSet(TabletsOf(tablets))
    BY <2>2, FS_Subset, Zenon DEF TabletsOf, ts
  <2>. QED BY <1>1, <2>3, SyncCloses, Zenon
<1>4. RouterOK'
  BY <1>3, Zenon DEF RouterOK, OpenOK, RequestsOK, RequestOK
<1>5. Now \in 1..Len(history)
  <2>1. /\ Len(history) \in Nat /\ Len(events) \in Nat /\ Len(events) < Len(history)
    BY DEF IInv, TypeOK
  <2>. QED BY <2>1 DEF Now
<1>6. ~missed => TabletsOf(tablets) = TabletsOf(history[Now])
  <2>. SUFFICES ASSUME ~missed PROVE TabletsOf(tablets) = TabletsOf(history[Now])
    BY Zenon
  <2>1. Shows(tablets, history[Now])
    BY <1>1, Zenon DEF IInv, Following, Notify
  <2>2. \A k \in Alias : history[Now][k] # Invalid
    BY <1>5, ClusterAssumption, TopologyAssumption, Zenon DEF FromConfig
  <2>. QED BY <2>1, <2>2, Zenon DEF Shows, TabletsOf
<1>7. SeenOK'
  <2>1. seen' = Now /\ Now # 0 /\ Now \in 0..Len(history)
    BY <1>1, <1>5 DEF IInv, TypeOK
  <2>2. TabletsOf(history[seen])' = TabletsOf(history[Now])
    BY <1>1, Zenon DEF TabletsOf
  <2>. QED BY <1>1, <1>3, <1>6, <2>1, <2>2, Zenon DEF SeenOK
<1>. QED BY <1>2, <1>4, <1>7, Zenon

\* Other steps of the watch change nothing the router has.
LEMMA WatchCluster ==
  ASSUME ClusterInv, WatchStep \/ WatchBreaks
  PROVE  (FromConfig /\ ProcsOK /\ SeenOK /\ RouterOK)'
<1>. USE DEF ClusterInv
<1>1. UNCHANGED <<routeVars, procVars, seen>>
  BY Zenon DEF WatchStep, WatchBreaks
<1>2. history' = history /\ missed' = missed
  BY Zenon DEF WatchStep, WatchBreaks, GetAll, OpenWatch, ApplyEvent, EndBatch, Receive,
     Breaks, etcdVars
<1>3. RouterOK'
  BY <1>1, Zenon DEF routeVars, RouterOK, OpenOK, OrderOK, RequestsOK, RequestOK
<1>4. SeenOK'
  BY <1>1, <1>2, Zenon DEF routeVars, SeenOK, TabletsOf
<1>5. FromConfig' /\ ProcsOK'
  BY <1>1, <1>2, Zenon DEF procVars, FromConfig, ProcsOK
<1>. QED BY <1>3, <1>4, <1>5, Zenon

\* A pick is an open client, or none.
LEMMA PickHeld ==
  ASSUME NEW s, NEW write, NEW tx, NEW turn, R!Pick(s, write, tx, turn) # <<>>
  PROVE  \E c : /\ R!Pick(s, write, tx, turn) = <<c>>
                /\ c.addr \in Addr /\ c.id # 0
<1>1. PICK a : R!Pick(s, write, tx, turn) = R!ClientOf(s, a)
  BY Zenon DEF R!Pick, R!PickOneForWrite, R!PickOneForRead
<1>. DEFINE c == [addr |-> a, id |-> clients[a], shard |-> s]
<1>2. a \in Addr /\ clients[a] # 0 /\ R!ClientOf(s, a) = <<c>>
  BY <1>1, Zenon DEF R!ClientOf
<1>3. c.addr = a /\ c.id = clients[a]
  BY Zenon
<1>. HIDE DEF c
<1>. QED BY <1>1, <1>2, <1>3, Zenon

\* The same, as a list of clients.
LEMMA PickList ==
  ASSUME NEW s, NEW write, NEW tx, NEW turn
  PROVE  \E T : R!Pick(s, write, tx, turn) \in Seq(T) /\ Held(T)
<1>. DEFINE tcs == R!Pick(s, write, tx, turn)
<1>1. CASE tcs = <<>>
  <2>1. <<>> \in Seq({}) /\ Held({})
    BY DEF Held
  <2>. QED BY <1>1, <2>1, Zenon
<1>2. CASE tcs # <<>>
  <2>1. PICK c : tcs = <<c>> /\ c.addr \in Addr /\ c.id # 0
    BY <1>2, PickHeld
  <2>. HIDE DEF tcs
  <2>2. tcs \in Seq({c}) /\ Held({c})
    BY <2>1 DEF Held
  <2>3. SUFFICES \E T : tcs \in Seq(T) /\ Held(T)
    BY Zenon DEF tcs
  <2>. QED BY <2>2, Zenon
<1>. QED BY <1>1, <1>2, Zenon

\* A scatter goes to open clients.
LEMMA ScatterHeld ==
  ASSUME OrderOK, NEW write, NEW tx, NEW turn, NEW tcs \in R!scatterResult(write, tx, turn)
  PROVE  \E T : tcs \in Seq(T) /\ Held(T)
<1>. DEFINE At(j) == R!PickAt(j, write, tx, turn)
            found == {j \in DOMAIN order : At(j) # <<>>}
            T == {tcs[n] : n \in DOMAIN tcs}
<1>1. IsFiniteSet(found)
  <2>1. PICK n \in Nat : DOMAIN order = 1..n
    BY Zenon DEF OrderOK
  <2>2. IsFiniteSet(DOMAIN order)
    BY <2>1, FS_Interval
  <2>. QED BY <2>2, FS_Subset, Zenon
<1>. HIDE DEF found
<1>2. PICK js \in R!Orders(found) : tcs = [n \in DOMAIN js |-> At(js[n])[1]]
  BY Zenon DEF R!scatterResult, found
<1>3. PICK n \in Nat : DOMAIN js = 1..n /\ \A j \in DOMAIN js : js[j] \in found
  BY <1>1, Lists, Zenon
<1>4. ASSUME NEW j \in DOMAIN js PROVE tcs[j].addr \in Addr /\ tcs[j].id # 0
  <2>1. At(js[j]) # <<>> /\ tcs[j] = At(js[j])[1]
    BY <1>2, <1>3, Zenon DEF found
  <2>2. PICK c : At(js[j]) = <<c>> /\ c.addr \in Addr /\ c.id # 0
    <3>1. PICK s, k : At(js[j]) = R!Pick(s, write, tx, k)
      BY Zenon DEF R!PickAt
    <3>. QED BY <2>1, <3>1, PickHeld, Zenon
  <2>. QED BY <2>1, <2>2
<1>5. DOMAIN tcs = 1..n /\ tcs = [j \in 1..n |-> tcs[j]]
  BY <1>2, <1>3, Zenon
<1>6. tcs \in Seq(T)
  BY <1>5
<1>7. Held(T)
  BY <1>3, <1>4, <1>5, Zenon DEF Held
<1>. QED BY <1>6, <1>7, Zenon

\* A request is given open clients.
LEMMA RouteHeld ==
  ASSUME OrderOK, NEW r \in Req, NEW stmt \in Stmts, NEW tx,
         R!Route(r, stmt, tx)
  PROVE  /\ UNCHANGED <<clients, order, known>>
         /\ \E tcs, T : /\ R!Routed(r, stmt, tx, tcs)
                        /\ tcs \in Seq(T) /\ Held(T)
<1>. DEFINE write == R!IsWrite(stmt)
<1>1. ASSUME NEW s \in DOMAIN groups, R!RouteToKey(r, stmt, tx, s)
      PROVE  \E tcs, T : /\ R!Routed(r, stmt, tx, tcs)
                         /\ tcs \in Seq(T) /\ Held(T)
  <2>. DEFINE tcs == R!Pick(s, write, tx, cursor)
  <2>1. tcs # <<>> /\ R!Routed(r, stmt, tx, tcs)
    BY <1>1, Zenon DEF R!RouteToKey
  <2>2. \E T : tcs \in Seq(T) /\ Held(T)
    BY PickList, Zenon
  <2>. HIDE DEF tcs
  <2>. QED BY <2>1, <2>2, Zenon
<1>2. ASSUME NEW tried, R!RouteToAll(r, stmt, tx, tried)
      PROVE  \E tcs, T : /\ R!Routed(r, stmt, tx, tcs)
                         /\ tcs \in Seq(T) /\ Held(T)
  <2>. DEFINE turn == cursor + R!Turns(tried, write, tx)
  <2>1. PICK tcs \in R!scatterResult(write, tx, turn) : R!Routed(r, stmt, tx, tcs)
    BY <1>2, Zenon DEF R!RouteToAll
  <2>. HIDE DEF turn
  <2>. QED BY <2>1, ScatterHeld, Zenon
<1>. QED BY <1>1, <1>2, Zenon DEF R!Route, R!RouteToKey, R!RouteToAll

\* What is left of a route.
LEMMA Rest ==
  ASSUME NEW T, NEW w \in Seq(T), w # <<>>
  PROVE  /\ Head(w) \in T /\ Tail(w) \in Seq(T)
         /\ Len(w) # 1 => Tail(w) # <<>>
<1>1. /\ Len(w) \in Nat \ {0} /\ Head(w) \in T /\ Tail(w) \in Seq(T)
      /\ DOMAIN Tail(w) = 1..Len(w) - 1
  OBVIOUS
<1>2. \A n \in Nat \ {0} : n # 1 => 1 \in 1..n - 1
  OBVIOUS
<1>3. DOMAIN (<<>>) = {}
  OBVIOUS
<1>. QED BY <1>1, <1>2, <1>3, Zenon

\* The steps of requests.
LEMMA RequestCluster ==
  ASSUME ClusterInv, NEW r \in Req, Request(r)
  PROVE  (FromConfig /\ ProcsOK /\ SeenOK /\ RouterOK)'
<1>. USE DEF ClusterInv, RouterOK
<1>. DEFINE q == req[r]
<1>1. UNCHANGED <<vars, procVars, seen>>
  BY Zenon DEF Request, RouteRequest, Send, SendFails, Answer
<1>2. UNCHANGED <<clients, order, known>>
  BY RouteHeld, Zenon DEF Request, RouteRequest, Send, SendFails, Answer, R!Send,
     R!SendFails, R!Answer, R!routerVars
<1>3. FromConfig' /\ ProcsOK'
  BY <1>1, Zenon DEF vars, etcdVars, procVars, FromConfig, ProcsOK
<1>4. SeenOK' /\ OpenOK' /\ OrderOK'
  BY <1>1, <1>2, Zenon DEF vars, etcdVars, SeenOK, TabletsOf, OpenOK, OrderOK
<1>5. ASSUME NEW new, req' = [req EXCEPT ![r] = new], RequestOK(new) PROVE RequestsOK'
  BY <1>5, Zenon DEF RequestsOK, RequestOK
<1>6. RequestOK(q)
  BY Zenon DEF RequestsOK
<1>7. PICK S, T, M, D : q \in Shape(S, T, M, D) /\ Held(T)
  BY <1>6, Zenon DEF RequestOK
<1>8. req = [u \in Req |-> req[u]]
  BY Zenon DEF RequestsOK
<1>9. CASE RouteRequest(r)
  <2>1. PICK stmt \in Stmts, tx \in BOOLEAN : R!Route(r, stmt, tx)
    BY <1>9, Zenon DEF RouteRequest
  <2>2. PICK tcs, U : R!Routed(r, stmt, tx, tcs) /\ tcs \in Seq(U) /\ Held(U)
    BY <2>1, RouteHeld, Zenon
  <2>. DEFINE to == {tcs[j].shard : j \in DOMAIN tcs}
              new == [pc |-> IF tx \/ tcs = <<>> THEN "done" ELSE "send",
                      stmt |-> stmt, tx |-> tx, ok |-> TRUE, todo |-> tcs,
                      must |-> R!Concerned(stmt), did |-> IF tx THEN to ELSE {}]
  <2>3. req' = [req EXCEPT ![r] = new]
    BY <2>2, Zenon DEF R!Routed
  <2>4. new \in Shape({stmt}, U, {R!Concerned(stmt)}, {to, {}})
    BY <2>2, Zenon DEF Shape
  <2>5. new.pc = "send" => new.todo # <<>>
    BY Zenon
  <2>. HIDE DEF new, to
  <2>6. RequestOK(new)
    BY <2>2, <2>4, <2>5, Zenon DEF RequestOK
  <2>. QED BY <1>3, <1>4, <1>5, <2>3, <2>6, Zenon
<1>10. CASE Send(r)
  <2>. DEFINE did == q.did \cup {Head(q.todo).shard}
              new == [q EXCEPT !.todo = Tail(@), !.did = @ \cup {Head(q.todo).shard},
                               !.pc = IF Len(q.todo) = 1 THEN "done" ELSE @]
  <2>1. q.pc = "send" /\ req' = [req EXCEPT ![r] = new]
    BY <1>8, <1>10, Zenon DEF Send, R!Send
  <2>2. q.todo # <<>> /\ q.todo \in Seq(T)
    BY <1>6, <1>7, <2>1, Zenon DEF RequestOK, Shape
  <2>3. Tail(q.todo) \in Seq(T) /\ (Len(q.todo) # 1 => Tail(q.todo) # <<>>)
    BY <2>2, Rest, Zenon
  <2>4. new \in Shape(S, T, M, {did})
    BY <1>7, <2>1, <2>3, Zenon DEF Shape
  <2>5. new.pc = "send" => new.todo # <<>>
    BY <1>7, <2>3, Zenon DEF Shape
  <2>. HIDE DEF new, did
  <2>6. RequestOK(new)
    BY <1>7, <2>4, <2>5, Zenon DEF RequestOK
  <2>. QED BY <1>3, <1>4, <1>5, <2>1, <2>6, Zenon
<1>11. CASE SendFails(r)
  <2>. DEFINE new == [q EXCEPT !.pc = "done", !.ok = FALSE]
  <2>1. req' = [req EXCEPT ![r] = new]
    BY <1>8, <1>11, Zenon DEF SendFails, R!SendFails
  <2>2. new \in Shape(S, T, M, D) /\ new.pc = "done"
    BY <1>7, Zenon DEF Shape
  <2>. HIDE DEF new
  <2>3. RequestOK(new)
    BY <1>7, <2>2, Zenon DEF RequestOK
  <2>. QED BY <1>3, <1>4, <1>5, <2>1, <2>3, Zenon
<1>12. CASE Answer(r)
  <2>1. req' = [req EXCEPT ![r] = R!NoRequest]
    BY <1>12, Zenon DEF Answer, R!Answer
  <2>. QED BY <1>3, <1>4, <1>5, <2>1, IdleOK, Zenon
<1>. QED BY <1>9, <1>10, <1>11, <1>12, Zenon DEF Request

\* A process listens from some time after its start to its end.
LEMMA NextServing ==
  ASSUME FromConfig, ServingOK, ClusterNext
  PROVE  ServingOK'
<1>1. ASSUME NEW k \in Alias, Tablet(k) PROVE ServingOK'
  <2>1. CASE \E v \in Config[k] : Start(k, v)
    BY <1>1, <2>1, Zenon DEF ServingOK, FromConfig, Start
  <2>2. CASE Listen(k)
    BY <2>2, Zenon DEF ServingOK, Listen
  <2>3. CASE Crash(k)
    BY <2>3, Zenon DEF ServingOK, FromConfig, Crash
  <2>4. CASE LosesLease(k)
    BY <2>4, Zenon DEF ServingOK, LosesLease, procVars
  <2>. QED BY <1>1, <2>1, <2>2, <2>3, <2>4, Zenon DEF Tablet
<1>2. CASE UNCHANGED procVars
  BY <1>2, Zenon DEF ServingOK, procVars
<1>3. (NotifyRouter \/ WatchStep \/ WatchBreaks) => UNCHANGED procVars
  BY Zenon DEF NotifyRouter, WatchStep, WatchBreaks
<1>4. ASSUME NEW r \in Req, Request(r) PROVE UNCHANGED procVars
  BY <1>4, Zenon DEF Request, RouteRequest, Send, SendFails, Answer
<1>. QED BY <1>1, <1>2, <1>3, <1>4, Zenon DEF ClusterNext

\* Every step of the cluster preserves its invariant.
LEMMA NextCluster ==
  ClusterInv /\ ServingOK /\ [ClusterNext]_clusterVars => ClusterInv' /\ ServingOK'
<1>. SUFFICES ASSUME ClusterInv, ServingOK, [ClusterNext]_clusterVars
              PROVE  ClusterInv' /\ ServingOK'
  BY Zenon
<1>1. CASE ClusterNext
  <2>1. IInv'
    BY <1>1, ClusterIsTopology, NextIInv, Zenon DEF ClusterInv
  <2>2. ServingOK'
    BY <1>1, NextServing, Zenon DEF ClusterInv
  <2>3. ASSUME NEW k \in Alias, Tablet(k)
        PROVE  (FromConfig /\ ProcsOK /\ SeenOK /\ RouterOK)'
    BY <2>3, TabletCluster, Zenon
  <2>4. ASSUME NEW r \in Req, Request(r)
        PROVE  (FromConfig /\ ProcsOK /\ SeenOK /\ RouterOK)'
    BY <2>4, RequestCluster, Zenon
  <2>5. NotifyRouter \/ WatchStep \/ WatchBreaks
          => (FromConfig /\ ProcsOK /\ SeenOK /\ RouterOK)'
    BY NotifyCluster, WatchCluster, Zenon
  <2>6. (FromConfig /\ ProcsOK /\ SeenOK /\ RouterOK)'
    BY <1>1, <2>3, <2>4, <2>5, Zenon DEF ClusterNext
  <2>. QED BY <2>1, <2>2, <2>6, Zenon DEF ClusterInv
<1>2. CASE UNCHANGED clusterVars
  <2>1. IInv'
    BY <1>2, NextIInv, Zenon DEF clusterVars, ClusterInv
  <2>2. history' = history /\ missed' = missed
    BY <1>2, Zenon DEF clusterVars, vars, etcdVars
  <2>3. UNCHANGED <<routeVars, procVars, seen>>
    BY <1>2, Zenon DEF clusterVars
  <2>4. RouterOK'
    BY <2>3, Zenon DEF ClusterInv, routeVars, RouterOK, OpenOK, OrderOK, RequestsOK, RequestOK
  <2>5. SeenOK'
    BY <2>2, <2>3, Zenon DEF ClusterInv, routeVars, SeenOK, TabletsOf
  <2>6. FromConfig' /\ ProcsOK' /\ ServingOK'
    BY <2>2, <2>3, Zenon DEF ClusterInv, procVars, FromConfig, ProcsOK, ServingOK
  <2>. QED BY <2>1, <2>4, <2>5, <2>6, Zenon DEF ClusterInv
<1>. QED BY <1>1, <1>2, Zenon

\* The invariant of the cluster.
LEMMA ClusterInvariant == ClusterSpec => [](ClusterInv /\ ServingOK)
<1>1. ClusterInit => ServingOK
  BY Zenon DEF ClusterInit, ServingOK
<1>. QED BY <1>1, InitCluster, NextCluster, PTL DEF ClusterSpec

\* An open client is for a tablet of the router's view; no other tablet has
\* its address, so the process behind it is that tablet's, and etcd shows its
\* record since then or showed it in that view.
LEMMA Fenced ==
  ASSUME OwnAddresses, ClusterInv, ServingOK
  PROVE  OldPrimaryFenced
<1>. SUFFICES ASSUME NEW r \in Req, MayRun(r), R!IsWrite(req[r].stmt), ~missed
              PROVE  \E j \in seen..Len(history) :
                       IsPrimaryOf(history[j], Head(req[r].todo).addr)
  BY Zenon DEF OldPrimaryFenced
<1>. USE DEF ClusterInv, RouterOK
<1>. DEFINE c == Head(req[r].todo)
<1>1. c.addr \in Addr /\ c.id # 0
  <2>1. RequestOK(req[r]) /\ req[r].todo # <<>>
    BY Zenon DEF MayRun, RequestsOK, RequestOK
  <2>2. PICK S, T, M, D : req[r] \in Shape(S, T, M, D) /\ Held(T)
    BY <2>1, Zenon DEF RequestOK
  <2>3. req[r].todo \in Seq(T)
    BY <2>2, Zenon DEF Shape
  <2>4. c \in T
    BY <2>1, <2>3, Rest, Zenon
  <2>. QED BY <2>2, <2>4, Zenon DEF Held
<1>2. clients[c.addr] = c.id
  BY Zenon DEF MayRun
<1>3. PICK k \in Alias : k \in serving /\ proc[k].addr = c.addr /\ proc[k].type = "PRIMARY"
  BY Zenon DEF MayRun, Runs, Takes
<1>. HIDE DEF c
<1>4. PICK t \in known : t.addr = c.addr
  BY <1>1, <1>2, Zenon DEF OpenOK
<1>5. seen \in 1..Len(history) /\ t \in TabletsOf(history[seen])
  BY <1>4 DEF SeenOK, IInv, TypeOK
<1>6. PICK l \in Alias : history[seen][l] = t /\ t \in Config[l]
  BY <1>5, Zenon DEF TabletsOf, FromConfig
<1>7. proc[k] # None /\ proc[k] \in Config[k] /\ proc[k] \in Record
  BY <1>3, ClusterAssumption, Zenon DEF ServingOK, FromConfig
<1>8. k = l
  BY <1>3, <1>4, <1>6, <1>7, Zenon DEF OwnAddresses
<1>9. PICK h \in 1..Len(history) :
        /\ history[h][k] = proc[k]
        /\ \A i \in h..Len(history) : history[i][k] \in {proc[k], None}
  BY <1>7, Zenon DEF ProcsOK
<1>10. \E j \in seen..Len(history) : history[j][k] = proc[k]
  <2>1. CASE h >= seen
    BY <1>5, <1>9, <2>1
  <2>2. CASE h < seen
    <3>1. seen \in h..Len(history) /\ t # None
      BY <1>5, <2>2 DEF TabletsOf
    <3>. QED BY <1>5, <1>6, <1>8, <1>9, <3>1
  <2>. QED BY <1>5, <2>1, <2>2
<1>11. \E j \in seen..Len(history) : IsPrimaryOf(history[j], c.addr)
  BY <1>3, <1>7, <1>10, Zenon DEF IsPrimaryOf
<1>. QED BY <1>11, Zenon DEF c

\* Once the router has been told of a failover, no request it has routed - not
\* even one routed before - has a write run by a process that etcd has not
\* shown as a primary since.
THEOREM OldPrimaryStaysFenced ==
  ASSUME OwnAddresses
  PROVE  ClusterSpec => []OldPrimaryFenced
<1>1. ClusterInv /\ ServingOK => OldPrimaryFenced
  BY Fenced, Zenon
<1>. QED BY <1>1, ClusterInvariant, PTL

=============================================================================
