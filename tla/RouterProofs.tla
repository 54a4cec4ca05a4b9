---------------------------- MODULE RouterProofs ----------------------------
(***************************************************************************)
(* Theorems about Router for any tablets, shards, statements and requests. *)
(***************************************************************************)
EXTENDS Router, FiniteSetTheorems, TLAPS

-----------------------------------------------------------------------------
(* Sequences and numbers                                                   *)

\* A sequence that lists a finite set leaves nothing out.
LEMMA ListsAll ==
  ASSUME NEW S, IsFiniteSet(S), NEW q \in Orders(S)
  PROVE  /\ q \in Seq(S) /\ DOMAIN q = 1..Len(q)
         /\ \A x \in S : \E j \in DOMAIN q : q[j] = x
         /\ \A j \in DOMAIN q : q[j] \in S
         /\ S # {} => 1 \in DOMAIN q
<1>. DEFINE N == Cardinality(S)
<1>1. N \in Nat
  BY FS_CardinalityType, Zenon
<1>2. q \in [1..N -> S] /\ \A i, j \in 1..N : i # j => q[i] # q[j]
  BY Zenon DEF Orders, Injection, IsInjective
<1>3. q \in Injection(1..N, S)
  BY Zenon DEF Orders
<1>4. IsFiniteSet(1..N) /\ Cardinality(1..N) = N
  BY <1>1, FS_Interval
<1>5. q \in Surjection(1..N, S)
  BY <1>3, <1>4, FS_Injection, Zenon
<1>6. \A x \in S : \E j \in 1..N : q[j] = x
  BY <1>5, Zenon DEF Surjection
<1>7. q \in Seq(S) /\ Len(q) = N
  BY <1>1, <1>2
<1>8. S # {} => 1 \in 1..N
  BY <1>1, <1>6
<1>. QED BY <1>2, <1>6, <1>7, <1>8, Zenon

\* Min of a set of numbers is one of them.
LEMMA MinOf ==
  ASSUME NEW S \in SUBSET Nat, S # {}
  PROVE  Min(S) \in S
<1>. DEFINE Less == {p \in Nat \X Nat : p[1] < p[2]}
<1>1. IsWellFoundedOn(Less, Nat)
  BY NatLessThanWellFounded, Zenon DEF OpToRel
<1>. HIDE DEF Less
<1>2. PICK x \in S : \A y \in S : <<y, x>> \notin Less
  BY <1>1, WFMin, Zenon
<1>3. \A y, z \in Nat : y < z => <<y, z>> \in Less
  BY Zenon DEF Less
<1>4. \A y \in S : ~(y < x)
  BY <1>2, <1>3, Zenon
<1>5. \A y \in S : x <= y
  BY <1>4
<1>. QED BY <1>5, Zenon DEF Min

-----------------------------------------------------------------------------
(* Statements                                                              *)

\* EqualityValue finds a condition of the WHERE clause.
LEMMA FoundInWhere ==
  ASSUME NEW w \in Seq(Conditions), NEW c, equalityInExpr(w, c).literal
  PROVE  \E j \in DOMAIN w :
           w[j].op = "=" /\ w[j].col = c /\ equalityInExpr(w, c) = w[j].val
<1>. DEFINE I == {i \in 1..Len(w) : w[i].op = "=" /\ w[i].col = c}
<1>1. IndexWhere(w, LAMBDA x : x.op = "=" /\ x.col = c) =
        IF I # {} THEN Min(I) ELSE 0
  BY Zenon DEF IndexWhere
<1>2. equalityInExpr(w, c) =
        LET j == IF I # {} THEN Min(I) ELSE 0
        IN  IF j = 0 THEN NoValue ELSE w[j].val
  BY <1>1, Zenon DEF equalityInExpr
<1>3. I # {}
  BY <1>2 DEF NoValue
<1>4. I \in SUBSET Nat /\ I \subseteq DOMAIN w
  OBVIOUS
<1>5. Min(I) \in I
  BY <1>3, <1>4, MinOf, Zenon
<1>. HIDE DEF I
<1>6. Min(I) \in DOMAIN w /\ w[Min(I)].op = "=" /\ w[Min(I)].col = c
  BY <1>4, <1>5, Zenon DEF I
<1>7. Min(I) # 0
  BY <1>5 DEF I
<1>. QED BY <1>2, <1>3, <1>6, <1>7, Zenon

\* Where c first is in the sequence q, as IndexWhere finds it.
Position(q, c) ==
  LET I == {j \in 1..Len(q) : q[j] = c} IN IF I # {} THEN Min(I) ELSE 0

\* An INSERT has one row, which has the value at the position of the column.
LEMMA FoundInRow ==
  ASSUME NEW s \in Statements, NEW c, insertedValue(s, c).literal
  PROVE  LET i == Position(s.cols, c)
         IN  /\ s.cols # <<>> /\ DOMAIN s.rows = {1} /\ i \in DOMAIN s.rows[1]
             /\ insertedValue(s, c) = s.rows[1][i]
<1>. DEFINE I == {j \in 1..Len(s.cols) : s.cols[j] = c}
            i == IF I # {} THEN Min(I) ELSE 0
<1>1. Position(s.cols, c) = i
  BY Zenon DEF Position
<1>2. /\ s.cols \in Seq(STRING) /\ s.rows \in Seq(Seq(Values))
  BY Zenon DEF Statements
<1>3. I \in SUBSET Nat /\ 0 \notin I
  BY <1>2
<1>4. I # {} => Min(I) \in I
  BY <1>3, MinOf, Zenon
<1>5. I # {} => s.cols # <<>>
  BY <1>2
<1>6. insertedValue(s, c) = IF i = 0 \/ Len(s.rows) # 1 \/ i > Len(s.rows[1])
                            THEN NoValue ELSE s.rows[1][i]
  BY <1>1, Zenon DEF insertedValue, IndexWhere
<1>. HIDE DEF I
<1>7. i # 0 /\ Len(s.rows) = 1 /\ ~(i > Len(s.rows[1]))
  BY <1>6 DEF NoValue
<1>8. i \in Nat \ {0} /\ s.cols # <<>>
  BY <1>3, <1>4, <1>5, <1>7, Zenon
<1>9. DOMAIN s.rows = {1} /\ s.rows[1] \in Seq(Values)
  BY <1>2, <1>7
<1>10. i \in DOMAIN s.rows[1]
  BY <1>7, <1>8, <1>9
<1>. QED BY <1>1, <1>6, <1>7, <1>8, <1>9, <1>10, Zenon

\* A statement with a key touches no row but those with that key.
LEMMA KeyTouches ==
  ASSUME NEW s \in Statements, HasKey(s), NEW K
  PROVE  Key(s) \in Int /\ Touches(s, K) \subseteq {Key(s)}
<1>. DEFINE c == ShardedTables[s.table]
<1>1. /\ s.kind \in {"select", "insert", "update", "delete"}
      /\ s.table \in DOMAIN ShardedTables
      /\ EqualityValue(s, c).literal
  BY Zenon DEF HasKey, Named
<1>2. /\ s.where \in Seq(Conditions) /\ s.rows \in Seq(Seq(Values))
  BY Zenon DEF Statements
<1>3. CASE s.kind = "insert"
  <2>. DEFINE i == Position(s.cols, c)
  <2>1. EqualityValue(s, c) = insertedValue(s, c)
    BY <1>3, Zenon DEF EqualityValue
  <2>2. /\ s.cols # <<>> /\ DOMAIN s.rows = {1} /\ i \in DOMAIN s.rows[1]
        /\ insertedValue(s, c) = s.rows[1][i]
    BY <1>1, <2>1, FoundInRow, Zenon
  <2>3. Touches(s, K) = {s.rows[j][i].n : j \in DOMAIN s.rows}
    BY <1>1, <1>3, <2>2, Zenon DEF Touches, IndexWhere, Position
  <2>4. s.rows[1] \in Seq(Values)
    BY <1>2, <2>2
  <2>. HIDE DEF i, c
  <2>5. s.rows[1][i].n \in Int
    <3>1. \A w \in Seq(Values) : \A m \in DOMAIN w : w[m] \in Values
      OBVIOUS
    <3>2. s.rows[1][i] \in Values
      BY <2>2, <2>4, <3>1, Zenon
    <3>. QED BY <3>2, Zenon DEF Values
  <2>. QED BY <2>1, <2>2, <2>3, <2>5, Zenon DEF Key, c
<1>4. CASE s.kind # "insert"
  <2>1. EqualityValue(s, c) = equalityInExpr(s.where, c)
    BY <1>1, <1>4, Zenon DEF EqualityValue
  <2>2. PICK j \in DOMAIN s.where :
          /\ s.where[j].op = "=" /\ s.where[j].col = c
          /\ equalityInExpr(s.where, c) = s.where[j].val
    BY <1>1, <1>2, <2>1, FoundInWhere
  <2>3. s.where[j] \in Conditions
    BY <1>2
  <2>4. s.where[j].val.n \in Int
    BY <2>3, Zenon DEF Conditions, Values
  <2>5. \A k : Meets(s.where[j], k) => k = s.where[j].val.n
    BY <2>2, Zenon DEF Meets
  <2>6. Touches(s, K) \subseteq {k \in K : Meets(s.where[j], k)}
    BY <1>1, <1>4, <2>2, Zenon DEF Touches
  <2>. QED BY <2>1, <2>2, <2>4, <2>5, <2>6, Zenon DEF Key
<1>. QED BY <1>3, <1>4, Zenon
-----------------------------------------------------------------------------
(* Shard groups                                                            *)

TabletOK(t) == t.addr \in Addr /\ t.shard \in Shard /\ t.lo \in Int /\ t.hi \in Int

TabletsOK(ts) == IsFiniteSet(ts) /\ None \notin ts /\ \A t \in ts : TabletOK(t)

HasPrimary(ts) == \E u \in ts : IsPrimary(u)

\* The group g may come of the tablets ts of a shard: its range is that of
\* one of them, which has one or is a primary if there are primaries.
GroupOf(ts, g) ==
  /\ g \in Group
  /\ \E t \in ts : /\ g.lo = t.lo /\ g.hi = t.hi
                   /\ HasPrimary(ts) => ~Unset(t) \/ IsPrimary(t)
  /\ IF HasPrimary(ts) THEN \E u \in ts : IsPrimary(u) /\ g.primary = u.addr
     ELSE g.primary = None
  /\ \A j \in DOMAIN g.replicas : \E u \in ts : g.replicas[j] = u.addr

\* The groups gs may come of the tablets want, one per address.
GroupsOf(want, gs) ==
  /\ DOMAIN gs = {t.shard : t \in want}
  /\ \A s \in DOMAIN gs : GroupOf({t \in want : t.shard = s}, gs[s])

\* Whatever the order of the map iteration, the group is of those tablets.
LEMMA IterationGroup ==
  ASSUME NEW ts, TabletsOK(ts), NEW it \in Iterations(ts)
  PROVE  GroupOf(ts, ShardGroup(it))
<1>. DEFINE ps == {t \in ts : IsPrimary(t)}
            g == ShardGroup(it)
            n == IF it.last # None THEN it.last ELSE it.replicas[1]
            ranged == IF ~Unset(it.first) THEN it.first ELSE n
<1>1. /\ it.first \in ts /\ it.replicas \in Orders(ts \ ps)
      /\ it.last \in IF ps = {} THEN {None} ELSE ps
  BY Zenon DEF Iterations
<1>2. IsFiniteSet(ts \ ps) /\ (\A t \in ts : TabletOK(t)) /\ None \notin ts
  BY FS_Difference, Zenon DEF TabletsOK
<1>3. /\ it.replicas \in Seq(ts \ ps) /\ DOMAIN it.replicas = 1..Len(it.replicas)
      /\ \A j \in DOMAIN it.replicas : it.replicas[j] \in ts
      /\ ts \ ps # {} => 1 \in DOMAIN it.replicas
  <2>. DEFINE S == ts \ ps
              q == it.replicas
  <2>1. IsFiniteSet(S) /\ q \in Orders(S) /\ S \subseteq ts
    BY <1>1, <1>2, Zenon
  <2>. HIDE DEF ps, S, q
  <2>2. /\ q \in Seq(S) /\ DOMAIN q = 1..Len(q) /\ (\A j \in DOMAIN q : q[j] \in S)
        /\ S # {} => 1 \in DOMAIN q
    BY <2>1, ListsAll, Zenon
  <2>. QED BY <2>1, <2>2, Zenon DEF S, q
<1>4. IF ps = {} THEN it.last = None ELSE it.last \in ps /\ it.last # None
  BY <1>1, <1>2, Zenon
<1>5. ranged \in ts /\ (ps # {} => ~Unset(ranged) \/ IsPrimary(ranged))
  BY <1>1, <1>3, <1>4, Zenon
<1>6. g = [lo |-> ranged.lo, hi |-> ranged.hi,
           primary |-> IF it.last = None THEN None ELSE it.last.addr,
           replicas |-> [j \in DOMAIN it.replicas |-> it.replicas[j].addr]]
  BY Zenon DEF ShardGroup
<1>. HIDE DEF g, ranged
<1>7. /\ g.lo = ranged.lo /\ g.hi = ranged.hi
      /\ g.primary = IF it.last = None THEN None ELSE it.last.addr
      /\ g.replicas = [j \in DOMAIN it.replicas |-> it.replicas[j].addr]
  BY <1>6, Zenon
<1>8. g.replicas \in Seq(Addr)
  BY <1>2, <1>3, <1>7 DEF TabletOK
<1>9. g.primary \in Addr \cup {None} /\ g.lo \in Int /\ g.hi \in Int
  BY <1>2, <1>4, <1>5, <1>7, Zenon DEF TabletOK
<1>10. g \in Group
  BY <1>6, <1>7, <1>8, <1>9, Zenon DEF Group
<1>11. HasPrimary(ts) <=> ps # {}
  BY Zenon DEF HasPrimary
<1>12. IF HasPrimary(ts) THEN \E u \in ts : IsPrimary(u) /\ g.primary = u.addr
       ELSE g.primary = None
  BY <1>4, <1>7, <1>11, Zenon
<1>13. \A j \in DOMAIN g.replicas : \E u \in ts : g.replicas[j] = u.addr
  BY <1>3, <1>7, Zenon
<1>. QED BY <1>5, <1>7, <1>10, <1>11, <1>12, <1>13, Zenon DEF GroupOf, g
\* Sync: one tablet per address is wanted, and the groups are of those.
LEMMA SyncGroups ==
  ASSUME NEW ts, TabletsOK(ts), NEW want \in Wanted(ts),
         NEW gs \in ShardGroups(want)
  PROVE  /\ GroupsOf(want, gs) /\ IsFiniteSet(DOMAIN gs)
         /\ want \subseteq ts /\ {t.addr : t \in want} = {t.addr : t \in ts}
<1>1. want \subseteq ts /\ \A t \in ts : \E u \in want : u.addr = t.addr
  BY Zenon DEF Wanted
<1>2. IsFiniteSet(want) /\ None \notin want /\ \A t \in want : TabletOK(t)
  BY <1>1, FS_Subset, Zenon DEF TabletsOK
<1>. DEFINE shards == {t.shard : t \in want}
            Of(s) == {t \in want : t.shard = s}
<1>3. PICK its : /\ \A s \in shards : its[s] \in Iterations(Of(s))
                 /\ gs = [s \in shards |-> ShardGroup(its[s])]
  BY Zenon DEF ShardGroups
<1>4. \A s \in shards : TabletsOK(Of(s))
  <2>. SUFFICES ASSUME NEW s \in shards PROVE TabletsOK(Of(s))
    BY Zenon
  <2>1. IsFiniteSet(Of(s))
    BY <1>2, FS_Subset, Zenon
  <2>. QED BY <1>2, <2>1, Zenon DEF TabletsOK
<1>5. \A s \in shards : GroupOf(Of(s), ShardGroup(its[s]))
  BY <1>3, <1>4, IterationGroup, Zenon
<1>6. GroupsOf(want, gs)
  BY <1>3, <1>5, Zenon DEF GroupsOf
<1>7. IsFiniteSet(shards)
  <2>. DEFINE f == [t \in want |-> t.shard]
  <2>1. f \in Surjection(want, shards)
    BY Zenon DEF Surjection
  <2>. HIDE DEF f, shards
  <2>. QED BY <1>2, <2>1, FS_Surjection, Zenon
<1>. QED BY <1>1, <1>3, <1>6, <1>7, Zenon

-----------------------------------------------------------------------------
(* Picks                                                                   *)

\* The router has clients for a primary and all replicas of the shard.
Reachable(s) ==
  /\ groups[s].primary # None
  /\ \A a \in {groups[s].primary} \cup Range(groups[s].replicas) : clients[a] # 0

\* A client for an address.
LEMMA ClientOfType ==
  ASSUME TypeOK, NEW s \in Shard, NEW a \in Addr \cup {None}
  PROVE  /\ ClientOf(s, a) # <<>> =>
              \E c \in Client : ClientOf(s, a) = <<c>> /\ c.shard = s /\ c.addr = a
         /\ a # None /\ clients[a] # 0 => ClientOf(s, a) # <<>>
<1>. DEFINE c == [addr |-> a, id |-> clients[a], shard |-> s]
<1>1. clients \in [Addr -> 0..MaxSyncs] /\ MaxSyncs \in Nat
  BY RouterAssumption, Zenon DEF TypeOK
<1>2. a # None /\ clients[a] # 0 => c \in Client
  BY <1>1 DEF Client
<1>3. ClientOf(s, a) = IF a = None \/ clients[a] = 0 THEN <<>> ELSE <<c>>
  <2>1. a \notin Addr <=> a = None
    BY RouterAssumption, Zenon
  <2>. QED BY <2>1, Zenon DEF ClientOf
<1>4. c.shard = s /\ c.addr = a
  BY Zenon
<1>. HIDE DEF c
<1>. QED BY <1>2, <1>3, <1>4

\* A pick is a client of the shard, the primary's where that is asked for,
\* and there is one if the shard can be reached.
LEMMA PickType ==
  ASSUME TypeOK, NEW s \in DOMAIN groups, NEW write, NEW tx, NEW turn \in Nat
  PROVE  /\ Pick(s, write, tx, turn) # <<>> =>
              \E c \in Client :
                /\ Pick(s, write, tx, turn) = <<c>> /\ c.shard = s
                /\ Primary(write, tx) => c.addr = groups[s].primary
         /\ Reachable(s) => Pick(s, write, tx, turn) # <<>>
<1>. DEFINE g == groups[s]
            a == g.replicas[(turn % Len(g.replicas)) + 1]
<1>1. /\ s \in Shard /\ g.primary \in Addr \cup {None} /\ g.replicas \in Seq(Addr)
  BY Zenon DEF TypeOK, Group
<1>2. g.replicas # <<>> => a \in Addr /\ a \in Range(g.replicas)
  <2>. SUFFICES ASSUME g.replicas # <<>> PROVE a \in Addr /\ a \in Range(g.replicas)
    BY Zenon
  <2>1. Len(g.replicas) \in Nat \ {0}
    BY <1>1
  <2>2. (turn % Len(g.replicas)) + 1 \in 1..Len(g.replicas)
    <3>1. \A n \in Nat \ {0} : (turn % n) + 1 \in 1..n
      OBVIOUS
    <3>. QED BY <2>1, <3>1, Zenon
  <2>3. DOMAIN g.replicas = 1..Len(g.replicas)
    BY <1>1
  <2>. QED BY <1>1, <2>2, <2>3 DEF Range
<1>. HIDE DEF g, a
<1>3. Pick(s, write, tx, turn) =
        IF Primary(write, tx) \/ g.replicas = <<>> THEN ClientOf(s, g.primary)
        ELSE ClientOf(s, a)
  BY Zenon DEF Pick, PickOneForWrite, PickOneForRead, g, a
<1>4. CASE Primary(write, tx) \/ g.replicas = <<>>
  BY <1>1, <1>3, <1>4, ClientOfType DEF Reachable, g
<1>5. CASE ~(Primary(write, tx) \/ g.replicas = <<>>)
  <2>1. Reachable(s) => a # None /\ clients[a] # 0
    BY <1>2, <1>5, RouterAssumption, Zenon DEF Reachable, g
  <2>. QED BY <1>1, <1>2, <1>3, <1>5, <2>1, ClientOfType
<1>. QED BY <1>4, <1>5, Zenon
\* Turns are counted.
LEMMA TurnsType ==
  ASSUME NEW S, IsFiniteSet(S), NEW write, NEW tx
  PROVE  Turns(S, write, tx) \in Nat
<1>. DEFINE T == {s \in S : groups[s].replicas # <<>>}
<1>1. IsFiniteSet(T)
  BY FS_Subset, Zenon
<1>2. Cardinality(T) \in Nat
  BY <1>1, FS_CardinalityType, Zenon
<1>. QED BY <1>2, Zenon DEF Turns

\* The shards of a route.
ShardsOf(tcs) == {tcs[j].shard : j \in DOMAIN tcs}

\* Clients of known shards, of primaries where those are asked for.
RouteOK(tcs, write, tx) ==
  /\ tcs \in Seq(Client)
  /\ \A j \in DOMAIN tcs :
       /\ tcs[j].shard \in DOMAIN groups
       /\ Primary(write, tx) => tcs[j].addr = groups[tcs[j].shard].primary

\* A scatter reaches every shard that can be reached.
LEMMA ScatterType ==
  ASSUME TypeOK, IsFiniteSet(DOMAIN groups), NEW write, NEW tx, NEW turn \in Nat,
         NEW tcs \in scatterResult(write, tx, turn)
  PROVE  /\ RouteOK(tcs, write, tx)
         /\ \A s \in DOMAIN groups : Reachable(s) => s \in ShardsOf(tcs)
<1>. DEFINE At(j) == PickAt(j, write, tx, turn)
            found == {j \in DOMAIN order : At(j) # <<>>}
<1>1. /\ order \in Seq(DOMAIN groups) /\ DOMAIN order = 1..Len(order)
      /\ \A s \in DOMAIN groups : \E j \in DOMAIN order : order[j] = s
      /\ \A j \in DOMAIN order : order[j] \in DOMAIN groups
  BY ListsAll DEF TypeOK
<1>2. ASSUME NEW j \in DOMAIN order
      PROVE  /\ At(j) # <<>> =>
                  \E c \in Client :
                    /\ At(j) = <<c>> /\ c.shard = order[j]
                    /\ Primary(write, tx) => c.addr = groups[order[j]].primary
             /\ Reachable(order[j]) => At(j) # <<>>
  <2>. DEFINE before == {order[i] : i \in 1..j - 1}
  <2>1. before \subseteq DOMAIN groups
    BY <1>1
  <2>2. IsFiniteSet(before)
    BY <2>1, FS_Subset, Zenon
  <2>. HIDE DEF before
  <2>3. turn + Turns(before, write, tx) \in Nat
    BY <2>2, TurnsType
  <2>4. At(j) = Pick(order[j], write, tx, turn + Turns(before, write, tx))
    BY Zenon DEF PickAt, before
  <2>. QED BY <1>1, <2>3, <2>4, PickType
<1>3. IsFiniteSet(found) /\ found \subseteq DOMAIN order
  <2>1. IsFiniteSet(DOMAIN order)
    BY <1>1, FS_Interval
  <2>. QED BY <2>1, FS_Subset, Zenon
<1>. HIDE DEF At, found
<1>4. PICK js \in Orders(found) : tcs = [n \in DOMAIN js |-> At(js[n])[1]]
  BY Zenon DEF scatterResult, At, found
<1>5. /\ js \in Seq(found) /\ DOMAIN js = 1..Len(js)
      /\ \A x \in found : \E n \in DOMAIN js : js[n] = x
      /\ \A n \in DOMAIN js : js[n] \in found
  BY <1>3, ListsAll, Zenon
<1>6. ASSUME NEW n \in DOMAIN js
      PROVE  /\ tcs[n] \in Client /\ tcs[n].shard = order[js[n]]
             /\ Primary(write, tx) => tcs[n].addr = groups[order[js[n]]].primary
             /\ order[js[n]] \in DOMAIN groups
  <2>1. js[n] \in DOMAIN order /\ At(js[n]) # <<>> /\ tcs[n] = At(js[n])[1]
    BY <1>3, <1>4, <1>5, Zenon DEF found
  <2>2. PICK c \in Client :
          /\ At(js[n]) = <<c>> /\ c.shard = order[js[n]]
          /\ Primary(write, tx) => c.addr = groups[order[js[n]]].primary
    BY <1>2, <2>1, Zenon
  <2>. QED BY <1>1, <2>1, <2>2
<1>7. tcs \in Seq(Client) /\ DOMAIN tcs = DOMAIN js
  <2>1. Len(js) \in Nat
    BY <1>5
  <2>2. tcs \in [1..Len(js) -> Client]
    BY <1>4, <1>5, <1>6, Zenon
  <2>. QED BY <1>5, <2>1, <2>2
<1>8. RouteOK(tcs, write, tx)
  BY <1>6, <1>7, Zenon DEF RouteOK
<1>9. ASSUME NEW s \in DOMAIN groups, Reachable(s)
      PROVE  s \in ShardsOf(tcs)
  <2>1. PICK j \in DOMAIN order : order[j] = s
    BY <1>1, Zenon
  <2>2. j \in found
    BY <1>2, <1>9, <2>1, Zenon DEF found
  <2>3. PICK n \in DOMAIN js : js[n] = j
    BY <1>5, <2>2, Zenon
  <2>. QED BY <1>6, <1>7, <2>1, <2>3, Zenon DEF ShardsOf
<1>. QED BY <1>8, <1>9, Zenon
-----------------------------------------------------------------------------
(* The inductive invariant                                                 *)

\* The groups are of the topology Sync was last given, and the clients are
\* for its addresses.
GroupsOK ==
  /\ IsFiniteSet(DOMAIN groups)
  /\ \E want \in Wanted(known) : GroupsOf(want, groups)

ClientsOK ==
  {a \in Addr : clients[a] # 0} = {t.addr : t \in known} \ Undialable

SendsOK == \A r \in Req : req[r].pc = "send" => req[r].todo # <<>>

IInv == TypeOK /\ GroupsOK /\ ClientsOK /\ SendsOK

\* Topologies are finite sets of tablets.
LEMMA TopologyOK ==
  ASSUME NEW ts \in Topologies \cup {{}}
  PROVE  TabletsOK(ts)
  BY RouterAssumption, FS_EmptySet, Zenon DEF TabletsOK, TabletOK

\* A goroutine that serves no request.
LEMMA NoRequestType == NoRequest \in Request /\ NoRequest.pc = "idle"
<1>1. (CHOOSE s \in Stmts : TRUE) \in Stmts
  BY StmtsAssumption, Zenon
<1>2. <<>> \in Seq(Client)
  OBVIOUS
<1>. QED BY <1>1, <1>2, Zenon DEF NoRequest, Request

\* At start the router knows no tablet.
LEMMA InitIInv == Init => IInv
<1>. SUFFICES ASSUME Init PROVE IInv
  BY Zenon
<1>1. groups = <<>> /\ DOMAIN groups = {} /\ order = <<>>
  BY DEF Init
<1>2. GroupsOK
  <2>1. {} \in Wanted(known) /\ IsFiniteSet({})
    BY FS_EmptySet, Zenon DEF Init, Wanted
  <2>2. GroupsOf({}, groups)
    BY <1>1, Zenon DEF GroupsOf
  <2>. QED BY <1>1, <2>1, <2>2, Zenon DEF GroupsOK
<1>3. order \in Orders(DOMAIN groups)
  BY <1>1, FS_EmptySet DEF Orders, Injection, IsInjective
<1>4. NoRequest \in Request
  BY NoRequestType, Zenon
<1>5. TypeOK
  BY <1>1, <1>3, <1>4, RouterAssumption DEF Init, TypeOK
<1>6. ClientsOK
  BY Zenon DEF Init, ClientsOK
<1>7. SendsOK
  BY Zenon DEF Init, SendsOK, NoRequest
<1>. QED BY <1>2, <1>5, <1>6, <1>7, Zenon DEF IInv

\* Sync leaves the clients and the groups of the new topology.
LEMMA SyncIInv ==
  ASSUME IInv, NEW ts \in Topologies, Sync(ts)
  PROVE  IInv'
<1>1. PICK want \in Wanted(ts) :
        /\ groups' \in ShardGroups(want)
        /\ clients' = SyncedClients(want)
        /\ order' \in Orders({t.shard : t \in want})
  BY Zenon DEF Sync
<1>2. /\ syncs < MaxSyncs /\ syncs' = syncs + 1 /\ known' = ts
      /\ cursor' = cursor /\ req' = req /\ store' = store
  BY Zenon DEF Sync
<1>3. TabletsOK(ts)
  BY TopologyOK, Zenon
<1>4. /\ GroupsOf(want, groups') /\ IsFiniteSet(DOMAIN groups')
      /\ want \subseteq ts /\ {t.addr : t \in want} = {t.addr : t \in ts}
  BY <1>1, <1>3, SyncGroups, Zenon
<1>5. GroupsOK'
  BY <1>2, <1>4, Zenon DEF GroupsOK, GroupsOf, GroupOf
<1>6. /\ DOMAIN groups' = {t.shard : t \in want}
      /\ \A s \in DOMAIN groups' : groups'[s] \in Group
  BY <1>4, Zenon DEF GroupsOf, GroupOf
<1>7. DOMAIN groups' \subseteq Shard
  BY <1>3, <1>4, <1>6, Zenon DEF TabletsOK, TabletOK
<1>8. clients \in [Addr -> 0..MaxSyncs] /\ syncs \in 0..MaxSyncs /\ MaxSyncs \in Nat
  BY RouterAssumption, Zenon DEF IInv, TypeOK
<1>9. clients' \in [Addr -> 0..MaxSyncs] /\ syncs' \in 0..MaxSyncs
  BY <1>1, <1>2, <1>8 DEF SyncedClients
<1>10. TypeOK'
  BY <1>1, <1>2, <1>6, <1>7, <1>9, Zenon DEF IInv, TypeOK
<1>11. ClientsOK'
  <2>1. \A a \in Addr : clients'[a] # 0 <=>
                           a \in {t.addr : t \in want} /\ (clients[a] # 0 \/ a \notin Undialable)
    BY <1>1, <1>8 DEF SyncedClients
  <2>2. \A a \in Addr : clients[a] # 0 => a \notin Undialable
    BY Zenon DEF IInv, ClientsOK
  <2>3. {t.addr : t \in ts} \subseteq Addr
    BY <1>3, Zenon DEF TabletsOK, TabletOK
  <2>. QED BY <1>2, <1>4, <2>1, <2>2, <2>3, Zenon DEF ClientsOK
<1>12. SendsOK'
  BY <1>2, Zenon DEF IInv, SendsOK
<1>. QED BY <1>5, <1>10, <1>11, <1>12, Zenon DEF IInv
-----------------------------------------------------------------------------
(* Routes                                                                  *)

\* No two groups hold one key, if no two shards claim it.
LEMMA GroupsDisjoint ==
  ASSUME IInv, RangesDisjoint, NEW k \in Int,
         NEW s \in DOMAIN groups, contains(groups[s], k),
         NEW u \in DOMAIN groups, contains(groups[u], k)
  PROVE  s = u
<1>1. PICK want \in Wanted(known) : GroupsOf(want, groups)
  BY Zenon DEF IInv, GroupsOK
<1>0. ASSUME NEW x \in DOMAIN groups
      PROVE  \E t \in want : t.shard = x /\ groups[x].lo = t.lo /\ groups[x].hi = t.hi
  <2>. DEFINE ts == {y \in want : y.shard = x}
  <2>1. GroupOf(ts, groups[x])
    BY <1>1, Zenon DEF GroupsOf
  <2>. HIDE DEF ts
  <2>2. \E t \in ts : groups[x].lo = t.lo /\ groups[x].hi = t.hi
    BY <2>1, Zenon DEF GroupOf
  <2>. QED BY <2>2, Zenon DEF ts
<1>2. PICK t \in want : t.shard = s /\ groups[s].lo = t.lo /\ groups[s].hi = t.hi
  BY <1>0, Zenon
<1>3. PICK v \in want : v.shard = u /\ groups[u].lo = v.lo /\ groups[u].hi = v.hi
  BY <1>0, Zenon
<1>4. t \in known /\ v \in known /\ known \in Topologies
  BY Zenon DEF Wanted, IInv, TypeOK
<1>5. t.lo \in Int /\ t.hi \in Int /\ v.lo \in Int /\ v.hi \in Int
  BY <1>4, TopologyOK, Zenon DEF TabletsOK, TabletOK
<1>6. t.lo <= k /\ k < t.hi /\ v.lo <= k /\ k < v.hi
  BY <1>2, <1>3, Zenon DEF contains
<1>7. t.shard # v.shard =>
        t.hi <= t.lo \/ v.hi <= v.lo \/ t.hi <= v.lo \/ v.hi <= t.lo
  BY <1>4, Zenon DEF RangesDisjoint
<1>. QED BY <1>2, <1>3, <1>5, <1>6, <1>7

\* What Route's caller goes on with.
LEMMA RouteFacts ==
  ASSUME IInv, NEW r \in Req, NEW stmt \in Stmts, NEW tx \in BOOLEAN,
         Route(r, stmt, tx)
  PROVE  \E tcs :
           /\ RouteOK(tcs, IsWrite(stmt), tx) /\ Routed(r, stmt, tx, tcs)
           /\ RangesDisjoint => Concerned(stmt) \subseteq ShardsOf(tcs)
           /\ \/ /\ HasKey(stmt)
                 /\ \E s \in DOMAIN groups :
                      contains(groups[s], Key(stmt)) /\ ShardsOf(tcs) = {s}
              \/ HasKey(stmt) /\ RangesDisjoint =>
                   \A s \in DOMAIN groups :
                     contains(groups[s], Key(stmt)) => ~Reachable(s)
           /\ cursor' \in 0..CursorWrap - 1
           /\ UNCHANGED <<clients, groups, order, syncs, known, store>>
           /\ req[r].pc = "idle"
<1>. DEFINE write == IsWrite(stmt)
<1>1. /\ TypeOK /\ IsFiniteSet(DOMAIN groups)
      /\ cursor \in Nat /\ CursorWrap \in Nat \ {0}
  BY RouterAssumption DEF IInv, TypeOK, GroupsOK
<1>2. \A n \in Nat : n % CursorWrap \in 0..CursorWrap - 1
  BY <1>1
<1>3. stmt \in Statements /\ Touches(stmt, Keys) \subseteq Int
  BY StmtsAssumption, Zenon DEF Touches
<1>4. \A s \in Concerned(stmt) :
        /\ s \in DOMAIN groups /\ Reachable(s)
        /\ \E k \in Touches(stmt, Keys) : contains(groups[s], k)
  BY Zenon DEF Concerned, Reachable
<1>5. ASSUME NEW s \in DOMAIN groups, RouteToKey(r, stmt, tx, s)
      PROVE  \E tcs : /\ RouteOK(tcs, write, tx) /\ Routed(r, stmt, tx, tcs)
                      /\ RangesDisjoint => Concerned(stmt) \subseteq ShardsOf(tcs)
                      /\ HasKey(stmt) /\ contains(groups[s], Key(stmt))
                      /\ ShardsOf(tcs) = {s}
                      /\ cursor' \in 0..CursorWrap - 1
                      /\ UNCHANGED <<clients, groups, order, syncs, known, store>>
                      /\ req[r].pc = "idle"
  <2>. DEFINE tcs == Pick(s, write, tx, cursor)
  <2>1. /\ req[r].pc = "idle" /\ HasKey(stmt) /\ contains(groups[s], Key(stmt))
        /\ tcs # <<>> /\ Routed(r, stmt, tx, tcs)
        /\ cursor' = (cursor + Turns({s}, write, tx)) % CursorWrap
        /\ UNCHANGED <<clients, groups, order, syncs, known, store>>
    BY <1>5, Zenon DEF RouteToKey
  <2>2. PICK c \in Client : /\ tcs = <<c>> /\ c.shard = s
                            /\ Primary(write, tx) => c.addr = groups[s].primary
    BY <1>1, <2>1, PickType
  <2>. HIDE DEF tcs
  <2>3. RouteOK(tcs, write, tx) /\ ShardsOf(tcs) = {s}
    BY <2>2 DEF RouteOK, ShardsOf
  <2>4. IsFiniteSet({s})
    BY FS_Singleton, Zenon
  <2>5. Turns({s}, write, tx) \in Nat
    BY <2>4, TurnsType, Zenon
  <2>6. cursor + Turns({s}, write, tx) \in Nat
    BY <1>1, <2>5
  <2>7. cursor' \in 0..CursorWrap - 1
    BY <1>2, <2>1, <2>6, Zenon
  <2>8. Key(stmt) \in Int /\ Touches(stmt, Keys) \subseteq {Key(stmt)}
    BY <1>3, <2>1, KeyTouches, Zenon
  <2>9. ASSUME RangesDisjoint, NEW u \in Concerned(stmt) PROVE u = s
    <3>1. u \in DOMAIN groups /\ contains(groups[u], Key(stmt))
      BY <1>4, <2>8, <2>9, Zenon
    <3>. QED BY <2>1, <2>8, <2>9, <3>1, GroupsDisjoint, Zenon
  <2>. QED BY <2>1, <2>3, <2>7, <2>9, Zenon
<1>6. ASSUME NEW tried \in {{}} \cup {{s} : s \in DOMAIN groups},
             RouteToAll(r, stmt, tx, tried)
      PROVE  \E tcs : /\ RouteOK(tcs, write, tx) /\ Routed(r, stmt, tx, tcs)
                      /\ Concerned(stmt) \subseteq ShardsOf(tcs)
                      /\ HasKey(stmt) /\ RangesDisjoint =>
                           \A s \in DOMAIN groups :
                             contains(groups[s], Key(stmt)) => ~Reachable(s)
                      /\ cursor' \in 0..CursorWrap - 1
                      /\ UNCHANGED <<clients, groups, order, syncs, known, store>>
                      /\ req[r].pc = "idle"
  <2>. DEFINE turn == cursor + Turns(tried, write, tx)
  <2>1. /\ req[r].pc = "idle"
        /\ cursor' = (turn + Turns(DOMAIN groups, write, tx)) % CursorWrap
        /\ UNCHANGED <<clients, groups, order, syncs, known, store>>
    BY <1>6, Zenon DEF RouteToAll
  <2>2. PICK tcs \in scatterResult(write, tx, turn) : Routed(r, stmt, tx, tcs)
    BY <1>6, Zenon DEF RouteToAll
  <2>3. IsFiniteSet(tried)
    BY FS_Singleton, FS_EmptySet, ZenonT(30)
  <2>4. Turns(tried, write, tx) \in Nat /\ Turns(DOMAIN groups, write, tx) \in Nat
    BY <1>1, <2>3, TurnsType, Zenon
  <2>5. turn \in Nat /\ turn + Turns(DOMAIN groups, write, tx) \in Nat
    BY <1>1, <2>4
  <2>. HIDE DEF turn
  <2>6. cursor' \in 0..CursorWrap - 1
    BY <1>2, <2>1, <2>5, Zenon
  <2>7. /\ RouteOK(tcs, write, tx)
        /\ \A s \in DOMAIN groups : Reachable(s) => s \in ShardsOf(tcs)
    BY <1>1, <2>2, <2>5, ScatterType, Zenon
  <2>8. ASSUME HasKey(stmt), RangesDisjoint, NEW s \in DOMAIN groups,
               contains(groups[s], Key(stmt))
        PROVE  ~Reachable(s)
    <3>1. PICK u \in DOMAIN groups : /\ contains(groups[u], Key(stmt))
                                     /\ Pick(u, write, tx, cursor) = <<>>
      BY <1>6, <2>8, Zenon DEF RouteToAll
    <3>2. Key(stmt) \in Int
      BY <1>3, <2>8, KeyTouches, Zenon
    <3>3. u = s
      BY <2>8, <3>1, <3>2, GroupsDisjoint, Zenon
    <3>4. Pick(s, write, tx, cursor) = <<>>
      BY <3>1, <3>3, Zenon
    <3>. QED BY <1>1, <3>4, PickType
  <2>. QED BY <1>4, <2>1, <2>2, <2>6, <2>7, <2>8, Zenon
<1>. QED BY <1>5, <1>6, Zenon DEF Route
-----------------------------------------------------------------------------
(* Steps                                                                   *)

\* A route of a request under way.
LEMMA TailShards ==
  ASSUME NEW q \in Seq(Client), q # <<>>
  PROVE  /\ Head(q) \in Client /\ Tail(q) \in Seq(Client)
         /\ ShardsOf(q) = {Head(q).shard} \cup ShardsOf(Tail(q))
         /\ IF Len(q) = 1 THEN ShardsOf(Tail(q)) = {} ELSE Tail(q) # <<>>
<1>1. Len(q) \in Nat \ {0} /\ DOMAIN q = 1..Len(q) /\ Head(q) = q[1]
  OBVIOUS
<1>2. /\ Tail(q) \in Seq(Client) /\ Len(Tail(q)) = Len(q) - 1
      /\ DOMAIN Tail(q) = 1..Len(q) - 1
      /\ \A j \in 1..Len(q) - 1 : Tail(q)[j] = q[j + 1]
  OBVIOUS
<1>3. ASSUME NEW s \in ShardsOf(q) PROVE s \in {Head(q).shard} \cup ShardsOf(Tail(q))
  <2>1. PICK j \in DOMAIN q : s = q[j].shard
    BY Zenon DEF ShardsOf
  <2>2. CASE j = 1
    BY <1>1, <2>1, <2>2, Zenon
  <2>3. CASE j # 1
    <3>1. j - 1 \in 1..Len(q) - 1 /\ (j - 1) + 1 = j
      BY <1>1, <2>3
    <3>. QED BY <1>2, <2>1, <3>1, Zenon DEF ShardsOf
  <2>. QED BY <2>2, <2>3, Zenon
<1>4. ASSUME NEW s \in ShardsOf(Tail(q)) PROVE s \in ShardsOf(q)
  <2>1. PICK j \in 1..Len(q) - 1 : s = q[j + 1].shard
    BY <1>2, Zenon DEF ShardsOf
  <2>2. j + 1 \in DOMAIN q
    BY <1>1
  <2>. QED BY <2>1, <2>2, Zenon DEF ShardsOf
<1>5. Head(q).shard \in ShardsOf(q) /\ Head(q) \in Client
  BY <1>1 DEF ShardsOf
<1>6. Len(q) = 1 => ShardsOf(Tail(q)) = {}
  BY <1>2 DEF ShardsOf
<1>7. Len(q) # 1 => Tail(q) # <<>>
  <2>1. Len(q) # 1 => 1 \in DOMAIN Tail(q)
    BY <1>1, <1>2
  <2>2. DOMAIN (<<>>) = {}
    OBVIOUS
  <2>. QED BY <2>1, <2>2, Zenon
<1>. QED BY <1>2, <1>3, <1>4, <1>5, <1>6, <1>7, Zenon

\* A statement that has been routed.
LEMMA RouteIInv ==
  ASSUME IInv, NEW r \in Req, NEW stmt \in Stmts, NEW tx \in BOOLEAN,
         Route(r, stmt, tx)
  PROVE  IInv'
<1>1. PICK tcs : /\ RouteOK(tcs, IsWrite(stmt), tx) /\ Routed(r, stmt, tx, tcs)
                 /\ cursor' \in 0..CursorWrap - 1
                 /\ UNCHANGED <<clients, groups, order, syncs, known, store>>
  BY RouteFacts, Zenon
<1>. DEFINE shards == {tcs[j].shard : j \in DOMAIN tcs}
            q == [pc |-> IF tx \/ tcs = <<>> THEN "done" ELSE "send",
                  stmt |-> stmt, tx |-> tx, ok |-> TRUE, todo |-> tcs,
                  must |-> Concerned(stmt), did |-> IF tx THEN shards ELSE {}]
<1>2. req' = [req EXCEPT ![r] = q]
  BY <1>1, Zenon DEF Routed
<1>3. tcs \in Seq(Client) /\ shards \subseteq Shard
  <2>1. tcs \in Seq(Client) /\ \A j \in DOMAIN tcs : tcs[j].shard \in DOMAIN groups
    BY <1>1, Zenon DEF RouteOK
  <2>2. DOMAIN groups \subseteq Shard
    BY Zenon DEF IInv, TypeOK
  <2>. QED BY <2>1, <2>2, Zenon
<1>4. Concerned(stmt) \subseteq Shard
  BY Zenon DEF Concerned, IInv, TypeOK
<1>5. q \in Request
  BY <1>3, <1>4, Zenon DEF Request
<1>6. req' \in [Req -> Request]
  BY <1>2, <1>5, Zenon DEF IInv, TypeOK
<1>7. TypeOK'
  BY <1>1, <1>6, Zenon DEF IInv, TypeOK
<1>8. SendsOK'
  BY <1>2, Zenon DEF IInv, TypeOK, SendsOK
<1>9. GroupsOK' /\ ClientsOK'
  BY <1>1, Zenon DEF IInv, GroupsOK, ClientsOK
<1>. QED BY <1>7, <1>8, <1>9, Zenon DEF IInv

\* A tablet runs a statement.
LEMMA RunType ==
  ASSUME TypeOK, NEW stmt \in Stmts, NEW s \in Shard, Run(stmt, s)
  PROVE  store' \in [Shard -> SUBSET Keys]
<1>1. stmt.kind = "insert" => Touches(stmt, Keys) \subseteq Keys
  BY StmtsAssumption, Zenon
<1>2. store \in [Shard -> SUBSET Keys]
  BY Zenon DEF TypeOK
<1>. QED BY <1>1, <1>2, Zenon DEF Run

\* The steps of a request that has been routed.
LEMMA StepIInv ==
  ASSUME IInv, NEW r \in Req, Step(r)
  PROVE  IInv'
<1>. DEFINE q == req[r]
<1>1. /\ req \in [Req -> Request] /\ q \in Request
      /\ q.stmt \in Stmts /\ q.todo \in Seq(Client) /\ q.did \in SUBSET Shard
  BY Zenon DEF IInv, TypeOK, Request
<1>2. UNCHANGED routerVars
  BY Zenon DEF Step, Send, SendFails, Answer
<1>3. GroupsOK' /\ ClientsOK'
  BY <1>2, Zenon DEF routerVars, IInv, GroupsOK, ClientsOK
<1>4. ASSUME req' \in [Req -> Request], store' \in [Shard -> SUBSET Keys]
      PROVE  TypeOK'
  BY <1>2, <1>4, Zenon DEF routerVars, IInv, TypeOK
<1>5. q.pc = "send" => /\ q.todo # <<>> /\ Head(q.todo) \in Client
                       /\ Head(q.todo).shard \in Shard
                       /\ Tail(q.todo) \in Seq(Client)
                       /\ Len(q.todo) # 1 => Tail(q.todo) # <<>>
  BY <1>1, TailShards, Zenon DEF IInv, SendsOK, Client
<1>6. CASE Send(r)
  <2>. DEFINE new == [q EXCEPT !.todo = Tail(@), !.did = @ \cup {Head(q.todo).shard},
                               !.pc = IF Len(q.todo) = 1 THEN "done" ELSE @]
  <2>1. q.pc = "send" /\ Run(q.stmt, Head(q.todo).shard) /\ req' = [req EXCEPT ![r] = new]
    BY <1>1, <1>6, Zenon DEF Send
  <2>2. new \in Request
    BY <1>1, <1>5, <2>1, Zenon DEF Request
  <2>3. store' \in [Shard -> SUBSET Keys]
    BY <1>1, <1>5, <2>1, RunType, Zenon DEF IInv
  <2>4. new.pc = "send" => new.todo # <<>>
    BY <1>1, <1>5, <2>1, Zenon DEF Request
  <2>. HIDE DEF new
  <2>5. SendsOK'
    BY <1>1, <2>1, <2>4, Zenon DEF IInv, SendsOK
  <2>. QED BY <1>1, <1>3, <1>4, <2>1, <2>2, <2>3, <2>5, Zenon DEF IInv
<1>7. CASE SendFails(r)
  <2>. DEFINE new == [q EXCEPT !.pc = "done", !.ok = FALSE]
  <2>1. /\ q.pc = "send" /\ req' = [req EXCEPT ![r] = new]
        /\ Run(q.stmt, Head(q.todo).shard) \/ UNCHANGED store
    BY <1>1, <1>7, Zenon DEF SendFails
  <2>2. new \in Request /\ new.pc = "done"
    BY <1>1, Zenon DEF Request
  <2>3. store' \in [Shard -> SUBSET Keys]
    BY <1>1, <1>5, <2>1, RunType, Zenon DEF IInv, TypeOK
  <2>. HIDE DEF new
  <2>5. SendsOK'
    BY <1>1, <2>1, <2>2, Zenon DEF IInv, SendsOK
  <2>. QED BY <1>1, <1>3, <1>4, <2>1, <2>2, <2>3, <2>5, Zenon DEF IInv
<1>8. CASE Answer(r)
  <2>1. req' = [req EXCEPT ![r] = NoRequest] /\ store' = store
    BY <1>8, Zenon DEF Answer
  <2>2. NoRequest \in Request /\ NoRequest.pc = "idle"
    BY NoRequestType, Zenon
  <2>3. SendsOK'
    BY <1>1, <2>1, <2>2, Zenon DEF IInv, SendsOK
  <2>. QED BY <1>1, <1>3, <1>4, <2>1, <2>2, <2>3, Zenon DEF IInv, TypeOK
<1>. QED BY <1>6, <1>7, <1>8, Zenon DEF Step
\* Health's routing of nothing.
LEMMA HealthIInv == IInv /\ Health => IInv'
<1>. SUFFICES ASSUME IInv, Health PROVE IInv'
  BY Zenon
<1>. DEFINE n == Turns(DOMAIN groups, FALSE, FALSE)
<1>1. /\ cursor \in Nat /\ CursorWrap \in Nat \ {0} /\ IsFiniteSet(DOMAIN groups)
  BY RouterAssumption DEF IInv, TypeOK, GroupsOK
<1>2. n \in Nat
  BY <1>1, TurnsType, Zenon
<1>3. /\ cursor' = (cursor + n) % CursorWrap
      /\ UNCHANGED <<clients, groups, order, syncs, known, req, store>>
  BY Zenon DEF Health
<1>. HIDE DEF n
<1>4. cursor' \in 0..CursorWrap - 1
  BY <1>1, <1>2, <1>3
<1>5. TypeOK'
  BY <1>3, <1>4, Zenon DEF IInv, TypeOK
<1>. QED BY <1>3, <1>5, Zenon DEF IInv, GroupsOK, ClientsOK, SendsOK

\* Nothing changes.
LEMMA StutterIInv == IInv /\ UNCHANGED vars => IInv'
<1>. SUFFICES ASSUME IInv, UNCHANGED vars PROVE IInv'
  BY Zenon
<1>. USE DEF vars, routerVars
<1>1. TypeOK'
  BY Zenon DEF IInv, TypeOK
<1>2. GroupsOK' /\ ClientsOK' /\ SendsOK'
  BY Zenon DEF IInv, GroupsOK, ClientsOK, SendsOK
<1>. QED BY <1>1, <1>2, Zenon DEF IInv

\* Every step keeps the invariant.
LEMMA NextIInv == IInv /\ [Next]_vars => IInv'
<1>. SUFFICES ASSUME IInv, [Next]_vars PROVE IInv'
  BY Zenon
<1>1. CASE SyncAny
  BY <1>1, SyncIInv, Zenon DEF SyncAny
<1>2. CASE Health
  BY <1>2, HealthIInv, Zenon
<1>3. ASSUME NEW r \in Req, RouteNowhere(r) PROVE IInv'
  BY <1>3, StutterIInv, Zenon DEF RouteNowhere
<1>4. ASSUME NEW r \in Req, Call(r) PROVE IInv'
  BY <1>4, RouteIInv, Zenon DEF Call
<1>5. ASSUME NEW r \in Req, Step(r) PROVE IInv'
  BY <1>5, StepIInv, Zenon
<1>. QED BY <1>1, <1>2, <1>3, <1>4, <1>5, StutterIInv, Zenon DEF Next

\* IInv holds in every reachable state of the router.
THEOREM Invariant == Spec => []IInv
  BY InitIInv, NextIInv, PTL DEF Spec

\* A request starts by being routed, and the other steps of the router leave
\* it alone.
LEMMA StartsRouted ==
  ASSUME IInv, [Next]_vars, NEW r \in Req, Starts(r)
  PROVE  \E stmt \in Stmts, tx \in BOOLEAN : Route(r, stmt, tx)
<1>1. req \in [Req -> Request]
  BY Zenon DEF IInv, TypeOK
<1>2. req' # req
  BY Zenon DEF Starts
<1>3. PICK u \in Req : Call(u) \/ Step(u)
  BY <1>2, Zenon DEF Next, SyncAny, Sync, Health, RouteNowhere, vars
<1>4. CASE Step(u)
  <2>1. /\ u # r => req'[r] = req[r]
        /\ req[u].pc # "idle"
    BY <1>1, <1>4, Zenon DEF Step, Send, SendFails, Answer
  <2>. QED BY <2>1, Zenon DEF Starts
<1>5. CASE Call(u)
  <2>1. PICK stmt \in Stmts, tx \in BOOLEAN : Route(u, stmt, tx)
    BY <1>5, Zenon DEF Call
  <2>2. \E tcs : Routed(u, stmt, tx, tcs)
    BY <2>1, RouteFacts, Zenon
  <2>3. u # r => req'[r] = req[r]
    BY <1>1, <2>2, Zenon DEF Routed
  <2>4. u = r
    BY <2>3, Zenon DEF Starts
  <2>. QED BY <2>1, <2>4, Zenon
<1>. QED BY <1>3, <1>4, <1>5, Zenon

-----------------------------------------------------------------------------
(* Theorems                                                                *)

\* The router and the requests keep their types.
THEOREM TypeCorrect == Spec => []TypeOK
  BY Invariant, PTL DEF IInv

\* After any sequence of topologies, of whatever tablets, the router has an
\* open client for each tablet of the last one that can be dialled and for
\* no other, and its groups name no other.
THEOREM ClientsFollowTopology == Spec => []ClientsMatchTopology
<1>1. IInv => ClientsMatchTopology
  <2>. SUFFICES ASSUME IInv PROVE ClientsMatchTopology
    BY Zenon
  <2>. DEFINE addrs == {t.addr : t \in known}
  <2>1. PICK want \in Wanted(known) : GroupsOf(want, groups)
    BY Zenon DEF IInv, GroupsOK
  <2>2. want \subseteq known
    BY Zenon DEF Wanted
  <2>3. ASSUME NEW s \in DOMAIN groups
        PROVE  {groups[s].primary} \cup Range(groups[s].replicas)
                 \subseteq addrs \cup {None}
    <3>. DEFINE ts == {t \in want : t.shard = s}
    <3>1. GroupOf(ts, groups[s])
      BY <2>1, Zenon DEF GroupsOf
    <3>2. ts \subseteq known
      BY <2>2, Zenon
    <3>. HIDE DEF ts
    <3>3. groups[s].primary \in addrs \cup {None}
      BY <3>1, <3>2, Zenon DEF GroupOf
    <3>4. Range(groups[s].replicas) \subseteq addrs
      BY <3>1, <3>2, Zenon DEF GroupOf, Range
    <3>. QED BY <3>3, <3>4, Zenon
  <2>. QED BY <2>3, Zenon DEF ClientsMatchTopology, IInv, ClientsOK
<1>. QED BY <1>1, Invariant, PTL

\* Writes, and everything in a transaction, are routed to primaries alone,
\* for whatever statements and topologies.
THEOREM PrimariesOnly == Spec => OnlyPrimaries
<1>1. IInv /\ [Next]_vars =>
        [\A r \in Req : Starts(r) => ToPrimaries(req'[r])]_vars
  <2>. SUFFICES ASSUME IInv, [Next]_vars, NEW r \in Req, Starts(r)
                PROVE  ToPrimaries(req'[r])
    BY Zenon
  <2>1. PICK stmt \in Stmts, tx \in BOOLEAN : Route(r, stmt, tx)
    BY StartsRouted, Zenon
  <2>2. PICK tcs : RouteOK(tcs, IsWrite(stmt), tx) /\ Routed(r, stmt, tx, tcs)
    BY <2>1, RouteFacts, Zenon
  <2>3. req'[r].tx = tx /\ req'[r].stmt = stmt /\ req'[r].todo = tcs
    BY <2>2, Zenon DEF Routed, IInv, TypeOK
  <2>. QED BY <2>2, <2>3, Zenon DEF ToPrimaries, RouteOK, Primary
<1>. QED BY <1>1, Invariant, PTL DEF Spec, OnlyPrimaries

\* What a request must reach it has reached or still has before it.
Covered ==
  \A r \in Req :
    LET q == req[r] IN
    /\ q.pc = "send" => q.must \subseteq q.did \cup ShardsOf(q.todo)
    /\ q.pc = "done" /\ q.ok => q.must \subseteq q.did

\* With disjoint ranges a route covers what the statement concerns, ...
LEMMA RouteCovered ==
  ASSUME RangesDisjoint, IInv, Covered, NEW r \in Req, NEW stmt \in Stmts,
         NEW tx \in BOOLEAN, Route(r, stmt, tx)
  PROVE  Covered'
<1>1. PICK tcs : /\ Routed(r, stmt, tx, tcs)
                 /\ Concerned(stmt) \subseteq ShardsOf(tcs)
  BY RouteFacts, Zenon
<1>2. ShardsOf(<<>>) = {}
  BY DEF ShardsOf
<1>. DEFINE q == [pc |-> IF tx \/ tcs = <<>> THEN "done" ELSE "send",
                  stmt |-> stmt, tx |-> tx, ok |-> TRUE, todo |-> tcs,
                  must |-> Concerned(stmt),
                  did |-> IF tx THEN ShardsOf(tcs) ELSE {}]
<1>3. req' = [req EXCEPT ![r] = q]
  BY <1>1, Zenon DEF Routed, ShardsOf
<1>4. /\ q.pc = "send" => q.must \subseteq q.did \cup ShardsOf(q.todo)
      /\ q.pc = "done" /\ q.ok => q.must \subseteq q.did
  BY <1>1, <1>2, Zenon
<1>. HIDE DEF q
<1>. QED BY <1>3, <1>4, Zenon DEF IInv, TypeOK, Covered

\* ... and a request leaves a shard behind only by failing.
LEMMA StepCovered ==
  ASSUME IInv, Covered, NEW r \in Req, Step(r)
  PROVE  Covered'
<1>. DEFINE q == req[r]
<1>1. /\ req \in [Req -> Request] /\ q \in Request /\ q.todo \in Seq(Client)
  BY Zenon DEF IInv, TypeOK, Request
<1>2. ASSUME NEW new, req' = [req EXCEPT ![r] = new],
             new.pc = "send" => new.must \subseteq new.did \cup ShardsOf(new.todo),
             new.pc = "done" /\ new.ok => new.must \subseteq new.did
      PROVE  Covered'
  BY <1>1, <1>2, Zenon DEF Covered
<1>3. CASE Send(r)
  <2>. DEFINE new == [q EXCEPT !.todo = Tail(@), !.did = @ \cup {Head(q.todo).shard},
                               !.pc = IF Len(q.todo) = 1 THEN "done" ELSE @]
  <2>1. q.pc = "send" /\ req' = [req EXCEPT ![r] = new]
    BY <1>1, <1>3, Zenon DEF Send
  <2>2. q.must \subseteq q.did \cup ShardsOf(q.todo) /\ q.todo # <<>>
    BY <2>1, Zenon DEF Covered, IInv, SendsOK
  <2>3. /\ ShardsOf(q.todo) = {Head(q.todo).shard} \cup ShardsOf(Tail(q.todo))
        /\ Len(q.todo) = 1 => ShardsOf(Tail(q.todo)) = {}
    BY <1>1, <2>2, TailShards, Zenon
  <2>4. /\ new.must = q.must /\ new.did = q.did \cup {Head(q.todo).shard}
        /\ new.todo = Tail(q.todo)
        /\ new.pc = IF Len(q.todo) = 1 THEN "done" ELSE "send"
    BY <1>1, <2>1, Zenon DEF Request
  <2>. HIDE DEF new
  <2>5. /\ new.pc = "send" => new.must \subseteq new.did \cup ShardsOf(new.todo)
        /\ new.pc = "done" => new.must \subseteq new.did
    BY <2>2, <2>3, <2>4, Zenon
  <2>. QED BY <1>2, <2>1, <2>5, Zenon
<1>4. CASE SendFails(r)
  <2>. DEFINE new == [q EXCEPT !.pc = "done", !.ok = FALSE]
  <2>1. req' = [req EXCEPT ![r] = new]
    BY <1>1, <1>4, Zenon DEF SendFails
  <2>2. new.pc = "done" /\ new.ok = FALSE
    BY <1>1, Zenon DEF Request
  <2>. HIDE DEF new
  <2>. QED BY <1>2, <2>1, <2>2, Zenon
<1>5. CASE Answer(r)
  BY <1>2, <1>5, NoRequestType, Zenon DEF Answer
<1>. QED BY <1>3, <1>4, <1>5, Zenon DEF Step

\* If no key is in the ranges of two shards, a statement answered with
\* success has run on every shard that may hold a row it touches and that
\* could be reached when it was routed, whatever Sync did meanwhile.
THEOREM NothingMissed ==
  ASSUME RangesDisjoint
  PROVE  Spec => []NoShardMissed
<1>1. Init => Covered
  BY NoRequestType, Zenon DEF Init, Covered
<1>2. IInv /\ Covered /\ [Next]_vars => Covered'
  <2>. SUFFICES ASSUME IInv, Covered, [Next]_vars PROVE Covered'
    BY Zenon
  <2>1. CASE req' = req
    BY <2>1, Zenon DEF Covered
  <2>2. ASSUME NEW r \in Req, Call(r) PROVE Covered'
    BY <2>2, RouteCovered, Zenon DEF Call
  <2>3. ASSUME NEW r \in Req, Step(r) PROVE Covered'
    BY <2>3, StepCovered, Zenon
  <2>. QED BY <2>1, <2>2, <2>3, Zenon DEF Next, SyncAny, Sync, Health, RouteNowhere, vars
<1>3. Covered => NoShardMissed
  BY Zenon DEF Covered, NoShardMissed
<1>. QED BY <1>1, <1>2, <1>3, Invariant, PTL DEF Spec

\* In a sound topology the shards whose groups hold a key are those whose
\* tablets claim it, and all shards can be reached.
LEMMA SoundGroups ==
  ASSUME RangesAgree, IInv, Sound(known), NEW k \in Int
  PROVE  /\ Home(k) = {s \in DOMAIN groups : contains(groups[s], k)}
         /\ \A s \in DOMAIN groups : Reachable(s)
<1>1. PICK want \in Wanted(known) : GroupsOf(want, groups)
  BY Zenon DEF IInv, GroupsOK
<1>2. want = known
  <2>1. want \subseteq known /\ \A t \in known : \E u \in want : u.addr = t.addr
    BY Zenon DEF Wanted
  <2>2. \A t, u \in known : t.addr = u.addr => t = u
    BY Zenon DEF Sound
  <2>. QED BY <2>1, <2>2
<1>3. /\ \A t \in known : TabletOK(t)
      /\ known # {} => known \in Topologies
  BY TopologyOK, Zenon DEF IInv, TypeOK, TabletsOK
<1>4. DOMAIN groups = {t.shard : t \in known}
  BY <1>1, <1>2, Zenon DEF GroupsOf
<1>5. ASSUME NEW s \in DOMAIN groups
      PROVE  /\ \E t \in known : /\ t.shard = s /\ ~Unset(t)
                                 /\ groups[s].lo = t.lo /\ groups[s].hi = t.hi
             /\ Reachable(s)
  <2>. DEFINE ts == {t \in known : t.shard = s}
  <2>1. GroupOf(ts, groups[s])
    BY <1>1, <1>2, Zenon DEF GroupsOf
  <2>2. HasPrimary(ts)
    BY <1>4, Zenon DEF Sound, HasPrimary
  <2>3. ts \subseteq known /\ \A t \in ts : t.shard = s
    BY Zenon
  <2>. HIDE DEF ts
  <2>4. PICK t \in ts : /\ groups[s].lo = t.lo /\ groups[s].hi = t.hi
                        /\ ~Unset(t) \/ IsPrimary(t)
    BY <2>1, <2>2, Zenon DEF GroupOf
  <2>5. ~Unset(t)
    BY <1>3, <2>3, <2>4, Zenon DEF RangesAgree
  <2>6. \A t1 \in ts : /\ t1.addr \in Addr /\ t1.addr # None /\ clients[t1.addr] # 0
    BY <1>3, <2>3, RouterAssumption, Zenon DEF TabletOK, Sound, IInv, ClientsOK
  <2>7. \E u \in ts : groups[s].primary = u.addr
    BY <2>1, <2>2, Zenon DEF GroupOf
  <2>8. \A a \in Range(groups[s].replicas) : \E u \in ts : a = u.addr
    BY <2>1, Zenon DEF GroupOf, Range
  <2>9. Reachable(s)
    BY <2>6, <2>7, <2>8, Zenon DEF Reachable
  <2>. QED BY <2>3, <2>4, <2>5, <2>9, Zenon
<1>6. ASSUME NEW s \in Home(k)
      PROVE  s \in DOMAIN groups /\ contains(groups[s], k)
  <2>1. PICK u \in known : u.shard = s /\ contains(u, k)
    BY Zenon DEF Home
  <2>2. s \in DOMAIN groups
    BY <1>4, <2>1, Zenon
  <2>3. PICK t \in known : /\ t.shard = s /\ ~Unset(t)
                           /\ groups[s].lo = t.lo /\ groups[s].hi = t.hi
    BY <1>5, <2>2, Zenon
  <2>4. ~Unset(u)
    BY <1>3, <2>1 DEF TabletOK, contains, Unset
  <2>5. t.lo = u.lo /\ t.hi = u.hi
    BY <1>3, <2>1, <2>3, <2>4 DEF RangesAgree
  <2>. QED BY <2>1, <2>2, <2>3, <2>5, Zenon DEF contains
<1>7. ASSUME NEW s \in DOMAIN groups, contains(groups[s], k)
      PROVE  s \in Home(k)
  <2>1. PICK t \in known : /\ t.shard = s
                           /\ groups[s].lo = t.lo /\ groups[s].hi = t.hi
    BY <1>5, Zenon
  <2>. QED BY <1>7, <2>1, Zenon DEF Home, contains
<1>. QED BY <1>5, <1>6, <1>7, Zenon

\* With disjoint ranges that the tablets of a shard agree on, a statement
\* with a key in some range goes to the shard of that range and to no other
\* while the topology is sound.
THEOREM KeysGoHome ==
  ASSUME RangesDisjoint, RangesAgree
  PROVE  Spec => KeyedToItsShard
<1>1. IInv /\ [Next]_vars =>
        [\A r \in Req : Starts(r) => ToItsShard(req'[r])]_vars
  <2>. SUFFICES ASSUME IInv, [Next]_vars, NEW r \in Req, Starts(r)
                PROVE  ToItsShard(req'[r])
    BY Zenon
  <2>1. PICK stmt \in Stmts, tx \in BOOLEAN : Route(r, stmt, tx)
    BY StartsRouted, Zenon
  <2>2. PICK tcs :
          /\ Routed(r, stmt, tx, tcs)
          /\ \/ /\ HasKey(stmt)
                /\ \E s \in DOMAIN groups :
                     contains(groups[s], Key(stmt)) /\ ShardsOf(tcs) = {s}
             \/ HasKey(stmt) =>
                  \A s \in DOMAIN groups :
                    contains(groups[s], Key(stmt)) => ~Reachable(s)
    BY <2>1, RouteFacts, Zenon
  <2>3. req'[r].stmt = stmt /\ req'[r].todo = tcs
    BY <2>2, Zenon DEF Routed, IInv, TypeOK
  <2>4. ASSUME Sound(known), HasKey(stmt), Home(Key(stmt)) # {}
        PROVE  ShardsOf(tcs) = Home(Key(stmt))
    <3>1. Key(stmt) \in Int
      BY <2>4, KeyTouches, StmtsAssumption, Zenon
    <3>2. /\ Home(Key(stmt)) = {s \in DOMAIN groups : contains(groups[s], Key(stmt))}
          /\ \A s \in DOMAIN groups : Reachable(s)
      BY <2>4, <3>1, SoundGroups, Zenon
    <3>3. PICK s \in DOMAIN groups :
            contains(groups[s], Key(stmt)) /\ ShardsOf(tcs) = {s}
      BY <2>2, <2>4, <3>2, Zenon
    <3>4. \A u \in DOMAIN groups : contains(groups[u], Key(stmt)) => u = s
      BY <3>1, <3>3, GroupsDisjoint, Zenon
    <3>. QED BY <3>2, <3>3, <3>4, Zenon
  <2>. QED BY <2>3, <2>4, Zenon DEF ToItsShard, ShardsOf
<1>. QED BY <1>1, Invariant, PTL DEF Spec, KeyedToItsShard

=============================================================================
