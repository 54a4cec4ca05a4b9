--------------------------- MODULE TopologyProofs ---------------------------
(***************************************************************************)
(* Proofs about Topology for any tablets and any number of changes: what   *)
(* the gate hands to its router is the state of etcd at some moment, and   *)
(* the health page shows such states in their order.                       *)
(***************************************************************************)
EXTENDS Admin, TLAPS

\* The map is read from etcd, and no change has been missed since.
Following == (opened \/ pc \in {"notify", "open"}) /\ ~missed

\* The moment of etcd's history that the map shows: events of the watch
\* channel are the changes since.
Now == Len(history) - Len(events)

\* Each event leads from one moment of the history to the next.
EventsReplay ==
  \A j \in 1..Len(events) :
    history[Now + j] =
      [history[Now + j - 1] EXCEPT ![events[j][1]] = events[j][2]]

\* The inductive invariant.
IInv ==
  /\ TypeOK
  /\ registry = history[Len(history)]
  /\ EventsReplay
  /\ ~opened => events = <<>> /\ pc \in {"get", "notify", "open", "stopped"}
  /\ opened => pc \in {"notify", "watching", "apply", "stopped"}
  /\ Following => Shows(tablets, history[Now])
  /\ ViewWasReal

\* At start the map is empty and the history has one moment.
LEMMA InitIInv == Init => IInv
<1>. SUFFICES ASSUME Init PROVE IInv
  OBVIOUS
<1>1. registry \in Registry
  BY DEF Init, Registry
<1>2. /\ history \in Seq(Registry) /\ Len(history) = 1
      /\ events \in Seq(Event) /\ Len(events) = 0
  BY <1>1 DEF Init
<1>3. tablets \in Tablets /\ view \in Tablets
  BY DEF Init, NoTablets, Tablets
<1>4. /\ Len(history) \in 1..MaxChanges + 1 /\ Len(events) < Len(history)
      /\ batch \in 0..Len(events)
  BY <1>2, TopologyAssumption DEF Init
<1>5. changed \in BOOLEAN /\ opened \in BOOLEAN /\ missed \in BOOLEAN
  BY Zenon DEF Init
<1>6. TypeOK
  BY <1>1, <1>2, <1>3, <1>4, <1>5 DEF TypeOK, Init
<1>7. registry = history[Len(history)] /\ EventsReplay
  BY <1>2 DEF Init, EventsReplay
<1>. QED BY <1>6, <1>7 DEF Init, IInv, Following, ViewWasReal

\* A change of etcd adds a moment, and an event for it once the watch is
\* open.
LEMMA ChangeIInv ==
  ASSUME IInv, NEW k \in Alias, NEW v \in Record \cup {Invalid, None},
         Change(k, v), UNCHANGED gateVars
  PROVE  IInv'
<1>. DEFINE L == Len(history)
<1>1. /\ history \in Seq(Registry) /\ events \in Seq(Event)
      /\ L \in Nat /\ L >= 1 /\ Len(events) \in Nat /\ Len(events) < L
      /\ registry \in Registry /\ registry = history[L]
  BY DEF IInv, TypeOK
<1>2. registry' \in Registry
  BY <1>1 DEF Change, Registry
<1>3. /\ history' \in Seq(Registry) /\ Len(history') = L + 1
      /\ history'[L + 1] = registry'
      /\ \A j \in 1..L : history'[j] = history[j]
  BY <1>1, <1>2 DEF Change
<1>4. <<k, v>> \in Event
  BY DEF Event
<1>5. /\ pc' = pc /\ batch' = batch /\ changed' = changed
      /\ opened' = opened /\ tablets' = tablets /\ view' = view
      /\ L <= MaxChanges /\ (missed' \in BOOLEAN) /\ (missed => missed')
  BY DEF gateVars, watchVars, Change, IInv, TypeOK
<1>6. ViewWasReal'
  <2>. SUFFICES ASSUME opened \/ pc = "open", ~missed'
                PROVE  \E j \in 1..L + 1 : Shows(view, history'[j])
    BY <1>3, <1>5 DEF ViewWasReal, Shows
  <2>1. PICK j \in 1..L : Shows(view, history[j])
    BY <1>5 DEF IInv, ViewWasReal
  <2>. QED BY <1>1, <1>3, <2>1
<1>7. CASE opened
  <2>1. /\ events' \in Seq(Event) /\ Len(events') = Len(events) + 1
        /\ events'[Len(events) + 1] = <<k, v>>
        /\ \A j \in 1..Len(events) : events'[j] = events[j]
    BY <1>1, <1>4, <1>7 DEF Change
  <2>2. Now' = Now
    BY <1>1, <1>3, <2>1 DEF Now
  <2>3. TypeOK'
    BY <1>1, <1>2, <1>3, <1>5, <2>1, TopologyAssumption DEF IInv, TypeOK
  <2>4. Now \in 1..L
    BY <1>1 DEF Now
  <2>5. EventsReplay'
    <3>. SUFFICES ASSUME NEW j \in 1..Len(events')
                  PROVE  history'[Now + j] =
                           [history'[Now + j - 1] EXCEPT
                              ![events'[j][1]] = events'[j][2]]
      BY <2>2, Zenon DEF EventsReplay
    <3>1. CASE j \in 1..Len(events)
      <4>1. Now + j \in 1..L /\ Now + j - 1 \in 1..L
        BY <1>1, <3>1, <2>4 DEF Now
      <4>2. history[Now + j] =
              [history[Now + j - 1] EXCEPT ![events[j][1]] = events[j][2]]
        BY <3>1, Zenon DEF IInv, EventsReplay
      <4>. QED BY <1>3, <2>1, <3>1, <4>1, <4>2, Zenon
    <3>2. CASE j = Len(events) + 1
      <4>1. Now + j = L + 1 /\ Now + j - 1 = L /\ L \in 1..L
        BY <1>1, <3>2 DEF Now
      <4>2. registry' = [registry EXCEPT ![k] = v]
        BY DEF Change
      <4>3. events'[j][1] = k /\ events'[j][2] = v
        BY <2>1, <3>2
      <4>4. history'[Now + j] = registry' /\ history'[Now + j - 1] = registry
        BY <1>1, <1>3, <4>1
      <4>. QED BY <4>2, <4>3, <4>4
    <3>. QED BY <1>1, <2>1, <3>1, <3>2
  <2>6. (Following => Shows(tablets, history[Now]))'
    <3>1. history'[Now'] = history[Now]
      BY <1>3, <2>2, <2>4
    <3>2. Following' => Following
      BY <1>7, <1>5 DEF Following, Change
    <3>. QED BY <1>5, <3>1, <3>2 DEF IInv, Shows
  <2>. QED BY <1>3, <1>7, <1>5, <1>6, <2>3, <2>5, <2>6 DEF IInv
<1>8. CASE ~opened
  <2>1. events = <<>> /\ events' = <<>>
    BY <1>8 DEF IInv, Change
  <2>2. TypeOK'
    BY <1>1, <1>2, <1>3, <1>5, <2>1, TopologyAssumption DEF IInv, TypeOK
  <2>3. EventsReplay'
    BY <2>1 DEF EventsReplay
  <2>4. ~Following'
    BY <1>8, <1>5, Zenon DEF Following, Change
  <2>. QED BY <1>3, <1>8, <1>5, <1>6, <2>1, <2>2, <2>3, <2>4, Zenon DEF IInv
<1>. QED BY <1>7, <1>8

\* One event moves the map from one moment of the history to the next.
LEMMA ApplyIInv ==
  ASSUME IInv, ApplyEvent
  PROVE  IInv'
<1>. DEFINE e == Head(events)
<1>1. /\ history \in Seq(Registry) /\ events \in Seq(Event)
      /\ Len(history) \in Nat /\ Len(events) \in Nat
      /\ Len(events) < Len(history) /\ batch \in 1..Len(events)
      /\ tablets \in Tablets /\ opened
  BY DEF IInv, TypeOK, ApplyEvent
<1>2. e = events[1] /\ e \in Event
  BY <1>1
<1>3. /\ events' \in Seq(Event) /\ Len(events') = Len(events) - 1
      /\ \A j \in 1..Len(events') : events'[j] = events[j + 1]
  BY <1>1 DEF ApplyEvent
<1>4. Now' = Now + 1 /\ Now \in Nat /\ Now >= 1 /\ Now' <= Len(history)
  BY <1>1, <1>3 DEF Now, ApplyEvent
<1>5. history[Now + 1] = [history[Now] EXCEPT ![e[1]] = e[2]]
  <2>1. 1 \in 1..Len(events) /\ Now + 1 - 1 = Now
    BY <1>1, <1>4
  <2>. QED BY <1>2, <2>1, Zenon DEF IInv, EventsReplay
<1>6. tablets' = IF e[2] = Invalid THEN tablets
                  ELSE [tablets EXCEPT ![e[1]] = e[2]]
  BY DEF ApplyEvent
<1>7. tablets' \in Tablets
  BY <1>1, <1>2, <1>6 DEF Tablets, Event
<1>8. /\ history' = history /\ registry' = registry /\ missed' = missed
       /\ pc' = pc /\ opened' = opened /\ view' = view
       /\ batch' = batch - 1 /\ changed' \in BOOLEAN
  BY DEF ApplyEvent, IInv, TypeOK
<1>9. TypeOK'
  BY <1>1, <1>3, <1>7, <1>8 DEF IInv, TypeOK
<1>10. EventsReplay'
  <2>. SUFFICES ASSUME NEW j \in 1..Len(events')
                PROVE  history[Now' + j] =
                         [history[Now' + j - 1] EXCEPT
                            ![events'[j][1]] = events'[j][2]]
    BY <1>8, Zenon DEF EventsReplay
  <2>1. /\ j + 1 \in 1..Len(events) /\ events'[j] = events[j + 1]
        /\ Now' + j = Now + (j + 1) /\ Now' + j - 1 = Now + (j + 1) - 1
    BY <1>1, <1>3, <1>4
  <2>2. history[Now + (j + 1)] =
          [history[Now + (j + 1) - 1] EXCEPT
             ![events[j + 1][1]] = events[j + 1][2]]
    BY <2>1, Zenon DEF IInv, EventsReplay
  <2>. QED BY <2>1, <2>2, Zenon
<1>11. (Following => Shows(tablets, history[Now]))'
  <2>1. history[Now] \in Registry
    BY <1>1, <1>4
  <2>2. Shows(tablets, history[Now]) => Shows(tablets', history[Now + 1])
    BY <1>2, <1>5, <1>7, <1>6, <1>1, <2>1 DEF Shows, Registry, Tablets, Event
  <2>. QED BY <1>4, <1>8, <2>2 DEF IInv, Following
<1>12. ViewWasReal'
  BY <1>8 DEF IInv, ViewWasReal
<1>. QED BY <1>1, <1>9, <1>10, <1>11, <1>12, <1>8 DEF IInv

\* The other steps of the watch goroutine.
LEMMA WatchIInv ==
  ASSUME IInv, Watch
  PROVE  IInv'
<1>1. /\ Len(history) \in Nat /\ Len(history) >= 1 /\ Len(events) \in Nat
      /\ Len(events) < Len(history) /\ registry \in Registry
  BY DEF IInv, TypeOK
<1>2. CASE GetAll
  <2>1. tablets' \in Tablets
    BY <1>1, <1>2, TopologyAssumption DEF GetAll, IInv, TypeOK, Tablets, Registry
  <2>2. Shows(tablets', registry) /\ ~opened
    BY <1>2 DEF GetAll, Shows, IInv
  <2>3. Now = Len(history)
    BY <2>2, <1>1 DEF IInv, Now
  <2>. QED BY <1>2, <2>1, <2>2, <2>3
           DEF GetAll, etcdVars, IInv, TypeOK, EventsReplay, Now, Following,
               ViewWasReal
<1>3. CASE Notify
  <2>1. Now \in 1..Len(history)
    BY <1>1 DEF Now
  <2>. QED BY <1>3, <2>1, Zenon
           DEF Notify, etcdVars, IInv, TypeOK, EventsReplay, Now, Following,
               ViewWasReal
<1>4. CASE OpenWatch
  BY <1>4 DEF OpenWatch, etcdVars, IInv, TypeOK, EventsReplay, Now, Following,
              ViewWasReal
<1>5. CASE EndBatch
  BY <1>5, Zenon DEF EndBatch, etcdVars, IInv, TypeOK, EventsReplay, Now, Following,
              ViewWasReal
<1>6. ASSUME NEW n \in 1..MaxChanges, Receive(n)
      PROVE  IInv'
  <2>1. /\ UNCHANGED <<registry, history, events, missed, opened, tablets, view>>
        /\ pc' = "apply" /\ batch' \in 0..Len(events) /\ changed' = FALSE
        /\ pc = "watching" /\ opened
    BY <1>1, <1>6 DEF Receive, etcdVars, IInv
  <2>2. TypeOK'
    BY <2>1, Zenon DEF IInv, TypeOK
  <2>. QED BY <2>1, <2>2, Zenon DEF IInv, EventsReplay, Now, Following, ViewWasReal
<1>. QED BY <1>2, <1>3, <1>4, <1>5, <1>6, ApplyIInv, Zenon DEF Watch

\* Every step preserves the invariant.
LEMMA NextIInv == IInv /\ [Next]_vars => IInv'
<1>. SUFFICES ASSUME IInv, [Next]_vars PROVE IInv'
  OBVIOUS
<1>1. CASE UNCHANGED vars
  BY <1>1, Zenon DEF vars, etcdVars, gateVars, watchVars, IInv, TypeOK, EventsReplay,
              Now, Following, ViewWasReal
<1>2. CASE Etcd
  BY <1>2, ChangeIInv DEF Etcd, Register, LeaseExpires, ForeignPut
<1>3. CASE Watch
  BY <1>3, WatchIInv
<1>4. CASE Breaks
  BY <1>4, Zenon DEF Breaks, etcdVars, IInv, TypeOK, EventsReplay, Now, Following,
              ViewWasReal
<1>. QED BY <1>1, <1>2, <1>3, <1>4 DEF Next

\* The invariant holds in every reachable state.
LEMMA Invariant == Spec => []IInv
  BY InitIInv, NextIInv, PTL DEF Spec

-----------------------------------------------------------------------------

\* The watch goroutine keeps its types: no invalid record enters the map.
THEOREM TypeCorrect == Spec => []TypeOK
  BY Invariant, PTL DEF IInv

\* However etcd batches its events, EtcdTopology.Watch hands the router a
\* state that etcd was in, if no change fell between the get and the watch.
THEOREM ViewsAreReal == Spec => []ViewWasReal
  BY Invariant, PTL DEF IInv

-----------------------------------------------------------------------------
(* The health page                                                         *)

\* The watch may be open one day and has missed nothing.
Alive == (opened \/ pc # "stopped") /\ ~missed

\* m was empty before the get, or is etcd's state at a moment up to n.
UpTo(m, n) == m = NoTablets \/ \E i \in 1..n : Shows(m, history[i])

\* The two maps of a page that has been read.
InOrder(m, t) ==
  \E i, j \in 1..Len(history) :
    /\ i <= j \/ m = NoTablets
    /\ Shows(m, history[i]) \/ m = NoTablets
    /\ Shows(t, history[j]) \/ t = NoTablets

Page == [field : 1..3, shards : Tablets, tablets : Tablets]

\* A page's shards are no newer than the map, until it reads the map.
PageOK ==
  /\ health \in Page
  /\ pc = "get" => tablets = NoTablets
  /\ Alive =>
       /\ UpTo(view, Now)
       /\ health.field = 2 => UpTo(health.shards, Now)
       /\ health.field = 3 => InOrder(health.shards, health.tablets)

\* History only grows, and the map only moves forward in it.
Forward ==
  /\ Alive' => Alive
  /\ Now \in 1..Len(history) /\ Now' \in 1..Len(history')
  /\ Now <= Now' /\ Len(history) <= Len(history')
  /\ \A i \in 1..Len(history) : history'[i] = history[i]
  /\ view' = view \/ (view' = tablets /\ pc = "notify")
  /\ pc' = "get" => pc = "get" /\ tablets' = tablets

\* What etcd and the watch do to the map and to the history.
LEMMA NextForward ==
  ASSUME IInv, [Next]_vars
  PROVE  Forward
<1>1. /\ Len(history) \in Nat /\ Len(events) \in Nat /\ Len(history) >= 1
      /\ Len(events) < Len(history) /\ history \in Seq(Registry)
      /\ events \in Seq(Event) /\ registry \in Registry
  BY DEF IInv, TypeOK
<1>2. Now \in 1..Len(history)
  BY <1>1 DEF Now
<1>3. ASSUME NEW k \in Alias, NEW v \in Record \cup {Invalid, None},
             Change(k, v), UNCHANGED gateVars
      PROVE  Forward
  <2>1. registry' \in Registry /\ <<k, v>> \in Event
    BY <1>1, <1>3 DEF Change, Registry, Event
  <2>2. /\ Len(history') = Len(history) + 1
        /\ \A i \in 1..Len(history) : history'[i] = history[i]
    BY <1>1, <1>3, <2>1 DEF Change
  <2>3. Len(events') \in {Len(events), Len(events) + 1}
    BY <1>1, <1>3, <2>1 DEF Change
  <2>4. /\ UNCHANGED <<pc, opened, tablets, view>> /\ (missed => missed')
    BY <1>3, Zenon DEF Change, gateVars, watchVars
  <2>. QED BY <1>1, <1>2, <2>2, <2>3, <2>4 DEF Forward, Alive, Now
<1>4. CASE ApplyEvent
  <2>1. /\ Len(events') = Len(events) - 1 /\ Len(events) >= 1
        /\ UNCHANGED <<history, missed, pc, opened, view>> /\ pc = "apply"
    BY <1>1, <1>4 DEF ApplyEvent, IInv, TypeOK
  <2>. QED BY <1>1, <1>2, <2>1 DEF Forward, Alive, Now
<1>5. CASE \/ GetAll \/ Notify \/ OpenWatch \/ EndBatch \/ Breaks
           \/ \E n \in 1..MaxChanges : Receive(n)
  <2>1. /\ UNCHANGED <<history, events, missed>> /\ (opened' => opened \/ pc = "open")
        /\ (pc' = "stopped" => pc \in {"get", "watching"})
        /\ pc' # "get" /\ pc # "stopped"
        /\ view' = view \/ (view' = tablets /\ pc = "notify")
    BY <1>5 DEF GetAll, Notify, OpenWatch, EndBatch, Breaks, Receive, etcdVars
  <2>. QED BY <1>2, <2>1 DEF Forward, Alive, Now
<1>6. CASE UNCHANGED vars
  BY <1>2, <1>6 DEF vars, etcdVars, gateVars, watchVars, Forward, Alive, Now
<1>7. CASE Etcd
  BY <1>3, <1>7 DEF Etcd, Register, LeaseExpires, ForeignPut
<1>. QED BY <1>4, <1>5, <1>6, <1>7 DEF Next, Watch

\* What was a state of etcd in the past still is.
LEMMA UpToForward ==
  ASSUME IInv, Forward, NEW m, UpTo(m, Now)
  PROVE  m = NoTablets \/ \E i \in 1..Now' : Shows(m, history'[i])
<1>1. CASE m = NoTablets
  BY <1>1
<1>2. ASSUME NEW i \in 1..Now, Shows(m, history[i])
      PROVE  \E j \in 1..Now' : Shows(m, history'[j])
  <2>1. /\ Now \in Nat /\ Now' \in Nat /\ Len(history) \in Nat
        /\ Now <= Now' /\ Now <= Len(history)
    BY DEF Forward, IInv, TypeOK, Now
  <2>2. i \in 1..Now' /\ i \in 1..Len(history)
    BY <2>1
  <2>3. history'[i] = history[i]
    BY <2>2 DEF Forward
  <2>. QED BY <1>2, <2>2, <2>3
<1>. QED BY <1>1, <1>2 DEF UpTo

\* The map itself, while it is followed.
LEMMA MapUpTo ==
  ASSUME IInv, PageOK, Alive
  PROVE  tablets = NoTablets \/ Shows(tablets, history[Now])
<1>1. CASE pc = "get"
  BY <1>1 DEF PageOK
<1>2. CASE pc # "get"
  BY <1>2 DEF IInv, Alive, Following
<1>. QED BY <1>1, <1>2

\* Steps of etcd and of the watch leave a page under way in order.
LEMMA WatchPageOK ==
  ASSUME IInv, PageOK, [Next]_vars, UNCHANGED health
  PROVE  PageOK'
<1>1. Forward
  BY NextForward
<1>2. pc' = "get" => tablets' = NoTablets
  BY <1>1 DEF Forward, PageOK
<1>3. ASSUME Alive' PROVE UpTo(view, Now)'
  <2>1. Alive
    BY <1>1, <1>3 DEF Forward
  <2>2. Now \in 1..Len(history) /\ Len(history) \in Nat
    BY <1>1 DEF Forward, IInv, TypeOK
  <2>3. UpTo(view, Now) /\ UpTo(tablets, Now)
    BY <2>1, <2>2, MapUpTo DEF PageOK, UpTo
  <2>4. view' = view \/ view' = tablets
    BY <1>1 DEF Forward
  <2>. QED BY <1>1, <2>3, <2>4, UpToForward DEF UpTo
<1>4. ASSUME Alive', health.field = 2 PROVE UpTo(health.shards, Now)'
  <2>1. UpTo(health.shards, Now)
    BY <1>1, <1>4 DEF Forward, PageOK
  <2>. QED BY <1>1, <2>1, UpToForward DEF UpTo
<1>5. ASSUME Alive', health.field = 3
      PROVE  InOrder(health.shards, health.tablets)'
  <2>1. InOrder(health.shards, health.tablets)
    BY <1>1, <1>5 DEF Forward, PageOK
  <2>2. \A i \in 1..Len(history) : i \in 1..Len(history') /\ history'[i] = history[i]
    BY <1>1 DEF Forward, IInv, TypeOK
  <2>. QED BY <2>1, <2>2 DEF InOrder, Shows
<1>. QED BY <1>2, <1>3, <1>4, <1>5 DEF PageOK

\* The two reads of a page, the router's first, and its answer.
LEMMA ServePageOK ==
  ASSUME IInv, PageOK, Serve
  PROVE  PageOK'
<1>1. /\ Len(Fields) = 2 /\ Fields[1] = "shards" /\ Fields[2] = "tablets"
  BY DEF Fields
<1>2. UNCHANGED <<history, events, missed, pc, opened, tablets, view>>
  BY DEF Serve, ShardCount, TabletCount, WriteHealth, vars, etcdVars,
         gateVars, watchVars
<1>3. Now' = Now /\ (Alive' <=> Alive) /\ Now \in 1..Len(history)
  BY <1>2 DEF Now, Alive, IInv, TypeOK
<1>0. health \in Page /\ view \in Tablets /\ tablets \in Tablets
  BY DEF PageOK, IInv, TypeOK
<1>4. CASE ShardCount
  <2>1. health.field = 1
    BY <1>1, <1>4, <1>0 DEF ShardCount, Page
  <2>2. health'.field = 2 /\ health'.shards = view /\ health' \in Page
    BY <1>4, <2>1, <1>0 DEF ShardCount, Page
  <2>. QED BY <1>2, <1>3, <2>2 DEF PageOK, UpTo, Shows
<1>5. CASE TabletCount
  <2>1. health.field = 2
    BY <1>1, <1>5, <1>0 DEF TabletCount, Page
  <2>2. /\ health'.field = 3 /\ health'.shards = health.shards
        /\ health'.tablets = tablets /\ health' \in Page
    BY <1>5, <2>1, <1>0 DEF TabletCount, Page
  <2>3. ASSUME Alive PROVE InOrder(health.shards, tablets)
    <3>1. UpTo(health.shards, Now)
      BY <2>1, <2>3 DEF PageOK
    <3>2. tablets = NoTablets \/ Shows(tablets, history[Now])
      BY <2>3, MapUpTo
    <3>3. \A i \in 1..Now : i \in 1..Len(history) /\ i <= Now
      BY <1>3 DEF IInv, TypeOK
    <3>. QED BY <1>3, <3>1, <3>2, <3>3 DEF InOrder, UpTo
  <2>. QED BY <1>2, <1>3, <2>2, <2>3 DEF PageOK, UpTo, InOrder, Shows
<1>6. CASE WriteHealth
  <2>1. health' \in Page /\ health'.field = 1
    BY <1>6 DEF WriteHealth, NoRequest, NoTablets, Page, Tablets
  <2>. QED BY <1>2, <1>3, <2>1 DEF PageOK, UpTo, Shows
<1>. QED BY <1>4, <1>5, <1>6 DEF Serve

\* The invariant of the watch and of a page.
LEMMA AdminInvariant == AdminSpec => [](IInv /\ PageOK)
<1>1. AdminInit => IInv /\ PageOK
  <2>1. NoRequest \in Page /\ NoRequest.field = 1
    BY DEF NoRequest, NoTablets, Page, Tablets
  <2>. QED BY <2>1, InitIInv DEF AdminInit, PageOK, UpTo, Init
<1>2. ASSUME IInv, PageOK, [AdminNext]_adminVars PROVE IInv' /\ PageOK'
  <2>1. CASE [Next]_vars /\ UNCHANGED health
    BY <1>2, <2>1, NextIInv, WatchPageOK, Zenon
  <2>2. CASE Serve
    <3>1. UNCHANGED vars
      BY <2>2 DEF Serve, ShardCount, TabletCount, WriteHealth
    <3>. QED BY <1>2, <2>2, <3>1, NextIInv, ServePageOK
  <2>. QED BY <1>2, <2>1, <2>2, Zenon DEF AdminNext, adminVars
<1>. QED BY <1>1, <1>2, PTL DEF AdminSpec

\* A health page, read while the watch applies events, shows states of etcd,
\* its shards no newer than its tablets.
THEOREM PagesInOrder == AdminSpec => []HealthInOrder
<1>1. IInv /\ PageOK => HealthInOrder
  <2>1. Len(Fields) = 2
    BY DEF Fields
  <2>. QED BY <2>1 DEF PageOK, Page, HealthInOrder, InOrder, Alive
<1>. QED BY <1>1, AdminInvariant, PTL

=============================================================================
