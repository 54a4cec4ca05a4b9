------------------------------ MODULE Topology ------------------------------
(***************************************************************************)
(* How the gate learns of the tablets: topology.Register on the tablets,   *)
(* etcd between them, and EtcdTopology.Watch on the gate, whose onUpdate   *)
(* is Router.Sync.  A change of etcd is one step; the watch goroutine      *)
(* takes one step per request to etcd, event of a response and call of     *)
(* onUpdate.  It holds t.mu between Receive and EndBatch.                  *)
(***************************************************************************)
EXTENDS Integers, Sequences

CONSTANTS
  Alias,       \* keys under the prefix, one per tablet
  Record,      \* tablet records that json.Unmarshal accepts
  Invalid,     \* a record it does not accept
  None,        \* no record
  MaxChanges,  \* bound: changes of etcd
  MayBreak     \* may the initial get or the watch fail?

ASSUME TopologyAssumption ==
  /\ MaxChanges \in Nat /\ MayBreak \in BOOLEAN
  /\ Invalid \notin Record /\ None \notin Record /\ Invalid # None

VARIABLES
  registry,  \* what etcd holds under each key
  history,   \* every value registry has had
  events,    \* events of the watch channel not yet received
  pc,        \* where the goroutine of Watch is
  batch,     \* events of the response at hand still to be applied
  changed,   \* one of them changed the map
  opened,    \* client.Watch was called
  missed,    \* some change fell between the get and the watch
  tablets,   \* EtcdTopology.tablets
  view       \* the tablets onUpdate was last called with

etcdVars == <<registry, history, events, missed>>
watchVars == <<pc, batch, changed>>
gateVars == <<watchVars, opened, tablets, view>>
vars == <<etcdVars, gateVars>>

Registry == [Alias -> Record \cup {Invalid, None}]
Tablets  == [Alias -> Record \cup {None}]
Event    == Alias \X (Record \cup {Invalid, None})

\* Types of the state.
TypeOK ==
  /\ registry \in Registry
  /\ history \in Seq(Registry) /\ Len(history) \in 1..MaxChanges + 1
  /\ events \in Seq(Event) /\ Len(events) < Len(history)
  /\ pc \in {"get", "notify", "open", "watching", "apply", "stopped"}
  /\ batch \in 0..Len(events) /\ changed \in BOOLEAN
  /\ opened \in BOOLEAN /\ missed \in BOOLEAN
  /\ tablets \in Tablets /\ view \in Tablets

NoTablets == [k \in Alias |-> None]

\* Tablets may have registered before the gate starts.
Init ==
  /\ registry \in [Alias -> Record \cup {None}]
  /\ history = <<registry>>
  /\ events = <<>> /\ missed = FALSE
  /\ pc = "get" /\ batch = 0 /\ changed = FALSE /\ opened = FALSE
  /\ tablets = NoTablets /\ view = NoTablets

-----------------------------------------------------------------------------
(* etcd and the tablets                                                    *)

\* The watch channel gets the changes made after the watch was created.
Change(k, v) ==
  /\ Len(history) <= MaxChanges
  /\ registry' = [registry EXCEPT ![k] = v]
  /\ history' = Append(history, registry')
  /\ events' = IF opened THEN Append(events, <<k, v>>) ELSE events
  /\ missed' = (missed \/ (pc \in {"notify", "open"} /\ ~opened))

\* A tablet registers when it starts, over the record of its previous
\* process if that is still there.
Register(k, v) ==
  /\ Change(k, v)
  /\ UNCHANGED gateVars

\* A stopped tablet, and one that cannot reach etcd in time, loses its lease.
\* The goroutine that drains keepAliveChan ends, and nothing registers a
\* running tablet again.
LeaseExpires(k) ==
  /\ registry[k] \in Record
  /\ Change(k, None)
  /\ UNCHANGED gateVars

\* Someone else writes under the prefix.
ForeignPut(k) ==
  /\ registry[k] # Invalid
  /\ Change(k, Invalid)
  /\ UNCHANGED gateVars

-----------------------------------------------------------------------------
(* EtcdTopology.Watch                                                      *)

\* Invalid records are skipped.
GetAll ==
  /\ pc = "get" /\ pc' = "notify"
  /\ tablets' = [k \in Alias |->
                   IF registry[k] = Invalid THEN tablets[k] ELSE registry[k]]
  /\ UNCHANGED <<etcdVars, batch, changed, opened, view>>

\* onUpdate(t.Tablets()), after the get and after each response that changed
\* something.
Notify ==
  /\ pc = "notify" /\ pc' = IF opened THEN "watching" ELSE "open"
  /\ view' = tablets
  /\ UNCHANGED <<etcdVars, batch, changed, opened, tablets>>

\* client.Watch names no revision: events start after this step.
OpenWatch ==
  /\ pc = "open" /\ pc' = "watching"
  /\ opened' = TRUE
  /\ UNCHANGED <<etcdVars, batch, changed, tablets, view>>

\* A response of the watch carries the next n events; t.mu.Lock.
Receive(n) ==
  /\ pc = "watching" /\ pc' = "apply"
  /\ n \in 1..Len(events) /\ batch' = n
  /\ changed' = FALSE
  /\ UNCHANGED <<etcdVars, opened, tablets, view>>

\* Mutant of ApplyEvent: the events of a response are applied last to first.
ApplyEventReversed ==
  LET e == events[batch] IN
  /\ pc = "apply" /\ batch > 0 /\ batch' = batch - 1
  /\ events' = [j \in 1..Len(events) - 1 |->
                  IF j < batch THEN events[j] ELSE events[j + 1]]
  /\ tablets' = IF e[2] = Invalid THEN tablets
                ELSE [tablets EXCEPT ![e[1]] = e[2]]
  /\ changed' = (changed \/ e[2] # Invalid)
  /\ UNCHANGED <<registry, history, missed, pc, opened, view>>

\* Mutant of ApplyEvent: deletions do not count as a change.
ApplyEventIgnoresDeletes ==
  LET e == Head(events) IN
  /\ pc = "apply" /\ batch > 0 /\ batch' = batch - 1
  /\ events' = Tail(events)
  /\ tablets' = IF e[2] = Invalid THEN tablets
                ELSE [tablets EXCEPT ![e[1]] = e[2]]
  /\ changed' = (changed \/ e[2] \in Record)
  /\ UNCHANGED <<registry, history, missed, pc, opened, view>>

\* Mutant of ApplyEvent: records that cannot be parsed are stored.
ApplyEventKeepsInvalid ==
  LET e == Head(events) IN
  /\ pc = "apply" /\ batch > 0 /\ batch' = batch - 1
  /\ events' = Tail(events)
  /\ tablets' = [tablets EXCEPT ![e[1]] = e[2]]
  /\ changed' = TRUE
  /\ UNCHANGED <<registry, history, missed, pc, opened, view>>

\* A put or a delete of the response; a put of an invalid record is skipped.
ApplyEvent ==
  LET e == Head(events) IN
  /\ pc = "apply" /\ batch > 0 /\ batch' = batch - 1
  /\ events' = Tail(events)
  /\ tablets' = IF e[2] = Invalid THEN tablets
                ELSE [tablets EXCEPT ![e[1]] = e[2]]
  /\ changed' = (changed \/ e[2] # Invalid)
  /\ UNCHANGED <<registry, history, missed, pc, opened, view>>

\* t.mu.Unlock.
EndBatch ==
  /\ pc = "apply" /\ batch = 0
  /\ pc' = IF changed THEN "notify" ELSE "watching"
  /\ UNCHANGED <<etcdVars, batch, changed, opened, tablets, view>>

\* An error of the get or of the watch ends the goroutine for good: the
\* server logs it and goes on.
Breaks ==
  /\ MayBreak /\ pc \in {"get", "watching"}
  /\ pc' = "stopped"
  /\ UNCHANGED <<etcdVars, batch, changed, opened, tablets, view>>

-----------------------------------------------------------------------------

Etcd ==
  \E k \in Alias :
    \/ \E v \in Record : Register(k, v)
    \/ LeaseExpires(k) \/ ForeignPut(k)

Watch ==
  \/ GetAll \/ Notify \/ OpenWatch \/ ApplyEvent \/ EndBatch
  \/ \E n \in 1..MaxChanges : Receive(n)

Next == Etcd \/ Watch \/ Breaks

Spec == Init /\ [][Next]_vars

\* The watch goroutine runs, and etcd answers it and delivers its events.
FairSpec == Spec /\ WF_vars(Watch)

-----------------------------------------------------------------------------
(* Properties                                                              *)

\* The gate's map m shows etcd as in reg, but for keys that hold no tablet
\* record.
Shows(m, reg) == \A k \in Alias : reg[k] # Invalid => m[k] = reg[k]

\* What the router is given is the state of etcd at some moment, not a mixture
\* of several, however events are batched - unless a change fell into the
\* gap between the get and the watch.
ViewWasReal ==
  (opened \/ pc = "open") /\ ~missed =>
    \E j \in 1..Len(history) : Shows(view, history[j])

\* Once the watch is open the router is brought up to date with etcd, unless
\* a change fell into the gap or the watch has ended.
Converges ==
  (opened /\ ~missed) ~> (Shows(view, registry) \/ pc = "stopped")

\* The gate follows additions, removals and failovers of tablets
\* (README.md: "Watches etcd for live tablet additions, removals, or
\* failovers"): sooner or later the router's view is that of etcd.
FollowsEtcd == []<>Shows(view, registry)

=============================================================================
