# VScale in TLA+

VScale is a sharding proxy for PostgreSQL. A **gate** takes SQL from clients, over
the PostgreSQL wire protocol or gRPC, and sends it to **tablets**. A tablet stands
in front of one PostgreSQL server and belongs to a shard, as primary or replica.
Tablets announce themselves in etcd, which the gate watches. This directory holds
TLA+ models of these parts, TLC configurations that check them on small instances,
and TLAPS proofs about the tablet, the distributed transactions, the connections, the
router, the watch and the failover. Paths in this file are relative to the repository's root.

## The system and its inventory

| Part | Source | State | Concurrency | Module |
|---|---|---|---|---|
| Tablet transactions | `internal/tablet/executor/transaction.go` | map of open transactions, one pool connection each, last use | request goroutines, idle reaper; `m.mu`, one `t.mu` each | `TxManager`, `LocalTx` |
| Tablet executor, handler | `internal/tablet/executor/executor.go`, `internal/tablet/server/handler.go` | none | one goroutine per RPC | `Executor`; as RPCs in `Coordinator`, `Router` |
| Gate sessions | `internal/gate/session` | sessions, their state and participating shards | request goroutines, reaper; a lock per session | `Coordinator` |
| Gate coordinator | `internal/gate/coordinator` | none of its own | goroutines per shard in each phase | `Coordinator` |
| Gateway | `internal/gate/gateway` | none | one goroutine per request | `Coordinator`, `Router`, `PgConn` |
| Router | `internal/gate/router` | clients, shard groups, replica cursor | `Sync` and `Route` under one lock | `Router` |
| Parser helpers, vschema | `internal/parser`, `internal/vschema` | none | - | `Statement` |
| Scatter aggregation | `internal/gate/aggregate` | none | - | `Aggregate` |
| pgwire | `internal/gate/pgwire` | the transaction id of a connection | one goroutine per connection | `PgConn` |
| Topology | `internal/topology` | map of tablets | watch goroutine; leases of tablets | `Topology`, `Cluster` |
| Tablet client | `internal/gate/client` | a gRPC connection | - | as RPCs |
| Pool, health | `internal/tablet/pool`, `internal/tablet/health` | pgx pool | - | the pool in `TxManager` |
| Admin server | `internal/gate/admin` | none | one goroutine per page | `Admin`, in part |
| Start-up | `cmd/vscale` | none | tablets start, crash and come back | the tablet's in `Cluster` |
| Configuration, generated code | `internal/gate/config`, `proto` | - | - | not modelled |

Nothing is persistent but PostgreSQL and etcd: sessions and local transactions die
with their process.

## Modules

**LocalTx** is what tablets promise: ids from 1, a transaction is open until it is
committed or rolled back once, only an open one commits, a restart forgets all and
counts from 1 again. It is the abstract specification `TxManager` implements and
the tablet `Coordinator` drives.

**TxManager** is one tablet. A process is a request goroutine or the reaper; a step
is one critical section of `m.mu` or `t.mu`, one pool call, or one PostgreSQL call.
`free`, `hand`, `txns`, `conn`, `mu` and `lastUsed` are the program's variables;
`status` and `row` are PostgreSQL's side: the state of each transaction and one
row lock that statements contend for. `lastUsed` is a data race in the code
(written under `t.mu`, read under `m.mu`): the model lets a transaction expire at
any moment. `TxManager.Close` is called by nobody and is left out.

**Executor** puts the handler on top of it: a goroutine takes a request with a list of
statements and the transaction id its sender believes in, and runs the statements one
by one. Each call of the manager is the first action of that call in `TxManager`, and
the rest of it are `TxManager`'s own steps, so batches interleave with the reaper and
with other requests inside every statement. `readOnly` is the refusal of writes by a
replica. A statement outside a transaction is one step, once a connection is free: it
gives the connection back by itself. `writes` and `nested` are ghosts of a batch.

**Coordinator** is the transactional half of the gate. The gateway's, session's and
coordinator's steps for BEGIN, statements, COMMIT and ROLLBACK are separate actions
wherever the code lets go of a session's lock or waits for an RPC. An RPC is one
step at the tablet; it may fail before, or with `LostAnswers` after, it took effect.
Tablets reap and restart, the router gains and loses clients, and the session
reaper lists and then removes. Ghost variables follow each client transaction: what
was acknowledged, committed and rolled back where. Three simplifications: looking a
session up, touching it and reading its state is one step; a request that holds the
client of a tablet which left and came back may still use it (the code would fail);
the goroutines of a phase run in any order, one RPC at a time.

**Statement** is the parser and the vschema as pure operators. A statement keeps
what decides its route: kind, table, the AND-ed conditions, the columns and rows of
an INSERT. A value is a number and whether its text is an integer literal. `Touches`
is the meaning of a statement that routes are compared with; it models no code. A
statement has one table, as `GetTableName` sees it: of a comma join it takes the first
table only, so that a join is routed by the key of that table. Such joins are left out.

**Router** is `Sync`, `Route` and the autocommit path of the gateway. `Sync` goes
through its maps in an order Go leaves open. `Iterations` keeps of such an order what
the groups depend on: the first tablet of a shard, its last primary, and how its
replicas follow each other. Tablets that share an address are settled by a choice.
Between the tablets of a scatter `Sync` may run and close clients. `Sync` is called
with any of a set of topologies. `store` holds the keys of the inserted rows.
Reads, UPDATE, DELETE and DDL change no key.

**Aggregate** is a scatter query of one column or one aggregate: the plan, stripping,
one answer per shard in any row order, and the merge with the code's quicksort. Rows
cross the wire as texts, and the merge works on what `inferType` makes of them and
prints that with `%v` (`Sprint`), so a text is kept as what `ParseInt` and `ParseFloat`
find in it. NULL arrives as the text `<nil>`, which the code compares as a text; texts
beginning with `<` follow all numbers and precede the letters. A sum is one of float64s:
exact up to `FloatExact` (2^53), printed with an exponent from `ExpFrom` (10^6) on. The
reference is the answer of one tablet with the whole table. `NoMerge`, `NullTaken`,
`TextTaken` and `SumRounded` say where the merge gives another answer. Columns are of
types whose aggregates a tablet sends as plain numbers, or of texts.

**PgConn** is a pgwire connection over the gate's sessions. Of the answers the model
keeps `ReadyForQuery`: how many per message, with which status. A COMMIT may be
refused by the coordinator at any time. `inTx` is what the client was told.

**Topology** is registration under a lease, etcd with its watch events, and the
goroutine of `EtcdTopology.Watch`, up to the argument of its callback `Router.Sync`.
A response of the watch carries any number of the events that are due (`Receive`);
they are applied one by one under the lock (`ApplyEvent`), and the callback runs after
the last (`EndBatch`, `Notify`). `history` and `missed` are ghosts.

**Admin** adds the health page, which reads the router and the topology one after the
other while the watch runs.

**Cluster** composes `Topology` and `Router` with the tablet processes. A process
registers, then listens, may crash (its record stays until its lease ends), may lose
its lease while it runs, and may come back with another role. `Notify` and
`Router.Sync` are one step here, as they are one call in the code. A request keeps the
clients it was routed to while all this goes on, and a statement runs only where a
process listens that takes it.

The `MC*` modules give constants their values. The modules named `...Inv`,
`...Steps` and `...Proofs` hold the proofs. `PROJECT.json` maps each definition to its lines.
Definitions named like another with a suffix (`SyncAppendsKeys`, `lessAscending`)
are mutants: plausible bugs that a property must catch. No action uses them.

## Runs that pass

| Run | Bounds | Properties |
|---|---|---|
| `Executor_batches` | 1 goroutine with 2 batches, single calls, and the reaper; 2 connections, 2 transactions; primary or replica | a connection has one user (`ConnExclusive`) and is never lost (`NoConnLeak`); no use after release (`NoUseAfterRelease`); no finished entry stays in the map (`NoZombie`); success answers are true and given once (`OneOutcome`); refinement of LocalTx (`ImplementsLocalTx`); an answered batch forgets no write (`NothingForgotten`); an abandoned transaction is reaped (`AbandonedReaped`) and a BEGIN does not wait for such ones for ever (`BeginServed`) |
| `Coordinator_safety` | 1 client, 2 tablets with 2 ids each, lost answers, a restart | an acknowledged COMMIT kept everything (`CommitPersists`); a failed transaction never commits (`PoisonedNeverCommits`); nothing commits after ROLLBACK (`RollbackIsFinal`); every request is answered unless an RPC of it never ends (`RequestsAnswered`) |
| `Coordinator_overlap` | 2 transactions of 1 session, overlapping statements, 1 tablet, the session reaper, a client change | no local transaction carries two client transactions (`NoSharedLocalTx`); `RollbackIsFinal` |
| `Router_safety` | 2 shards, 12 statements, 3 of 7 topologies in a row | no reachable shard is left out (`NoShardMissed`); clients follow the topology (`ClientsMatchTopology`); writes and transactions go to primaries (`OnlyPrimaries`); a key leads to its shard only (`KeyedToItsShard`) |
| `Aggregate_merge` | 2 shards, up to 2 rows each of 0, 1, NULL, or of texts, LIMIT and OFFSET up to 3 or not literals; aggregates of -1, 600000, 2^24 + 1, NULL with sums exact up to 2^24 (2^53 is beyond TLC's integers) | the merged answer is one for the whole table, except where the property says (`MergeCorrect`) |
| `PgConn_safety` | 2 connections, messages of up to 2 statements, 2 sessions | a connection's transaction is its own (`OwnSession`) and as the client was told (`AsAcknowledged`); one `ReadyForQuery` (`PlainQueryReady`) |
| `Topology_watch` | 2 keys, 3 changes, any batching, failures, a health page | the router's view was real at some moment (`ViewWasReal`) and catches up (`Converges`); the page's tablets are no older than its shards (`HealthInOrder`) |
| `Cluster_failover` | 2 tablets of one shard, each primary or replica when it starts; 2 changes of etcd, 3 syncs, 1 request, crashes | an old primary takes no write once the gate knows (`OldPrimaryFenced`); writes end up at the primary etcd ends with (`FailoverCompletes`) |

`TypeOK` is an invariant of one run per module with state that changes over several
steps.

Why the bounds are enough for what is asked: the tablet's races are between a request
and the reaper on one transaction, with a second transaction to reuse a connection;
races between two requests are covered by the proofs, which hold for any number of
goroutines. The batches of `Executor_batches` are a nested BEGIN, which drops an id, and
a write with a COMMIT, sent with any id handed out so far or none; the second
transaction is then used, ended twice or left to the reaper by later calls. A second shard is what makes a commit distributed, and a
second session what makes ids mix (in `Coordinator_restart`). With two ids per tablet,
`Coordinator_overlap` has a double begin or a second transaction with a local one, not
both; one more id gives 4.5 million states and the same result. A failover is two changes
of etcd (the old primary leaves or comes back as a replica, the other is primary), and
in `Router_safety` three topologies (before, both primaries, after). Two rows on two
shards give equal keys, empty shards and pages that cross shards; each of the four
exceptions of `MergeCorrect` is needed: without it TLC finds a violation. Three changes of
etcd give a batch with two events of one key and one of another.

Deadlock is checked in the `Executor`, `Coordinator` and `Router` runs. The others
may stop: all connections closed, etcd quiet, the query answered.

### Fairness

`TxManager`: goroutines run, PostgreSQL answers a statement that waits for no lock,
the ticker fires, time passes (weak fairness); Go's mutex and PostgreSQL's row locks
serve their waiters (strong fairness). Clients are not assumed to do anything. The
property excepts a reaper that hangs in `t.mu.Lock` behind a statement that waits
for a row lock: `rollback`'s five-second context does not bound that wait.
`Executor`: besides, the goroutine of a request goes on (weak fairness), and a Begin
that waits for a connection gets one if there is one again and again (strong fairness:
the pool's semaphore is first come, first served).
`Coordinator`: the goroutine of a request goes on between its RPCs (weak fairness of
`GoesOn`). Nothing is assumed of the RPCs, which have no deadline: `RequestsAnswered`
excepts a request that waits for ever for one RPC, and so says that the gate neither
stops by itself nor sends RPCs for ever.
`Topology`, `Admin`, `Cluster`: the watch goroutine runs and etcd delivers its events;
nothing is assumed of tablets, requests and pages. `Router`'s
`FairSpec` (the topology arrives, clients send reads again and again, requests are
carried out) serves `ReplicasShareReads` below.

## Runs that show a disagreement

Each checks one property that states what a document or a test says, and TLC finds
it violated. `PROJECT.json` quotes the lines.

| Run | Property | What happens |
|---|---|---|
| `Coordinator_atomic` | `CommitAtomic` | Prepare only runs `SELECT 1`: a shard that voted yes can still be rolled back by its reaper, after another has committed |
| `Coordinator_restart` | `CommitPersists` | a restarted tablet reuses ids: a session commits another's transaction and loses its own |
| `Router_no_primary` | `WellPlaced` | a keyed INSERT whose shard has no primary is stored on other shards |
| `Topology_gap` | `FollowsEtcd` | a change between the get and the watch is not seen |

### Other disagreements

The same modules violate these properties under the constants named, each in a few
steps. They are kept as definitions and have no configuration of their own.

| Property, constants | What happens |
|---|---|
| `RollbackDiscards`, as `Coordinator_atomic` | ROLLBACK after a half-failed COMMIT succeeds, with data committed on one shard (`scripts/try_it.sh:116`, "ROLLBACK discards data") |
| `CommitPersists`, as `Coordinator_overlap` | two overlapping statements both begin on a tablet, and the one whose id was replaced is never committed |
| `RollbackIsFinal`, as `Coordinator_overlap` with `Overlap = "all"` | a ROLLBACK clears the participants between a statement's Begin and its look at the local id: the statement is sent with id 0, which a tablet runs outside any transaction, and is kept (`scripts/try_it.sh:116`) |
| `NoSharedLocalTx`, the same | a statement and a BEGIN overlap a COMMIT of nothing: the statement of the old transaction and one of the new meet in one local transaction |
| `CommitPersists`, `PoisonedNeverCommits`, the same | a COMMIT is answered while a statement is still joining, which is then answered with success and committed by nobody; a BEGIN that overlaps it clears the participants of its own transaction |
| `WellPlaced`, `Healthy` and `MultiRowInserts` | a multi-row INSERT is stored whole on every shard |
| `WritesSomewhere`, `ReplicaOnly` and `Inserts` | a write sent to no tablet is answered with success |
| `ReplicasShareReads` under `FairSpec`, `Replicated` and `ScatterReads` | two shards of two replicas: the shared cursor always picks the same two (README.md:9, "distributes reads across replicas") |
| `AnswersLikeOne`, `OffsetAlone` | OFFSET without ORDER BY, LIMIT, DISTINCT or aggregate is dropped (`scripts/test_scatter_aggregation.sh:179`, "Also verify OFFSET alone works") |
| `AnswersLikeOne`, `LimitExpression` | a LIMIT that is not an integer literal is taken for 0 (`evalIntExpr`): no rows |
| `AnswersLikeOne`, `MaxOnly` | MAX is `<nil>` when a shard is empty |
| `AnswersLikeOne`, `SumOnly` | the sum of NULLs is 0, one of a million is `1e+06`, and large ones are rounded |
| `AnswersLikeOne`, `Grouped` | COUNT with GROUP BY comes back as one row |
| `AnswersLikeOne`, `NestedSum` | an aggregate inside an expression is not merged: one row per shard |
| `AnswersLikeOne`, `SortedTexts` | in a merged answer the text `007` is printed as 7, the empty text as `<nil>`, and NULLs come first |
| `MergeAnswers`, `OtherOrder` | ORDER BY a column that is not selected fails at the gate |
| `ReadyOnce`, `Single` | a refused BEGIN, COMMIT or ROLLBACK gets two `ReadyForQuery` |
| `Answered`, `Blank` | a blank query gets none |
| `StatusTrue`, `Begins` | after an error in a transaction the status is `I` |
| `RollbackEnds`, `Single` | a connection whose session was reaped can never leave its transaction |

`AVG` is the first shard's average, which the code calls a best effort.
README.md:105 also says that scatter queries strip aggregation functions before
fan-out; `StripForScatter` keeps them and the gate merges partial aggregates, which
is what the model has.

## What is proved

Every theorem holds for any number of processes, keys, connections, sessions, tablets,
statements and transactions; the assumptions are the named `ASSUME` of the module
(bounds are positive, `None` is distinct from the rest, sets of tablets are finite), and
those below.

**The tablet** (`TabletProofs`): every safety property of
`Executor_batches` about `TxManager`, and the refinement of `LocalTx`. The argument is one
inductive invariant, `IInv`:

- the properties themselves are not inductive, since they do not say what a
  goroutine between two locks knows;
- `Control` says it: which operation it is in, that its id was handed out, that it
  holds `t.mu` inside a transaction, and that `remove` follows the end of the
  transaction;
- `Private` and `OutOfMap` say that an id before `Insert` and a connection after
  `remove` belong to one goroutine, which is why a connection is released once;
- `Alive` ties PostgreSQL's state to the map: an unfinished transaction is in the
  map, or about to be.

There is one lemma per action (Begin, get and statements;
Commit, Rollback, remove and the reaper), and `NextIInv` puts them
together. `StepOfLocalTx` shows that each step is a step of `LocalTx` or a stutter.

**The handler** (`TabletProofs`): every behaviour of `Executor` is one of `TxManager`
(`TabletIsTxManager`), so all of the above holds under any batches, and the tablet's
service implements `LocalTx` (`TabletIsLocalTx`). `WritesAccountedFor` is
`NothingForgotten`: its invariant says that each write of a running batch is in the
batch's transaction or in one that has been committed, and that a goroutine which
called the manager works on the id of the batch. A batch with a BEGIN inside a transaction
is left out: it drops the first id, whose transaction is rolled back by the reaper after
the batch was answered with success.

**Distributed transactions** (`CoordinatorInv`, `CoordinatorSteps`,
`CoordinatorProofs`): `CommitPersists`, `PoisonedNeverCommits`, `RollbackIsFinal` and
`NoSharedLocalTx`, with any calls failing before or after they took effect, reapers at
work on both sides, clients coming and going, and any number of sessions in parallel.
Two assumptions are needed, and the runs show why: one request at a time per session
(`Overlap = "none"`, which is how pgwire uses the gate; the properties fail otherwise, see
above), and no tablet restart (`MaxRestarts = 0`; `Coordinator_restart`). The invariant
`IInv` has three parts:

- `TypeOK`;
- `DataOK`, about sessions and tablets between requests: an id in a session's
  `ShardTxIDs` was handed out to that session alone (`IdsOK`), what lies in a local
  transaction belongs to the client transaction of the session that holds its id
  (`WorkOK`), and for a transaction that is not yet answered each acknowledged
  statement is in the local transaction the session holds, or was committed or lost
  with it, and if one failed then some participant is dead (`FateOK`);
- `RequestsOK`, about the locals of a request under way: which tablets a statement has
  joined and which have kept it (`JoinsOK`), what the shards a COMMIT is done with have
  voted or done, and that a poisoned transaction gets past no vote (`LoopsOK`).

Steps of tablets are dealt with once: whatever a tablet does, it only begins or ends
local transactions (`Settles`) and undoes nothing that ended (`Stable`), and `DataOK`
survives such a step (`SettlesData`). Then there is a lemma per action of a request.
The two action properties follow from `NextCommitsOnly`: only the COMMIT of a session
makes something durable, and only of its own transaction.

**Connections** (`PgConnProofs`): `OwnSession`, `AsAcknowledged` and `PlainQueryReady`, from an
invariant that says a session id is held by one connection and what was told to a
client in the middle of a batch.

**The watch and the health page** (`TopologyProofs`): `ViewWasReal` and
`HealthInOrder`. The invariant says that applying the events that are still due to the
map gives etcd's present state, and that the events applied so far give a state of
`history`; it needs no bound on the size of batches. The shards of
a page under way are no newer than the map until the page reads the map (`PageOK`).

**The router** (`RouterProofs`): `ClientsMatchTopology` and `OnlyPrimaries` for any
topologies, `NoShardMissed` and `KeyedToItsShard` for those the router is made for. The
invariant `IInv` says that the groups are those of some choice of one tablet per address
of the last topology, for some order of the iterations (`GroupsOK`); the properties
speak of clients and requests only, and say nothing of the groups `Route` reads.

- `OnlyPrimaries` and `KeyedToItsShard` are action properties: they are about the step
  in which a request is given its clients (`Starts`), and follow from `IInv` there.
- `NoShardMissed` is about the answer, after any number of calls of `Sync`. Its
  invariant `Covered` says that what a request must reach is done or still to do, so
  that a closed client makes it fail and never makes it short.
- `NoShardMissed` needs `RangesDisjoint` (no key in the ranges of two shards): of two
  shards with the key, `Route` takes whichever a map iteration gives first.
- `KeyedToItsShard` also needs `RangesAgree` (tablets of one shard have one range, and
  primaries have it set): the group has the range of whichever tablet comes first.
  The code checks neither. `MCRouter` asserts both of the topologies of the runs.
- The lemmas below them say what the parser finds: `KeyTouches`, that a statement with
  a key touches no row with another.

**Failover** (`ClusterProofs`): `OldPrimaryFenced`, for any number of tablets, shards and
requests, with processes that crash, lose leases and come back in another role. Every
step of `Cluster` is one of `Topology` or a stutter (`ClusterIsTopology`), which brings
the invariant of the watch. `ClusterInv` adds what ties the parts together:

- `ProcsOK`: since a process was started etcd has shown its record or none;
- `SeenOK`: the router has the tablets of `history[seen]`;
- `OpenOK`: an open client is for a tablet of these;
- `RequestsOK`: a request still to be sent holds a client that was open once.

So a write that can still run is sent to the address of a tablet the router knows. If
that tablet's process registered after that view, etcd has shown it as a primary since;
if before, the view itself shows it as one. The step from an address to a tablet needs
`OwnAddresses` (two tablets are never started with one address), which `MCCluster`
asserts of its instance and nothing in the code checks.

Only model-checked:

- all liveness (`AbandonedReaped`, `BeginServed`, `RequestsAnswered`, `Converges`,
  `FailoverCompletes`): fairness and ENABLED are beyond the prover;
- `MergeCorrect` of `Aggregate`, whose sort, merge and folds need induction over data;
- `NoSharedLocalTx` and `RollbackIsFinal` with overlapping statements, and the
  properties of `Coordinator` with a restart.

## Not modelled

- Of the admin server: the pages that show one part of the state, read under one lock,
  and the query page, which calls `Gateway.Execute`. HTML and JSON.
- Start-up of the gate (wiring, flags, environment, files), the accept loop of pgwire,
  generated code, logging.
- SQL parsing itself, which is a library's, and the encoding of rows.
- In `Cluster`: writes to etcd by anybody but tablets (`Topology` has them), several
  shards, transactions across a failover.
- Topologies with overlapping key ranges in the runs (the theorems that need disjoint
  ranges name it as a hypothesis), and aggregation over several columns, and over columns
  of floats and truth values.

## Limits and next steps

1. A composition of `Router` and `Coordinator`, for transactions across a failover. In
   `Coordinator` the router only gains and loses clients, and a tablet's role does not
   change under a transaction.
2. Several columns in `Aggregate`.
3. Proofs about `Coordinator` for the statements that may overlap: `NoSharedLocalTx`
   holds in `Coordinator_overlap`, and its invariant would have to say what two
   goroutines of one session know of each other.
