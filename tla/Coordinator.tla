----------------------------- MODULE Coordinator -----------------------------
(***************************************************************************)
(* Transactions of the gate: session.Manager and its sessions, the BEGIN,  *)
(* COMMIT, ROLLBACK and statement paths of gateway.Gateway, and the        *)
(* two-phase commit of coordinator.Coordinator, over the tablets of        *)
(* LocalTx.  A step is one critical section of a session, or one RPC to a  *)
(* tablet with its answer; an RPC may fail before or after it took effect. *)
(* Autocommit statements are the router's business and not in this module. *)
(***************************************************************************)
EXTENDS LocalTx

CONSTANTS
  Req,          \* request goroutines of the gate
  MaxSess,      \* bound: sessions created
  MaxGtx,       \* bound: transactions begun by clients
  MaxRestarts,  \* bound: tablet restarts
  MaxSyncs,     \* bound: clients the router gains or loses
  MaxReaps,     \* bound: rounds in which the session reaper finds something
  LostAnswers,  \* may an RPC take effect and its answer be lost?
  Overlap       \* which requests of one session may overlap: "none", as on a
                \* pgwire connection, "statements" or "all", as gRPC allows

ASSUME CoordinatorAssumption ==
  /\ Addr # {}
  /\ MaxSess \in Nat \ {0} /\ MaxGtx \in Nat \ {0}
  /\ MaxRestarts \in Nat /\ MaxSyncs \in Nat /\ MaxReaps \in Nat
  /\ LostAnswers \in BOOLEAN /\ Overlap \in {"none", "statements", "all"}

VARIABLES
  sessions,  \* keys of Manager.sessions
  created,   \* Manager.nextID
  state,     \* Session.State
  part,      \* Session.ShardTxIDs; 0: the tablet does not participate
  doomed,    \* reapOnce's list "stale"
  clients,   \* keys of Router.clients
  req,       \* the locals of each request
  left,      \* what is left of the bounds on restarts, syncs and reaps
  (* What clients know and what became of their writes:                    *)
  gtx,       \* gtx[s]: the client transaction session s carries
  gtxs,      \* client transactions begun
  work,      \* work[a][i]: client transactions with statements in tx i of a
  acked,     \* <<g, a>>: a statement of g on a was answered with success
  durable,   \* <<g, a>>: statements of g were committed on a
  lost,      \* <<g, a>>: statements of g were rolled back on a
  poisoned,  \* client transactions of which PostgreSQL failed a statement
  answer     \* answer[g]: the successful COMMIT or ROLLBACK answer, if any

sessVars == <<sessions, created, state, part, doomed>>
fateVars == <<work, durable, lost>>
ghostVars == <<gtx, gtxs, acked, poisoned, answer>>
vars == <<localVars, sessVars, clients, req, left, fateVars, ghostVars>>

Sess == 1..MaxSess
Gtx  == 1..MaxGtx
LocalId == {0} \cup TxId
NoParticipants == [a \in Addr |-> 0]
Participants(m) == {a \in Addr : m[a] # 0}

PC == {"idle", "clear", "join", "begin", "send", "rpc", "count",
       "prepareAll", "commitAll", "commitOne", "rollbackAll",
       "preparing", "committing", "committingOne", "rollingBack"}

Request == [pc : PC, op : {"begin", "exec", "commit", "rollback"},
            sess : Sess, g : {0} \cup Gtx, targets : SUBSET Addr,
            scatter : BOOLEAN, todo : SUBSET Addr, at : Addr,
            snap : [Addr -> LocalId], bad : BOOLEAN]

\* The types of the tablets, of the gate's books, of the sessions, and of what
\* clients know.
TabletTypes ==
  /\ nextID \in [Addr -> 0..MaxTx] /\ status \in [Addr -> [TxId -> Status]]
  /\ work \in [Addr -> [TxId -> SUBSET Gtx]]
  /\ durable \in SUBSET (Gtx \X Addr) /\ lost \in SUBSET (Gtx \X Addr)

BookTypes ==
  /\ created \in 0..MaxSess /\ sessions \in SUBSET Sess
  /\ doomed \in SUBSET Sess /\ clients \in SUBSET Addr
  /\ left \in [restart : 0..MaxRestarts, sync : 0..MaxSyncs, reap : 0..MaxReaps]

SessTypes ==
  /\ state \in [Sess -> {"idle", "in", "committed", "rolledback"}]
  /\ part \in [Sess -> [Addr -> LocalId]]
  /\ gtx \in [Sess -> {0} \cup Gtx] /\ gtxs \in 0..MaxGtx

FateTypes ==
  /\ acked \in SUBSET (Gtx \X Addr) /\ poisoned \in SUBSET Gtx
  /\ answer \in [Gtx -> {"none", "committed", "rolledback"}]

\* The state of the gate and of its tablets keeps its types.
TypeOK ==
  /\ TabletTypes /\ BookTypes /\ SessTypes /\ FateTypes
  /\ req \in [Req -> Request]

NoRequest == [pc |-> "idle", op |-> "begin", sess |-> 1, g |-> 0,
              targets |-> {}, scatter |-> FALSE, todo |-> {},
              at |-> CHOOSE a \in Addr : TRUE, snap |-> NoParticipants,
              bad |-> FALSE]

Init ==
  /\ LocalInit
  /\ sessions = {} /\ created = 0
  /\ state = [s \in Sess |-> "idle"]
  /\ part = [s \in Sess |-> NoParticipants]
  /\ doomed = {}
  /\ clients = Addr
  /\ req = [r \in Req |-> NoRequest]
  /\ left = [restart |-> MaxRestarts, sync |-> MaxSyncs, reap |-> MaxReaps]
  /\ gtx = [s \in Sess |-> 0] /\ gtxs = 0
  /\ work = [a \in Addr |-> [i \in TxId |-> {}]]
  /\ acked = {} /\ durable = {} /\ lost = {} /\ poisoned = {}
  /\ answer = [g \in Gtx |-> "none"]

-----------------------------------------------------------------------------
(* What an RPC does at the tablet, with the fate of the statements in it.  *)

TabletsUnchanged == UNCHANGED <<localVars, fateVars>>

CommitAt(a, i) ==
  /\ Commit(a, i)
  /\ durable' = durable \cup (work[a][i] \X {a})
  /\ work' = [work EXCEPT ![a][i] = {}]
  /\ UNCHANGED lost

RollbackAt(a, i) ==
  /\ Rollback(a, i)
  /\ lost' = lost \cup (work[a][i] \X {a})
  /\ work' = [work EXCEPT ![a][i] = {}]
  /\ UNCHANGED durable

FailAt(a, i) == Fail(a, i) /\ UNCHANGED fateVars

BeginAt(a) == Begin(a) /\ UNCHANGED fateVars

\* A statement under id 0 is not in a transaction: the tablet commits it.
ExecAt(a, i, g) ==
  /\ IF i = 0
     THEN durable' = durable \cup {<<g, a>>} /\ UNCHANGED work
     ELSE /\ status[a][i] = "open"
          /\ work' = [work EXCEPT ![a][i] = @ \cup {g}]
          /\ UNCHANGED durable
  /\ UNCHANGED <<localVars, lost>>

\* tablet/server/handler.go: Prepare runs SELECT 1 in the transaction.
PrepareRPC(a, i, yes) ==
  \/ yes /\ a \in clients /\ status[a][i] = "open" /\ TabletsUnchanged
  \/ ~yes /\ (TabletsUnchanged \/ (a \in clients /\ FailAt(a, i)))

\* An error may hide a commit (the answer was lost), a rollback (the commit
\* failed) or nothing (never arrived, or no such transaction).
CommitRPC(a, i, yes) ==
  \/ yes /\ a \in clients /\ CommitAt(a, i)
  \/ ~yes /\ \/ TabletsUnchanged
             \/ a \in clients /\ RollbackAt(a, i)
             \/ a \in clients /\ LostAnswers /\ CommitAt(a, i)

\* rollbackAll's callers ignore its errors, so its answer does not matter.
RollbackRPC(a, i) ==
  TabletsUnchanged \/ (a \in clients /\ RollbackAt(a, i))

-----------------------------------------------------------------------------
(* Arrival of a request: sessMgr.Get (which touches the session) and the   *)
(* check of its state.                                                     *)

Idle(r) == req[r].pc = "idle"

\* Whether the client may send a request of kind o now.
Quiet(s, o) ==
  \A q \in Req : req[q].pc # "idle" /\ req[q].sess = s =>
    \/ Overlap = "all"
    \/ Overlap = "statements" /\ o = "exec" /\ req[q].op = "exec"

Goto(r, l) == req' = [req EXCEPT ![r].pc = l]

\* The request is answered and its locals are gone.
Return(r) == req' = [req EXCEPT ![r] = NoRequest]

\* BEGIN outside a transaction: a new session.
BeginNew(r) ==
  /\ Idle(r)
  /\ created < MaxSess /\ gtxs < MaxGtx
  /\ created' = created + 1
  /\ sessions' = sessions \cup {created + 1}
  /\ state' = [state EXCEPT ![created + 1] = "in"]
  /\ gtxs' = gtxs + 1
  /\ gtx' = [gtx EXCEPT ![created + 1] = gtxs + 1]
  /\ UNCHANGED <<localVars, part, doomed, clients, req, left,
                 fateVars, acked, poisoned, answer>>

\* BEGIN with the id of a finished session (in a running transaction it
\* changes nothing): SetState, then ClearParticipants.
BeginAgain(r, s) ==
  /\ Idle(r) /\ Quiet(s, "begin")
  /\ s \in sessions /\ state[s] # "in" /\ gtxs < MaxGtx
  /\ state' = [state EXCEPT ![s] = "in"]
  /\ gtxs' = gtxs + 1
  /\ gtx' = [gtx EXCEPT ![s] = gtxs + 1]
  /\ req' = [req EXCEPT ![r] = [NoRequest EXCEPT !.pc = "clear", !.sess = s]]
  /\ UNCHANGED <<localVars, sessions, created, part, doomed, clients,
                 left, fateVars, acked, poisoned, answer>>

Arrive(r, s, rq) ==
  /\ Idle(r) /\ Quiet(s, rq.op)
  /\ s \in sessions /\ state[s] = "in"
  /\ req' = [req EXCEPT ![r] = rq]
  /\ UNCHANGED <<localVars, sessions, created, state, part, doomed, clients,
                 left, fateVars, ghostVars>>

\* "invalid transaction id", "cannot commit", "session not in transaction":
\* an error, and nothing changes.
Refused(r, s) ==
  /\ Idle(r)
  /\ s \notin sessions \/ state[s] # "in"
  /\ UNCHANGED vars

\* A statement, routed to one tablet or scattered to every tablet with a
\* client (none at all included).
Execute(r, s, ts, sc) ==
  Arrive(r, s, [NoRequest EXCEPT !.pc = "join", !.op = "exec", !.sess = s,
                  !.g = gtx[s], !.targets = ts, !.scatter = sc, !.todo = ts])

CallCommit(r, s) ==
  Arrive(r, s, [NoRequest EXCEPT !.pc = "count", !.op = "commit",
                  !.sess = s, !.g = gtx[s]])

CallRollback(r, s) ==
  Arrive(r, s, [NoRequest EXCEPT !.pc = "rollbackAll", !.op = "rollback",
                  !.sess = s, !.g = gtx[s]])

-----------------------------------------------------------------------------
(* Coordinator.Execute                                                     *)

\* IsParticipating: a tablet without a transaction needs one ...
Join(r, a) ==
  /\ req[r].pc = "join" /\ a \in req[r].todo
  /\ req' = IF part[req[r].sess][a] # 0
            THEN [req EXCEPT ![r].todo = @ \ {a}]
            ELSE [req EXCEPT ![r].pc = "begin", ![r].at = a]
  /\ UNCHANGED <<localVars, sessVars, clients, left, fateVars, ghostVars>>

\* Mutant of BeginOnTablet: the id after the one the tablet handed out.
BeginOnTabletNextId(r) ==
  LET s == req[r].sess a == req[r].at IN
  /\ req[r].pc = "begin" /\ a \in clients
  /\ BeginAt(a)
  /\ part' = [part EXCEPT ![s][a] = nextID[a] + 2]
  /\ req' = [req EXCEPT ![r].pc = "join", ![r].todo = @ \ {a}]
  /\ UNCHANGED <<sessions, created, state, doomed, clients,
                 left, ghostVars>>

\* ... which beginOnTablet and SetLocalTxID provide, whoever joined it
\* meanwhile.
BeginOnTablet(r) ==
  LET s == req[r].sess a == req[r].at IN
  /\ req[r].pc = "begin" /\ a \in clients
  /\ BeginAt(a)
  /\ part' = [part EXCEPT ![s][a] = nextID[a] + 1]
  /\ req' = [req EXCEPT ![r].pc = "join", ![r].todo = @ \ {a}]
  /\ UNCHANGED <<sessions, created, state, doomed, clients,
                 left, ghostVars>>

BeginFails(r) ==
  /\ req[r].pc = "begin"
  /\ TabletsUnchanged \/ (LostAnswers /\ BeginAt(req[r].at))
  /\ Goto(r, "rollbackAll")
  /\ UNCHANGED <<sessVars, clients, left, ghostVars>>

Joined(r) ==
  /\ req[r].pc = "join" /\ req[r].todo = {}
  /\ req' = [req EXCEPT ![r].pc = "send", ![r].todo = req[r].targets]
  /\ UNCHANGED <<localVars, sessVars, clients, left, fateVars, ghostVars>>

\* GetLocalTxID; the answer of a tablet that no longer participates is 0.
ReadLocalTxID(r, a) ==
  /\ req[r].pc = "send" /\ a \in req[r].todo
  /\ req' = [req EXCEPT ![r].pc = "rpc", ![r].at = a, ![r].todo = @ \ {a},
                        ![r].snap = [@ EXCEPT ![a] = part[req[r].sess][a]]]
  /\ UNCHANGED <<localVars, sessVars, clients, left, fateVars, ghostVars>>

ExecRPC(r, yes) ==
  LET a == req[r].at i == req[r].snap[req[r].at] IN
  \/ yes /\ a \in clients /\ ExecAt(a, i, req[r].g) /\ UNCHANGED poisoned
  \/ ~yes /\ \/ TabletsUnchanged /\ UNCHANGED poisoned
             \/ LostAnswers /\ ExecAt(a, i, req[r].g) /\ UNCHANGED poisoned
             \/ /\ i # 0 /\ FailAt(a, i)
                /\ poisoned' = poisoned \cup {req[r].g}

\* The statement on the one tablet it was routed to: its answer is the
\* client's, and an error rolls nothing back.
ExecuteOne(r) ==
  /\ req[r].pc = "rpc" /\ ~req[r].scatter
  /\ \E yes \in BOOLEAN :
       /\ ExecRPC(r, yes)
       /\ acked' = IF yes THEN acked \cup {<<req[r].g, req[r].at>>} ELSE acked
  /\ Return(r)
  /\ UNCHANGED <<sessVars, clients, left, gtx, gtxs, answer>>

\* executeScatter goes on after an error ...
ScatterOne(r) ==
  /\ req[r].pc = "rpc" /\ req[r].scatter
  /\ \E yes \in BOOLEAN :
       /\ ExecRPC(r, yes)
       /\ req' = [req EXCEPT ![r].pc = "send", ![r].bad = @ \/ ~yes]
  /\ UNCHANGED <<sessVars, clients, left, gtx, gtxs, acked, answer>>

\* ... and rolls back at the end: after an error, or when the merge fails.
ScatterFails(r) ==
  /\ req[r].pc = "send" /\ req[r].todo = {}
  /\ Goto(r, "rollbackAll")
  /\ UNCHANGED <<localVars, sessVars, clients, left, fateVars, ghostVars>>

ScatterOk(r) ==
  /\ req[r].pc = "send" /\ req[r].todo = {} /\ ~req[r].bad
  /\ acked' = acked \cup ({req[r].g} \X req[r].targets)
  /\ Return(r)
  /\ UNCHANGED <<localVars, sessVars, clients, left, fateVars, gtx, gtxs,
                 poisoned, answer>>

-----------------------------------------------------------------------------
(* Coordinator.Commit and Coordinator.Rollback                             *)

\* ShardCount decides the path; with no participants COMMIT is an answer.
CountShards(r) ==
  LET shards == Participants(part[req[r].sess]) IN
  /\ req[r].pc = "count"
  /\ \/ /\ shards = {}
        /\ state' = [state EXCEPT ![req[r].sess] = "committed"]
        /\ answer' = [answer EXCEPT ![req[r].g] = "committed"]
        /\ Return(r)
     \/ /\ shards # {}
        /\ Goto(r, IF \E a \in Addr : shards = {a} THEN "commitOne" ELSE "prepareAll")
        /\ UNCHANGED <<state, answer>>
  /\ UNCHANGED <<localVars, sessions, created, part, doomed, clients,
                 left, fateVars, gtx, gtxs, acked, poisoned>>

\* ParticipatingShardsMap: each of the four loops takes its own copy.
Loop == [prepareAll |-> "preparing", commitAll |-> "committing",
         commitOne |-> "committingOne", rollbackAll |-> "rollingBack"]

TakeShards(r) ==
  LET m == part[req[r].sess] IN
  /\ req[r].pc \in DOMAIN Loop
  /\ req' = [req EXCEPT ![r].pc = Loop[@], ![r].snap = m,
                        ![r].todo = Participants(m), ![r].bad = FALSE]
  /\ UNCHANGED <<localVars, sessVars, clients, left, fateVars, ghostVars>>

\* One goroutine per shard, in any order; errors are collected.
Prepare(r, a) ==
  /\ req[r].pc = "preparing" /\ a \in req[r].todo
  /\ \E yes \in BOOLEAN :
       /\ PrepareRPC(a, req[r].snap[a], yes)
       /\ req' = [req EXCEPT ![r].todo = @ \ {a}, ![r].bad = @ \/ ~yes]
  /\ UNCHANGED <<sessVars, clients, left, ghostVars>>

\* Mutants of PreparedAll: the votes are not looked at; after a no all
\* shards are asked again.
PreparedAllIgnoresVotes(r) ==
  /\ req[r].pc = "preparing" /\ req[r].todo = {}
  /\ Goto(r, "commitAll")
  /\ UNCHANGED <<localVars, sessVars, clients, left, fateVars, ghostVars>>

PreparedAllAgain(r) ==
  /\ req[r].pc = "preparing" /\ req[r].todo = {}
  /\ Goto(r, IF req[r].bad THEN "prepareAll" ELSE "commitAll")
  /\ UNCHANGED <<localVars, sessVars, clients, left, fateVars, ghostVars>>

PreparedAll(r) ==
  /\ req[r].pc = "preparing" /\ req[r].todo = {}
  /\ Goto(r, IF req[r].bad THEN "rollbackAll" ELSE "commitAll")
  /\ UNCHANGED <<localVars, sessVars, clients, left, fateVars, ghostVars>>

CommitShard(r, a) ==
  /\ req[r].pc = "committing" /\ a \in req[r].todo
  /\ \E yes \in BOOLEAN :
       /\ CommitRPC(a, req[r].snap[a], yes)
       /\ req' = [req EXCEPT ![r].todo = @ \ {a}, ![r].bad = @ \/ ~yes]
  /\ UNCHANGED <<sessVars, clients, left, ghostVars>>

\* An error of commitAll goes to the client: no rollback, and the session
\* stays in the transaction with all its participants.
CommitAllFailed(r) ==
  /\ req[r].pc = "committing" /\ req[r].todo = {} /\ req[r].bad
  /\ Return(r)
  /\ UNCHANGED <<localVars, sessVars, clients, left, fateVars, ghostVars>>

\* The one-participant path commits without prepare; a missing client is an
\* error at once, a failed commit is one after rollbackAll.
CommitOne(r, a) ==
  /\ req[r].pc = "committingOne" /\ a \in req[r].todo
  /\ \/ CommitRPC(a, req[r].snap[a], TRUE)
        /\ req' = [req EXCEPT ![r].todo = @ \ {a}]
     \/ a \in clients /\ CommitRPC(a, req[r].snap[a], FALSE)
        /\ Goto(r, "rollbackAll")
     \/ a \notin clients /\ TabletsUnchanged /\ Return(r)
  /\ UNCHANGED <<sessVars, clients, left, ghostVars>>

\* Mutant of Committed: the error of commitAll is dropped.
CommittedAnyway(r) ==
  /\ req[r].pc \in {"committing", "committingOne"}
  /\ req[r].todo = {}
  /\ state' = [state EXCEPT ![req[r].sess] = "committed"]
  /\ Goto(r, "clear")
  /\ UNCHANGED <<localVars, sessions, created, part, doomed, clients,
                 left, fateVars, ghostVars>>

\* SetState(Committed); ClearParticipants and the answer follow.
Committed(r) ==
  /\ req[r].pc \in {"committing", "committingOne"}
  /\ req[r].todo = {} /\ ~req[r].bad
  /\ state' = [state EXCEPT ![req[r].sess] = "committed"]
  /\ Goto(r, "clear")
  /\ UNCHANGED <<localVars, sessions, created, part, doomed, clients,
                 left, fateVars, ghostVars>>

RollbackShard(r, a) ==
  /\ req[r].pc = "rollingBack" /\ a \in req[r].todo
  /\ RollbackRPC(a, req[r].snap[a])
  /\ req' = [req EXCEPT ![r].todo = @ \ {a}]
  /\ UNCHANGED <<sessVars, clients, left, ghostVars>>

\* Mutant of RolledBackAll: SetState(RolledBack) is missing.
RolledBackAllStaysIn(r) ==
  /\ req[r].pc = "rollingBack" /\ req[r].todo = {}
  /\ \/ req[r].op # "rollback" /\ Return(r)
     \/ req[r].op = "rollback" /\ Goto(r, "clear")
  /\ UNCHANGED <<localVars, sessions, created, state, part, doomed, clients,
                 left, fateVars, ghostVars>>

\* rollbackAll of an Execute or a Commit leads to an error and leaves state
\* and participants; that of a Rollback to SetState(RolledBack).
RolledBackAll(r) ==
  /\ req[r].pc = "rollingBack" /\ req[r].todo = {}
  /\ \/ req[r].op # "rollback" /\ Return(r) /\ UNCHANGED state
     \/ /\ req[r].op = "rollback" /\ Goto(r, "clear")
        /\ state' = [state EXCEPT ![req[r].sess] = "rolledback"]
  /\ UNCHANGED <<localVars, sessions, created, part, doomed, clients,
                 left, fateVars, ghostVars>>

\* Mutant of Clear: the participants stay.
ClearForgets(r) ==
  LET o == req[r].op IN
  /\ req[r].pc = "clear"
  /\ answer' = IF o = "begin" THEN answer
               ELSE [answer EXCEPT ![req[r].g] =
                       IF o = "commit" THEN "committed" ELSE "rolledback"]
  /\ Return(r)
  /\ UNCHANGED <<localVars, sessions, created, state, part, doomed, clients,
                 left, fateVars, gtx, gtxs, acked, poisoned>>

\* ClearParticipants, the last call of COMMIT, ROLLBACK and BEGIN, and the
\* success answer.
Clear(r) ==
  LET o == req[r].op IN
  /\ req[r].pc = "clear"
  /\ part' = [part EXCEPT ![req[r].sess] = NoParticipants]
  /\ answer' = IF o = "begin" THEN answer
               ELSE [answer EXCEPT ![req[r].g] =
                       IF o = "commit" THEN "committed" ELSE "rolledback"]
  /\ Return(r)
  /\ UNCHANGED <<localVars, sessions, created, state, doomed, clients,
                 left, fateVars, gtx, gtxs, acked, poisoned>>

-----------------------------------------------------------------------------
(* The session reaper, the tablets and the topology                        *)

Spend(b) == left[b] > 0 /\ left' = [left EXCEPT ![b] = @ - 1]

\* reapOnce lists the sessions unused for longer than idleTimeout.  Only the
\* arrival of a request counts as use, so it may be any of them, one with
\* a long request under way included ...
ListStale ==
  /\ doomed = {}
  /\ Spend("reap")
  /\ doomed' \in SUBSET sessions \ {{}}
  /\ UNCHANGED <<localVars, sessions, created, state, part, clients,
                 req, fateVars, ghostVars>>

\* ... and removes them one by one: used again since or not, with no
\* rollback on the tablets.
RemoveStale(s) ==
  /\ s \in doomed
  /\ sessions' = sessions \ {s}
  /\ doomed' = doomed \ {s}
  /\ UNCHANGED <<localVars, created, state, part, clients, req,
                 left, fateVars, ghostVars>>

\* The idle reaper of a tablet ends a transaction.
TabletReaps(a, i) ==
  /\ RollbackAt(a, i)
  /\ UNCHANGED <<sessVars, clients, req, left, ghostVars>>

TabletRestarts(a) ==
  /\ Spend("restart")
  /\ Restart(a)
  /\ lost' = lost \cup ((UNION {work[a][i] : i \in TxId}) \X {a})
  /\ work' = [work EXCEPT ![a] = [i \in TxId |-> {}]]
  /\ UNCHANGED <<sessVars, clients, req, durable, ghostVars>>

\* Router.Sync adds or removes a client.
SyncClients(a) ==
  /\ Spend("sync")
  /\ clients' = IF a \in clients THEN clients \ {a} ELSE clients \cup {a}
  /\ UNCHANGED <<localVars, sessVars, req, fateVars, ghostVars>>

-----------------------------------------------------------------------------

\* The steps a request takes until it is answered: an RPC ends ...
EndsRPC(r) ==
  \/ BeginOnTablet(r) \/ BeginFails(r) \/ ExecuteOne(r) \/ ScatterOne(r)
  \/ \E a \in Addr :
       \/ Prepare(r, a) \/ CommitShard(r, a) \/ CommitOne(r, a)
       \/ RollbackShard(r, a)

\* ... or the gate goes on by itself.
GoesOn(r) ==
  \/ Joined(r) \/ ScatterFails(r) \/ ScatterOk(r)
  \/ CountShards(r) \/ TakeShards(r) \/ PreparedAll(r)
  \/ CommitAllFailed(r) \/ Committed(r) \/ RolledBackAll(r) \/ Clear(r)
  \/ \E a \in Addr : Join(r, a) \/ ReadLocalTxID(r, a)

Step(r) == EndsRPC(r) \/ GoesOn(r)

Call(r) ==
  \/ BeginNew(r)
  \/ \E s \in Sess :
       \/ BeginAgain(r, s) \/ Refused(r, s)
       \/ CallCommit(r, s) \/ CallRollback(r, s)
       \/ \E a \in clients : Execute(r, s, {a}, FALSE)
       \/ Execute(r, s, clients, TRUE)

Environment ==
  \/ ListStale
  \/ \E s \in Sess : RemoveStale(s)
  \/ \E a \in Addr :
       \/ SyncClients(a) \/ TabletRestarts(a)
       \/ \E i \in TxId : TabletReaps(a, i)

Next == (\E r \in Req : Call(r) \/ Step(r)) \/ Environment

Spec == Init /\ [][Next]_vars

\* A request goroutine keeps running between its RPCs.  Nothing is assumed of
\* these: they have no deadline, and a tablet may wait for a row lock or for
\* a connection.
FairSpec == Spec /\ \A r \in Req : WF_vars(GoesOn(r))

-----------------------------------------------------------------------------
(* Properties                                                              *)

DurableOf(g) == {a \in Addr : <<g, a>> \in durable}
LostOf(g)    == {a \in Addr : <<g, a>> \in lost}
AckedOf(g)   == {a \in Addr : <<g, a>> \in acked}

\* A COMMIT answered with success kept everything: each statement that was
\* answered with success is committed on its shard and none of the
\* transaction's statements was rolled back on another, whatever failed,
\* was reaped, or was retried on the way to that answer.
CommitPersists ==
  \A g \in Gtx : answer[g] = "committed" =>
    AckedOf(g) \subseteq DurableOf(g) /\ LostOf(g) = {}

\* A local transaction never holds the statements of two clients: the ids
\* in ShardTxIDs lead each session to transactions of its own.
NoSharedLocalTx ==
  \A a \in Addr, i \in TxId : \A g, h \in work[a][i] : g = h

\* After PostgreSQL failed a statement of a transaction, no shard commits
\* it any more: the vote of prepareAll, and a commit on the only shard,
\* refuse it through any number of COMMIT retries.
PoisonedNeverCommits ==
  [][\A g \in poisoned : DurableOf(g)' = DurableOf(g)]_vars

\* Nothing of a transaction is committed after its ROLLBACK was answered,
\* although the errors of rollbackAll are ignored and local transactions
\* may stay open behind it.
RollbackIsFinal ==
  [][\A g \in Gtx :
       answer[g] = "rolledback" => DurableOf(g)' = DurableOf(g)]_vars

\* No transaction is committed on one shard and rolled back on another:
\* what two-phase commit is for (README.md, "Distributed Transactions").
CommitAtomic == \A g \in Gtx : DurableOf(g) = {} \/ LostOf(g) = {}

\* ROLLBACK discards the data of the transaction (scripts/try_it.sh).
RollbackDiscards ==
  \A g \in Gtx : answer[g] = "rolledback" => DurableOf(g) = {}

\* An RPC of the request is under way.
InRPC(r) ==
  \/ req[r].pc \in {"begin", "rpc"}
  \/ /\ req[r].pc \in {"preparing", "committing", "committingOne", "rollingBack"}
     /\ req[r].todo # {}

\* Every request is answered, unless an RPC of it never ends: no path of
\* COMMIT, ROLLBACK or Execute, through any failures, restarts and lost
\* answers, stalls in the gate, or goes on sending RPCs for ever.
RequestsAnswered ==
  \A r \in Req :
    \/ []<>(req[r].pc = "idle")
    \/ <>[]InRPC(r) /\ <>[][~EndsRPC(r)]_vars

=============================================================================
