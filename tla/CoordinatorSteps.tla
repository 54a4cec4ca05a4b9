-------------------------- MODULE CoordinatorSteps --------------------------
(***************************************************************************)
(* The loops of COMMIT and ROLLBACK over the participants, BEGIN and the   *)
(* statements sent to the tablets keep the invariant of Coordinator.       *)
(***************************************************************************)
EXTENDS CoordinatorInv

-----------------------------------------------------------------------------
(* COMMIT and ROLLBACK                                                     *)

\* The loops keep the locals of the request.
LEMMA LoopLocals ==
  ASSUME NEW r \in Req, NEW R \in Request, NEW Q \in Request, NEW s \in Sess,
         Current(r, R, s), Q.op = R.op, Q.sess = R.sess, Q.g = R.g,
         \/ R.pc \in TwoPhase /\ Q.pc \in TwoPhase \cup RollsBack
         \/ R.pc \in RollsBack /\ Q.pc \in RollsBack,
         UNCHANGED <<created, gtx, state, answer>>
  PROVE  CarriesOK(Q, s)' /\ JoinsOK(Q, s)' /\ Q.sess = s
<1>1. Q.sess = s /\ Q.pc \in TwoPhase \cup RollsBack
  BY Zenon DEF Current
<1>2. JoinsOK(Q, s)'
  BY <1>1, Zenon DEF JoinsOK, Joining, TwoPhase, RollsBack
<1>3. CarriesOK(R, s)
  BY Zenon DEF Current, Serves
<1>4. CarriesOK(Q, s)'
  BY <1>1, <1>3, Zenon DEF CarriesOK, Joining, TwoPhase, RollsBack
<1>. QED BY <1>1, <1>2, <1>4, Zenon

\* Each loop starts from the participants of the session.
LEMMA TakeShardsStep ==
  ASSUME IInv, NEW r \in Req, TakeShards(r)
  PROVE  IInv'
<1>1. PICK R \in Request, s \in Sess : Current(r, R, s)
  BY UnderWay, Zenon DEF TakeShards, Loop
<1>2. R.pc \in DOMAIN Loop /\ R.at \in Addr
  BY <1>1, Zenon DEF Current, TakeShards, Request
<1>3. PICK l \in PC : l = Loop[R.pc]
  <2>1. R.pc \in {"prepareAll", "commitAll", "commitOne", "rollbackAll"}
    BY <1>2, Zenon DEF Loop
  <2>2. /\ Loop["prepareAll"] = "preparing" /\ Loop["commitAll"] = "committing"
        /\ Loop["commitOne"] = "committingOne" /\ Loop["rollbackAll"] = "rollingBack"
    BY Zenon DEF Loop
  <2>. QED BY <2>1, <2>2, Zenon DEF PC
<1>4. PICK m \in [Addr -> LocalId], P \in SUBSET Addr :
        m = part[s] /\ P = Participants(m)
  BY Zenon DEF IInv, TypeOK, Participants, SessTypes
<1>5. PICK Q \in Request :
        Q = [R EXCEPT !.pc = l, !.snap = m, !.todo = P, !.bad = FALSE]
  BY Zenon DEF Request
<1>6. Moves(r, Q)
  BY <1>1, <1>3, <1>4, <1>5, Zenon DEF Current, TakeShards, Moves, IInv, TypeOK
<1>7. /\ Q.op = R.op /\ Q.sess = R.sess /\ Q.g = R.g
      /\ Q.pc = l /\ Q.snap = m /\ Q.todo = P /\ Q.bad = FALSE
  BY <1>5
<1>8. /\ Q.snap = part[s] /\ \A b \in Addr : b \in Q.todo <=> part[s][b] # 0
  BY <1>4, <1>7, Zenon DEF Participants
<1>9. /\ TabletStep(R.at) /\ UNCHANGED <<bookVars, doomed, clients, left>>
      /\ UNCHANGED <<created, part, gtx, state, answer, poisoned, status>>
  BY Zenon DEF TakeShards, TabletStep, TabletsUnchanged, bookVars, sessVars,
     ghostVars, localVars
<1>10. Q.sess = s /\ Serves(Q, s)'
  <2>1. \/ R.pc = "prepareAll" /\ Q.pc = "preparing"
        \/ R.pc = "commitAll" /\ Q.pc = "committing"
        \/ R.pc = "commitOne" /\ Q.pc = "committingOne"
        \/ R.pc = "rollbackAll" /\ Q.pc = "rollingBack"
    BY <1>2, <1>3, <1>7 DEF Loop
  <2>2. CarriesOK(Q, s)' /\ JoinsOK(Q, s)' /\ Q.sess = s
    BY <1>1, <1>7, <1>9, <2>1, LoopLocals, Zenon DEF TwoPhase, RollsBack
  <2>3. gtx[s] \in poisoned => \E b \in Q.todo : DeadIn(b, s)
    BY <1>1, <1>8, CurrentTx DEF IInv, DataOK, FateOK, Gtx
  <2>4. \A b \in Addr : DeadIn(b, s) => DeadIn(b, s)'
    BY <1>9, Zenon DEF DeadIn, Dead
  <2>5. LoopsOK(R, s) /\ Q.todo \subseteq Addr
    BY <1>1, Zenon DEF Current, Serves, Request
  <2>6. LoopsOK(Q, s)'
    BY <1>8, <1>9, <2>1, <2>3, <2>4, <2>5, Zenon DEF LoopsOK, Looping
  <2>. QED BY <2>2, <2>6, Zenon DEF Serves
<1>11. R.pc # "clear"
  BY <1>2, Zenon DEF Loop
<1>. QED BY <1>1, <1>2, <1>6, <1>9, <1>10, <1>11, CurrentStep, Zenon

\* A shard that votes yes has no failed statement.
LEMMA PrepareStep ==
  ASSUME IInv, NEW r \in Req, NEW a \in Addr, Prepare(r, a)
  PROVE  IInv'
<1>1. PICK R \in Request, s \in Sess : Current(r, R, s)
  BY UnderWay, Zenon DEF Prepare
<1>2. R.pc = "preparing" /\ a \in R.todo
  BY <1>1, Zenon DEF Current, Prepare
<1>3. PICK i \in TxId : i = R.snap[a] /\ i = req[r].snap[a] /\ i = part[s][a]
  BY <1>1, <1>2, LoopId, Zenon DEF Looping
<1>4. PICK yes \in BOOLEAN, bad \in BOOLEAN :
        /\ PrepareRPC(a, req[r].snap[a], yes) /\ bad = (req[r].bad \/ ~yes)
        /\ req' = [req EXCEPT ![r].todo = @ \ {a}, ![r].bad = bad]
  BY Zenon DEF Prepare
<1>5. PICK Q \in Request : Q = [R EXCEPT !.todo = @ \ {a}, !.bad = bad]
  BY Zenon DEF Request
<1>6. Moves(r, Q)
  BY <1>1, <1>4, <1>5, Zenon DEF Current, Moves, IInv, TypeOK
<1>7. /\ Q.op = R.op /\ Q.sess = R.sess /\ Q.g = R.g /\ Q.pc = R.pc
      /\ Q.snap = R.snap /\ Q.todo = R.todo \ {a} /\ Q.bad = bad
  BY <1>5
<1>8. PrepareRPC(a, i, yes) /\ (~bad => ~R.bad /\ yes)
  BY <1>1, <1>3, <1>4, Zenon DEF Current
<1>9. TabletStep(a) /\ (yes => TabletsUnchanged /\ status[a][i] = "open")
  BY <1>8, Zenon DEF TabletStep, PrepareRPC
<1>10. /\ UNCHANGED <<bookVars, doomed, clients, left>>
       /\ UNCHANGED <<created, part, gtx, state, answer, poisoned>>
  BY Zenon DEF Prepare, bookVars, sessVars, ghostVars
<1>11. Q.sess = s /\ Serves(Q, s)'
  <2>1. CarriesOK(Q, s)' /\ JoinsOK(Q, s)' /\ Q.sess = s
    BY <1>1, <1>2, <1>7, <1>10, LoopLocals, Zenon DEF TwoPhase
  <2>2. ASSUME ~bad, gtx[s] \in poisoned
        PROVE  \E b \in R.todo \ {a} : DeadIn(b, s)'
    <3>1. PICK b \in R.todo : DeadIn(b, s)
      BY <1>1, <1>2, <1>8, <2>2, Zenon DEF Current, Serves, LoopsOK
    <3>2. status' = status /\ b # a
      BY <1>3, <1>8, <1>9, <2>2, <3>1, Zenon DEF DeadIn, Dead,
         TabletsUnchanged, localVars
    <3>3. DeadIn(b, s)'
      BY <1>10, <3>1, <3>2, Zenon DEF DeadIn, Dead
    <3>. QED BY <3>2, <3>3, Zenon
  <2>3. LoopsOK(Q, s)'
    BY <1>1, <1>2, <1>7, <1>10, <2>2, Zenon DEF Current, Serves, LoopsOK,
       Looping
  <2>. QED BY <2>1, <2>3, Zenon DEF Serves
<1>. QED BY <1>1, <1>2, <1>6, <1>9, <1>10, <1>11, CurrentStep, Zenon

\* A poisoned transaction has a shard that did not vote yes.
LEMMA PreparedAllStep ==
  ASSUME IInv, NEW r \in Req, PreparedAll(r)
  PROVE  IInv'
<1>1. PICK R \in Request, s \in Sess : Current(r, R, s)
  BY UnderWay, Zenon DEF PreparedAll
<1>2. R.pc = "preparing" /\ R.todo = {} /\ R.at \in Addr
  BY <1>1, Zenon DEF Current, PreparedAll, Request
<1>3. PICK l \in PC : Goto(r, l) /\ l = IF R.bad THEN "rollbackAll" ELSE "commitAll"
  BY <1>1, Zenon DEF Current, PreparedAll, PC
<1>4. PICK Q \in Request :
        Moves(r, Q) /\ Q.pc = l /\ Q.op = R.op /\ Q.sess = s /\ Q.g = R.g
  BY <1>1, <1>3, Gotos
<1>5. /\ TabletStep(R.at) /\ UNCHANGED <<bookVars, doomed, clients, left>>
      /\ UNCHANGED <<created, part, gtx, state, answer, poisoned>>
  BY Zenon DEF PreparedAll, TabletStep, TabletsUnchanged, bookVars, sessVars,
     ghostVars
<1>6. /\ Q.op = R.op /\ Q.sess = s /\ Q.g = R.g
      /\ Q.pc = IF R.bad THEN "rollbackAll" ELSE "commitAll"
  BY <1>3, <1>4, Zenon
<1>7. Serves(Q, s)'
  <2>1. CarriesOK(Q, s)' /\ JoinsOK(Q, s)' /\ R.sess = s
    BY <1>1, <1>2, <1>5, <1>6, LoopLocals DEF Current, TwoPhase, RollsBack
  <2>2. LoopsOK(R, s)
    BY <1>1, Zenon DEF Current, Serves
  <2>3. LoopsOK(Q, s)'
    BY <1>2, <1>5, <1>6, <2>2, Zenon DEF LoopsOK, Looping
  <2>. QED BY <2>1, <2>3, Zenon DEF Serves
<1>. QED BY <1>1, <1>2, <1>4, <1>5, <1>7, CurrentStep, Zenon

\* Without an error, the shards that are done with have committed.
LEMMA CommitShardStep ==
  ASSUME IInv, NEW r \in Req, NEW a \in Addr, CommitShard(r, a)
  PROVE  IInv'
<1>1. PICK R \in Request, s \in Sess : Current(r, R, s)
  BY UnderWay, Zenon DEF CommitShard
<1>2. R.pc = "committing" /\ a \in R.todo
  BY <1>1, Zenon DEF Current, CommitShard
<1>3. PICK i \in TxId : i = R.snap[a] /\ i = req[r].snap[a] /\ i = part[s][a]
  BY <1>1, <1>2, LoopId, Zenon DEF Looping
<1>4. PICK yes \in BOOLEAN, bad \in BOOLEAN :
        /\ CommitRPC(a, req[r].snap[a], yes) /\ bad = (req[r].bad \/ ~yes)
        /\ req' = [req EXCEPT ![r].todo = @ \ {a}, ![r].bad = bad]
  BY Zenon DEF CommitShard
<1>5. PICK Q \in Request : Q = [R EXCEPT !.todo = @ \ {a}, !.bad = bad]
  BY Zenon DEF Request
<1>6. Moves(r, Q)
  BY <1>1, <1>4, <1>5, Zenon DEF Current, Moves, IInv, TypeOK
<1>7. /\ Q.op = R.op /\ Q.sess = R.sess /\ Q.g = R.g /\ Q.pc = R.pc
      /\ Q.snap = R.snap /\ Q.todo = R.todo \ {a} /\ Q.bad = bad
  BY <1>5
<1>8. CommitRPC(a, i, yes) /\ (~bad => ~R.bad /\ yes)
  BY <1>1, <1>3, <1>4, Zenon DEF Current
<1>9. TabletStep(a) /\ (yes => CommitAt(a, i))
  BY <1>8, Zenon DEF TabletStep, CommitRPC
<1>10. /\ UNCHANGED <<bookVars, doomed, clients, left>>
       /\ UNCHANGED <<created, part, gtx, state, answer, poisoned>>
  BY Zenon DEF CommitShard, bookVars, sessVars, ghostVars
<1>11. Q.sess = s /\ Serves(Q, s)'
  <2>1. CarriesOK(Q, s)' /\ JoinsOK(Q, s)' /\ Q.sess = s
    BY <1>1, <1>2, <1>7, <1>10, LoopLocals, Zenon DEF TwoPhase
  <2>2. yes => DoneIn(a, s)'
    BY <1>3, <1>9, <1>10 DEF CommitAt, Commit, DoneIn, IInv, TypeOK,
       TabletTypes, SessTypes
  <2>3. ASSUME ~bad, NEW b \in Addr \ (R.todo \ {a}), part[s][b] # 0
        PROVE  DoneIn(b, s)'
    <3>1. b # a => DoneIn(b, s)
      BY <1>1, <1>2, <1>8, <2>3, Zenon DEF Current, Serves, LoopsOK
    <3>. QED BY <1>1, <1>8, <1>9, <1>10, <2>2, <2>3, <3>1, CurrentStable, Zenon
  <2>4. LoopsOK(Q, s)'
    BY <1>1, <1>2, <1>7, <1>10, <2>3, Zenon DEF Current, Serves, LoopsOK,
       Looping
  <2>. QED BY <2>1, <2>4, Zenon DEF Serves
<1>. QED BY <1>1, <1>2, <1>6, <1>9, <1>10, <1>11, CurrentStep, Zenon

\* An error of commitAll leaves everything as it is.
LEMMA CommitAllFailedStep ==
  ASSUME IInv, NEW r \in Req, CommitAllFailed(r)
  PROVE  IInv'
<1>1. PICK R \in Request, s \in Sess : Current(r, R, s)
  BY UnderWay, Zenon DEF CommitAllFailed
<1>2. R.pc = "committing" /\ R.at \in Addr
  BY <1>1, Zenon DEF Current, CommitAllFailed, Request
<1>3. /\ TabletStep(R.at) /\ UNCHANGED <<bookVars, doomed, clients, left>>
      /\ Return(r)
  BY Zenon DEF CommitAllFailed, TabletStep, TabletsUnchanged, bookVars, sessVars,
     ghostVars
<1>. QED BY <1>1, <1>2, <1>3, ReturnStep, Zenon

\* A rollback ends a local transaction or does nothing.
LEMMA RollbackShardStep ==
  ASSUME IInv, NEW r \in Req, NEW a \in Addr, RollbackShard(r, a)
  PROVE  IInv'
<1>1. PICK R \in Request, s \in Sess : Current(r, R, s)
  BY UnderWay, Zenon DEF RollbackShard
<1>2. R.pc = "rollingBack" /\ a \in R.todo
  BY <1>1, Zenon DEF Current, RollbackShard
<1>3. PICK i \in TxId : i = R.snap[a] /\ i = req[r].snap[a] /\ i = part[s][a]
  BY <1>1, <1>2, LoopId, Zenon DEF Looping
<1>4. PICK Q \in Request : Q = [R EXCEPT !.todo = @ \ {a}]
  BY Zenon DEF Request
<1>5. Moves(r, Q)
  BY <1>1, <1>4, Zenon DEF Current, RollbackShard, Moves, IInv, TypeOK
<1>6. /\ Q.op = R.op /\ Q.sess = R.sess /\ Q.g = R.g /\ Q.pc = R.pc
      /\ Q.snap = R.snap /\ Q.todo = R.todo \ {a}
  BY <1>4
<1>7. RollbackRPC(a, i)
  BY <1>3, Zenon DEF RollbackShard
<1>8. /\ TabletStep(a) /\ UNCHANGED <<bookVars, doomed, clients, left>>
      /\ UNCHANGED <<created, part, gtx, state, answer, poisoned>>
  BY <1>7, Zenon DEF RollbackShard, RollbackRPC, TabletStep, bookVars, sessVars,
     ghostVars
<1>9. Q.sess = s /\ Serves(Q, s)'
  <2>1. CarriesOK(Q, s)' /\ JoinsOK(Q, s)' /\ Q.sess = s
    BY <1>1, <1>2, <1>6, <1>8, LoopLocals, Zenon DEF RollsBack
  <2>2. LoopsOK(R, s)
    BY <1>1, Zenon DEF Current, Serves
  <2>3. LoopsOK(Q, s)'
    BY <1>2, <1>6, <1>8, <2>2, Zenon DEF LoopsOK, Looping
  <2>. QED BY <2>1, <2>3, Zenon DEF Serves
<1>. QED BY <1>1, <1>2, <1>5, <1>8, <1>9, CurrentStep, Zenon

\* The only participant commits, or rollbackAll follows, or nothing happens.
LEMMA CommitOneStep ==
  ASSUME IInv, NEW r \in Req, NEW a \in Addr, CommitOne(r, a)
  PROVE  IInv'
<1>1. PICK R \in Request, s \in Sess : Current(r, R, s)
  BY UnderWay, Zenon DEF CommitOne
<1>2. R.pc = "committingOne" /\ a \in R.todo /\ R.op # "begin"
  BY <1>1, Zenon DEF Current, CommitOne, Serves, CarriesOK, TwoPhase
<1>3. PICK i \in TxId : i = R.snap[a] /\ i = req[r].snap[a] /\ i = part[s][a]
  BY <1>1, <1>2, LoopId, Zenon DEF Looping
<1>4. /\ UNCHANGED <<bookVars, doomed, clients, left>>
      /\ UNCHANGED <<created, part, gtx, state, answer, poisoned>>
  BY Zenon DEF CommitOne, bookVars, sessVars, ghostVars
<1>5. CASE CommitRPC(a, req[r].snap[a], TRUE) /\ req' = [req EXCEPT ![r].todo = @ \ {a}]
  <2>1. PICK Q \in Request : Q = [R EXCEPT !.todo = @ \ {a}]
    BY Zenon DEF Request
  <2>2. Moves(r, Q)
    BY <1>1, <1>5, <2>1, Zenon DEF Current, Moves, IInv, TypeOK
  <2>3. /\ Q.op = R.op /\ Q.sess = R.sess /\ Q.g = R.g /\ Q.pc = R.pc
        /\ Q.snap = R.snap /\ Q.todo = R.todo \ {a} /\ Q.bad = R.bad
    BY <2>1
  <2>4. CommitAt(a, i) /\ TabletStep(a)
    BY <1>3, <1>5, Zenon DEF CommitRPC, TabletStep
  <2>5. DoneIn(a, s)'
    BY <1>3, <1>4, <2>4 DEF CommitAt, Commit, DoneIn, IInv, TypeOK,
       TabletTypes, SessTypes
  <2>6. CarriesOK(Q, s)' /\ JoinsOK(Q, s)' /\ Q.sess = s
    BY <1>1, <1>2, <1>4, <2>3, LoopLocals, Zenon DEF TwoPhase
  <2>7. \A b \in Addr : part[s][b] # 0 =>
          (DoneIn(b, s) => DoneIn(b, s)') /\ (DeadIn(b, s) => DeadIn(b, s)')
    BY <1>1, <1>4, <2>4, CurrentStable, Zenon
  <2>8. LoopsOK(Q, s)'
    BY <1>1, <1>2, <1>4, <2>3, <2>5, <2>7, Zenon DEF Current, Serves, LoopsOK,
       Looping
  <2>9. Serves(Q, s)'
    BY <2>6, <2>8, Zenon DEF Serves
  <2>. QED BY <1>1, <1>2, <1>4, <2>2, <2>4, <2>6, <2>9, CurrentStep, Zenon
<1>6. CASE CommitRPC(a, req[r].snap[a], FALSE) /\ Goto(r, "rollbackAll")
  <2>1. TabletStep(a)
    BY <1>3, <1>6, Zenon DEF CommitRPC, TabletStep
  <2>. QED BY <1>1, <1>2, <1>4, <1>6, <2>1, GoesBackStep, Zenon
<1>7. CASE TabletsUnchanged /\ Return(r)
  <2>1. TabletStep(a)
    BY <1>7, Zenon DEF TabletStep
  <2>. QED BY <1>1, <1>2, <1>4, <1>7, <2>1, ReturnStep, Zenon
<1>. QED BY <1>5, <1>6, <1>7, Zenon DEF CommitOne

\* SetState at the end of COMMIT and ROLLBACK, and what it leaves alone.
Leaves(s, e) ==
  /\ state' \in [Sess -> {"idle", "in", "committed", "rolledback"}]
  /\ state'[s] = e /\ \A t \in Sess \ {s} : state'[t] = state[t]

leftVars == <<localVars, sessions, created, part, doomed, clients, left, fateVars, ghostVars>>

\* SetState at the end of COMMIT and ROLLBACK.
LEMMA LeavesStep ==
  ASSUME IInv, NEW r \in Req, NEW R \in Request, NEW s \in Sess, Current(r, R, s),
         Goto(r, "clear"), NEW e \in {"committed", "rolledback"},
         Leaves(s, e), UNCHANGED leftVars,
         R.op = IF e = "committed" THEN "commit" ELSE "rollback",
         e = "committed" => \A b \in Addr : part[s][b] # 0 => DoneIn(b, s)
  PROVE  IInv'
<1>1. UNCHANGED <<nextID, status, sessions, created, part, doomed, clients, left,
                  work, durable, lost, gtx, gtxs, acked, poisoned, answer>>
  BY Zenon DEF leftVars, localVars, fateVars, ghostVars
<1>2. PICK Q \in Request :
        Moves(r, Q) /\ Q.pc = "clear" /\ Q.op = R.op /\ Q.sess = s /\ Q.g = R.g
  BY Gotos DEF PC
<1>3. /\ state' \in [Sess -> {"idle", "in", "committed", "rolledback"}]
      /\ state'[s] = e /\ \A t \in Sess \ {s} : state'[t] = state[t]
  BY Zenon DEF Leaves
<1>4. TypeOK'
  BY <1>1, <1>2, <1>3, Zenon DEF IInv, TypeOK, Moves, TabletTypes, BookTypes,
     SessTypes, FateTypes
<1>5. DataOK' /\ Stable
  <2>1. s <= created /\ created \in Nat
    BY DEF Current, Serves, CarriesOK, IInv, TypeOK, BookTypes
  <2>2. \A t \in Sess : state'[t] = state[t] \/ (t <= created /\ state'[t] # "in")
    <3>1. e # "in"
      BY Zenon
    <3>2. ASSUME NEW t \in Sess, t # s
          PROVE  state'[t] = state[t]
      BY <1>3, <3>2, Zenon
    <3>. QED BY <1>3, <2>1, <3>1, <3>2, Zenon
  <2>. QED BY <1>1, <2>2, LeavesData, Zenon DEF IInv, localVars, fateVars
<1>6. Serves(Q, s)'
  <2>1. \A b \in Addr : DoneIn(b, s) => DoneIn(b, s)'
    BY <1>1, Zenon DEF DoneIn
  <2>2. CarriesOK(R, s)
    BY Zenon DEF Current, Serves
  <2>3. CarriesOK(Q, s)'
    BY <1>1, <1>2, <1>3, <2>2, Zenon DEF CarriesOK, Joining, TwoPhase,
       RollsBack
  <2>4. JoinsOK(Q, s)' /\ LoopsOK(Q, s)'
    BY <1>1, <1>2, <2>1, Zenon DEF JoinsOK, Joining, LoopsOK, Looping
  <2>. QED BY <2>3, <2>4, Zenon DEF Serves
<1>7. Only(r, s) /\ ReqOK(r)' /\ req'[r].pc = "clear" /\ req'[r].sess = s
  BY <1>2, <1>6, Zenon DEF Current, Moves, Only, ReqOK
<1>8. OnlyTouches(s)
  BY <1>1, <1>3 DEF OnlyTouches, IInv, TypeOK, BookTypes
<1>9. RequestsOK'
  BY <1>5, <1>7, <1>8, OthersOK, Zenon
<1>. QED BY <1>4, <1>5, <1>9, Zenon DEF IInv

\* COMMIT leaves the transaction when every shard has committed.
LEMMA CommittedStep ==
  ASSUME IInv, NEW r \in Req, Committed(r)
  PROVE  IInv'
<1>1. PICK R \in Request, s \in Sess : Current(r, R, s)
  BY UnderWay, Zenon DEF Committed
<1>2. R.pc \in {"committing", "committingOne"} /\ R.todo = {} /\ ~R.bad
  BY <1>1, Zenon DEF Current, Committed
<1>3. R.op = "commit" /\ \A b \in Addr : part[s][b] # 0 => DoneIn(b, s)
  BY <1>1, <1>2, Zenon DEF Current, Serves, CarriesOK, TwoPhase, LoopsOK
<1>4. Goto(r, "clear") /\ Leaves(s, "committed") /\ UNCHANGED leftVars
  BY <1>1, Zenon DEF Current, Committed, Leaves, leftVars, IInv, TypeOK,
     SessTypes
<1>. QED BY <1>1, <1>3, <1>4, LeavesStep, Zenon

\* The end of rollbackAll, by ROLLBACK or after an error.
LEMMA RolledBackAllStep ==
  ASSUME IInv, NEW r \in Req, RolledBackAll(r)
  PROVE  IInv'
<1>1. PICK R \in Request, s \in Sess : Current(r, R, s)
  BY UnderWay, Zenon DEF RolledBackAll
<1>2. R.pc = "rollingBack" /\ R.at \in Addr
  BY <1>1, Zenon DEF Current, RolledBackAll, Request
<1>3. CASE Return(r) /\ UNCHANGED state
  <2>1. TabletStep(R.at) /\ UNCHANGED <<bookVars, doomed, clients, left>>
    BY <1>3, Zenon DEF TabletStep, RolledBackAll, TabletsUnchanged, bookVars,
       ghostVars
  <2>. QED BY <1>1, <1>2, <1>3, <2>1, ReturnStep, Zenon
<1>4. CASE /\ req[r].op = "rollback" /\ Goto(r, "clear")
           /\ state' = [state EXCEPT ![req[r].sess] = "rolledback"]
  <2>1. /\ R.op = "rollback" /\ Goto(r, "clear")
        /\ Leaves(s, "rolledback") /\ UNCHANGED leftVars
    BY <1>1, <1>4, Zenon DEF Current, RolledBackAll, Leaves, leftVars, IInv,
       TypeOK, SessTypes
  <2>. QED BY <1>1, <2>1, LeavesStep, Zenon
<1>. QED BY <1>3, <1>4, Zenon DEF RolledBackAll

-----------------------------------------------------------------------------
(* BEGIN                                                                   *)

\* BEGIN gives a session without participants a new transaction.
LEMMA BeginData ==
  ASSUME IInv, NEW s \in Sess, part[s] = NoParticipants, gtxs < MaxGtx,
         gtxs' = gtxs + 1, gtx' = [gtx EXCEPT ![s] = gtxs + 1],
         state' = [state EXCEPT ![s] = "in"],
         created' \in 0..MaxSess, created' >= created, s <= created',
         \A t \in Sess \ {s} : t > created => t > created',
         \A t \in Sess \ {s} : t <= created' => t <= created,
         sessions' \subseteq Sess, \A t \in sessions' : t \in sessions \/ t = s,
         UNCHANGED <<localVars, fateVars, part, acked, poisoned, answer>>
  PROVE  /\ DataOK' /\ Stable /\ TabletTypes'
         /\ gtx' \in [Sess -> {0} \cup Gtx] /\ gtxs' \in 0..MaxGtx
         /\ gtx'[s] = gtxs + 1 /\ gtxs + 1 \in Gtx /\ answer[gtxs + 1] = "none"
         /\ \A t \in Sess \ {s} : gtx'[t] = gtx[t] /\ state'[t] = state[t]
<1>. USE DEF localVars, fateVars
<1>0. \A j \in TxId : j \in Nat /\ j # 0
  BY MaxTxAssumption DEF TxId
<1>1. TypeOK /\ DataOK /\ gtxs \in Nat /\ gtxs \in 0..MaxGtx /\ created \in Nat
  BY DEF IInv, TypeOK, BookTypes, SessTypes
<1>2. /\ gtxs + 1 \in Gtx /\ gtxs + 1 \in 0..MaxGtx /\ gtxs + 1 # 0
  BY <1>1, CoordinatorAssumption DEF Gtx
<1>3. /\ gtx' \in [Sess -> {0} \cup Gtx] /\ gtx'[s] = gtxs + 1
      /\ \A t \in Sess \ {s} : gtx'[t] = gtx[t] /\ state'[t] = state[t]
  BY <1>1, <1>2, Zenon DEF TypeOK, SessTypes
<1>4. /\ answer[gtxs + 1] = "none" /\ gtxs + 1 \notin poisoned
      /\ \A b \in Addr : <<gtxs + 1, b>> \notin acked \cup lost
      /\ \A b \in Addr, j \in TxId : gtxs + 1 \notin work[b][j]
  BY <1>1, <1>2 DEF DataOK, FreshOK
<1>5. \A t \in Sess \ {s} : gtx[t] # gtxs + 1 /\ gtx[t] <= gtxs
  <2>. SUFFICES ASSUME NEW t \in Sess \ {s} PROVE gtx[t] # gtxs + 1 /\ gtx[t] <= gtxs
    BY Zenon
  <2>1. t \in Nat /\ created \in Nat
    BY <1>1 DEF Sess
  <2>2. gtx[t] = 0 \/ gtx[t] \in 1..gtxs
    BY <1>1, <2>1 DEF DataOK, SessionsOK
  <2>. QED BY <1>1, <2>2
<1>6. SessionsOK'
  <2>. SUFFICES ASSUME NEW t \in Sess
       PROVE  /\ t \in sessions' => t <= created'
              /\ t > created' => gtx'[t] = 0 /\ state'[t] = "idle" /\ part[t] = NoParticipants
              /\ t <= created' => gtx'[t] \in 1..(gtxs + 1)
              /\ state'[t] = "in" => answer[gtx'[t]] = "none"
              /\ \A u \in Sess : gtx'[t] = gtx'[u] /\ gtx'[t] # 0 => t = u
    BY Zenon DEF SessionsOK
  <2>0. t \in Nat /\ created' \in Nat /\ s \in Nat
    BY DEF Sess
  <2>1. CASE t = s
    BY <2>0, <2>1, <1>1, <1>2, <1>3, <1>4, <1>5
  <2>2. CASE t # s
    <3>1. gtx'[t] = gtx[t] /\ state'[t] = state[t]
      BY <2>2, <1>3, Zenon
    <3>2. /\ t \in sessions => t <= created
          /\ t > created => gtx[t] = 0 /\ state[t] = "idle" /\ part[t] = NoParticipants
          /\ t <= created => gtx[t] \in 1..gtxs
          /\ state[t] = "in" => answer[gtx[t]] = "none"
          /\ \A u \in Sess : gtx[t] = gtx[u] /\ gtx[t] # 0 => t = u
      BY <1>1, Zenon DEF DataOK, SessionsOK
    <3>3. t > created' => t > created
      BY <2>0, <1>1
    <3>4. t \in sessions' => t <= created'
      BY <2>0, <2>2, <3>2, <1>1
    <3>5. \A u \in Sess : gtx'[t] = gtx'[u] /\ gtx'[t] # 0 => t = u
      BY <3>1, <3>2, <2>2, <1>3, <1>5, Zenon
    <3>6. t <= created' => gtx'[t] \in 1..(gtxs + 1)
      BY <2>2, <3>1, <3>2, <1>1
    <3>. QED BY <3>1, <3>2, <3>3, <3>4, <3>5, <3>6, Zenon
  <2>. QED BY <2>1, <2>2, Zenon
<1>7. FreshOK'
  <2>1. \A h \in Gtx : h > gtxs + 1 => h > gtxs
    BY <1>1 DEF Gtx
  <2>. QED BY <2>1, <1>1, Zenon DEF DataOK, FreshOK
<1>8. IdsOK'
  BY <1>1, Zenon DEF DataOK, IdsOK
<1>9. WorkOK'
  <2>1. \A b \in Addr, j \in TxId : part[s][b] # j
    BY <1>0, Zenon DEF NoParticipants
  <2>. QED BY <2>1, <1>1, <1>3 DEF DataOK, WorkOK
<1>10. FateOK'
  <2>1. ASSUME NEW b \in Addr, NEW t \in Sess, gtx'[t] = gtx[t]
        PROVE  (DeadIn(b, t) => DeadIn(b, t)') /\ (KeptBy(b, t) => KeptBy(b, t)')
    BY <2>1 DEF DeadIn, Dead, KeptBy, KeptIn
  <2>2. ASSUME NEW t \in Sess, t # s, gtx'[t] # 0, answer'[gtx'[t]] = "none"
        PROVE  /\ \A b \in Addr :
                    /\ \A j \in TxId : gtx'[t] \in work'[b][j] => part'[t][b] = j
                    /\ <<gtx'[t], b>> \in acked' => part'[t][b] # 0 /\ KeptBy(b, t)'
                    /\ <<gtx'[t], b>> \in lost' =>
                         part'[t][b] # 0 /\ status'[b][part'[t][b]] = "rolledback"
               /\ gtx'[t] \in poisoned' => \E b \in Addr : part'[t][b] # 0 /\ DeadIn(b, t)'
    <3>1. gtx'[t] = gtx[t]
      BY <1>3, <2>2, Zenon
    <3>2. /\ \A b \in Addr :
               /\ \A j \in TxId : gtx[t] \in work[b][j] => part[t][b] = j
               /\ <<gtx[t], b>> \in acked => part[t][b] # 0 /\ KeptBy(b, t)
               /\ <<gtx[t], b>> \in lost =>
                    part[t][b] # 0 /\ status[b][part[t][b]] = "rolledback"
          /\ gtx[t] \in poisoned => \E b \in Addr : part[t][b] # 0 /\ DeadIn(b, t)
      BY <1>1, <2>2, <3>1, Zenon DEF DataOK, FateOK
    <3>3. \A b \in Addr : (DeadIn(b, t) => DeadIn(b, t)') /\ (KeptBy(b, t) => KeptBy(b, t)')
      BY <2>1, <3>1, Zenon
    <3>4. UNCHANGED <<work, status, lost, acked, poisoned, part>>
      BY Zenon
    <3>. QED BY <3>1, <3>2, <3>3, <3>4, Zenon
  <2>. QED BY <1>3, <1>4, <2>2, Zenon DEF FateOK
<1>11. CommitPersists' /\ Stable /\ TabletTypes'
  BY <1>1, Zenon DEF DataOK, CommitPersists, AckedOf, DurableOf, LostOf, Stable,
     KeptIn, Dead, TabletTypes, TypeOK
<1>. QED BY <1>2, <1>3, <1>4, <1>6, <1>7, <1>8, <1>9, <1>10, <1>11, Zenon
     DEF DataOK

\* BEGIN in a new session.
LEMMA BeginNewStep ==
  ASSUME IInv, NEW r \in Req, BeginNew(r)
  PROVE  IInv'
<1>1. PICK s \in Sess : s = created + 1 /\ s \in Nat /\ created \in Nat /\ s \in 0..MaxSess
  BY CoordinatorAssumption DEF BeginNew, IInv, TypeOK, Sess, BookTypes
<1>2. part[s] = NoParticipants
  BY <1>1 DEF IInv, DataOK, SessionsOK
<1>3. /\ created' = s /\ sessions' = sessions \cup {s} /\ gtxs < MaxGtx
      /\ gtxs' = gtxs + 1 /\ gtx' = [gtx EXCEPT ![s] = gtxs + 1]
      /\ state' = [state EXCEPT ![s] = "in"]
      /\ UNCHANGED <<localVars, fateVars, part, acked, poisoned, answer>>
      /\ UNCHANGED <<doomed, clients, left, req>> /\ req[r].pc = "idle"
  BY <1>1, Zenon DEF BeginNew, Idle
<1>4. /\ \A t \in Sess \ {s} : t > created => t > created'
      /\ \A t \in Sess \ {s} : t <= created' => t <= created
      /\ created' \in 0..MaxSess /\ created' >= created /\ s <= created'
      /\ sessions' \subseteq Sess /\ \A t \in sessions' : t \in sessions \/ t = s
  BY <1>1, <1>3 DEF Sess, IInv, TypeOK, BookTypes
<1>5. /\ DataOK' /\ Stable /\ TabletTypes'
      /\ gtx' \in [Sess -> {0} \cup Gtx] /\ gtxs' \in 0..MaxGtx
      /\ \A t \in Sess \ {s} : gtx'[t] = gtx[t] /\ state'[t] = state[t]
  BY <1>2, <1>3, <1>4, BeginData, Zenon
<1>6. state' \in [Sess -> {"idle", "in", "committed", "rolledback"}] /\ state'[s] = "in"
  BY <1>3, Zenon DEF IInv, TypeOK, SessTypes
<1>7. TypeOK'
  BY <1>3, <1>4, <1>5, <1>6, Zenon DEF IInv, TypeOK, BookTypes, SessTypes,
     FateTypes
<1>8. \A q \in Req : req[q].pc # "idle" => req[q].sess # s
  <2>1. ASSUME NEW q \in Req, req[q].pc # "idle" PROVE req[q].sess # s
    <3>1. PICK R \in Request, t \in Sess : Current(q, R, t)
      BY <2>1, UnderWay, Zenon
    <3>2. req[q].sess = t /\ t <= created
      BY <3>1, Zenon DEF Current, Serves, CarriesOK
    <3>. QED BY <1>1, <3>2
  <2>. QED BY <2>1, Zenon
<1>9. Only(r, s) /\ ReqOK(r)'
  BY <1>3, <1>8, Zenon DEF Only, ReqOK, IInv, TypeOK
<1>10. OnlyTouches(s)
  BY <1>1, <1>3, <1>5 DEF OnlyTouches
<1>11. RequestsOK'
  BY <1>5, <1>6, <1>9, <1>10, OthersOK, Zenon
<1>. QED BY <1>5, <1>7, <1>11, Zenon DEF IInv

\* Clients that wait for the answer: no request of the session is under way.
LEMMA QuietNone ==
  ASSUME Overlap = "none", NEW s, NEW o, Quiet(s, o)
  PROVE  \A q \in Req : req[q].pc # "idle" => req[q].sess # s
BY Zenon DEF Quiet

\* BEGIN in a finished session, which has no participants any more.
LEMMA BeginAgainStep ==
  ASSUME IInv, Overlap = "none", NEW r \in Req, NEW s \in Sess, BeginAgain(r, s)
  PROVE  IInv'
<1>1. \A q \in Req : req[q].pc # "idle" => req[q].sess # s
  BY QuietNone, Zenon DEF BeginAgain
<1>2. /\ gtxs < MaxGtx /\ s \in sessions /\ state[s] # "in" /\ req[r].pc = "idle"
      /\ gtxs' = gtxs + 1 /\ gtx' = [gtx EXCEPT ![s] = gtxs + 1]
      /\ state' = [state EXCEPT ![s] = "in"]
      /\ UNCHANGED <<localVars, fateVars, part, acked, poisoned, answer>>
      /\ UNCHANGED <<sessions, created, doomed, clients, left>>
  BY Zenon DEF BeginAgain, Idle
<1>3. part[s] = NoParticipants /\ s <= created /\ created \in Nat /\ created \in 0..MaxSess
  BY <1>1, <1>2 DEF IInv, RequestsOK, DataOK, SessionsOK, TypeOK, TabletTypes,
     BookTypes, SessTypes, FateTypes
<1>4. /\ \A t \in Sess \ {s} : t > created => t > created'
      /\ \A t \in Sess \ {s} : t <= created' => t <= created
      /\ created' \in 0..MaxSess /\ created' >= created /\ s <= created'
      /\ sessions' \subseteq Sess /\ \A t \in sessions' : t \in sessions \/ t = s
  BY <1>2, <1>3 DEF IInv, TypeOK, BookTypes
<1>5. /\ DataOK' /\ Stable /\ TabletTypes'
      /\ gtx' \in [Sess -> {0} \cup Gtx] /\ gtxs' \in 0..MaxGtx
      /\ gtx'[s] = gtxs + 1 /\ gtxs + 1 \in Gtx /\ answer[gtxs + 1] = "none"
      /\ \A t \in Sess \ {s} : gtx'[t] = gtx[t] /\ state'[t] = state[t]
  BY <1>2, <1>3, <1>4, BeginData, Zenon
<1>6. state' \in [Sess -> {"idle", "in", "committed", "rolledback"}] /\ state'[s] = "in"
  BY <1>2, Zenon DEF IInv, TypeOK, SessTypes
<1>7. PICK Q \in Request : Q = [NoRequest EXCEPT !.pc = "clear", !.sess = s]
  BY NoRequestTyped, Zenon DEF Request, PC
<1>8. Q.pc = "clear" /\ Q.sess = s /\ Q.op = "begin"
  BY <1>7, Zenon DEF NoRequest
<1>9. Moves(r, Q)
  BY <1>7, Zenon DEF BeginAgain, Moves, IInv, TypeOK
<1>10. TypeOK'
  BY <1>2, <1>5, <1>6, <1>9, Zenon DEF IInv, TypeOK, Moves, BookTypes,
     SessTypes, FateTypes
<1>11. Serves(Q, s)'
  BY <1>2, <1>3, <1>5, <1>8, Zenon DEF Serves, CarriesOK, JoinsOK, LoopsOK,
     Joining, TwoPhase, RollsBack, Looping
<1>12. Only(r, s) /\ ReqOK(r)'
  BY <1>1, <1>2, <1>8, <1>9, <1>11, Zenon DEF Only, ReqOK, Moves
<1>13. OnlyTouches(s)
  <2>1. created <= created' /\ created' \in Nat
    BY <1>2, <1>3
  <2>. QED BY <1>2, <1>5, <2>1, Zenon DEF OnlyTouches
<1>14. RequestsOK'
  BY <1>5, <1>6, <1>12, <1>13, OthersOK, Zenon
<1>. QED BY <1>5, <1>10, <1>14, Zenon DEF IInv

-----------------------------------------------------------------------------
(* Statements                                                              *)

\* The outcomes of a statement in local transaction i: executed, not
\* executed, failed by PostgreSQL.
StatementAt(a, i, g) ==
  \/ ExecAt(a, i, g) /\ UNCHANGED poisoned
  \/ TabletsUnchanged /\ UNCHANGED poisoned
  \/ FailAt(a, i) /\ poisoned' = poisoned \cup {g}

\* What it does to local transactions and to what is known of g.
Runs(a, i, g) ==
  /\ UNCHANGED <<nextID, durable, lost>>
  /\ \A b \in Addr, j \in TxId :
       /\ status[b][j] \in Unfinished <=> status'[b][j] \in Unfinished
       /\ status[b][j] \notin Unfinished => status'[b][j] = status[b][j]
       /\ status[b][j] = "failed" => status'[b][j] = "failed"
       /\ \/ work'[b][j] = work[b][j]
          \/ /\ b = a /\ j = i /\ work'[b][j] = work[b][j] \cup {g}
             /\ status'[b][j] \in Unfinished
  /\ poisoned' = poisoned \/ (poisoned' = poisoned \cup {g} /\ Dead(a, i)')

\* The three outcomes of a statement are of that form.
LEMMA StatementRuns ==
  ASSUME TabletTypes, NEW a \in Addr, NEW i \in TxId, NEW g \in Gtx, StatementAt(a, i, g)
  PROVE  TabletTypes' /\ Runs(a, i, g)
<1>1. CASE ExecAt(a, i, g) /\ UNCHANGED poisoned
  <2>0. i # 0
    BY MaxTxAssumption DEF TxId
  <2>1. /\ status[a][i] = "open" /\ work' = [work EXCEPT ![a][i] = @ \cup {g}]
        /\ UNCHANGED <<nextID, status, durable, lost>>
    BY <1>1, <2>0, Zenon DEF ExecAt, localVars
  <2>2. \A b \in Addr, j \in TxId : work'[b][j] =
          IF b = a /\ j = i THEN work[b][j] \cup {g} ELSE work[b][j]
    BY <2>1, Zenon DEF TabletTypes
  <2>3. TabletTypes'
    BY <2>1, Zenon DEF TabletTypes
  <2>. QED BY <1>1, <2>1, <2>2, <2>3 DEF Runs, Unfinished
<1>2. CASE TabletsUnchanged /\ UNCHANGED poisoned
  BY <1>2, Zenon DEF TabletsUnchanged, localVars, fateVars, TabletTypes, Runs
<1>3. CASE FailAt(a, i) /\ poisoned' = poisoned \cup {g}
  <2>1. /\ status[a][i] = "open" /\ status' = [status EXCEPT ![a][i] = "failed"]
        /\ UNCHANGED <<nextID, work, durable, lost>>
    BY <1>3, Zenon DEF FailAt, Fail, fateVars
  <2>2. \A b \in Addr, j \in TxId : status'[b][j] =
          IF b = a /\ j = i THEN "failed" ELSE status[b][j]
    BY <2>1, Zenon DEF TabletTypes
  <2>3. TabletTypes'
    BY <2>1, Zenon DEF TabletTypes, Status, Unfinished
  <2>. QED BY <1>3, <2>1, <2>2, <2>3 DEF Runs, Unfinished, Dead
<1>. QED BY <1>1, <1>2, <1>3, Zenon DEF StatementAt

\* What was certain of a local transaction stays so.
LEMMA RunsStable ==
  ASSUME NEW a \in Addr, NEW i \in TxId, NEW g \in Gtx, Runs(a, i, g)
  PROVE  Stable
<1>1. "committed" \notin Unfinished /\ "rolledback" \notin Unfinished
  BY Zenon DEF Unfinished
<1>2. \A b \in Addr, j \in TxId :
        /\ status[b][j] = "committed" <=> status'[b][j] = "committed"
        /\ Dead(b, j) => Dead(b, j)'
  BY <1>1 DEF Dead, Runs
<1>. QED BY <1>2 DEF Stable, KeptIn, Runs

\* What it does to one local transaction.
LEMMA RunsAt ==
  ASSUME NEW a \in Addr, NEW i \in TxId, NEW g \in Gtx, Runs(a, i, g),
         NEW b \in Addr, NEW j \in TxId
  PROVE  /\ status[b][j] \in Unfinished <=> status'[b][j] \in Unfinished
         /\ status[b][j] \notin Unfinished => status'[b][j] = status[b][j]
         /\ \/ work'[b][j] = work[b][j]
            \/ /\ b = a /\ j = i /\ work'[b][j] = work[b][j] \cup {g}
               /\ status'[b][j] \in Unfinished
BY Zenon DEF Runs

\* A statement undoes no rollback, and the work it adds is its own.
OwnWork(a, i, g) ==
  \A b \in Addr, j \in TxId :
    /\ status[b][j] = "rolledback" => status'[b][j] = "rolledback"
    /\ \A h \in work'[b][j] : h \in work[b][j] \/ (b = a /\ j = i /\ h = g)

\* So does every step that runs one.
LEMMA RunsKeeps ==
  ASSUME NEW a \in Addr, NEW i \in TxId, NEW g \in Gtx, Runs(a, i, g)
  PROVE  OwnWork(a, i, g)
<1>1. "rolledback" \notin Unfinished
  BY Zenon DEF Unfinished
<1>. QED BY <1>1, RunsAt DEF OwnWork

\* Later transactions are other ones.
LEMMA LaterTx ==
  ASSUME NEW n \in Nat, NEW g \in Nat, g <= n
  PROVE  \A h \in Gtx : h > n => h # g
BY CoordinatorAssumption DEF Gtx

\* Transactions to come have no work, and ids to come no transaction.
LEMMA RunsFresh ==
  ASSUME FreshOK, NEW a \in Addr, NEW i \in TxId, NEW g \in Gtx, Runs(a, i, g),
         \A h \in Gtx : h > gtxs => h # g
  PROVE  /\ \A h \in Gtx : h > gtxs => \A b \in Addr, j \in TxId : h \notin work'[b][j]
         /\ \A b \in Addr, j \in TxId : j > nextID[b] => status'[b][j] = "absent"
<1>1. ASSUME NEW h \in Gtx, h > gtxs, NEW b \in Addr, NEW j \in TxId
      PROVE  h \notin work'[b][j]
  <2>1. h \notin work[b][j] /\ h # g
    BY <1>1, Zenon DEF FreshOK
  <2>2. work'[b][j] = work[b][j] \/ work'[b][j] = work[b][j] \cup {g}
    BY RunsAt
  <2>. QED BY <2>1, <2>2, Zenon
<1>2. ASSUME NEW b \in Addr, NEW j \in TxId, j > nextID[b]
      PROVE  status'[b][j] = "absent"
  <2>1. status[b][j] = "absent"
    BY <1>2, Zenon DEF FreshOK
  <2>2. "absent" \notin Unfinished
    BY Zenon DEF Unfinished
  <2>. QED BY <2>1, <2>2, RunsAt
<1>. QED BY <1>1, <1>2, Zenon

\* Local transaction i has work of g alone, the others what they had.
LEMMA RunsWork ==
  ASSUME WorkOK, NEW s \in Sess, NEW a \in Addr, NEW i \in TxId, NEW g \in Gtx,
         part[s][a] = i, gtx[s] = g, answer[g] = "none", Runs(a, i, g),
         \A t \in Sess : part[t][a] = i => t = s,
         part' = part, gtx' = gtx, answer' = answer
  PROVE  WorkOK'
<1>. SUFFICES ASSUME NEW b \in Addr, NEW j \in TxId, NEW h \in work'[b][j]
     PROVE  /\ status'[b][j] \in Unfinished
            /\ answer'[h] # "committed"
            /\ \A k \in work'[b][j] : k = h
            /\ \A t \in Sess : part'[t][b] = j => gtx'[t] = h
  BY Zenon DEF WorkOK
<1>1. CASE work'[b][j] = work[b][j]
  <2>1. /\ status[b][j] \in Unfinished /\ answer[h] # "committed"
        /\ \A k \in work[b][j] : k = h
        /\ \A t \in Sess : part[t][b] = j => gtx[t] = h
    BY <1>1, ZenonT(30) DEF WorkOK
  <2>2. status'[b][j] \in Unfinished
    BY <2>1, RunsAt, Zenon
  <2>. QED BY <1>1, <2>1, <2>2, Zenon
<1>2. CASE /\ b = a /\ j = i /\ work'[b][j] = work[b][j] \cup {g}
           /\ status'[b][j] \in Unfinished
  <2>1. \A k \in work[a][i] : k = g
    BY DEF WorkOK
  <2>2. \A k \in work'[b][j] : k = g
    BY <1>2, <2>1, Zenon
  <2>3. h = g /\ answer[h] # "committed"
    BY <2>2, Zenon
  <2>4. \A t \in Sess : part[t][b] = j => gtx[t] = g
    BY <1>2, Zenon
  <2>. QED BY <1>2, <2>2, <2>3, <2>4, Zenon
<1>. QED BY <1>1, <1>2, RunsAt

\* The transaction of a session is its own.
LEMMA OwnTx ==
  ASSUME IInv, NEW s \in Sess, NEW g \in Gtx, gtx[s] = g
  PROVE  /\ g \in Nat /\ g # 0 /\ g <= gtxs /\ gtxs \in Nat
         /\ \A t \in Sess : gtx[t] = g => t = s
<1>1. s \in Nat /\ created \in Nat /\ gtxs \in Nat /\ g \in Nat /\ g # 0
  BY CoordinatorAssumption DEF IInv, TypeOK, Sess, Gtx, BookTypes, SessTypes
<1>2. g \in 1..gtxs
  BY <1>1 DEF IInv, DataOK, SessionsOK
<1>3. \A t \in Sess : gtx[t] = g => t = s
  BY <1>1, Zenon DEF IInv, DataOK, SessionsOK
<1>. QED BY <1>1, <1>2, <1>3

\* A step that leaves the sessions' books and the answers alone keeps what
\* the participants say when they say it of those books.
LEMMA FateHolds ==
  ASSUME part' = part, gtx' = gtx, answer' = answer,
         \A t \in Sess : gtx[t] # 0 /\ answer[gtx[t]] = "none" =>
           /\ \A b \in Addr :
                /\ \A j \in TxId : gtx[t] \in work'[b][j] => part[t][b] = j
                /\ <<gtx[t], b>> \in acked' => part[t][b] # 0 /\ KeptBy(b, t)'
                /\ <<gtx[t], b>> \in lost' =>
                     part[t][b] # 0 /\ status'[b][part[t][b]] = "rolledback"
           /\ gtx[t] \in poisoned' => \E b \in Addr : part[t][b] # 0 /\ DeadIn(b, t)'
  PROVE  FateOK'
BY DEF FateOK

\* A statement changes what is known of its own transaction alone.
LEMMA StatementData ==
  ASSUME IInv, NEW s \in Sess, NEW a \in Addr, NEW i \in TxId, NEW g \in Gtx,
         part[s][a] = i, gtx[s] = g, answer[g] = "none", StatementAt(a, i, g),
         NEW A \in SUBSET Addr, acked' = acked \cup ({g} \X A),
         \A b \in A : part[s][b] # 0 /\ KeptBy(b, s)',
         UNCHANGED <<sessions, created, state, part, gtx, gtxs, answer>>
  PROVE  /\ DataOK' /\ Stable /\ TabletTypes'
         /\ acked' \in SUBSET (Gtx \X Addr)
         /\ poisoned' \in SUBSET Gtx /\ poisoned' \subseteq poisoned \cup {g}
<1>0. \A j \in TxId : j \in Nat /\ j # 0
  BY MaxTxAssumption DEF TxId
<1>1. TypeOK /\ DataOK
  BY Zenon DEF IInv
<1>2. TabletTypes' /\ Runs(a, i, g) /\ Stable
  BY <1>1, StatementRuns, RunsStable, Zenon DEF TypeOK
<1>3. UNCHANGED <<nextID, durable, lost>> /\ poisoned' \subseteq poisoned \cup {g}
  BY <1>2, Zenon DEF Runs
<1>4. acked' \in SUBSET (Gtx \X Addr) /\ poisoned' \in SUBSET Gtx
  BY <1>1, <1>3, Zenon DEF TypeOK, FateTypes
<1>5. /\ g \in Nat /\ g # 0 /\ g <= gtxs /\ gtxs \in Nat
      /\ \A t \in Sess : gtx[t] = g => t = s
  BY OwnTx, Zenon
<1>6. SessionsOK' /\ IdsOK'
  BY <1>1, <1>3, ZenonT(30) DEF DataOK, SessionsOK, IdsOK
<1>7. FreshOK'
  <2>1. \A h \in Gtx : h > gtxs => h # g
    BY <1>5, LaterTx, Zenon
  <2>2. \A h \in Gtx : h > gtxs =>
          /\ answer[h] = "none" /\ h \notin poisoned'
          /\ \A b \in Addr : <<h, b>> \notin acked' \cup lost
    BY <1>1, <1>3, <2>1, Zenon DEF DataOK, FreshOK
  <2>3. /\ \A h \in Gtx : h > gtxs => \A b \in Addr, j \in TxId : h \notin work'[b][j]
        /\ \A b \in Addr, j \in TxId : j > nextID[b] => status'[b][j] = "absent"
    BY <1>1, <1>2, <2>1, RunsFresh, Zenon DEF DataOK
  <2>. QED BY <1>3, <2>2, <2>3, Zenon DEF FreshOK
<1>8. WorkOK'
  <2>1. \A t \in Sess : part[t][a] = i => t = s
    BY <1>0, <1>1, Zenon DEF DataOK, IdsOK
  <2>2. WorkOK /\ part' = part /\ gtx' = gtx /\ answer' = answer
    BY <1>1, Zenon DEF DataOK
  <2>. QED BY <1>2, <2>1, <2>2, RunsWork
<1>9. FateOK'
  <2>0. OwnWork(a, i, g)
    BY <1>2, RunsKeeps, Zenon
  <2>1. ASSUME NEW t \in Sess, NEW b \in Addr, part[t][b] # 0, gtx[t] # 0
        PROVE  /\ DeadIn(b, t) => DeadIn(b, t)'
               /\ KeptBy(b, t) => KeptBy(b, t)'
               /\ status[b][part[t][b]] = "rolledback" => status'[b][part[t][b]] = "rolledback"
    <3>1. PICK h \in Gtx : h = gtx[t]
      BY <1>1, <2>1, Zenon DEF TypeOK, SessTypes
    <3>2. PICK j \in TxId : j = part[t][b] /\ j <= nextID[b]
      <4>1. part[t][b] \in TxId
        BY <1>1, <2>1, Zenon DEF TypeOK, LocalId, SessTypes
      <4>. QED BY <1>1, <2>1, <4>1, Zenon DEF DataOK, IdsOK
    <3>3. status[b][j] = "rolledback" => status'[b][j] = "rolledback"
      BY <2>0, Zenon DEF OwnWork
    <3>4. (Dead(b, j) => Dead(b, j)') /\ (KeptIn(b, j, h) => KeptIn(b, j, h)')
      BY <1>2, <3>2, Zenon DEF Stable
    <3>. QED BY <1>3, <3>1, <3>2, <3>3, <3>4, Zenon DEF DeadIn, Dead, KeptBy, KeptIn
  <2>2. ASSUME NEW t \in Sess, NEW b \in Addr, NEW j \in TxId, NEW h \in Gtx, gtx[t] = h,
               h # 0, answer[h] = "none", h \in work'[b][j]
        PROVE  part[t][b] = j
    <3>1. CASE h \in work[b][j]
      BY <1>1, <2>2, <3>1, Zenon DEF DataOK, FateOK
    <3>2. CASE h \notin work[b][j]
      <4>1. b = a /\ j = i /\ h = g
        BY <2>0, <2>2, <3>2, Zenon DEF OwnWork
      <4>. QED BY <1>5, <2>2, <4>1, Zenon
    <3>. QED BY <3>1, <3>2, Zenon
  <2>3. ASSUME NEW t \in Sess, NEW b \in Addr, gtx[t] # 0, answer[gtx[t]] = "none",
               <<gtx[t], b>> \in acked'
        PROVE  part[t][b] # 0 /\ KeptBy(b, t)'
    <3>1. CASE <<gtx[t], b>> \in acked
      BY <1>1, <2>1, <2>3, <3>1, Zenon DEF DataOK, FateOK
    <3>2. CASE <<gtx[t], b>> \notin acked
      <4>1. gtx[t] = g /\ b \in A
        BY <2>3, <3>2, Zenon
      <4>. QED BY <1>5, <4>1, Zenon
    <3>. QED BY <3>1, <3>2, Zenon
  <2>4. ASSUME NEW t \in Sess, gtx[t] # 0, answer[gtx[t]] = "none", gtx[t] \in poisoned'
        PROVE  \E b \in Addr : part[t][b] # 0 /\ DeadIn(b, t)'
    <3>1. CASE gtx[t] \in poisoned
      <4>1. PICK b \in Addr : part[t][b] # 0 /\ DeadIn(b, t)
        BY <1>1, <2>4, <3>1, Zenon DEF DataOK, FateOK
      <4>. QED BY <2>1, <2>4, <4>1, Zenon
    <3>2. CASE gtx[t] \notin poisoned
      <4>1. gtx[t] = g /\ Dead(a, i)'
        BY <1>2, <2>4, <3>2 DEF Runs
      <4>2. part[t][a] = i /\ i # 0
        BY <1>0, <1>5, <4>1, Zenon
      <4>. QED BY <4>1, <4>2, Zenon DEF DeadIn, Dead
    <3>. QED BY <3>1, <3>2, Zenon
  <2>5. \A t \in Sess : gtx[t] # 0 => gtx[t] \in Gtx
    BY <1>1, Zenon DEF TypeOK, SessTypes
  <2>6. ASSUME NEW t \in Sess, NEW b \in Addr, gtx[t] # 0, answer[gtx[t]] = "none",
               <<gtx[t], b>> \in lost'
        PROVE  part[t][b] # 0 /\ status'[b][part[t][b]] = "rolledback"
    <3>1. part[t][b] # 0 /\ status[b][part[t][b]] = "rolledback"
      BY <1>1, <1>3, <2>6, Zenon DEF DataOK, FateOK
    <3>. QED BY <2>1, <2>6, <3>1, Zenon
  <2>7. ASSUME NEW t \in Sess, gtx[t] # 0, answer[gtx[t]] = "none"
        PROVE  \A b \in Addr :
                 /\ \A j \in TxId : gtx[t] \in work'[b][j] => part[t][b] = j
                 /\ <<gtx[t], b>> \in acked' => part[t][b] # 0 /\ KeptBy(b, t)'
                 /\ <<gtx[t], b>> \in lost' =>
                      part[t][b] # 0 /\ status'[b][part[t][b]] = "rolledback"
    <3>1. \A b \in Addr, j \in TxId : gtx[t] \in work'[b][j] => part[t][b] = j
      BY <2>2, <2>5, <2>7, Zenon
    <3>. QED BY <2>3, <2>6, <2>7, <3>1, Zenon
  <2>8. part' = part /\ gtx' = gtx /\ answer' = answer
    BY Zenon
  <2>. QED BY <2>4, <2>7, <2>8, FateHolds, Zenon
<1>10. CommitPersists'
  <2>1. \A h \in Gtx : answer[h] = "committed" => h # g /\ \A b \in Addr :
          (<<h, b>> \in acked => <<h, b>> \in durable) /\ <<h, b>> \notin lost
    BY <1>1, Zenon DEF DataOK, CommitPersists, AckedOf, DurableOf, LostOf
  <2>2. \A h \in Gtx : answer[h] = "committed" => \A b \in Addr :
          (<<h, b>> \in acked' => <<h, b>> \in durable') /\ <<h, b>> \notin lost'
    BY <2>1, <1>3, Zenon
  <2>. QED BY <2>2, Zenon DEF CommitPersists, AckedOf, DurableOf, LostOf
<1>. QED BY <1>2, <1>3, <1>4, <1>6, <1>7, <1>8, <1>9, <1>10, Zenon DEF DataOK

\* The statement of a request is one of its session's transaction.
LEMMA ExecRPCStatement ==
  ASSUME IInv, NEW r \in Req, NEW R \in Request, NEW s \in Sess, Current(r, R, s),
         R.pc = "rpc", NEW yes \in BOOLEAN, ExecRPC(r, yes), UNCHANGED <<part, gtx>>,
         NEW a \in Addr, a = R.at, NEW i \in TxId, i = part[s][a],
         NEW g \in Gtx, g = gtx[s]
  PROVE  StatementAt(a, i, g) /\ (yes => KeptBy(a, s)')
<1>1. R.g = g /\ R.snap[a] = i /\ i # 0
  BY MaxTxAssumption, Zenon DEF Current, Serves, CarriesOK, JoinsOK, Joining,
     TxId
<1>2. StatementAt(a, i, g) /\ (yes => ExecAt(a, i, g))
  BY <1>1, Zenon DEF Current, ExecRPC, StatementAt
<1>3. ASSUME ExecAt(a, i, g) PROVE KeptBy(a, s)'
  <2>1. status[a][i] = "open" /\ status' = status
        /\ work' = [work EXCEPT ![a][i] = @ \cup {g}]
    BY <1>1, <1>3, Zenon DEF ExecAt, localVars
  <2>2. g \in work'[a][i]
    BY <2>1, Zenon DEF IInv, TypeOK, TabletTypes, SessTypes
  <2>. QED BY <2>1, <2>2, Zenon DEF KeptBy, KeptIn
<1>. QED BY <1>2, <1>3, Zenon

\* Where it goes, and under which id.
LEMMA ExecRPCAt ==
  ASSUME IInv, NEW r \in Req, NEW R \in Request, NEW s \in Sess, Current(r, R, s),
         R.pc = "rpc"
  PROVE  \E a \in Addr, i \in TxId, g \in Gtx :
           /\ a = R.at /\ i = part[s][a] /\ g = gtx[s] /\ g = R.g /\ i # 0
           /\ answer[g] = "none" /\ state[s] = "in"
<1>1. R.at \in Addr /\ R.at \in R.targets
  BY Zenon DEF Current, Serves, JoinsOK, Request
<1>2. R.g = gtx[s] /\ state[s] = "in" /\ part[s][R.at] # 0
  BY <1>1, Zenon DEF Current, Serves, CarriesOK, JoinsOK, Joining
<1>. QED BY <1>1, <1>2, CurrentTx, Zenon

\* From the books to the whole invariant.
LEMMA StatementStep ==
  ASSUME IInv, NEW r \in Req, NEW R \in Request, NEW s \in Sess, Current(r, R, s),
         R.pc # "clear", NEW Q \in Request, Moves(r, Q),
         Q.pc = "idle" \/ (Q.sess = s /\ Serves(Q, s)'),
         DataOK', Stable, TabletTypes', acked' \in SUBSET (Gtx \X Addr),
         poisoned' \in SUBSET Gtx, poisoned' \subseteq poisoned \cup {gtx[s]},
         UNCHANGED <<sessions, created, state, part, doomed, clients, left, gtx, gtxs, answer>>
  PROVE  IInv'
<1>1. TypeOK'
  BY Zenon DEF IInv, TypeOK, Moves, BookTypes, SessTypes, FateTypes
<1>2. Only(r, s) /\ ReqOK(r)'
  BY Zenon DEF Only, ReqOK, Moves, Current
<1>3. OnlyTouches(s) /\ state'[s] = "in"
  BY DEF OnlyTouches, Current, Serves, CarriesOK, IInv, TypeOK, BookTypes,
     SessTypes
<1>4. RequestsOK'
  BY <1>2, <1>3, OthersOK, Zenon
<1>. QED BY <1>1, <1>4, Zenon DEF IInv

\* A statement on one tablet, answered or not.
LEMMA ExecuteOneStep ==
  ASSUME IInv, NEW r \in Req, ExecuteOne(r)
  PROVE  IInv'
<1>1. PICK R \in Request, s \in Sess : Current(r, R, s)
  BY UnderWay, Zenon DEF ExecuteOne
<1>2. R.pc = "rpc"
  BY <1>1, Zenon DEF Current, ExecuteOne
<1>3. PICK a \in Addr, i \in TxId, g \in Gtx :
        /\ a = R.at /\ i = part[s][a] /\ g = gtx[s] /\ g = R.g /\ i # 0
        /\ answer[g] = "none" /\ state[s] = "in"
  BY <1>1, <1>2, ExecRPCAt, Zenon
<1>4. PICK yes \in BOOLEAN :
        ExecRPC(r, yes) /\ acked' = IF yes THEN acked \cup {<<g, a>>} ELSE acked
  BY <1>1, <1>3, Zenon DEF ExecuteOne, Current
<1>5. /\ UNCHANGED <<sessions, created, state, part, doomed, clients, left, gtx, gtxs, answer>>
      /\ Return(r)
  BY Zenon DEF ExecuteOne, sessVars
<1>6. StatementAt(a, i, g) /\ (yes => KeptBy(a, s)')
  BY <1>1, <1>2, <1>3, <1>4, <1>5, ExecRPCStatement, Zenon
<1>7. PICK A \in SUBSET Addr :
        /\ acked' = acked \cup ({g} \X A)
        /\ \A b \in A : part[s][b] # 0 /\ KeptBy(b, s)'
  <2>1. CASE yes
    <3>1. acked' = acked \cup ({g} \X {a})
      BY <1>4, <2>1
    <3>2. \A b \in {a} : part[s][b] # 0 /\ KeptBy(b, s)'
      BY <1>3, <1>6, <2>1, Zenon
    <3>3. {a} \in SUBSET Addr
      BY Zenon
    <3>. QED BY <3>1, <3>2, <3>3, Zenon
  <2>2. CASE ~yes
    <3>1. acked' = acked \cup ({g} \X {}) /\ {} \in SUBSET Addr
      BY <1>4, <2>2, Zenon
    <3>2. \A b \in {} : part[s][b] # 0 /\ KeptBy(b, s)'
      BY Zenon
    <3>. QED BY <3>1, <3>2, Zenon
  <2>. QED BY <2>1, <2>2, Zenon
<1>8. /\ DataOK' /\ Stable /\ TabletTypes' /\ acked' \in SUBSET (Gtx \X Addr)
      /\ poisoned' \in SUBSET Gtx /\ poisoned' \subseteq poisoned \cup {gtx[s]}
  BY <1>3, <1>5, <1>6, <1>7, StatementData, Zenon
<1>9. Moves(r, NoRequest)
  BY <1>5, NoRequestTyped, Zenon DEF Return, Moves, IInv, TypeOK
<1>. QED BY <1>1, <1>2, <1>5, <1>8, <1>9, NoRequestTyped, StatementStep, Zenon

\* A statement of a scatter: kept by its tablet, unless it failed.
LEMMA ScatterOneStep ==
  ASSUME IInv, NEW r \in Req, ScatterOne(r)
  PROVE  IInv'
<1>1. PICK R \in Request, s \in Sess : Current(r, R, s)
  BY UnderWay, Zenon DEF ScatterOne
<1>2. R.pc = "rpc" /\ R.bad \in BOOLEAN
  BY <1>1, Zenon DEF Current, ScatterOne, Request
<1>3. PICK a \in Addr, i \in TxId, g \in Gtx :
        /\ a = R.at /\ i = part[s][a] /\ g = gtx[s] /\ g = R.g /\ i # 0
        /\ answer[g] = "none" /\ state[s] = "in"
  BY <1>1, <1>2, ExecRPCAt, Zenon
<1>4. PICK yes \in BOOLEAN, bad \in BOOLEAN :
        /\ ExecRPC(r, yes) /\ bad = (R.bad \/ ~yes)
        /\ req' = [req EXCEPT ![r].pc = "send", ![r].bad = bad]
  BY <1>1, Zenon DEF ScatterOne, Current
<1>5. /\ UNCHANGED <<sessions, created, state, part, doomed, clients, left, gtx, gtxs, answer>>
      /\ acked' = acked
  BY Zenon DEF ScatterOne, sessVars
<1>6. StatementAt(a, i, g) /\ (yes => KeptBy(a, s)')
  BY <1>1, <1>2, <1>3, <1>4, <1>5, ExecRPCStatement, Zenon
<1>7. PICK A \in SUBSET Addr :
        /\ acked' = acked \cup ({g} \X A)
        /\ \A b \in A : part[s][b] # 0 /\ KeptBy(b, s)'
  <2>1. acked' = acked \cup ({g} \X {}) /\ {} \in SUBSET Addr
    BY <1>5, Zenon
  <2>2. \A b \in {} : part[s][b] # 0 /\ KeptBy(b, s)'
    BY Zenon
  <2>. QED BY <2>1, <2>2, Zenon
<1>8. /\ DataOK' /\ Stable /\ TabletTypes' /\ acked' \in SUBSET (Gtx \X Addr)
      /\ poisoned' \in SUBSET Gtx /\ poisoned' \subseteq poisoned \cup {gtx[s]}
  BY <1>3, <1>5, <1>6, <1>7, StatementData, Zenon
<1>9. PICK Q \in Request : Q = [R EXCEPT !.pc = "send", !.bad = bad]
  BY Zenon DEF Request, PC
<1>10. Moves(r, Q)
  BY <1>1, <1>4, <1>9, Zenon DEF Current, Moves, IInv, TypeOK
<1>11. /\ Q.op = R.op /\ Q.sess = R.sess /\ Q.g = R.g /\ Q.targets = R.targets
       /\ Q.pc = "send" /\ Q.todo = R.todo
  BY <1>9, Zenon DEF Request
<1>12. ~Q.bad => yes /\ ~R.bad
  BY <1>4, <1>9, Zenon DEF Request
<1>13. Q.sess = s /\ Serves(Q, s)'
  <2>1. Q.sess = s /\ CarriesOK(Q, s)' /\ LoopsOK(Q, s)'
    BY <1>1, <1>2, <1>5, <1>11, Zenon DEF Current, Serves, CarriesOK, LoopsOK,
       Joining, TwoPhase, RollsBack, Looping
  <2>2. \A b \in Addr : part[s][b] # 0 /\ KeptBy(b, s) => KeptBy(b, s)'
    BY <1>1, <1>5, <1>8, CurrentTx, Zenon DEF Stable, KeptBy, KeptIn
  <2>3. R.targets \subseteq Addr /\ JoinsOK(R, s)
    BY <1>1, Zenon DEF Current, Serves, Request
  <2>4. ASSUME ~Q.bad, NEW b \in R.targets \ R.todo PROVE KeptBy(b, s)'
    BY <1>2, <1>3, <1>6, <1>12, <2>2, <2>3, <2>4, Zenon DEF JoinsOK
  <2>5. JoinsOK(Q, s)'
    BY <1>2, <1>5, <1>11, <2>3, <2>4, Zenon DEF JoinsOK, Joining
  <2>. QED BY <2>1, <2>5, Zenon DEF Serves
<1>. QED BY <1>1, <1>2, <1>5, <1>8, <1>10, <1>13, StatementStep, Zenon

\* A scatter is acknowledged when every target kept its statement.
LEMMA ScatterOkStep ==
  ASSUME IInv, NEW r \in Req, ScatterOk(r)
  PROVE  IInv'
<1>1. PICK R \in Request, s \in Sess : Current(r, R, s)
  BY UnderWay, Zenon DEF ScatterOk
<1>2. R.pc = "send" /\ R.todo = {} /\ ~R.bad
  BY <1>1, Zenon DEF Current, ScatterOk
<1>3. PICK g \in Gtx : g = gtx[s] /\ answer[g] = "none"
  BY <1>1, CurrentTx, Zenon
<1>4. PICK A \in SUBSET Addr : A = R.targets /\ acked' = acked \cup ({g} \X A)
  BY <1>1, <1>2, <1>3, Zenon DEF Current, Serves, CarriesOK, Joining,
     ScatterOk, Request
<1>5. /\ UNCHANGED <<sessions, created, state, part, doomed, clients, left, gtx, gtxs, answer>>
      /\ UNCHANGED <<localVars, fateVars, poisoned>> /\ Return(r)
  BY Zenon DEF ScatterOk, sessVars
<1>6. \A b \in A : part[s][b] # 0 /\ KeptBy(b, s)
  BY <1>1, <1>2, <1>4, Zenon DEF Current, Serves, JoinsOK
<1>7. \A b \in A : part[s][b] # 0 /\ KeptBy(b, s)'
  BY <1>5, <1>6, Zenon DEF KeptBy, KeptIn, localVars, fateVars
<1>8. /\ DataOK' /\ Stable /\ TabletTypes' /\ acked' \in SUBSET (Gtx \X Addr)
      /\ poisoned' \in SUBSET Gtx /\ poisoned' \subseteq poisoned \cup {gtx[s]}
  <2>1. acked' \in SUBSET (Gtx \X Addr) /\ TabletTypes' /\ poisoned' \in SUBSET Gtx
    BY <1>4, <1>5, Zenon DEF IInv, TypeOK, TabletTypes, localVars, fateVars, FateTypes
  <2>2. CASE A = {}
    <3>1. acked' = acked
      BY <1>4, <2>2, Zenon
    <3>2. DataOK' /\ Stable
      BY <1>5, <3>1, KeepsData, Zenon DEF IInv
    <3>. QED BY <1>5, <2>1, <3>2, Zenon
  <2>3. CASE A # {}
    <3>1. PICK a \in A : part[s][a] # 0
      BY <1>6, <2>3, Zenon
    <3>2. PICK i \in TxId : i = part[s][a]
      BY <1>1, <3>1, CurrentTx, Zenon
    <3>3. StatementAt(a, i, g)
      BY <1>5, Zenon DEF StatementAt, TabletsUnchanged
    <3>. QED BY <1>3, <1>4, <1>5, <1>7, <3>1, <3>2, <3>3, StatementData, Zenon
  <2>. QED BY <2>2, <2>3, Zenon
<1>9. Moves(r, NoRequest)
  BY <1>5, NoRequestTyped, Zenon DEF Return, Moves, IInv, TypeOK
<1>. QED BY <1>1, <1>2, <1>5, <1>8, <1>9, NoRequestTyped, StatementStep, Zenon

\* An error of a scatter leads to rollbackAll.
LEMMA ScatterFailsStep ==
  ASSUME IInv, NEW r \in Req, ScatterFails(r)
  PROVE  IInv'
<1>1. PICK R \in Request, s \in Sess : Current(r, R, s)
  BY UnderWay, Zenon DEF ScatterFails
<1>2. R.pc = "send" /\ R.op = "exec" /\ R.at \in Addr /\ Goto(r, "rollbackAll")
  BY <1>1, Zenon DEF Current, Serves, CarriesOK, Joining, ScatterFails, Request
<1>3. TabletStep(R.at) /\ UNCHANGED <<bookVars, doomed, clients, left>>
  BY Zenon DEF ScatterFails, TabletStep, TabletsUnchanged, bookVars, sessVars,
     ghostVars
<1>. QED BY <1>1, <1>2, <1>3, GoesBackStep, Zenon

=============================================================================
