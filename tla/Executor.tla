------------------------------ MODULE Executor ------------------------------
(***************************************************************************)
(* The tablet's service (internal/tablet/server/handler.go) and the        *)
(* executor under it (internal/tablet/executor/executor.go): a request     *)
(* goroutine runs the statements of one Execute call one by one, those of  *)
(* a transaction through TxManager and the others on the pool, or serves   *)
(* Prepare, Commit or Rollback.  Every step of a transaction is a step of  *)
(* TxManager, so goroutines, reaper and pool interleave as they do there.  *)
(***************************************************************************)
EXTENDS TxManager, Sequences

CONSTANTS
  Batches   \* the statement lists a request may carry

Kind == {"BEGIN", "COMMIT", "ROLLBACK", "READ", "WRITE"}

ASSUME ExecutorAssumption == Batches \subseteq Seq(Kind)

VARIABLES
  readOnly,  \* isReadOnlyTablet: the tablet is a REPLICA or RDONLY
  busy,      \* goroutine p serves an Execute call
  todo,      \* the statements ExecuteSQL has still to run
  txID,      \* ExecuteSQL's txID
  called,    \* ... and has called TxManager for the statement at hand
  writes,    \* history: the transactions (0: none) writes of this call ran in
  nested     \* history: this call ran a BEGIN inside a transaction

callVars == <<busy, todo, txID, called, writes, nested>>
execVars == <<vars, readOnly, callVars>>

ExecTypeOK ==
  /\ readOnly \in BOOLEAN
  /\ busy \in [Thread -> BOOLEAN]
  /\ todo \in [Thread -> Seq(Kind)]
  /\ txID \in [Thread -> {0} \cup TxId]
  /\ called \in [Thread -> BOOLEAN]
  /\ writes \in [Thread -> SUBSET ({0} \cup TxId)]
  /\ nested \in [Thread -> BOOLEAN]

ExecInit ==
  /\ Init
  /\ readOnly \in BOOLEAN
  /\ busy = [p \in Thread |-> FALSE]
  /\ todo = [p \in Thread |-> <<>>]
  /\ txID = [p \in Thread |-> 0]
  /\ called = [p \in Thread |-> FALSE]
  /\ writes = [p \in Thread |-> {}]
  /\ nested = [p \in Thread |-> FALSE]

-----------------------------------------------------------------------------
(* TabletHandler.Execute                                                   *)

Ready(p) == ~busy[p] /\ pc[p] = "idle"

\* A request arrives with the id its sender believes in.
Execute(p, i, b) ==
  /\ Ready(p)
  /\ busy' = [busy EXCEPT ![p] = TRUE]
  /\ todo' = [todo EXCEPT ![p] = b]
  /\ txID' = [txID EXCEPT ![p] = i]
  /\ UNCHANGED <<vars, readOnly, called, writes, nested>>

\* The goroutine answers and is gone.
Respond(p) ==
  /\ busy' = [busy EXCEPT ![p] = FALSE]
  /\ todo' = [todo EXCEPT ![p] = <<>>]
  /\ txID' = [txID EXCEPT ![p] = 0]
  /\ called' = [called EXCEPT ![p] = FALSE]
  /\ writes' = [writes EXCEPT ![p] = {}]
  /\ nested' = [nested EXCEPT ![p] = FALSE]
  /\ UNCHANGED readOnly

\* TabletHandler.Execute answers an error without the id ExecuteSQL hands
\* it: a transaction begun earlier in the batch is known to nobody.
ExecuteFails(p) == Respond(p)

-----------------------------------------------------------------------------
(* ExecuteSQL: one round of its loop                                       *)

AtStatement(p) == busy[p] /\ ~called[p] /\ todo[p] # <<>>

Call(p) ==
  /\ called' = [called EXCEPT ![p] = TRUE]
  /\ UNCHANGED <<readOnly, busy, todo, txID, writes>>

BeginStmt(p) ==
  /\ AtStatement(p)
  /\ Head(todo[p]) = "BEGIN"
  /\ CallBegin(p)
  /\ Call(p)
  /\ nested' = [nested EXCEPT ![p] = @ \/ txID[p] # 0]

EndOp == [COMMIT |-> "commit", ROLLBACK |-> "rollback"]

EndStmt(p) ==
  /\ AtStatement(p)
  /\ txID[p] # 0
  /\ Head(todo[p]) \in DOMAIN EndOp
  /\ Get(p, EndOp[Head(todo[p])], txID[p])
  /\ Call(p)
  /\ UNCHANGED nested

\* COMMIT or ROLLBACK with id 0, which is in no map: ErrNoSuchTransaction.
EndNothing(p) ==
  /\ AtStatement(p)
  /\ txID[p] = 0
  /\ Head(todo[p]) \in DOMAIN EndOp
  /\ ExecuteFails(p)
  /\ UNCHANGED vars

RefuseWrite(p) ==
  /\ AtStatement(p)
  /\ readOnly /\ Head(todo[p]) = "WRITE"
  /\ ExecuteFails(p)
  /\ UNCHANGED vars

Runnable(p) ==
  /\ AtStatement(p)
  /\ Head(todo[p]) \in {"READ", "WRITE"}
  /\ ~(readOnly /\ Head(todo[p]) = "WRITE")

TxStmt(p) ==
  /\ Runnable(p)
  /\ txID[p] # 0
  /\ Get(p, "exec", txID[p])
  /\ Call(p)
  /\ UNCHANGED nested

\* The statement at hand succeeded: ExecuteSQL goes on with the next one.
\* What is rolled back is meant to be lost.
Advance(p, id) ==
  /\ todo' = [todo EXCEPT ![p] = Tail(@)]
  /\ txID' = [txID EXCEPT ![p] = id]
  /\ called' = [called EXCEPT ![p] = FALSE]
  /\ writes' = [writes EXCEPT ![p] =
                  CASE Head(todo[p]) = "WRITE"    -> @ \cup {txID[p]}
                    [] Head(todo[p]) = "ROLLBACK" -> @ \ {txID[p]}
                    [] OTHER                      -> @]
  /\ UNCHANGED <<readOnly, busy, nested>>

\* Without a transaction the pool lends a connection for one statement,
\* once there is a free one; PostgreSQL commits it or refuses it.
PoolStmtOk(p) ==
  /\ Runnable(p)
  /\ txID[p] = 0 /\ free # {}
  /\ Advance(p, 0)
  /\ UNCHANGED vars

PoolStmtFails(p) ==
  /\ Runnable(p)
  /\ txID[p] = 0
  /\ ExecuteFails(p)
  /\ UNCHANGED vars

Returned(p) == busy[p] /\ called[p] /\ pc[p] = "idle"

\* The id after a statement TxManager ran.
IdAfter(p) ==
  CASE Head(todo[p]) = "BEGIN"                  -> cur[p]
    [] Head(todo[p]) \in DOMAIN EndOp -> 0
    [] OTHER                                    -> txID[p]

\* Mutant of StmtDone: the error of TxManager is not looked at.
StmtDoneIgnoresError(p) ==
  /\ Returned(p)
  /\ Advance(p, IdAfter(p))
  /\ UNCHANGED vars

StmtDone(p) ==
  /\ Returned(p)
  /\ res[p] = "ok"
  /\ Advance(p, IdAfter(p))
  /\ UNCHANGED vars

StmtFails(p) ==
  /\ Returned(p)
  /\ res[p] = "err"
  /\ ExecuteFails(p)
  /\ UNCHANGED vars

\* The answer carries txID.
ExecuteDone(p) ==
  /\ busy[p] /\ ~called[p] /\ todo[p] = <<>>
  /\ Respond(p)
  /\ UNCHANGED vars

-----------------------------------------------------------------------------
(* TabletHandler.Prepare, Commit and Rollback: one call of TxManager, whose *)
(* result is the answer.  Prepare is "SELECT 1" in the transaction.        *)

PrepareCommitRollback(p, i) ==
  /\ Ready(p)
  /\ i # 0
  /\ \E o \in {"exec", "commit", "rollback"} : Get(p, o, i)
  /\ UNCHANGED <<readOnly, callVars>>

\* Id 0 is answered yes without a look; a batch that does not parse is refused.
MethodOnNothing(p) == Ready(p) /\ UNCHANGED execVars

-----------------------------------------------------------------------------

\* The steps a goroutine takes on its own inside the handler.
HandlerStep(p) ==
  \/ BeginStmt(p) \/ EndStmt(p) \/ EndNothing(p) \/ RefuseWrite(p)
  \/ TxStmt(p) \/ PoolStmtOk(p) \/ PoolStmtFails(p)
  \/ StmtDone(p) \/ StmtFails(p) \/ ExecuteDone(p)

\* The steps of TxManager that no call of the handler starts.
Running ==
  \/ \E p \in Thread : Acquire(p) \/ AcquireFails(p)
  \/ \E p \in Proc :
       \/ StartTx(p) \/ StartTxFails(p) \/ Insert(p)
       \/ Lock(p) \/ Touch(p) \/ RunOk(p) \/ RunFails(p) \/ RunRefused(p)
       \/ CommitTx(p) \/ RollbackTx(p) \/ Remove(p) \/ Release(p)
  \/ \E i \in TxId : Expire(i)
  \/ Scan \/ Sweep \/ SweepDone

ExecNext ==
  \/ \E p \in Thread, i \in 0..nextID :
       \/ \E b \in Batches : Execute(p, i, b)
       \/ PrepareCommitRollback(p, i)
  \/ \E p \in Thread : MethodOnNothing(p) \/ HandlerStep(p)
  \/ Running /\ UNCHANGED <<readOnly, callVars>>

ExecSpec == ExecInit /\ [][ExecNext]_execVars

\* As in TxManager; besides, the goroutine of a request goes on, and the
\* pool serves the Begins that wait for a connection in turn (puddle's
\* semaphore is first come, first served).
ExecFairness ==
  /\ Fairness
  /\ \A p \in Thread : SF_vars(Acquire(p)) /\ WF_execVars(HandlerStep(p))

ExecFairSpec == ExecSpec /\ ExecFairness

-----------------------------------------------------------------------------

\* A batch that is answered without an error has forgotten none of its
\* writes: each was committed, or rolled back by the batch, or is in the
\* transaction whose id the answer carries.  The reaper and other requests
\* may end the transaction between two statements of the batch.  (A BEGIN
\* inside a transaction drops the id of the first one: see AbandonedReaped.)
NothingForgotten ==
  [][\A p \in Thread : ExecuteDone(p) /\ ~nested[p] =>
       \A i \in writes[p] : i \in {0, txID[p]} \/ status[i] = "committed"
    ]_execVars

\* A BEGIN waits for a connection for ever only while other clients keep
\* using the transactions that hold them, or the reaper is stuck: the
\* connections of abandoned transactions, those of failed and nested batches
\* among them, come back.
BeginServed ==
  \A p \in Thread :
    <>[](pc[p] = "acquire")
      => \/ []<>(\E q \in Thread : pc[q] = "exec")
         \/ <>[]ReaperBehindLockWait

=============================================================================
