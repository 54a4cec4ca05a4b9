------------------------------ MODULE TxManager ------------------------------
(***************************************************************************)
(* The transaction manager of one tablet (internal/tablet/executor/        *)
(* transaction.go) with the connection pool and the PostgreSQL session     *)
(* under it.  Processes are the goroutines that serve requests and the     *)
(* idle reaper; a step is one critical section of m.mu or t.mu, one call   *)
(* of the pool, or one call of PostgreSQL.                                 *)
(***************************************************************************)
EXTENDS Integers

CONSTANTS
  Thread,   \* goroutines serving Begin, Execute, Query, Commit, Rollback
  Reaper,   \* the goroutine of reapLoop
  Conn,     \* the connections of the pool (MaxConns of them)
  MaxTx,    \* bound: transactions begun
  None

ASSUME TxManagerAssumption ==
  /\ MaxTx \in Nat \ {0}
  /\ Reaper \notin Thread
  /\ None \notin Conn \cup Thread \cup {Reaper}

VARIABLES
  free,      \* connections resting in the pool
  hand,      \* hand[p]: the connection Begin holds before there is a transaction
  nextID,    \* m.nextID
  txns,      \* the keys of m.txns
  conn,      \* t.conn, by transaction id, until it is released
  status,    \* t.tx: what PostgreSQL and pgx know of the transaction
  mu,        \* t.mu: the process that holds it
  lastUsed,  \* t.lastUsed, as the reaper sees it: "recent" or "expired"
  row,       \* the transaction holding the one contended row lock, or 0
  pc,        \* where each process is
  op,        \* the operation it is in (or was last in)
  cur,       \* the transaction id it works on
  res,       \* its result: "ok" when err == nil, else "err"
  doomed     \* reapOnce's list "stale"

vars == <<free, hand, nextID, txns, conn, status, mu, lastUsed, row,
          pc, op, cur, res, doomed>>
txVars == <<nextID, conn, status, row>>
poolVars == <<free, hand>>

Proc == Thread \cup {Reaper}
TxId == 1..MaxTx
Unfinished == {"open", "failed"}
Finished   == {"committed", "rolledback"}
PC == {"idle", "acquire", "begin", "insert", "lock", "exec", "run", "wait",
       "commit", "rollback", "remove", "release", "sweep"}

TypeOK ==
  /\ free \in SUBSET Conn
  /\ hand \in [Proc -> Conn \cup {None}]
  /\ nextID \in 0..MaxTx
  /\ txns \in SUBSET (1..nextID)
  /\ conn \in [TxId -> Conn \cup {None}]
  /\ status \in [TxId -> {"absent"} \cup Unfinished \cup Finished]
  /\ mu \in [TxId -> Proc \cup {None}]
  /\ lastUsed \in [TxId -> {"recent", "expired"}]
  /\ row \in {0} \cup TxId
  /\ pc \in [Proc -> PC]
  /\ op \in [Proc -> {"none", "begin", "exec", "commit", "rollback"}]
  /\ cur \in [Proc -> {0} \cup TxId]
  /\ res \in [Proc -> {"ok", "err"}]
  /\ doomed \in SUBSET TxId

Init ==
  /\ free = Conn
  /\ hand = [p \in Proc |-> None]
  /\ nextID = 0
  /\ txns = {}
  /\ conn = [i \in TxId |-> None]
  /\ status = [i \in TxId |-> "absent"]
  /\ mu = [i \in TxId |-> None]
  /\ lastUsed = [i \in TxId |-> "recent"]
  /\ row = 0
  /\ pc = [p \in Proc |-> "idle"]
  /\ op = [p \in Proc |-> "none"]
  /\ cur = [p \in Proc |-> 0]
  /\ res = [p \in Proc |-> "err"]
  /\ doomed = {}

Goto(p, l) == pc' = [pc EXCEPT ![p] = l]
Return(p)  == Goto(p, IF p = Reaper THEN "sweep" ELSE "idle")

-----------------------------------------------------------------------------
(* TxManager.Begin                                                         *)

CallBegin(p) ==
  /\ pc[p] = "idle"
  /\ Goto(p, "acquire")
  /\ op' = [op EXCEPT ![p] = "begin"]
  /\ cur' = [cur EXCEPT ![p] = 0]
  /\ res' = [res EXCEPT ![p] = "err"]
  /\ UNCHANGED <<poolVars, txVars, txns, mu, lastUsed, doomed>>

\* Acquire blocks while every connection is out, until ctx is cancelled.
Acquire(p) ==
  /\ pc[p] = "acquire"
  /\ \E c \in free :
       /\ free' = free \ {c}
       /\ hand' = [hand EXCEPT ![p] = c]
  /\ Goto(p, "begin")
  /\ UNCHANGED <<txVars, txns, mu, lastUsed, op, cur, res, doomed>>

AcquireFails(p) ==
  /\ pc[p] = "acquire"
  /\ Return(p)
  /\ UNCHANGED <<poolVars, txVars, txns, mu, lastUsed, op, cur, res, doomed>>

\* Mutant of StartTx: the smallest id that is free in the map is handed out,
\* instead of a new one.
StartTxReusesId(p) ==
  /\ pc[p] = "begin"
  /\ \E i \in TxId \ txns :
       /\ \A j \in 1..i - 1 : j \in txns
       /\ nextID' = IF i > nextID THEN i ELSE nextID
       /\ conn' = [conn EXCEPT ![i] = hand[p]]
       /\ status' = [status EXCEPT ![i] = "open"]
       /\ cur' = [cur EXCEPT ![p] = i]
  /\ hand' = [hand EXCEPT ![p] = None]
  /\ Goto(p, "insert")
  /\ UNCHANGED <<free, txns, mu, lastUsed, row, op, res, doomed>>

\* conn.Begin succeeds and the atomic counter hands out the id.
StartTx(p) ==
  /\ pc[p] = "begin"
  /\ nextID < MaxTx
  /\ nextID' = nextID + 1
  /\ conn' = [conn EXCEPT ![nextID + 1] = hand[p]]
  /\ status' = [status EXCEPT ![nextID + 1] = "open"]
  /\ cur' = [cur EXCEPT ![p] = nextID + 1]
  /\ hand' = [hand EXCEPT ![p] = None]
  /\ Goto(p, "insert")
  /\ UNCHANGED <<free, txns, mu, lastUsed, row, op, res, doomed>>

\* Mutants of StartTxFails: the error path forgets conn.Release(), or
\* forgets the connection before it releases it.
StartTxFailsLate(p) ==
  /\ pc[p] = "begin"
  /\ hand' = [hand EXCEPT ![p] = None]
  /\ free' = free \cup {hand'[p]}
  /\ Return(p)
  /\ UNCHANGED <<txVars, txns, mu, lastUsed, op, cur, res, doomed>>

StartTxFailsLeaks(p) ==
  /\ pc[p] = "begin"
  /\ hand' = [hand EXCEPT ![p] = None]
  /\ Return(p)
  /\ UNCHANGED <<free, txVars, txns, mu, lastUsed, op, cur, res, doomed>>

StartTxFails(p) ==
  /\ pc[p] = "begin"
  /\ free' = free \cup {hand[p]}
  /\ hand' = [hand EXCEPT ![p] = None]
  /\ Return(p)
  /\ UNCHANGED <<txVars, txns, mu, lastUsed, op, cur, res, doomed>>

Insert(p) ==
  /\ pc[p] = "insert"
  /\ txns' = txns \cup {cur[p]}
  /\ lastUsed' = [lastUsed EXCEPT ![cur[p]] = "recent"]
  /\ res' = [res EXCEPT ![p] = "ok"]
  /\ Return(p)
  /\ UNCHANGED <<poolVars, txVars, mu, op, cur, doomed>>

-----------------------------------------------------------------------------
(* Operations on a transaction: get, then t.mu, then PostgreSQL.           *)

\* A request names any id; get answers ErrNoSuchTransaction when it is not
\* in the map.
Get(p, o, i) ==
  /\ pc[p] = "idle"
  /\ op' = [op EXCEPT ![p] = o]
  /\ cur' = [cur EXCEPT ![p] = i]
  /\ res' = [res EXCEPT ![p] = "err"]
  /\ Goto(p, IF i \in txns THEN "lock" ELSE "idle")
  /\ UNCHANGED <<poolVars, txVars, txns, mu, lastUsed, doomed>>

Lock(p) ==
  /\ pc[p] = "lock"
  /\ mu[cur[p]] = None
  /\ mu' = [mu EXCEPT ![cur[p]] = p]
  /\ Goto(p, op[p])
  /\ UNCHANGED <<poolVars, txVars, txns, lastUsed, op, cur, res, doomed>>

\* t.lastUsed = time.Now().  The reaper reads the field under m.mu, not
\* under t.mu: a data race, whose outcomes (old or new value at any moment
\* before t.mu is released) are the interleavings of this step.
\* The statement it goes on to needs the contended row lock ("wait") or not.
Touch(p) ==
  /\ pc[p] = "exec"
  /\ lastUsed' = [lastUsed EXCEPT ![cur[p]] = "recent"]
  /\ \E l \in {"run", "wait"} : Goto(p, l)
  /\ UNCHANGED <<poolVars, txVars, txns, mu, op, cur, res, doomed>>

Unlock(p) == mu' = [mu EXCEPT ![cur[p]] = None]

\* PostgreSQL gives up the row lock of a transaction that fails or ends.
DropRow(p) == row' = IF row = cur[p] THEN 0 ELSE row

\* The statement succeeds, once no other transaction has the row it needs.
RunOk(p) ==
  /\ \/ pc[p] = "run" /\ row' = row
     \/ pc[p] = "wait" /\ row \in {0, cur[p]} /\ row' = cur[p]
  /\ status[cur[p]] = "open"
  /\ res' = [res EXCEPT ![p] = "ok"]
  /\ Unlock(p)
  /\ Return(p)
  /\ UNCHANGED <<poolVars, nextID, conn, status, txns, lastUsed, op, cur,
                 doomed>>

\* It fails: in PostgreSQL, or because ctx was done before it was sent,
\* which leaves the transaction as it was.
RunFails(p) ==
  /\ pc[p] \in {"run", "wait"}
  /\ status[cur[p]] = "open"
  /\ \/ status' = [status EXCEPT ![cur[p]] = "failed"] /\ DropRow(p)
     \/ UNCHANGED <<status, row>>
  /\ Unlock(p)
  /\ Return(p)
  /\ UNCHANGED <<poolVars, nextID, conn, txns, lastUsed, op, cur, res, doomed>>

\* pgx answers ErrTxClosed, or PostgreSQL refuses a failed transaction.
RunRefused(p) ==
  /\ pc[p] \in {"run", "wait"}
  /\ status[cur[p]] # "open"
  /\ Unlock(p)
  /\ Return(p)
  /\ UNCHANGED <<poolVars, txVars, txns, lastUsed, op, cur, res, doomed>>

\* Mutants of CommitTx: ErrTxClosed taken for success; an error returned
\* before remove.
CommitTxClosedIsOk(p) ==
  /\ pc[p] = "commit"
  /\ status' = [status EXCEPT ![cur[p]] = IF @ = "open" THEN "committed"
                                        ELSE IF @ = "failed" THEN "rolledback"
                                        ELSE @]
  /\ res' = [res EXCEPT ![p] = IF status[cur[p]] # "failed" THEN "ok" ELSE "err"]
  /\ DropRow(p)
  /\ Unlock(p)
  /\ Goto(p, "remove")
  /\ UNCHANGED <<poolVars, nextID, conn, txns, lastUsed, op, cur, doomed>>

CommitTxKeepsOnError(p) ==
  /\ pc[p] = "commit"
  /\ \E r \in BOOLEAN :
       /\ r => status[cur[p]] = "open"
       /\ status' = [status EXCEPT ![cur[p]] = IF r THEN "committed"
                                             ELSE IF @ \in Finished THEN @
                                             ELSE "rolledback"]
       /\ res' = [res EXCEPT ![p] = IF r THEN "ok" ELSE "err"]
       /\ Goto(p, IF r THEN "remove" ELSE "idle")
  /\ DropRow(p)
  /\ Unlock(p)
  /\ UNCHANGED <<poolVars, nextID, conn, txns, lastUsed, op, cur, doomed>>

\* t.tx.Commit.  An error may come after PostgreSQL committed; committing a
\* failed transaction rolls it back; a closed one answers ErrTxClosed.
CommitTx(p) ==
  /\ pc[p] = "commit"
  /\ \/ /\ status[cur[p]] = "open"
        /\ \E s \in Finished, r \in {"ok", "err"} :
             /\ r = "ok" => s = "committed"
             /\ status' = [status EXCEPT ![cur[p]] = s]
             /\ res' = [res EXCEPT ![p] = r]
     \/ /\ status[cur[p]] = "failed"
        /\ status' = [status EXCEPT ![cur[p]] = "rolledback"]
        /\ UNCHANGED res
     \/ status[cur[p]] \in Finished /\ UNCHANGED <<status, res>>
  /\ DropRow(p)
  /\ Unlock(p)
  /\ Goto(p, "remove")
  /\ UNCHANGED <<poolVars, nextID, conn, txns, lastUsed, op, cur, doomed>>

\* Mutant of RollbackTx: it returns on an error before remove.
RollbackTxKeepsOnError(p) ==
  /\ pc[p] = "rollback"
  /\ \E r \in BOOLEAN :
       /\ r => status[cur[p]] \in Unfinished
       /\ status' = [status EXCEPT ![cur[p]] = IF @ \in Unfinished
                                             THEN "rolledback" ELSE @]
       /\ res' = [res EXCEPT ![p] = IF r THEN "ok" ELSE "err"]
       /\ IF r THEN Goto(p, "remove") ELSE Return(p)
  /\ DropRow(p)
  /\ Unlock(p)
  /\ UNCHANGED <<poolVars, nextID, conn, txns, lastUsed, op, cur, doomed>>

\* t.tx.Rollback.  When it errs pgx kills the connection, which also ends
\* the transaction.
RollbackTx(p) ==
  /\ pc[p] = "rollback"
  /\ \/ /\ status[cur[p]] \in Unfinished
        /\ status' = [status EXCEPT ![cur[p]] = "rolledback"]
        /\ \E r \in {"ok", "err"} : res' = [res EXCEPT ![p] = r]
     \/ status[cur[p]] \in Finished /\ UNCHANGED <<status, res>>
  /\ DropRow(p)
  /\ Unlock(p)
  /\ Goto(p, "remove")
  /\ UNCHANGED <<poolVars, nextID, conn, txns, lastUsed, op, cur, doomed>>

\* Mutant of Remove: the connection is released whether or not the id was
\* still in the map.
RemoveAlwaysReleases(p) ==
  /\ pc[p] = "remove"
  /\ txns' = txns \ {cur[p]}
  /\ Goto(p, "release")
  /\ UNCHANGED <<poolVars, txVars, mu, lastUsed, op, cur, res, doomed>>

\* remove: the process that finds the id in the map takes it out ...
Remove(p) ==
  /\ pc[p] = "remove"
  /\ \/ /\ cur[p] \in txns
        /\ txns' = txns \ {cur[p]}
        /\ Goto(p, "release")
     \/ /\ cur[p] \notin txns
        /\ UNCHANGED txns
        /\ Return(p)
  /\ UNCHANGED <<poolVars, txVars, mu, lastUsed, op, cur, res, doomed>>

\* ... and only that one gives the connection back.
Release(p) ==
  /\ pc[p] = "release"
  /\ free' = free \cup {conn[cur[p]]}
  /\ conn' = [conn EXCEPT ![cur[p]] = None]
  /\ lastUsed' = [lastUsed EXCEPT ![cur[p]] = "recent"]
  /\ Return(p)
  /\ UNCHANGED <<hand, nextID, status, row, txns, mu, op, cur, res, doomed>>

-----------------------------------------------------------------------------
(* reapLoop and reapOnce                                                   *)

\* More than idleTimeout passes since the last use.
Expire(i) ==
  /\ i \in txns
  /\ lastUsed[i] = "recent"
  /\ lastUsed' = [lastUsed EXCEPT ![i] = "expired"]
  /\ UNCHANGED <<poolVars, txVars, txns, mu, pc, op, cur, res, doomed>>

Expired == {i \in txns : lastUsed[i] = "expired"}

\* A tick: the stale ids are listed under m.mu.
Scan ==
  /\ pc[Reaper] = "idle"
  /\ Expired # {}
  /\ doomed' = Expired
  /\ Goto(Reaper, "sweep")
  /\ UNCHANGED <<poolVars, txVars, txns, mu, lastUsed, op, cur, res>>

\* Mutant of Sweep: a stale transaction is dropped without taking t.mu and
\* rolling it back.
SweepDrops ==
  /\ pc[Reaper] = "sweep"
  /\ \E i \in doomed :
       /\ doomed' = doomed \ {i}
       /\ op' = [op EXCEPT ![Reaper] = "rollback"]
       /\ cur' = [cur EXCEPT ![Reaper] = i]
       /\ res' = [res EXCEPT ![Reaper] = "err"]
       /\ Goto(Reaper, "remove")
  /\ UNCHANGED <<poolVars, txVars, txns, mu, lastUsed>>

\* m.Rollback(ctx, id) for each listed id, in any order (map iteration); an
\* id that is no longer in the map is skipped.
Sweep ==
  /\ pc[Reaper] = "sweep"
  /\ \E i \in doomed :
       /\ doomed' = doomed \ {i}
       /\ op' = [op EXCEPT ![Reaper] = "rollback"]
       /\ cur' = [cur EXCEPT ![Reaper] = i]
       /\ res' = [res EXCEPT ![Reaper] = "err"]
       /\ Goto(Reaper, IF i \in txns THEN "lock" ELSE "sweep")
  /\ UNCHANGED <<poolVars, txVars, txns, mu, lastUsed>>

\* reapOnce returns and its locals are gone.
SweepDone ==
  /\ pc[Reaper] = "sweep"
  /\ doomed = {}
  /\ Goto(Reaper, "idle")
  /\ op' = [op EXCEPT ![Reaper] = "none"]
  /\ cur' = [cur EXCEPT ![Reaper] = 0]
  /\ res' = [res EXCEPT ![Reaper] = "err"]
  /\ UNCHANGED <<poolVars, txVars, txns, mu, lastUsed, doomed>>

-----------------------------------------------------------------------------

\* The steps a process takes on its own once a request is under way.
Step(p) ==
  \/ StartTx(p) \/ StartTxFails(p) \/ Insert(p)
  \/ Touch(p) \/ RunRefused(p)
  \/ (pc[p] = "run" /\ (RunOk(p) \/ RunFails(p)))
  \/ CommitTx(p) \/ RollbackTx(p) \/ Remove(p) \/ Release(p)

Next ==
  \/ \E p \in Thread :
       \/ CallBegin(p) \/ Acquire(p) \/ AcquireFails(p)
       \/ \E o \in {"exec", "commit", "rollback"}, i \in TxId : Get(p, o, i)
  \/ \E p \in Proc :
       \/ StartTx(p) \/ StartTxFails(p) \/ Insert(p)
       \/ Lock(p) \/ Touch(p) \/ RunOk(p) \/ RunFails(p) \/ RunRefused(p)
       \/ CommitTx(p) \/ RollbackTx(p) \/ Remove(p) \/ Release(p)
  \/ \E i \in TxId : Expire(i)
  \/ Scan \/ Sweep \/ SweepDone

Spec == Init /\ [][Next]_vars

\* Goroutines run, PostgreSQL answers a statement that waits for no lock,
\* time passes and the ticker fires (weak fairness).  Go's mutex and
\* PostgreSQL's row locks serve their waiters in turn (strong fairness).
\* Nothing is assumed of clients, of the pool, or of cancelled contexts.
Fairness ==
  /\ \A p \in Proc : WF_vars(Step(p)) /\ SF_vars(Lock(p))
  /\ \A p \in Thread : SF_vars(pc[p] = "wait" /\ RunOk(p))
  /\ \A i \in TxId : WF_vars(Expire(i))
  /\ WF_vars(Scan) /\ WF_vars(Sweep) /\ WF_vars(SweepDone)

FairSpec == Spec /\ Fairness

-----------------------------------------------------------------------------
(* Safety                                                                  *)

\* The transactions that hold a connection: in the map, about to enter it
\* (Begin), or taken out and not yet released (remove).
Holding(i) ==
  \/ i \in txns
  \/ \E p \in Proc : cur[p] = i /\ pc[p] \in {"insert", "release"}

\* No connection has two users: not two transactions, not a transaction and
\* a Begin, not a transaction and the pool.  It is remove's answer to a
\* Commit, a Rollback and the reaper ending one transaction at once.
ConnExclusive ==
  /\ \A i \in TxId : Holding(i) => conn[i] \in Conn \ free
  /\ \A i, j \in TxId :
       Holding(i) /\ Holding(j) /\ conn[i] = conn[j] => i = j
  /\ \A p \in Proc : pc[p] = "begin" =>
       /\ hand[p] \in Conn \ free
       /\ \A i \in TxId : Holding(i) => conn[i] # hand[p]
       /\ \A q \in Proc : pc[q] = "begin" /\ hand[q] = hand[p] => q = p

\* No error path of Begin, Commit or Rollback loses a connection: each is in
\* the pool, in the hands of a Begin, or held by a transaction.
NoConnLeak ==
  \A c \in Conn :
    \/ c \in free
    \/ \E p \in Proc : pc[p] = "begin" /\ hand[p] = c
    \/ \E i \in TxId : Holding(i) /\ conn[i] = c

\* A transaction PostgreSQL has not finished keeps its connection, so a
\* statement, commit or rollback that got its pointer from the map before
\* someone else removed the entry never runs on a connection that was given
\* back: pgx answers ErrTxClosed instead.
NoUseAfterRelease ==
  \A p \in Proc :
    pc[p] \in {"exec", "run", "wait", "commit", "rollback"}
      /\ status[cur[p]] \in Unfinished => cur[p] \in txns

\* A finished transaction stays in the map only while some process is on its
\* way to remove it, even when Commit or Rollback failed.
NoZombie ==
  \A i \in txns : status[i] \in Finished =>
    \E p \in Proc : pc[p] = "remove" /\ cur[p] = i

Ended(p, o) == res[p] = "ok" /\ op[p] = o

\* A success answer is true and unique: whatever the reaper and concurrent
\* requests do, Commit answers nil only if PostgreSQL committed, Rollback
\* only if it rolled back, and one transaction never has two successful ends.
OneOutcome ==
  \A p \in Proc :
    /\ Ended(p, "commit") => status[cur[p]] = "committed"
    /\ Ended(p, "rollback") => status[cur[p]] = "rolledback"
    /\ \A q \in Proc :
         /\ op[p] \in {"commit", "rollback"} /\ op[q] \in {"commit", "rollback"}
         /\ res[p] = "ok" /\ res[q] = "ok" /\ cur[p] = cur[q]
         => p = q

-----------------------------------------------------------------------------
(* Liveness                                                                *)

\* The reaper waits on t.mu for a statement that waits for a row lock of
\* another transaction: the 5-second context of reapOnce does not bound
\* t.mu.Lock().
ReaperBehindLockWait ==
  /\ pc[Reaper] = "lock"
  /\ \E p \in Thread : /\ mu[cur[Reaper]] = p /\ pc[p] = "wait"
                       /\ row \notin {0, cur[p]}

\* A transaction no client uses any more is rolled back by the reaper and
\* leaves the map (its connection goes back to the pool), unless the reaper
\* is stuck for ever behind a statement that waits for a row lock.
AbandonedReaped ==
  \A i \in TxId :
    <>[](\A p \in Thread : cur[p] = i => pc[p] = "idle")
      => <>[](i \notin txns) \/ <>[]ReaperBehindLockWait

-----------------------------------------------------------------------------
(* Refinement                                                              *)

Tablet == "tablet"
Local == INSTANCE LocalTx WITH
           Addr   <- {Tablet},
           nextID <- [a \in {Tablet} |-> nextID],
           status <- [a \in {Tablet} |-> status]

\* With all its goroutines, locks and connections, what becomes of the
\* transactions in PostgreSQL is what LocalTx says: each BEGIN has an id of
\* its own, the next one, and a transaction ends once, by a commit while it
\* is open or by a rollback.  (OneOutcome is about the answers.)
ImplementsLocalTx == Local!LocalSpec

=============================================================================
