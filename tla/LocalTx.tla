------------------------------- MODULE LocalTx -------------------------------
(***************************************************************************)
(* What tablets promise the gate about local transactions, with no threads,*)
(* locks or connections: each tablet numbers its transactions from 1, a    *)
(* transaction is open until it is committed or rolled back, once and for  *)
(* all, and only an open one can commit.  TxManager implements this for    *)
(* one tablet; Coordinator drives several tablets through it.              *)
(***************************************************************************)
EXTENDS Integers

CONSTANTS
  Addr,    \* the tablets, by the address they serve on
  MaxTx    \* bound: local transactions one tablet process may begin

ASSUME MaxTxAssumption == MaxTx \in Nat \ {0}

VARIABLES
  nextID,  \* nextID[a]: the last transaction id tablet a handed out
  status   \* status[a][i]: what PostgreSQL knows of transaction i of a

localVars == <<nextID, status>>

TxId == 1..MaxTx

\* "failed": a statement failed and PostgreSQL waits for the rollback.
Unfinished == {"open", "failed"}
Finished   == {"committed", "rolledback"}
Status     == {"absent"} \cup Unfinished \cup Finished

NoTransactions == [i \in TxId |-> "absent"]

LocalInit ==
  /\ nextID = [a \in Addr |-> 0]
  /\ status = [a \in Addr |-> NoTransactions]

Begin(a) ==
  /\ nextID[a] < MaxTx
  /\ nextID' = [nextID EXCEPT ![a] = @ + 1]
  /\ status' = [status EXCEPT ![a][nextID[a] + 1] = "open"]

\* A statement fails inside the transaction.
Fail(a, i) ==
  /\ status[a][i] = "open"
  /\ status' = [status EXCEPT ![a][i] = "failed"]
  /\ UNCHANGED nextID

Commit(a, i) ==
  /\ status[a][i] = "open"
  /\ status' = [status EXCEPT ![a][i] = "committed"]
  /\ UNCHANGED nextID

\* By request, by the idle reaper, or because a commit went wrong.
Rollback(a, i) ==
  /\ status[a][i] \in Unfinished
  /\ status' = [status EXCEPT ![a][i] = "rolledback"]
  /\ UNCHANGED nextID

\* The tablet process dies and comes back: its open transactions are lost
\* with their connections, and the new process counts from 1 again.
Restart(a) ==
  /\ nextID' = [nextID EXCEPT ![a] = 0]
  /\ status' = [status EXCEPT ![a] = NoTransactions]

LocalNext ==
  \E a \in Addr :
    \/ Begin(a)
    \/ Restart(a)
    \/ \E i \in TxId : Fail(a, i) \/ Commit(a, i) \/ Rollback(a, i)

LocalSpec == LocalInit /\ [][LocalNext]_localVars

=============================================================================
