------------------------------- MODULE PgConn -------------------------------
(***************************************************************************)
(* PostgreSQL connections of the gate: pgwire.Conn, which keeps the id of  *)
(* its transaction between messages, over the sessions of the gateway.     *)
(* One step receives a message or carries out one statement of it.  Of     *)
(* what is sent back the model keeps ReadyForQuery, by which a client      *)
(* knows that its turn has come and whether it is in a transaction.        *)
(***************************************************************************)
EXTENDS Integers, Sequences

CONSTANTS
  Conns,    \* connections
  Batches,  \* the statements of a Query message, by kind
  Extended, \* do clients use the extended query protocol too?
  MaxSess   \* bound: sessions created

Kind == {"BEGIN", "COMMIT", "ROLLBACK", "SQL"}

ASSUME PgConnAssumption ==
  MaxSess \in Nat /\ Extended \in BOOLEAN /\ Batches \subseteq Seq(Kind)

VARIABLES
  pc,       \* "startup", "receive", "query" or "closed"
  txID,     \* Conn.txID
  batch,    \* statements of the message still to be carried out
  msg,      \* kind of the last message
  sent,     \* ReadyForQuery messages sent for it
  status,   \* TxStatus of the last of them
  failed,   \* what failed in it: "none", a "sql" statement or the whole text,
            \* or a "control" statement: BEGIN, COMMIT or ROLLBACK
  inTx,     \* BEGIN was acknowledged to the client, and no end of it since
  created,  \* Manager.nextID
  session   \* session[i]: "none", "in" a transaction, "done" or "reaped"

msgVars == <<batch, msg, sent, status, failed>>
sessVars == <<created, session>>
vars == <<pc, txID, msgVars, inTx, sessVars>>

Sess == 1..MaxSess
Message == {"startup", "query", "empty", "execute", "sync", "other"}

\* Types of the state: above all, the id a connection keeps is 0 or one that
\* the session manager hands out.
TypeOK ==
  /\ pc \in [Conns -> {"startup", "receive", "query", "closed"}]
  /\ txID \in [Conns -> {0} \cup Sess]
  /\ batch \in [Conns -> Seq(Kind)]
  /\ msg \in [Conns -> Message] /\ sent \in [Conns -> Nat]
  /\ status \in [Conns -> {"I", "T"}]
  /\ failed \in [Conns -> {"none", "sql", "control"}]
  /\ inTx \in [Conns -> BOOLEAN]
  /\ created \in 0..MaxSess
  /\ session \in [Sess -> {"none", "in", "done", "reaped"}]

Init ==
  /\ pc = [c \in Conns |-> "startup"]
  /\ txID = [c \in Conns |-> 0]
  /\ batch = [c \in Conns |-> <<>>]
  /\ msg = [c \in Conns |-> "startup"]
  /\ sent = [c \in Conns |-> 0] /\ status = [c \in Conns |-> "I"]
  /\ failed = [c \in Conns |-> "none"] /\ inTx = [c \in Conns |-> FALSE]
  /\ created = 0 /\ session = [i \in Sess |-> "none"]

-----------------------------------------------------------------------------
(* Conn.Run                                                                *)

sendReadyForQuery(c) ==
  sent' = [sent EXCEPT ![c] = @ + 1] /\ status' = [status EXCEPT ![c] = "I"]

sendReadyForQueryTx(c) ==
  sent' = [sent EXCEPT ![c] = @ + 1] /\ status' = [status EXCEPT ![c] = "T"]

\* The error and, whatever the connection's transaction, an idle Ready.
sendError(c) == sendReadyForQuery(c)

\* handleStartup; an SSLRequest before it is declined and changes nothing.
Startup(c) ==
  /\ pc[c] = "startup" /\ pc' = [pc EXCEPT ![c] = "receive"]
  /\ sendReadyForQuery(c)
  /\ UNCHANGED <<txID, batch, msg, failed, inTx, sessVars>>

\* A Terminate, a read or write error or a startup message that is not known:
\* the connection closes and its transaction is left to the reapers.
Disconnect(c) ==
  /\ pc[c] # "closed" /\ pc' = [pc EXCEPT ![c] = "closed"]
  /\ UNCHANGED <<txID, msgVars, inTx, sessVars>>

\* A message that is answered with n ReadyForQuery, at once.
AnswerAtOnce(c, m, n, f) ==
  /\ pc[c] = "receive"
  /\ msg' = [msg EXCEPT ![c] = m]
  /\ sent' = [sent EXCEPT ![c] = n]
  /\ status' = IF n = 0 THEN status ELSE [status EXCEPT ![c] = "I"]
  /\ failed' = [failed EXCEPT ![c] = f]
  /\ UNCHANGED <<pc, txID, batch, inTx, sessVars>>

\* Parse, Bind, Close, and messages that are not handled.
OtherMessage(c) == Extended /\ AnswerAtOnce(c, "other", 0, "none")

\* Execute: "prepared statements not yet supported", with its own Ready.
ExecuteMessage(c) == Extended /\ AnswerAtOnce(c, "execute", 1, "sql")

SyncMessage(c) == Extended /\ AnswerAtOnce(c, "sync", 1, "none")

\* A blank Query, or one of comments: EmptyQueryResponse and no more.
EmptyQuery(c) == <<>> \in Batches /\ AnswerAtOnce(c, "empty", 0, "none")

\* A Query that cannot be parsed: sendError.
ParseFails(c) == AnswerAtOnce(c, "query", 1, "sql")

ReceiveQuery(c, b) ==
  /\ pc[c] = "receive" /\ pc' = [pc EXCEPT ![c] = "query"]
  /\ b # <<>> /\ batch' = [batch EXCEPT ![c] = b]
  /\ msg' = [msg EXCEPT ![c] = "query"]
  /\ sent' = [sent EXCEPT ![c] = 0]
  /\ failed' = [failed EXCEPT ![c] = "none"]
  /\ UNCHANGED <<txID, status, inTx, sessVars>>

-----------------------------------------------------------------------------
(* Conn.handleQuery, one statement at a time                               *)

TakeStatement(c, k) ==
  /\ pc[c] = "query" /\ batch[c] # <<>> /\ Head(batch[c]) = k
  /\ batch' = [batch EXCEPT ![c] = Tail(@)]

\* The session the connection's id leads to is in a transaction.
Live(c) == txID[c] # 0 /\ session[txID[c]] = "in"

\* Mutant of BeginNew: the id the manager hands out next.
BeginNewNextId(c) ==
  /\ TakeStatement(c, "BEGIN") /\ txID[c] = 0 /\ created < MaxSess
  /\ created' = created + 1
  /\ session' = [session EXCEPT ![created + 1] = "in"]
  /\ txID' = [txID EXCEPT ![c] = created + 2]
  /\ inTx' = [inTx EXCEPT ![c] = TRUE]
  /\ UNCHANGED <<pc, msg, sent, status, failed>>

\* handleBegin with id 0: the gateway creates a session.
BeginNew(c) ==
  /\ TakeStatement(c, "BEGIN") /\ txID[c] = 0 /\ created < MaxSess
  /\ created' = created + 1
  /\ session' = [session EXCEPT ![created + 1] = "in"]
  /\ txID' = [txID EXCEPT ![c] = created + 1]
  /\ inTx' = [inTx EXCEPT ![c] = TRUE]
  /\ UNCHANGED <<pc, msg, sent, status, failed>>

\* handleBegin with the id of a session: it stays or gets in a transaction.
BeginAgain(c) ==
  /\ TakeStatement(c, "BEGIN") /\ txID[c] # 0 /\ session[txID[c]] # "reaped"
  /\ session' = [session EXCEPT ![txID[c]] = "in"]
  /\ inTx' = [inTx EXCEPT ![c] = TRUE]
  /\ UNCHANGED <<pc, txID, msg, sent, status, failed, created>>

\* Mutant of EndOk: the id of the connection stays.
EndOkKeepsId(c, k) ==
  /\ TakeStatement(c, k) /\ Live(c)
  /\ session' = [session EXCEPT ![txID[c]] = "done"]
  /\ inTx' = [inTx EXCEPT ![c] = FALSE]
  /\ UNCHANGED <<pc, txID, msg, sent, status, failed, created>>

\* handleCommit and handleRollback: the gateway answers with id 0.
EndOk(c, k) ==
  /\ TakeStatement(c, k) /\ Live(c)
  /\ session' = [session EXCEPT ![txID[c]] = "done"]
  /\ txID' = [txID EXCEPT ![c] = 0]
  /\ inTx' = [inTx EXCEPT ![c] = FALSE]
  /\ UNCHANGED <<pc, msg, sent, status, failed, created>>

\* When the gateway refuses a BEGIN, COMMIT or ROLLBACK: there is no such
\* session or no transaction, or a COMMIT fails on a tablet, and the session
\* stays in its transaction.
Refuses(c, k) ==
  \/ k = "BEGIN" /\ txID[c] # 0 /\ session[txID[c]] = "reaped"
  \/ k \in {"COMMIT", "ROLLBACK"} /\ ~Live(c)
  \/ k = "COMMIT"

\* Mutant of ControlFails: a refused statement ends the transaction.
ControlFailsForgets(c, k) ==
  /\ TakeStatement(c, k) /\ Refuses(c, k)
  /\ sendError(c)
  /\ failed' = [failed EXCEPT ![c] = "control"]
  /\ txID' = [txID EXCEPT ![c] = 0]
  /\ UNCHANGED <<pc, msg, inTx, sessVars>>

\* sendError's own success is taken for the statement's: the next statement
\* of the message follows.
ControlFails(c, k) ==
  /\ TakeStatement(c, k) /\ Refuses(c, k)
  /\ sendError(c)
  /\ failed' = [failed EXCEPT ![c] = "control"]
  /\ UNCHANGED <<pc, txID, msg, inTx, sessVars>>

\* Any other statement runs in the session, or alone when the id is 0 ...
SqlOk(c) ==
  /\ TakeStatement(c, "SQL") /\ (txID[c] = 0 \/ Live(c))
  /\ UNCHANGED <<pc, txID, msg, sent, status, failed, inTx, sessVars>>

\* ... or fails, which ends the message.
SqlFails(c) ==
  /\ pc[c] = "query" /\ batch[c] # <<>> /\ Head(batch[c]) = "SQL"
  /\ sendError(c)
  /\ failed' = [failed EXCEPT ![c] = IF @ = "control" THEN @ ELSE "sql"]
  /\ batch' = [batch EXCEPT ![c] = <<>>]
  /\ pc' = [pc EXCEPT ![c] = "receive"]
  /\ UNCHANGED <<txID, msg, inTx, sessVars>>

\* Mutant of QueryEnds: no ReadyForQuery inside a transaction.
QueryEndsSilent(c) ==
  /\ pc[c] = "query" /\ batch[c] = <<>>
  /\ pc' = [pc EXCEPT ![c] = "receive"]
  /\ IF txID[c] # 0 THEN UNCHANGED <<sent, status>> ELSE sendReadyForQuery(c)
  /\ UNCHANGED <<txID, batch, msg, failed, inTx, sessVars>>

QueryEnds(c) ==
  /\ pc[c] = "query" /\ batch[c] = <<>>
  /\ pc' = [pc EXCEPT ![c] = "receive"]
  /\ IF txID[c] # 0 THEN sendReadyForQueryTx(c) ELSE sendReadyForQuery(c)
  /\ UNCHANGED <<txID, batch, msg, failed, inTx, sessVars>>

\* The gate's session reaper.
Reap(i) ==
  /\ session[i] \in {"in", "done"}
  /\ session' = [session EXCEPT ![i] = "reaped"]
  /\ UNCHANGED <<pc, txID, msgVars, inTx, created>>

-----------------------------------------------------------------------------

Receive(c) ==
  \/ Startup(c) \/ Disconnect(c)
  \/ OtherMessage(c) \/ ExecuteMessage(c) \/ SyncMessage(c)
  \/ EmptyQuery(c) \/ ParseFails(c)
  \/ \E b \in Batches : ReceiveQuery(c, b)

handleQuery(c) ==
  \/ BeginNew(c) \/ BeginAgain(c)
  \/ \E k \in {"COMMIT", "ROLLBACK"} : EndOk(c, k)
  \/ \E k \in {"BEGIN", "COMMIT", "ROLLBACK"} : ControlFails(c, k)
  \/ SqlOk(c) \/ SqlFails(c) \/ QueryEnds(c)

Next ==
  \/ \E c \in Conns : Receive(c) \/ handleQuery(c)
  \/ \E i \in Sess : Reap(i)

Spec == Init /\ [][Next]_vars

-----------------------------------------------------------------------------
(* Properties                                                              *)

\* The connection's id stands for a transaction of its own: not finished
\* (but perhaps reaped), and no other connection has it, closed ones
\* included.
OwnSession ==
  \A c \in Conns : txID[c] # 0 =>
    /\ session[txID[c]] \in {"in", "reaped"}
    /\ \A d \in Conns : txID[d] = txID[c] => d = c

\* The connection is in a transaction exactly while the client was told so:
\* between an acknowledged BEGIN and an acknowledged COMMIT or ROLLBACK no
\* statement runs alone, through refused COMMITs, failing statements, a
\* reaped session and any batching of statements.
AsAcknowledged == \A c \in Conns : inTx[c] <=> txID[c] # 0

\* ReadyForQuery messages a client waits for after each kind of message.
Owed(m) == IF m \in {"startup", "query", "empty", "sync"} THEN 1 ELSE 0

\* A simple Query with no refused BEGIN, COMMIT or ROLLBACK gets exactly one
\* ReadyForQuery, whichever statement fails; if none does, with the true
\* status.
PlainQueryReady ==
  \A c \in Conns :
    pc[c] = "receive" /\ msg[c] = "query" /\ failed[c] # "control" =>
      /\ sent[c] = 1
      /\ failed[c] = "none" => (status[c] = "T" <=> inTx[c])

\* Every message gets the ReadyForQuery that the protocol gives it, and no
\* second one (README.md: "PostgreSQL-wire-compatible").
ReadyOnce ==
  \A c \in Conns : pc[c] = "receive" => sent[c] <= Owed(msg[c])

\* No client is left waiting for a ReadyForQuery (README.md: "Connect with
\* any Postgres driver or client").
Answered == \A c \in Conns : pc[c] = "receive" => sent[c] >= Owed(msg[c])

\* The status of ReadyForQuery tells a client whether it is in a transaction
\* (README.md: "PostgreSQL-wire-compatible").
StatusTrue ==
  \A c \in Conns : pc[c] = "receive" => (status[c] = "T" <=> inTx[c])

\* After a ROLLBACK the connection is not in a transaction, as after any
\* ROLLBACK in PostgreSQL (README.md: "No application changes needed").
RollbackEnds ==
  [][\A c \in Conns :
       pc[c] = "query" /\ batch[c] # <<>> /\ Head(batch[c]) = "ROLLBACK"
         /\ batch'[c] = Tail(batch[c]) => txID'[c] = 0]_vars

=============================================================================
