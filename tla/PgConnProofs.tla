---------------------------- MODULE PgConnProofs ----------------------------
(***************************************************************************)
(* Proofs about PgConn for any number of connections and sessions and any  *)
(* messages: the transaction id of a connection is its own, it says what   *)
(* the client was told, and a plain query gets its one ReadyForQuery.      *)
(***************************************************************************)
EXTENDS PgConn, TLAPS

\* The manager hands out ids densely, and a connection's id was handed out.
Handed ==
  /\ \A i \in Sess : session[i] = "none" <=> created < i
  /\ \A c \in Conns : txID[c] <= created

\* While the statements of a message run, none but a refused BEGIN, COMMIT or
\* ROLLBACK has been answered with a ReadyForQuery; a connection that has
\* not started has seen no message.
NotYetReady ==
  \A c \in Conns :
    /\ pc[c] = "startup" => msg[c] = "startup"
    /\ pc[c] = "query" => msg[c] = "query" /\ failed[c] # "sql"
    /\ pc[c] = "query" /\ failed[c] = "none" => sent[c] = 0

\* The inductive invariant.
IInv ==
  /\ TypeOK /\ OwnSession /\ AsAcknowledged /\ PlainQueryReady
  /\ Handed /\ NotYetReady

\* No connection has a transaction at start.
LEMMA InitIInv == Init => IInv
  BY PgConnAssumption
     DEF Init, IInv, TypeOK, OwnSession, AsAcknowledged, PlainQueryReady,
         Handed, NotYetReady, Sess, Message

\* What a statement taken from a message leaves is a list of statements.
LEMMA TakeType ==
  ASSUME IInv, NEW c \in Conns, NEW k, TakeStatement(c, k)
  PROVE  batch' \in [Conns -> Seq(Kind)]
<1>1. batch[c] \in Seq(Kind) /\ batch[c] # <<>>
  BY DEF IInv, TypeOK, TakeStatement
<1>2. Tail(batch[c]) \in Seq(Kind)
  BY <1>1
<1>. QED BY <1>2 DEF IInv, TypeOK, TakeStatement

\* Steps of Conn.Run, which leave sessions and ids alone.
LEMMA ReceiveIInv ==
  ASSUME IInv, NEW c \in Conns, Receive(c)
  PROVE  IInv'
<1>. USE DEF IInv, TypeOK, Message
<1>1. CASE Startup(c)
  BY <1>1 DEF Startup, sendReadyForQuery, OwnSession, AsAcknowledged,
              PlainQueryReady, Handed, NotYetReady, sessVars
<1>2. CASE Disconnect(c)
  BY <1>2 DEF Disconnect, OwnSession, AsAcknowledged, PlainQueryReady,
              Handed, NotYetReady, sessVars, msgVars
<1>3. ASSUME NEW m \in {"other", "execute", "sync", "empty", "query"},
             NEW n \in {0, 1}, NEW f \in {"none", "sql"},
             m = "query" => n = 1 /\ f = "sql",
             AnswerAtOnce(c, m, n, f)
      PROVE  IInv'
  BY <1>3 DEF AnswerAtOnce, OwnSession, AsAcknowledged, PlainQueryReady,
              Handed, NotYetReady, sessVars
<1>4. CASE \/ OtherMessage(c) \/ ExecuteMessage(c) \/ SyncMessage(c)
           \/ EmptyQuery(c) \/ ParseFails(c)
  BY <1>3, <1>4, Zenon DEF OtherMessage, ExecuteMessage, SyncMessage, EmptyQuery,
                    ParseFails
<1>5. CASE \E b \in Batches : ReceiveQuery(c, b)
  BY <1>5, PgConnAssumption
     DEF ReceiveQuery, OwnSession, AsAcknowledged, PlainQueryReady, Handed,
         NotYetReady, sessVars
<1>. QED BY <1>1, <1>2, <1>4, <1>5 DEF Receive

\* Statements of a message that reach the sessions, and its end.
LEMMA QueryIInv ==
  ASSUME IInv, NEW c \in Conns, handleQuery(c)
  PROVE  IInv'
<1>. USE DEF IInv, TypeOK
<1>1. CASE BeginNew(c)
  <2>1. batch' \in [Conns -> Seq(Kind)]
    BY <1>1, TakeType DEF BeginNew
  <2>2. created' \in 0..MaxSess /\ created + 1 \in Sess
    BY <1>1, PgConnAssumption DEF BeginNew, Sess
  <2>3. TypeOK'
    BY <1>1, <2>1, <2>2 DEF BeginNew, TakeStatement
  <2>6. OwnSession' /\ Handed'
    BY <1>1, <2>2, PgConnAssumption DEF BeginNew, OwnSession, Handed, Sess
  <2>4. AsAcknowledged'
    BY <1>1 DEF BeginNew, AsAcknowledged
  <2>5. PlainQueryReady' /\ NotYetReady'
    BY <1>1 DEF BeginNew, TakeStatement, PlainQueryReady, NotYetReady
  <2>. QED BY <2>3, <2>4, <2>5, <2>6
<1>2. CASE BeginAgain(c)
  <2>1. batch' \in [Conns -> Seq(Kind)]
    BY <1>2, TakeType DEF BeginAgain
  <2>. QED BY <1>2, <2>1 DEF BeginAgain, TakeStatement, OwnSession,
              AsAcknowledged, PlainQueryReady, Handed, NotYetReady
<1>3. ASSUME NEW k \in {"COMMIT", "ROLLBACK"}, EndOk(c, k)
      PROVE  IInv'
  <2>1. batch' \in [Conns -> Seq(Kind)]
    BY <1>3, TakeType DEF EndOk
  <2>. QED BY <1>3, <2>1 DEF EndOk, TakeStatement, Live, OwnSession,
              AsAcknowledged, PlainQueryReady, Handed, NotYetReady
<1>4. ASSUME NEW k \in {"BEGIN", "COMMIT", "ROLLBACK"}, ControlFails(c, k)
      PROVE  IInv'
  <2>1. batch' \in [Conns -> Seq(Kind)]
    BY <1>4, TakeType DEF ControlFails
  <2>. QED BY <1>4, <2>1 DEF ControlFails, TakeStatement, sendError,
              sendReadyForQuery, OwnSession, AsAcknowledged, PlainQueryReady,
              Handed, NotYetReady, sessVars
<1>5. CASE SqlOk(c)
  <2>1. batch' \in [Conns -> Seq(Kind)]
    BY <1>5, TakeType DEF SqlOk
  <2>. QED BY <1>5, <2>1 DEF SqlOk, TakeStatement, OwnSession,
              AsAcknowledged, PlainQueryReady, Handed, NotYetReady, sessVars
<1>6. CASE SqlFails(c)
  <2>1. batch' \in [Conns -> Seq(Kind)]
    BY <1>6 DEF SqlFails
  <2>2. TypeOK'
    BY <1>6, <2>1 DEF SqlFails, sendError, sendReadyForQuery, sessVars
  <2>3. OwnSession' /\ Handed' /\ AsAcknowledged'
    BY <1>6 DEF SqlFails, OwnSession, Handed, AsAcknowledged, sessVars
  <2>4. /\ pc[c] = "query" /\ failed[c] # "sql"
        /\ failed[c] = "none" => sent[c] = 0
    BY <1>6 DEF SqlFails, NotYetReady
  <2>5. /\ failed \in [Conns -> {"none", "sql", "control"}]
        /\ pc' = [pc EXCEPT ![c] = "receive"] /\ msg' = msg /\ inTx' = inTx
        /\ failed' = [failed EXCEPT ![c] = IF @ = "control" THEN @ ELSE "sql"]
        /\ sent' = [sent EXCEPT ![c] = @ + 1]
        /\ status' = [status EXCEPT ![c] = "I"]
    BY <1>6 DEF SqlFails, sendError, sendReadyForQuery
  <2>6. PlainQueryReady' /\ NotYetReady'
    BY <2>4, <2>5 DEF PlainQueryReady, NotYetReady
  <2>. QED BY <2>2, <2>3, <2>6
<1>7. CASE QueryEnds(c)
  <2>1. sent' = [sent EXCEPT ![c] = @ + 1]
    BY <1>7 DEF QueryEnds, sendReadyForQuery, sendReadyForQueryTx
  <2>2. status' = [status EXCEPT ![c] = IF txID[c] # 0 THEN "T" ELSE "I"]
    BY <1>7 DEF QueryEnds, sendReadyForQuery, sendReadyForQueryTx
  <2>3. TypeOK'
    BY <1>7, <2>1, <2>2 DEF QueryEnds, sessVars
  <2>4. OwnSession' /\ Handed' /\ AsAcknowledged'
    BY <1>7 DEF QueryEnds, OwnSession, Handed, AsAcknowledged, sessVars
  <2>5. /\ pc[c] = "query" /\ failed[c] # "sql"
        /\ failed[c] = "none" => sent[c] = 0
        /\ inTx[c] <=> txID[c] # 0
    BY <1>7 DEF QueryEnds, NotYetReady, AsAcknowledged
  <2>6. /\ failed \in [Conns -> {"none", "sql", "control"}]
        /\ pc' = [pc EXCEPT ![c] = "receive"] /\ msg' = msg /\ inTx' = inTx
        /\ failed' = failed
    BY <1>7 DEF QueryEnds
  <2>7. PlainQueryReady' /\ NotYetReady'
    BY <2>1, <2>2, <2>5, <2>6 DEF PlainQueryReady, NotYetReady
  <2>. QED BY <2>3, <2>4, <2>7
<1>. QED BY <1>1, <1>2, <1>3, <1>4, <1>5, <1>6, <1>7 DEF handleQuery

\* The reaper of the sessions.
LEMMA ReapIInv ==
  ASSUME IInv, NEW i \in Sess, Reap(i)
  PROVE  IInv'
  BY DEF IInv, TypeOK, Reap, OwnSession, AsAcknowledged, PlainQueryReady,
         Handed, NotYetReady, msgVars

\* Every step preserves the invariant.
LEMMA NextIInv == IInv /\ [Next]_vars => IInv'
<1>. SUFFICES ASSUME IInv, [Next]_vars PROVE IInv'
  OBVIOUS
<1>1. CASE UNCHANGED vars
  BY <1>1 DEF vars, msgVars, sessVars, IInv, TypeOK, OwnSession,
              AsAcknowledged, PlainQueryReady, Handed, NotYetReady
<1>2. CASE Next
  BY <1>2, ReceiveIInv, QueryIInv, ReapIInv DEF Next
<1>. QED BY <1>1, <1>2

\* The invariant holds in every reachable state.
LEMMA Invariant == Spec => []IInv
  BY InitIInv, NextIInv, PTL DEF Spec

-----------------------------------------------------------------------------

\* Conn and the sessions keep their types for any messages.
THEOREM TypeCorrect == Spec => []TypeOK
  BY Invariant, PTL DEF IInv

\* No two connections ever share a transaction, and the id of a connection
\* names one that has not ended (conn.go: txID from BEGIN to COMMIT).
THEOREM IdsAreOwn == Spec => []OwnSession
  BY Invariant, PTL DEF IInv

\* A connection runs statements in a transaction exactly while its client
\* was told that it is in one.
THEOREM Acknowledged == Spec => []AsAcknowledged
  BY Invariant, PTL DEF IInv

\* A query in which no BEGIN, COMMIT or ROLLBACK is refused is answered with
\* one ReadyForQuery, and a successful one with the true status.
THEOREM OneReady == Spec => []PlainQueryReady
  BY Invariant, PTL DEF IInv

=============================================================================
