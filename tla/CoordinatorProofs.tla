------------------------- MODULE CoordinatorProofs --------------------------
(***************************************************************************)
(* Answers, arriving requests, the reapers and the topology keep the       *)
(* invariant of Coordinator, and what it implies: for clients that send    *)
(* one request at a time and tablets that do not restart, transactions end *)
(* as their clients were told.                                             *)
(***************************************************************************)
EXTENDS CoordinatorSteps

-----------------------------------------------------------------------------
(* Answers                                                                 *)

\* A success answer to the client of session s: e for its transaction, and
\* no participants are carried on.
Answers(s, e) ==
  /\ answer' \in [Gtx -> {"none", "committed", "rolledback"}]
  /\ answer'[gtx[s]] = e /\ \A g \in Gtx : g # gtx[s] => answer'[g] = answer[g]
  /\ part' \in [Sess -> [Addr -> LocalId]] /\ part'[s] = NoParticipants
  /\ \A t \in Sess \ {s} : part'[t] = part[t]

restVars == <<localVars, sessions, created, doomed, clients, left, fateVars,
              gtx, gtxs, acked, poisoned>>

\* What the participants of a session in a transaction say of it.
LEMMA FateOf ==
  ASSUME IInv, NEW s \in Sess, gtx[s] \in Gtx, answer[gtx[s]] = "none"
  PROVE  /\ \A a \in Addr, i \in TxId : gtx[s] \in work[a][i] =>
              part[s][a] = i /\ part[s][a] # 0 /\ ~DoneIn(a, s)
         /\ \A a \in Addr : <<gtx[s], a>> \in acked =>
              part[s][a] # 0 /\ (DoneIn(a, s) => <<gtx[s], a>> \in durable)
         /\ \A a \in Addr : <<gtx[s], a>> \in lost => part[s][a] # 0 /\ ~DoneIn(a, s)
<1>1. gtx[s] # 0 /\ \A j \in TxId : j # 0
  BY MaxTxAssumption DEF TxId, Gtx
<1>2. \A a \in Addr :
        /\ \A i \in TxId : gtx[s] \in work[a][i] => part[s][a] = i
        /\ <<gtx[s], a>> \in acked => part[s][a] # 0 /\ KeptBy(a, s)
        /\ <<gtx[s], a>> \in lost =>
             part[s][a] # 0 /\ status[a][part[s][a]] = "rolledback"
  BY <1>1, Zenon DEF IInv, DataOK, FateOK
<1>3. \A a \in Addr, i \in TxId : work[a][i] # {} => status[a][i] # "committed"
  BY Zenon DEF IInv, DataOK, WorkOK, Unfinished
<1>. QED BY <1>1, <1>2, <1>3, Zenon DEF KeptBy, KeptIn, DoneIn

\* The answer is true of the tablets.
LEMMA AnswerData ==
  ASSUME IInv, NEW s \in Sess, gtx[s] \in Gtx, answer[gtx[s]] = "none", s <= created,
         NEW e \in {"committed", "rolledback"}, Answers(s, e), UNCHANGED restVars,
         state'[s] # "in", \A t \in Sess \ {s} : state'[t] = state[t],
         e = "committed" => \A b \in Addr : part[s][b] # 0 => DoneIn(b, s)
  PROVE  DataOK'
<1>0. \A j \in TxId : j \in Nat /\ j # 0
  BY MaxTxAssumption DEF TxId
<1>1. UNCHANGED <<nextID, status, sessions, created, work, durable, lost,
                  gtx, gtxs, acked, poisoned>>
  BY Zenon DEF restVars, localVars, fateVars
<1>2. /\ answer'[gtx[s]] = e /\ \A g \in Gtx : g # gtx[s] => answer'[g] = answer[g]
      /\ part'[s] = NoParticipants /\ \A t \in Sess \ {s} : part'[t] = part[t]
      /\ \A a \in Addr : part'[s][a] = 0
  BY Zenon DEF Answers, NoParticipants
<1>3. \A t \in Sess \ {s} : gtx[t] # gtx[s]
  BY DEF IInv, DataOK, SessionsOK, Gtx
<1>4. SessionsOK'
  <2>1. ASSUME NEW t \in Sess \ {s}, state[t] = "in" PROVE answer'[gtx[t]] = "none"
    <3>1. gtx[t] \in Gtx /\ answer[gtx[t]] = "none"
      <4>1. t <= created /\ answer[gtx[t]] = "none"
        BY <2>1 DEF IInv, DataOK, SessionsOK, TypeOK, Sess, BookTypes
      <4>2. gtx[t] \in 1..gtxs /\ gtxs \in 0..MaxGtx
        BY <4>1, Zenon DEF IInv, DataOK, SessionsOK, TypeOK, SessTypes
      <4>. QED BY <4>1, <4>2, CoordinatorAssumption DEF Gtx
    <3>. QED BY <3>1, <1>2, <1>3, Zenon
  <2>2. \A t \in Sess : state'[t] = "in" => answer'[gtx'[t]] = "none"
    <3>1. ASSUME NEW t \in Sess, state'[t] = "in" PROVE t # s /\ state[t] = "in"
      BY <3>1, Zenon
    <3>. QED BY <1>1, <2>1, <3>1, Zenon
  <2>3. \A t \in Sess : t > created => state'[t] = state[t] /\ part'[t] = part[t]
    <3>1. created \in Nat
      BY DEF IInv, TypeOK, BookTypes
    <3>2. \A t \in Sess : t > created => t # s
      BY <3>1 DEF Sess
    <3>. QED BY <1>2, <3>2, Zenon
  <2>4. SessionsOK
    BY Zenon DEF IInv, DataOK
  <2>. QED BY <1>1, <2>2, <2>3, <2>4 DEF SessionsOK
<1>5. FreshOK'
  <2>1. gtx[s] <= gtxs /\ gtx[s] \in Nat /\ gtxs \in Nat
    BY DEF IInv, DataOK, SessionsOK, TypeOK, Gtx, SessTypes
  <2>2. \A g \in Gtx : g > gtxs => g # gtx[s]
    BY <2>1 DEF Gtx
  <2>. QED BY <1>1, <1>2, <2>2 DEF IInv, DataOK, FreshOK
<1>6. IdsOK'
  <2>1. \A a \in Addr : nextID[a] \in Nat
    BY DEF IInv, TypeOK, TabletTypes
  <2>2. \A a \in Addr, t \in Sess : part'[t][a] = 0 \/ part'[t][a] = part[t][a]
    BY <1>2, Zenon
  <2>. QED BY <1>1, <2>1, <2>2 DEF IInv, DataOK, IdsOK
<1>7. e = "committed" =>
         /\ \A a \in Addr, i \in TxId : gtx[s] \notin work[a][i]
         /\ \A a \in Addr : <<gtx[s], a>> \in acked => <<gtx[s], a>> \in durable
         /\ \A a \in Addr : <<gtx[s], a>> \notin lost
  BY FateOf, Zenon
<1>8. WorkOK'
  <2>1. \A a \in Addr, i \in TxId : \A g \in work[a][i] : g \in Gtx
    BY Zenon DEF IInv, TypeOK, TabletTypes
  <2>2. \A a \in Addr, i \in TxId : \A g \in work[a][i] : answer'[g] # "committed"
    BY <2>1, <1>2, <1>7 DEF IInv, DataOK, WorkOK
  <2>3. \A a \in Addr, i \in TxId : \A g \in work[a][i], t \in Sess :
          part'[t][a] = i => gtx[t] = g
    BY <1>0, <1>2 DEF IInv, DataOK, WorkOK
  <2>. QED BY <1>1, <2>2, <2>3 DEF IInv, DataOK, WorkOK
<1>9. FateOK'
  <2>1. ASSUME NEW t \in Sess, gtx'[t] # 0, answer'[gtx'[t]] = "none"
        PROVE  /\ part'[t] = part[t] /\ gtx'[t] = gtx[t]
               /\ gtx[t] # 0 /\ answer[gtx[t]] = "none"
    <3>1. t # s /\ gtx[t] \in Gtx /\ gtx'[t] = gtx[t]
      BY <1>1, <1>2, <2>1, Zenon DEF IInv, TypeOK, SessTypes
    <3>. QED BY <2>1, <3>1, <1>2, <1>3, Zenon
  <2>2. ASSUME NEW t \in Sess, part'[t] = part[t], gtx'[t] = gtx[t], NEW a \in Addr
        PROVE  (DeadIn(a, t) => DeadIn(a, t)') /\ (KeptBy(a, t) => KeptBy(a, t)')
    BY <1>1, <2>2, Zenon DEF DeadIn, Dead, KeptBy, KeptIn
  <2>. QED BY <1>1, <2>1, <2>2 DEF IInv, DataOK, FateOK
<1>10. CommitPersists'
  <2>1. \A g \in Gtx : answer[g] = "committed" => \A a \in Addr :
          (<<g, a>> \in acked => <<g, a>> \in durable) /\ <<g, a>> \notin lost
    BY Zenon DEF IInv, DataOK, CommitPersists, AckedOf, DurableOf, LostOf
  <2>2. \A g \in Gtx : answer'[g] = "committed" => \A a \in Addr :
          (<<g, a>> \in acked => <<g, a>> \in durable) /\ <<g, a>> \notin lost
    BY <2>1, <1>2, <1>7, Zenon
  <2>. QED BY <1>1, <2>2, Zenon DEF CommitPersists, AckedOf, DurableOf, LostOf
<1>. QED BY <1>4, <1>5, <1>6, <1>8, <1>9, <1>10, Zenon DEF DataOK

\* The success answer of COMMIT or ROLLBACK.
LEMMA AnswerStep ==
  ASSUME IInv, NEW r \in Req, NEW R \in Request, NEW s \in Sess, Current(r, R, s),
         Return(r), NEW e \in {"committed", "rolledback"}, Answers(s, e),
         NEW f, Leaves(s, f), f # "in", UNCHANGED restVars,
         e = "committed" => \A b \in Addr : part[s][b] # 0 => DoneIn(b, s)
  PROVE  IInv'
<1>1. gtx[s] \in Gtx /\ answer[gtx[s]] = "none" /\ s <= created
  BY CurrentTx DEF Current, Serves, CarriesOK
<1>2. state'[s] # "in" /\ \A t \in Sess \ {s} : state'[t] = state[t]
  BY Zenon DEF Leaves
<1>3. DataOK'
  BY <1>1, <1>2, AnswerData, Zenon
<1>4. Moves(r, NoRequest)
  BY NoRequestTyped, Zenon DEF Return, Moves, IInv, TypeOK
<1>5. UNCHANGED <<nextID, status, sessions, created, doomed, clients, left, work,
                  durable, lost, gtx, gtxs, acked, poisoned>>
  BY Zenon DEF restVars, localVars, fateVars
<1>6. TypeOK'
  BY <1>4, <1>5, Zenon DEF IInv, TypeOK, Moves, Leaves, Answers, TabletTypes,
     BookTypes, SessTypes, FateTypes
<1>7. Stable
  BY <1>5, Zenon DEF Stable, Dead, KeptIn
<1>8. Only(r, s) /\ ReqOK(r)'
  BY <1>4, NoRequestTyped, Zenon DEF Current, Moves, Only, ReqOK
<1>9. OnlyTouches(s) /\ part'[s] = NoParticipants
  BY <1>2, <1>5 DEF OnlyTouches, Answers, IInv, TypeOK, BookTypes
<1>10. RequestsOK'
  BY <1>7, <1>8, <1>9, OthersOK, Zenon
<1>. QED BY <1>3, <1>6, <1>10, Zenon DEF IInv

\* COMMIT without participants is answered; one participant is the poisoned one.
LEMMA CountShardsStep ==
  ASSUME IInv, NEW r \in Req, CountShards(r)
  PROVE  IInv'
<1>1. PICK R \in Request, s \in Sess : Current(r, R, s)
  BY UnderWay, Zenon DEF CountShards
<1>2. /\ R.pc = "count" /\ R.at \in Addr
      /\ R.op = "commit" /\ R.g = gtx[s] /\ gtx[s] \in Gtx
  BY <1>1, CurrentTx DEF Current, CountShards, Request, Serves, CarriesOK,
     TwoPhase
<1>3. PICK P \in SUBSET Addr : P = Participants(part[s])
  BY Zenon DEF Participants
<1>4. PICK one \in BOOLEAN : one = \E b \in Addr : P = {b}
  BY Zenon
<1>5. \A b \in Addr : b \in P <=> part[s][b] # 0
  BY <1>3, Zenon DEF Participants
<1>6. \/ /\ P = {} /\ Return(r)
         /\ state' = [state EXCEPT ![s] = "committed"]
         /\ answer' = [answer EXCEPT ![gtx[s]] = "committed"]
      \/ /\ P # {} /\ Goto(r, IF one THEN "commitOne" ELSE "prepareAll")
         /\ UNCHANGED <<state, answer>>
  BY <1>1, <1>2, <1>3, <1>4, Zenon DEF Current, CountShards
<1>7. UNCHANGED <<localVars, sessions, created, part, doomed, clients,
                  left, fateVars, gtx, gtxs, acked, poisoned>>
  BY Zenon DEF CountShards
<1>8. CASE /\ P = {} /\ Return(r)
           /\ state' = [state EXCEPT ![s] = "committed"]
           /\ answer' = [answer EXCEPT ![gtx[s]] = "committed"]
  <2>1. \A b \in Addr : part[s][b] = 0
    BY <1>5, <1>8, Zenon
  <2>2. Leaves(s, "committed")
    BY <1>8, Zenon DEF Leaves, IInv, TypeOK, SessTypes
  <2>3. part[s] = NoParticipants
    BY <2>1, Zenon DEF IInv, TypeOK, NoParticipants, SessTypes
  <2>4. Answers(s, "committed")
    BY <1>2, <1>7, <1>8, <2>3, Zenon DEF Answers, IInv, TypeOK, SessTypes,
       FateTypes
  <2>5. UNCHANGED restVars
    BY <1>7, Zenon DEF restVars
  <2>. QED BY <1>1, <1>8, <2>1, <2>2, <2>4, <2>5, AnswerStep, Zenon
<1>9. CASE /\ P # {} /\ Goto(r, IF one THEN "commitOne" ELSE "prepareAll")
           /\ UNCHANGED <<state, answer>>
  <2>1. PICK l \in PC : Goto(r, l) /\ l = IF one THEN "commitOne" ELSE "prepareAll"
    BY <1>9, Zenon DEF PC
  <2>2. PICK Q \in Request :
          Moves(r, Q) /\ Q.pc = l /\ Q.op = R.op /\ Q.sess = s /\ Q.g = R.g
    BY <1>1, <2>1, Gotos
  <2>3. TabletStep(R.at) /\ UNCHANGED <<bookVars, doomed, clients, left>>
    BY <1>7, <1>9, Zenon DEF TabletStep, TabletsUnchanged, bookVars
  <2>4. CarriesOK(Q, s)' /\ JoinsOK(Q, s)'
    BY <1>1, <1>2, <1>7, <1>9, <2>1, <2>2, Zenon DEF Current, Serves,
       CarriesOK, JoinsOK, Joining, TwoPhase, RollsBack
  <2>5. ASSUME one, gtx[s] \in poisoned, NEW b \in Addr, part[s][b] # 0
        PROVE  DeadIn(b, s)
    <3>0. gtx[s] # 0 /\ answer[gtx[s]] = "none"
      BY <1>1, CurrentTx, CoordinatorAssumption DEF Gtx
    <3>1. PICK c \in Addr : part[s][c] # 0 /\ DeadIn(c, s)
      BY <2>5, <3>0, Zenon DEF IInv, DataOK, FateOK
    <3>. QED BY <1>4, <1>5, <2>5, <3>1, Zenon
  <2>6. \A b \in Addr : DeadIn(b, s) => DeadIn(b, s)'
    BY <1>7, Zenon DEF DeadIn, Dead, localVars
  <2>7. LoopsOK(Q, s)'
    BY <1>7, <2>1, <2>2, <2>5, <2>6, Zenon DEF LoopsOK, Looping
  <2>8. Serves(Q, s)'
    BY <2>4, <2>7, Zenon DEF Serves
  <2>. QED BY <1>1, <1>2, <2>2, <2>3, <2>8, CurrentStep, Zenon
<1>. QED BY <1>6, <1>8, <1>9, Zenon

\* The answer of COMMIT and ROLLBACK, and the end of BEGIN.
LEMMA ClearStep ==
  ASSUME IInv, NEW r \in Req, Clear(r)
  PROVE  IInv'
<1>1. PICK R \in Request, s \in Sess : Current(r, R, s)
  BY UnderWay, Zenon DEF Clear
<1>2. /\ R.pc = "clear" /\ R.op \in {"begin", "commit", "rollback"}
      /\ R.op # "begin" => R.g = gtx[s] /\ state[s] # "in"
      /\ R.op = "commit" => \A b \in Addr : part[s][b] # 0 => DoneIn(b, s)
      /\ R.op = "begin" => part[s] = NoParticipants
  BY <1>1, Zenon DEF Current, Clear, Request, Serves, CarriesOK, LoopsOK
<1>3. Return(r) /\ UNCHANGED restVars /\ UNCHANGED state
  BY Zenon DEF Clear, restVars
<1>4. /\ part' = [part EXCEPT ![s] = NoParticipants]
      /\ answer' = IF R.op = "begin" THEN answer
                   ELSE [answer EXCEPT ![R.g] =
                           IF R.op = "commit" THEN "committed" ELSE "rolledback"]
  BY <1>1, Zenon DEF Current, Clear
<1>5. CASE R.op = "begin"
  <2>1. part' = part /\ answer' = answer
    BY <1>2, <1>4, <1>5, Zenon DEF IInv, TypeOK, SessTypes
  <2>2. UNCHANGED <<localVars, fateVars, sessions, created, state, part, doomed, clients,
                    left, gtx, gtxs, acked, poisoned, answer>>
    BY <1>3, <2>1, Zenon DEF restVars
  <2>3. Moves(r, NoRequest)
    BY <1>3, NoRequestTyped, Zenon DEF Return, Moves, IInv, TypeOK
  <2>4. DataOK' /\ Stable
    BY <2>2, KeepsData, Zenon DEF IInv
  <2>5. TypeOK'
    BY <2>2, <2>3, Zenon DEF IInv, TypeOK, Moves, localVars, fateVars,
       TabletTypes, BookTypes, SessTypes, FateTypes
  <2>6. Only(r, s) /\ ReqOK(r)'
    BY <1>1, <2>3, NoRequestTyped, Zenon DEF Current, Moves, Only, ReqOK
  <2>7. OnlyTouches(s) /\ part'[s] = NoParticipants
    BY <1>2, <1>5, <2>2 DEF OnlyTouches, IInv, TypeOK, BookTypes
  <2>8. RequestsOK'
    BY <2>4, <2>6, <2>7, OthersOK, Zenon
  <2>. QED BY <2>4, <2>5, <2>8, Zenon DEF IInv
<1>6. CASE R.op # "begin"
  <2>1. PICK e \in {"committed", "rolledback"} :
          /\ e = IF R.op = "commit" THEN "committed" ELSE "rolledback"
          /\ answer' = [answer EXCEPT ![gtx[s]] = e]
    BY <1>2, <1>4, <1>6, Zenon
  <2>2. Answers(s, e)
    <3>1. gtx[s] \in Gtx /\ NoParticipants \in [Addr -> LocalId]
      BY <1>1, CurrentTx, Zenon DEF NoParticipants, LocalId
    <3>. QED BY <1>4, <2>1, <3>1, Zenon DEF Answers, IInv, TypeOK, BookTypes,
         SessTypes, FateTypes
  <2>3. Leaves(s, state[s]) /\ state[s] # "in"
    BY <1>2, <1>3, <1>6, Zenon DEF Leaves, IInv, TypeOK, SessTypes
  <2>4. e = "committed" => \A b \in Addr : part[s][b] # 0 => DoneIn(b, s)
    BY <1>2, <2>1, Zenon
  <2>. QED BY <1>1, <1>3, <2>2, <2>3, <2>4, AnswerStep, Zenon
<1>. QED BY <1>5, <1>6, Zenon

-----------------------------------------------------------------------------
(* Arrival of requests, reapers and topology changes                       *)

\* COMMIT, ROLLBACK and statements arrive for a session in a transaction.
LEMMA ArriveStep ==
  ASSUME IInv, Overlap = "none", NEW r \in Req, NEW s \in Sess, NEW Q \in Request,
         Arrive(r, s, Q), Q.sess = s, Q.g = gtx[s],
         \/ Q.pc = "join" /\ Q.op = "exec" /\ Q.todo = Q.targets
         \/ Q.pc = "count" /\ Q.op = "commit"
         \/ Q.pc = "rollbackAll" /\ Q.op = "rollback"
  PROVE  IInv'
<1>1. /\ \A q \in Req : req[q].pc # "idle" => req[q].sess # s
      /\ s \in sessions /\ state[s] = "in" /\ req[r].pc = "idle"
  BY QuietNone, Zenon DEF Arrive, Idle
<1>2. Moves(r, Q)
  BY Zenon DEF Arrive, Moves, IInv, TypeOK
<1>3. /\ UNCHANGED <<bookVars, doomed, clients, left>> /\ TabletsUnchanged
      /\ UNCHANGED <<created, answer, gtx, state, part>>
  BY Zenon DEF Arrive, bookVars, ghostVars, TabletsUnchanged
<1>4. PICK a \in Addr : TabletStep(a)
  BY <1>3, CoordinatorAssumption, Zenon DEF TabletStep
<1>5. s <= created /\ answer[gtx[s]] = "none"
  BY <1>1, Zenon DEF IInv, DataOK, SessionsOK
<1>6. CarriesOK(Q, s)'
  BY <1>1, <1>3, <1>5, Zenon DEF CarriesOK, Joining, TwoPhase, RollsBack
<1>7. JoinsOK(Q, s)' /\ LoopsOK(Q, s)'
  BY Zenon DEF JoinsOK, Joining, LoopsOK, Looping
<1>8. Serves(Q, s)'
  BY <1>6, <1>7, Zenon DEF Serves
<1>. QED BY <1>1, <1>2, <1>3, <1>4, <1>8, RequestStep, Zenon

\* A request arrives or is refused.
LEMMA CallStep ==
  ASSUME IInv, Overlap = "none", NEW r \in Req, Call(r)
  PROVE  IInv' \/ UNCHANGED vars
<1>0. gtx \in [Sess -> {0} \cup Gtx] /\ clients \in SUBSET Addr
  BY Zenon DEF IInv, TypeOK, BookTypes, SessTypes
<1>1. CASE BeginNew(r)
  BY <1>1, BeginNewStep, Zenon
<1>2. ASSUME NEW s \in Sess, BeginAgain(r, s) PROVE IInv'
  BY <1>2, BeginAgainStep, Zenon
<1>3. ASSUME NEW s \in Sess, CallCommit(r, s) PROVE IInv'
  <2>1. PICK Q \in Request : Q = [NoRequest EXCEPT !.pc = "count", !.op = "commit",
                                               !.sess = s, !.g = gtx[s]]
    BY <1>0, NoRequestTyped, Zenon DEF Request, PC
  <2>2. /\ Q.pc = "count" /\ Q.op = "commit"
        /\ Q.sess = s /\ Q.g = gtx[s]
    BY <2>1, Zenon DEF NoRequest
  <2>3. Arrive(r, s, Q)
    BY <2>1, <1>3, Zenon DEF CallCommit
  <2>. QED BY <2>2, <2>3, ArriveStep, Zenon
<1>4. ASSUME NEW s \in Sess, CallRollback(r, s) PROVE IInv'
  <2>1. PICK Q \in Request : Q = [NoRequest EXCEPT !.pc = "rollbackAll", !.op = "rollback",
                                               !.sess = s, !.g = gtx[s]]
    BY <1>0, NoRequestTyped, Zenon DEF Request, PC
  <2>2. /\ Q.pc = "rollbackAll" /\ Q.op = "rollback"
        /\ Q.sess = s /\ Q.g = gtx[s]
    BY <2>1, Zenon DEF NoRequest
  <2>3. Arrive(r, s, Q)
    BY <2>1, <1>4, Zenon DEF CallRollback
  <2>. QED BY <2>2, <2>3, ArriveStep, Zenon
<1>5. ASSUME NEW s \in Sess, NEW ts \in SUBSET Addr, NEW sc \in BOOLEAN,
             Execute(r, s, ts, sc)
      PROVE  IInv'
  <2>1. PICK Q \in Request : Q = [NoRequest EXCEPT !.pc = "join", !.op = "exec",
                                               !.sess = s, !.g = gtx[s],
                                               !.targets = ts, !.scatter = sc, !.todo = ts]
    BY <1>0, NoRequestTyped, Zenon DEF Request, PC
  <2>2. /\ Q.pc = "join" /\ Q.op = "exec"
        /\ Q.sess = s /\ Q.g = gtx[s] /\ Q.todo = Q.targets
    BY <2>1, Zenon DEF NoRequest
  <2>3. Arrive(r, s, Q)
    BY <2>1, <1>5, Zenon DEF Execute
  <2>. QED BY <2>2, <2>3, ArriveStep, Zenon
<1>6. ASSUME NEW s \in Sess, Refused(r, s) PROVE UNCHANGED vars
  BY <1>6, Zenon DEF Refused
<1>. QED BY <1>0, <1>1, <1>2, <1>3, <1>4, <1>5, <1>6, Zenon DEF Call

\* Requests are not concerned by the reapers and the topology.
LEMMA EnvironmentStep ==
  ASSUME IInv, MaxRestarts = 0, Environment
  PROVE  IInv'
<1>0. TypeOK /\ DataOK /\ RequestsOK /\ created \in Nat
  BY DEF IInv, TypeOK, BookTypes
<1>1. ASSUME UNCHANGED <<localVars, fateVars, created, state, part, gtx, gtxs,
                         acked, poisoned, answer, req>>,
             sessions' \subseteq sessions, doomed' \in SUBSET Sess,
             clients' \in SUBSET Addr,
             left' \in [restart : 0..MaxRestarts, sync : 0..MaxSyncs, reap : 0..MaxReaps]
      PROVE  IInv'
  <2>1. DataOK' /\ Stable
    BY <1>0, <1>1, KeepsData, Zenon
  <2>2. TypeOK'
    BY <1>0, <1>1, Zenon DEF TypeOK, localVars, fateVars, TabletTypes,
       BookTypes, SessTypes, FateTypes
  <2>3. RequestsOK'
    BY <1>0, <1>1, <2>1, RequestsFrame, Zenon
  <2>. QED BY <2>1, <2>2, <2>3, Zenon DEF IInv
<1>2. ASSUME NEW b \in {"restart", "sync", "reap"}, Spend(b)
      PROVE  /\ left' \in [restart : 0..MaxRestarts, sync : 0..MaxSyncs, reap : 0..MaxReaps]
             /\ b # "restart"
  <2>1. /\ left.restart = 0 /\ left.sync \in 0..MaxSyncs /\ left.reap \in 0..MaxReaps
        /\ left[b] > 0 /\ left' = [left EXCEPT ![b] = @ - 1]
    BY <1>0, <1>2 DEF TypeOK, Spend, BookTypes
  <2>2. CASE b = "restart"
    BY <2>1, <2>2
  <2>3. CASE b = "sync"
    <3>1. left.sync - 1 \in 0..MaxSyncs
      BY <2>1, <2>3, CoordinatorAssumption
    <3>. QED BY <1>0, <2>1, <2>3, <3>1, Zenon DEF TypeOK, TabletTypes,
         BookTypes, SessTypes, FateTypes
  <2>4. CASE b = "reap"
    <3>1. left.reap - 1 \in 0..MaxReaps
      BY <2>1, <2>4, CoordinatorAssumption
    <3>. QED BY <1>0, <2>1, <2>4, <3>1, Zenon DEF TypeOK, TabletTypes,
         BookTypes, SessTypes, FateTypes
  <2>. QED BY <2>2, <2>3, <2>4, Zenon
<1>3. CASE ListStale
  <2>1. doomed' \in SUBSET Sess
    BY <1>0, <1>3, Zenon DEF ListStale, TypeOK, BookTypes
  <2>. QED BY <1>0, <1>1, <1>2, <1>3, <2>1, Zenon DEF ListStale, ghostVars,
       TypeOK, BookTypes
<1>4. ASSUME NEW s \in Sess, RemoveStale(s) PROVE IInv'
  BY <1>0, <1>1, <1>4, Zenon DEF RemoveStale, ghostVars, TypeOK, BookTypes
<1>5. ASSUME NEW a \in Addr, SyncClients(a) PROVE IInv'
  <2>1. clients' \in SUBSET Addr
    BY <1>0, <1>5, Zenon DEF SyncClients, TypeOK, BookTypes
  <2>. QED BY <1>0, <1>1, <1>2, <1>5, <2>1, Zenon DEF SyncClients, ghostVars,
       sessVars, TypeOK, BookTypes
<1>6. ASSUME NEW a \in Addr, TabletRestarts(a) PROVE FALSE
  BY <1>2, <1>6, Zenon DEF TabletRestarts
<1>7. ASSUME NEW a \in Addr, NEW i \in TxId, TabletReaps(a, i) PROVE IInv'
  <2>1. TabletStep(a) /\ UNCHANGED bookVars /\ UNCHANGED <<doomed, clients, req, left>>
    BY <1>7, Zenon DEF TabletReaps, TabletStep, bookVars, sessVars, ghostVars
  <2>2. Stable /\ Settles /\ TabletTypes'
    BY <1>0, <2>1, TabletStepStable, TabletStepSettles, TabletStepTypes, Zenon
       DEF DataOK
  <2>3. DataOK'
    BY <1>0, <2>1, <2>2, SettlesData, Zenon
  <2>4. TypeOK'
    BY <1>0, <2>1, <2>2, Zenon DEF TypeOK, bookVars, BookTypes, SessTypes,
       FateTypes
  <2>5. RequestsOK'
    BY <1>0, <2>1, <2>2, RequestsFrame, Zenon DEF bookVars
  <2>. QED BY <2>3, <2>4, <2>5, Zenon DEF IInv
<1>. QED BY <1>3, <1>4, <1>5, <1>6, <1>7, Zenon DEF Environment

(* The invariant, and what it implies                                      *)

\* No session and no transaction exists at start.
LEMMA InitInv == Init => IInv
<1>. SUFFICES ASSUME Init PROVE IInv
  BY Zenon
<1>0. (\A j \in TxId : j \in Nat /\ j # 0) /\ 0 \in 0..MaxTx
  BY MaxTxAssumption DEF TxId
<1>1. NoParticipants \in [Addr -> LocalId] /\ \A a \in Addr : NoParticipants[a] = 0
  BY Zenon DEF NoParticipants, LocalId
<1>2. TypeOK
  <2>1. TabletTypes
    BY <1>0, Zenon DEF Init, LocalInit, NoTransactions, Status, TabletTypes
  <2>2. left \in [restart : 0..MaxRestarts, sync : 0..MaxSyncs, reap : 0..MaxReaps]
        /\ created \in 0..MaxSess /\ gtxs \in 0..MaxGtx
    BY CoordinatorAssumption DEF Init
  <2>3. SessTypes
    BY <1>1, <2>2, Zenon DEF Init, SessTypes
  <2>. QED BY <2>1, <2>2, <2>3, NoRequestTyped, Zenon DEF Init, TypeOK, BookTypes,
       FateTypes
<1>3. SessionsOK
  BY DEF Init, SessionsOK, Sess
<1>4. FreshOK
  BY <1>0, Zenon DEF Init, LocalInit, NoTransactions, FreshOK
<1>5. IdsOK
  BY <1>0, <1>1 DEF Init, LocalInit, IdsOK
<1>6. WorkOK /\ FateOK
  BY Zenon DEF Init, WorkOK, FateOK
<1>7. CommitPersists
  BY Zenon DEF Init, CommitPersists
<1>8. RequestsOK
  BY NoRequestTyped, Zenon DEF Init, RequestsOK, ReqOK
<1>. QED BY <1>2, <1>3, <1>4, <1>5, <1>6, <1>7, <1>8, Zenon DEF IInv, DataOK

\* The steps of a request, one case per action.
LEMMA StepStep ==
  ASSUME IInv, NEW r \in Req, Step(r)
  PROVE  IInv'
<1>1. CASE \E a \in Addr :
             \/ Join(r, a) \/ ReadLocalTxID(r, a) \/ Prepare(r, a)
             \/ CommitShard(r, a) \/ CommitOne(r, a) \/ RollbackShard(r, a)
  BY <1>1, JoinStep, ReadLocalTxIDStep, PrepareStep, CommitShardStep, CommitOneStep,
     RollbackShardStep, Zenon
<1>2. CASE BeginOnTablet(r) \/ BeginFails(r) \/ Joined(r)
  BY <1>2, BeginOnTabletStep, BeginFailsStep, JoinedStep, Zenon
<1>3. CASE ExecuteOne(r) \/ ScatterOne(r) \/ ScatterFails(r) \/ ScatterOk(r)
  BY <1>3, ExecuteOneStep, ScatterOneStep, ScatterFailsStep, ScatterOkStep, Zenon
<1>4. CASE CountShards(r) \/ TakeShards(r) \/ PreparedAll(r)
  BY <1>4, CountShardsStep, TakeShardsStep, PreparedAllStep, Zenon
<1>5. CASE CommitAllFailed(r) \/ Committed(r) \/ RolledBackAll(r) \/ Clear(r)
  BY <1>5, CommitAllFailedStep, CommittedStep, RolledBackAllStep, ClearStep, Zenon
<1>. QED BY <1>1, <1>2, <1>3, <1>4, <1>5, Zenon DEF Step, EndsRPC, GoesOn

\* A step that changes nothing.
LEMMA StutterInv ==
  ASSUME IInv, UNCHANGED vars
  PROVE  IInv'
<1>1. /\ UNCHANGED <<nextID, status, sessions, created, state, part, doomed, clients,
                     req, left, work, durable, lost, gtx, gtxs, acked, poisoned, answer>>
  BY Zenon DEF vars, localVars, sessVars, fateVars, ghostVars
<1>2. TypeOK'
  BY <1>1, Zenon DEF IInv, TypeOK, TabletTypes, BookTypes, SessTypes, FateTypes
<1>3. DataOK' /\ Stable
  BY <1>1, KeepsData, Zenon DEF IInv, localVars, fateVars
<1>4. RequestsOK'
  BY <1>1, <1>3, RequestsFrame, Zenon DEF IInv
<1>. QED BY <1>2, <1>3, <1>4, Zenon DEF IInv

\* Every step preserves the invariant.
LEMMA NextInv ==
  ASSUME Overlap = "none", MaxRestarts = 0, IInv, [Next]_vars
  PROVE  IInv'
BY StutterInv, StepStep, CallStep, EnvironmentStep, Zenon DEF Next

\* For clients that wait for each answer, and tablets that do not restart,
\* the invariant holds always.
THEOREM CoordinatorInvariant ==
  ASSUME Overlap = "none", MaxRestarts = 0
  PROVE  Spec => []IInv
<1>1. IInv /\ [Next]_vars => IInv'
  BY NextInv, Zenon
<1>. QED BY InitInv, <1>1, PTL DEF Spec

\* The state of gate and tablets keeps its types.
THEOREM TypeCorrect ==
  ASSUME Overlap = "none", MaxRestarts = 0
  PROVE  Spec => []TypeOK
<1>1. IInv => TypeOK
  BY Zenon DEF IInv
<1>. QED BY <1>1, CoordinatorInvariant, PTL

\* A COMMIT answered with success kept every statement that was answered
\* with success, on every shard, for any number of tablets, sessions,
\* overlapping requests of different sessions, lost answers and reaps.
THEOREM CommitsPersist ==
  ASSUME Overlap = "none", MaxRestarts = 0
  PROVE  Spec => []CommitPersists
<1>1. IInv => CommitPersists
  BY Zenon DEF IInv, DataOK
<1>. QED BY <1>1, CoordinatorInvariant, PTL

\* No local transaction ever holds the statements of two clients.
THEOREM LocalTxsNotShared ==
  ASSUME Overlap = "none", MaxRestarts = 0
  PROVE  Spec => []NoSharedLocalTx
<1>1. IInv => NoSharedLocalTx
  BY Zenon DEF IInv, DataOK, WorkOK, NoSharedLocalTx
<1>. QED BY <1>1, CoordinatorInvariant, PTL

-----------------------------------------------------------------------------
(* What is committed, and by whom                                          *)

\* A request commits g, the transaction of its session, open on a.
Commits(a, g) ==
  \E r \in Req, R \in Request, s \in Sess :
    /\ Current(r, R, s) /\ R.pc \in {"committing", "committingOne"}
    /\ part[s][a] # 0 /\ g = gtx[s] /\ status[a][part[s][a]] = "open"

\* What becomes durable in a step is committed by a request in it.
CommitsOnly ==
  /\ durable \subseteq durable'
  /\ \A g \in Gtx, a \in Addr :
       <<g, a>> \in durable' => <<g, a>> \in durable \/ Commits(a, g)

\* A commit keeps statements of the committing session only.
LEMMA CommitRPCOnly ==
  ASSUME IInv, NEW r \in Req, NEW R \in Request, NEW s \in Sess, Current(r, R, s),
         NEW a \in Addr, R.pc \in {"committing", "committingOne"}, a \in R.todo,
         NEW yes \in BOOLEAN, CommitRPC(a, req[r].snap[a], yes)
  PROVE  CommitsOnly
<1>0. R.pc \in Looping
  BY Zenon DEF Looping
<1>1. PICK i \in TxId : i = req[r].snap[a] /\ i = part[s][a]
  BY <1>0, LoopId, ZenonT(30)
<1>2. CASE CommitAt(a, i)
  <2>1. status[a][i] = "open" /\ durable' = durable \cup (work[a][i] \X {a})
    BY <1>2, Zenon DEF CommitAt, Commit
  <2>2. \A g \in work[a][i] : g = gtx[s]
    BY <1>1 DEF IInv, DataOK, WorkOK
  <2>3. i # 0
    BY MaxTxAssumption DEF TxId
  <2>4. \A g \in work[a][i] : Commits(a, g)
    BY <1>1, <2>1, <2>2, <2>3, Zenon DEF Commits
  <2>. QED BY <2>1, <2>4, Zenon DEF CommitsOnly
<1>3. CASE durable' = durable
  BY <1>3, Zenon DEF CommitsOnly
<1>. QED BY <1>1, <1>2, <1>3, Zenon DEF CommitRPC, TabletsUnchanged, fateVars,
     RollbackAt

\* Nothing but such a commit makes a statement durable.
LEMMA NextCommitsOnly ==
  ASSUME MaxRestarts = 0, IInv, [Next]_vars
  PROVE  CommitsOnly
<1>1. CASE durable' = durable
  BY <1>1, Zenon DEF CommitsOnly
<1>2. CASE UNCHANGED vars
  BY <1>1, <1>2, Zenon DEF vars, fateVars
<1>3. ASSUME NEW r \in Req, Call(r) PROVE durable' = durable
  BY <1>3, Zenon DEF Call, BeginNew, BeginAgain, Refused, CallCommit, CallRollback, Execute,
     Arrive, fateVars, vars
<1>4. CASE Environment
  <2>1. \A a \in Addr : ~TabletRestarts(a)
    BY CoordinatorAssumption DEF TabletRestarts, Spend, IInv, TypeOK, BookTypes
  <2>. QED BY <1>1, <1>4, <2>1, Zenon DEF Environment, ListStale, RemoveStale,
       SyncClients, TabletReaps, RollbackAt, fateVars
<1>5. ASSUME NEW r \in Req, Step(r) PROVE CommitsOnly
  <2>1. ASSUME NEW a \in Addr, CommitShard(r, a) PROVE CommitsOnly
    <3>1. PICK R \in Request, s \in Sess : Current(r, R, s)
      BY <2>1, UnderWay, Zenon DEF CommitShard
    <3>2. R.pc = "committing" /\ a \in R.todo
      BY <2>1, <3>1, Zenon DEF CommitShard, Current
    <3>. QED BY <2>1, <3>1, <3>2, CommitRPCOnly, Zenon DEF CommitShard
  <2>2. ASSUME NEW a \in Addr, CommitOne(r, a) PROVE CommitsOnly
    <3>1. PICK R \in Request, s \in Sess : Current(r, R, s)
      BY <2>2, UnderWay, Zenon DEF CommitOne
    <3>2. R.pc = "committingOne" /\ a \in R.todo
      BY <2>2, <3>1, Zenon DEF CommitOne, Current
    <3>3. durable' = durable \/ \E yes \in BOOLEAN : CommitRPC(a, req[r].snap[a], yes)
      BY <2>2, Zenon DEF CommitOne, TabletsUnchanged, fateVars
    <3>. QED BY <1>1, <3>1, <3>2, <3>3, CommitRPCOnly, Zenon
  <2>3. ASSUME NEW yes \in BOOLEAN, ExecRPC(r, yes), req[r].pc = "rpc",
               UNCHANGED <<part, gtx>>
        PROVE  durable' = durable
    <3>1. PICK R \in Request, s \in Sess : Current(r, R, s)
      BY <2>3, UnderWay, Zenon
    <3>2. R.pc = "rpc"
      BY <2>3, <3>1, Zenon DEF Current
    <3>3. PICK a \in Addr, i \in TxId, g \in Gtx :
            a = R.at /\ i = part[s][a] /\ g = gtx[s] /\ i # 0
      BY <3>1, <3>2, ExecRPCAt
    <3>4. StatementAt(a, i, g)
      BY <2>3, <3>1, <3>2, <3>3, ExecRPCStatement, Zenon
    <3>. QED BY <3>3, <3>4, Zenon DEF StatementAt, ExecAt, TabletsUnchanged,
         FailAt, fateVars
  <2>4. CASE ExecuteOne(r) \/ ScatterOne(r)
    BY <1>1, <2>3, <2>4, Zenon DEF ExecuteOne, ScatterOne, sessVars
  <2>5. CASE \E a \in Addr :
               Join(r, a) \/ ReadLocalTxID(r, a) \/ Prepare(r, a) \/ RollbackShard(r, a)
    BY <1>1, <2>5, Zenon DEF Join, ReadLocalTxID, Prepare, RollbackShard,
       PrepareRPC, RollbackRPC, RollbackAt, FailAt, TabletsUnchanged, fateVars
  <2>6. CASE \/ BeginOnTablet(r) \/ BeginFails(r) \/ Joined(r)
             \/ ScatterFails(r) \/ ScatterOk(r) \/ CountShards(r)
    BY <1>1, <2>6, Zenon DEF BeginOnTablet, BeginFails, BeginAt, Joined,
       ScatterFails, ScatterOk, CountShards, TabletsUnchanged, fateVars
  <2>7. CASE \/ TakeShards(r) \/ PreparedAll(r) \/ CommitAllFailed(r)
             \/ Committed(r) \/ RolledBackAll(r) \/ Clear(r)
    BY <1>1, <2>7, Zenon DEF TakeShards, PreparedAll, CommitAllFailed,
       Committed, RolledBackAll, Clear, fateVars
  <2>. QED BY <1>5, <2>1, <2>2, <2>4, <2>5, <2>6, <2>7, Zenon DEF Step, EndsRPC, GoesOn
<1>. QED BY <1>1, <1>2, <1>3, <1>4, <1>5, Zenon DEF Next

\* Nothing of a transaction is committed after its ROLLBACK was answered.
THEOREM RollbacksAreFinal ==
  ASSUME Overlap = "none", MaxRestarts = 0
  PROVE  Spec => RollbackIsFinal
<1>1. ASSUME IInv, [Next]_vars, NEW g \in Gtx, answer[g] = "rolledback"
      PROVE  DurableOf(g)' = DurableOf(g)
  <2>1. \A a \in Addr : ~Commits(a, g)
    BY <1>1, CurrentTx, Zenon DEF Commits
  <2>. QED BY <1>1, <2>1, NextCommitsOnly, Zenon DEF CommitsOnly, DurableOf
<1>2. IInv /\ [Next]_vars =>
        [\A g \in Gtx : answer[g] = "rolledback" => DurableOf(g)' = DurableOf(g)]_vars
  BY <1>1, Zenon
<1>. QED BY <1>2, CoordinatorInvariant, PTL DEF Spec, RollbackIsFinal

\* After PostgreSQL failed a statement of a transaction, no shard commits it.
THEOREM PoisonedNotCommitted ==
  ASSUME Overlap = "none", MaxRestarts = 0
  PROVE  Spec => PoisonedNeverCommits
<1>1. ASSUME IInv, [Next]_vars, NEW g \in poisoned
      PROVE  DurableOf(g)' = DurableOf(g)
  <2>1. g \in Gtx
    BY <1>1, Zenon DEF IInv, TypeOK, FateTypes
  <2>2. ASSUME NEW a \in Addr, Commits(a, g) PROVE FALSE
    <3>1. PICK r \in Req, R \in Request, s \in Sess :
            /\ Current(r, R, s) /\ R.pc \in {"committing", "committingOne"}
            /\ part[s][a] # 0 /\ g = gtx[s] /\ status[a][part[s][a]] = "open"
      BY <2>2, Zenon DEF Commits
    <3>2. DeadIn(a, s)
      BY <1>1, <3>1, Zenon DEF Current, Serves, LoopsOK
    <3>. QED BY <3>1, <3>2, Zenon DEF DeadIn, Dead
  <2>. QED BY <1>1, <2>1, <2>2, NextCommitsOnly, Zenon DEF CommitsOnly, DurableOf
<1>2. IInv /\ [Next]_vars => [\A g \in poisoned : DurableOf(g)' = DurableOf(g)]_vars
  BY <1>1, Zenon
<1>. QED BY <1>2, CoordinatorInvariant, PTL DEF Spec, PoisonedNeverCommits

=============================================================================
