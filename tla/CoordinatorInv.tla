--------------------------- MODULE CoordinatorInv ---------------------------
(***************************************************************************)
(* The inductive invariant of Coordinator for clients that send one        *)
(* request at a time and tablets that do not restart, the proof that the   *)
(* steps of the tablets keep what it says of transactions, and that a      *)
(* statement that joins tablets keeps it.                                  *)
(***************************************************************************)
EXTENDS Coordinator, TLAPS

-----------------------------------------------------------------------------
(* Sessions and transactions                                               *)

\* Statements in it are lost, or will be.
Dead(a, i) == status[a][i] \in {"failed", "rolledback"}

\* A statement of g on a that was answered: it is in local transaction i, or
\* was committed or lost with it.
KeptIn(a, i, g) ==
  /\ status[a][i] \in Unfinished => g \in work[a][i]
  /\ status[a][i] = "committed" => <<g, a>> \in durable

\* The same, of the local transaction of session s on a.
DeadIn(a, s) == Dead(a, part[s][a])
DoneIn(a, s) == status[a][part[s][a]] = "committed"
KeptBy(a, s) == KeptIn(a, part[s][a], gtx[s])

\* A session that was created carries a client transaction of its own, which
\* is not answered while the session is in it.
SessionsOK ==
  \A s \in Sess :
    /\ s \in sessions => s <= created
    /\ s > created => gtx[s] = 0 /\ state[s] = "idle" /\ part[s] = NoParticipants
    /\ s <= created => gtx[s] \in 1..gtxs
    /\ state[s] = "in" => answer[gtx[s]] = "none"
    /\ \A t \in Sess : gtx[s] = gtx[t] /\ gtx[s] # 0 => s = t

\* Nothing is known of transactions that have not begun.
FreshOK ==
  /\ \A g \in Gtx : g > gtxs =>
       /\ answer[g] = "none" /\ g \notin poisoned
       /\ \A a \in Addr : <<g, a>> \notin acked \cup lost
       /\ \A a \in Addr, i \in TxId : g \notin work[a][i]
  /\ \A a \in Addr, i \in TxId : i > nextID[a] => status[a][i] = "absent"

\* Each id in ShardTxIDs was handed out to its session.
IdsOK ==
  \A a \in Addr, s \in Sess :
    /\ part[s][a] <= nextID[a]
    /\ \A t \in Sess : part[s][a] = part[t][a] /\ part[s][a] # 0 => s = t

\* Statements lie in unfinished local transactions, those of one client
\* transaction in each, which is that of the session that holds its id.
WorkOK ==
  \A a \in Addr, i \in TxId : \A g \in work[a][i] :
    /\ status[a][i] \in Unfinished
    /\ answer[g] # "committed"
    /\ \A h \in work[a][i] : h = g
    /\ \A s \in Sess : part[s][a] = i => gtx[s] = g

\* What a session's participants say of a transaction that is not answered.
FateOK ==
  \A s \in Sess : gtx[s] # 0 /\ answer[gtx[s]] = "none" =>
    /\ \A a \in Addr :
         /\ \A i \in TxId : gtx[s] \in work[a][i] => part[s][a] = i
         /\ <<gtx[s], a>> \in acked => part[s][a] # 0 /\ KeptBy(a, s)
         /\ <<gtx[s], a>> \in lost =>
              part[s][a] # 0 /\ status[a][part[s][a]] = "rolledback"
    /\ gtx[s] \in poisoned => \E a \in Addr : part[s][a] # 0 /\ DeadIn(a, s)

DataOK ==
  SessionsOK /\ FreshOK /\ IdsOK /\ WorkOK /\ FateOK /\ CommitPersists

-----------------------------------------------------------------------------
(* Requests                                                                *)

Joining    == {"join", "begin", "send", "rpc"}
TwoPhase   == {"count", "prepareAll", "preparing", "commitAll", "committing",
               "commitOne", "committingOne"}
RollsBack  == {"rollbackAll", "rollingBack"}
Looping    == {"preparing", "committing", "committingOne", "rollingBack"}

\* The locals of a request R are those of the transaction of its session s.
CarriesOK(R, s) ==
  /\ s <= created
  /\ answer[gtx[s]] = "none"
  /\ R.op # "begin" => R.g = gtx[s]
  /\ R.pc \in Joining  => R.op = "exec"
  /\ R.pc \in TwoPhase => R.op = "commit"
  /\ R.pc \in RollsBack => R.op # "begin"
  /\ R.pc = "clear" => R.op # "exec"
  /\ R.pc # "clear" => state[s] = "in"
  /\ R.pc = "clear" /\ R.op # "begin" => state[s] # "in"

\* The tablets a statement has joined participate, it goes to its own
\* transaction there, and without an error so far it was kept by the tablets
\* it is done with.
JoinsOK(R, s) ==
  /\ R.pc \in Joining => R.todo \subseteq R.targets
  /\ R.pc \in {"join", "begin"} =>
       \A a \in R.targets \ R.todo : part[s][a] # 0
  /\ R.pc = "begin" => R.at \in R.todo /\ part[s][R.at] = 0
  /\ R.pc \in {"send", "rpc"} => \A a \in R.targets : part[s][a] # 0
  /\ R.pc = "rpc" =>
       /\ R.at \in R.targets
       /\ R.snap[R.at] = part[s][R.at]
  /\ R.pc \in {"send", "rpc"} /\ ~R.bad =>
       \A a \in R.targets \ R.todo :
         \/ R.pc = "rpc" /\ a = R.at
         \/ KeptBy(a, s)

\* The loops of COMMIT and ROLLBACK are over the participants; shards that
\* are done with voted or committed, and a poisoned transaction does not get
\* past the votes.
LoopsOK(R, s) ==
  /\ R.pc \in Looping =>
       R.snap = part[s] /\ \A a \in R.todo : part[s][a] # 0
  /\ R.pc = "preparing" /\ ~R.bad /\ gtx[s] \in poisoned =>
       \E a \in R.todo : DeadIn(a, s)
  /\ R.pc \in {"commitAll", "committing"} => gtx[s] \notin poisoned
  /\ R.pc \in {"commitOne", "committingOne"} /\ gtx[s] \in poisoned =>
       \A a \in Addr : part[s][a] # 0 => DeadIn(a, s)
  /\ R.pc \in {"committing", "committingOne"} /\ ~R.bad =>
       \A a \in Addr \ R.todo : part[s][a] # 0 => DoneIn(a, s)
  /\ R.pc = "clear" /\ R.op = "commit" =>
       \A a \in Addr : part[s][a] # 0 => DoneIn(a, s)
  /\ R.pc = "clear" /\ R.op = "begin" => part[s] = NoParticipants

\* What holds of a request under way.
Serves(R, s) == CarriesOK(R, s) /\ JoinsOK(R, s) /\ LoopsOK(R, s)

ReqOK(r) == req[r].pc = "idle" \/ Serves(req[r], req[r].sess)

\* A session has one request at a time, and participants only while it is in
\* a transaction or about to clear them.
RequestsOK ==
  /\ \A r \in Req : ReqOK(r)
  /\ \A r, q \in Req :
       req[r].pc # "idle" /\ req[q].pc # "idle" /\ req[r].sess = req[q].sess
         => r = q
  /\ \A s \in Sess : state[s] # "in" =>
       \/ part[s] = NoParticipants
       \/ \E r \in Req : req[r].pc = "clear" /\ req[r].sess = s

\* The inductive invariant.
IInv == TypeOK /\ DataOK /\ RequestsOK

-----------------------------------------------------------------------------
(* The tablets                                                             *)

\* What a step does to the tablets, the statement of a request aside.
TabletStep(a) ==
  \/ \E i \in TxId : CommitAt(a, i) \/ RollbackAt(a, i) \/ FailAt(a, i)
  \/ BeginAt(a)
  \/ TabletsUnchanged

\* What is never undone in the local transactions that were begun.
Stable ==
  \A a \in Addr, i \in TxId : i <= nextID[a] =>
    /\ status[a][i] = "committed" => status'[a][i] = "committed"
    /\ Dead(a, i) => Dead(a, i)'
    /\ \A g \in Gtx : KeptIn(a, i, g) => KeptIn(a, i, g)'

\* A step of a tablet keeps the types of local transactions.
LEMMA TabletStepTypes ==
  ASSUME TypeOK, NEW a \in Addr, TabletStep(a)
  PROVE  TabletTypes'
<1>1. TabletTypes
  BY Zenon DEF TypeOK, SessTypes
<1>2. CASE BeginAt(a)
  <2>1. nextID[a] + 1 \in TxId /\ nextID[a] + 1 \in 0..MaxTx
    BY <1>1, <1>2, MaxTxAssumption DEF BeginAt, Begin, TabletTypes, TxId
  <2>. QED BY <1>1, <1>2, <2>1, Zenon DEF BeginAt, Begin, TabletTypes,
       fateVars, Status, Unfinished
<1>3. CASE TabletsUnchanged
  BY <1>1, <1>3, Zenon DEF TabletsUnchanged, TabletTypes, localVars, fateVars
<1>4. ASSUME NEW i \in TxId, CommitAt(a, i) PROVE TabletTypes'
  BY <1>1, <1>4 DEF CommitAt, Commit, TabletTypes, Status, Finished
<1>5. ASSUME NEW i \in TxId, RollbackAt(a, i) PROVE TabletTypes'
  BY <1>1, <1>5 DEF RollbackAt, Rollback, TabletTypes, Status, Finished
<1>6. ASSUME NEW i \in TxId, FailAt(a, i) PROVE TabletTypes'
  BY <1>1, <1>6, Zenon DEF FailAt, Fail, TabletTypes, Status, Unfinished,
     fateVars
<1>. QED BY <1>2, <1>3, <1>4, <1>5, <1>6, Zenon DEF TabletStep

\* What was certain of a local transaction stays so.
LEMMA TabletStepStable ==
  ASSUME TypeOK, NEW a \in Addr, TabletStep(a)
  PROVE  Stable
<1>1. TabletTypes
  BY Zenon DEF TypeOK
<1>. SUFFICES ASSUME NEW b \in Addr, NEW j \in TxId, j <= nextID[b]
     PROVE  /\ status[b][j] = "committed" => status'[b][j] = "committed"
            /\ Dead(b, j) => Dead(b, j)'
            /\ \A g \in Gtx : KeptIn(b, j, g) => KeptIn(b, j, g)'
  BY Zenon DEF Stable
<1>2. CASE BeginAt(a)
  <2>1. j # nextID[b] + 1
    BY <1>1 DEF TabletTypes, TxId
  <2>2. status'[b][j] = status[b][j]
    BY <1>1, <1>2, <2>1, Zenon DEF BeginAt, Begin, TabletTypes
  <2>. QED BY <1>2, <2>2, Zenon DEF BeginAt, fateVars, Dead, KeptIn
<1>3. CASE TabletsUnchanged
  BY <1>3, Zenon DEF TabletsUnchanged, localVars, fateVars, Dead, KeptIn
<1>4. ASSUME NEW i \in TxId, CommitAt(a, i)
      PROVE  /\ status[b][j] = "committed" => status'[b][j] = "committed"
             /\ Dead(b, j) => Dead(b, j)'
             /\ \A g \in Gtx : KeptIn(b, j, g) => KeptIn(b, j, g)'
  BY <1>1, <1>4, Zenon DEF CommitAt, Commit, TabletTypes, Dead, KeptIn,
     Unfinished
<1>5. ASSUME NEW i \in TxId, RollbackAt(a, i)
      PROVE  /\ status[b][j] = "committed" => status'[b][j] = "committed"
             /\ Dead(b, j) => Dead(b, j)'
             /\ \A g \in Gtx : KeptIn(b, j, g) => KeptIn(b, j, g)'
  BY <1>1, <1>5, Zenon DEF RollbackAt, Rollback, TabletTypes, Dead, KeptIn,
     Unfinished
<1>6. ASSUME NEW i \in TxId, FailAt(a, i)
      PROVE  /\ status[b][j] = "committed" => status'[b][j] = "committed"
             /\ Dead(b, j) => Dead(b, j)'
             /\ \A g \in Gtx : KeptIn(b, j, g) => KeptIn(b, j, g)'
  BY <1>1, <1>6, Zenon DEF FailAt, Fail, TabletTypes, Dead, KeptIn, Unfinished,
     fateVars
<1>. QED BY <1>2, <1>3, <1>4, <1>5, <1>6, Zenon DEF TabletStep

\* The same, of the local transaction of a session.
LEMMA StableIn ==
  ASSUME Stable, NEW s \in Sess, NEW a \in Addr, part[s][a] \in TxId,
         part[s][a] <= nextID[a], part'[s][a] = part[s][a], gtx'[s] = gtx[s]
  PROVE  /\ DoneIn(a, s) => DoneIn(a, s)'
         /\ DeadIn(a, s) => DeadIn(a, s)'
         /\ gtx[s] \in Gtx /\ KeptBy(a, s) => KeptBy(a, s)'
<1>1. PICK i \in TxId : i = part[s][a] /\ i = part'[s][a] /\ i <= nextID[a]
  BY Zenon
<1>2. /\ status[a][i] = "committed" => status'[a][i] = "committed"
      /\ Dead(a, i) => Dead(a, i)'
      /\ \A g \in Gtx : KeptIn(a, i, g) => KeptIn(a, i, g)'
  BY <1>1, Zenon DEF Stable
<1>. QED BY <1>1, <1>2, Zenon DEF DoneIn, DeadIn, Dead, KeptBy, KeptIn

\* Local transactions only end, and statements leave them only then.
Settles ==
  /\ durable \subseteq durable'
  /\ \A b \in Addr, g \in Gtx : <<g, b>> \in lost' =>
       \/ <<g, b>> \in lost
       \/ \E j \in TxId : g \in work[b][j] /\ status'[b][j] = "rolledback"
  /\ \A b \in Addr : nextID[b] <= nextID'[b]
  /\ \A b \in Addr, j \in TxId :
       /\ j > nextID'[b] => status'[b][j] = "absent"
       /\ status[b][j] = "rolledback" => status'[b][j] = "rolledback"
       /\ work'[b][j] \subseteq work[b][j]
       /\ work'[b][j] # {} => status'[b][j] \in Unfinished

\* It ends local transactions and moves their statements with them.
LEMMA TabletStepSettles ==
  ASSUME TypeOK, FreshOK, WorkOK, NEW a \in Addr, TabletStep(a)
  PROVE  Settles
<1>1. TabletTypes
  BY Zenon DEF TypeOK, BookTypes
<1>2. \A b \in Addr, j \in TxId :
        /\ j > nextID[b] => status[b][j] = "absent"
        /\ work[b][j] # {} => status[b][j] \in Unfinished
  BY Zenon DEF FreshOK, WorkOK
<1>3. CASE BeginAt(a)
  <2>1. /\ \A b \in Addr : nextID'[b] = IF b = a THEN nextID[b] + 1 ELSE nextID[b]
        /\ \A b \in Addr, j \in TxId : status'[b][j] =
             IF b = a /\ j = nextID[b] + 1 THEN "open" ELSE status[b][j]
        /\ UNCHANGED <<work, durable, lost>>
    BY <1>1, <1>3, Zenon DEF BeginAt, Begin, TabletTypes, fateVars
  <2>2. \A b \in Addr : nextID[b] \in Nat
    BY <1>1 DEF TabletTypes
  <2>. QED BY <1>2, <2>1, <2>2 DEF Settles, TxId, Unfinished
<1>4. CASE TabletsUnchanged
  BY <1>1, <1>2, <1>4 DEF TabletsUnchanged, Settles, localVars, fateVars,
     TabletTypes
<1>5. ASSUME NEW i \in TxId, CommitAt(a, i) PROVE Settles
  BY <1>1, <1>2, <1>5 DEF CommitAt, Commit, TabletTypes, Settles, Unfinished
<1>6. ASSUME NEW i \in TxId, RollbackAt(a, i) PROVE Settles
  BY <1>1, <1>2, <1>6 DEF RollbackAt, Rollback, TabletTypes, Settles,
     Unfinished
<1>7. ASSUME NEW i \in TxId, FailAt(a, i) PROVE Settles
  BY <1>1, <1>2, <1>7 DEF FailAt, Fail, TabletTypes, Settles, Unfinished,
     fateVars
<1>. QED BY <1>3, <1>4, <1>5, <1>6, <1>7, Zenon DEF TabletStep

\* What DataOK is about, the tablets aside.
bookVars == <<sessions, created, state, part, gtx, gtxs, acked, poisoned, answer>>

\* Such a step keeps what is known of sessions and transactions.
LEMMA SettlesData ==
  ASSUME TypeOK, DataOK, Stable, Settles, TabletTypes', UNCHANGED bookVars
  PROVE  DataOK'
<1>. USE DEF bookVars
<1>0. \A j \in TxId : j \in Nat /\ j # 0
  BY MaxTxAssumption DEF TxId
<1>1. /\ \A s \in Sess : gtx[s] \in {0} \cup Gtx
      /\ \A s \in Sess, b \in Addr : part[s][b] # 0 => part[s][b] \in TxId
      /\ \A b \in Addr : nextID[b] \in Nat
      /\ \A b \in Addr, j \in TxId : work[b][j] \subseteq Gtx
  BY DEF TypeOK, LocalId, TabletTypes, SessTypes
<1>2. \A s \in Sess, b \in Addr : part[s][b] <= nextID[b]
  BY Zenon DEF DataOK, IdsOK
<1>3. SessionsOK'
  BY Zenon DEF DataOK, SessionsOK
<1>4. FreshOK'
  BY DEF DataOK, FreshOK, Settles
<1>5. IdsOK'
  <2>1. \A b \in Addr : nextID[b] <= nextID'[b] /\ nextID'[b] \in Int
    BY DEF Settles, TabletTypes
  <2>2. \A s \in Sess, b \in Addr : part[s][b] \in Nat
    BY <1>0, <1>1
  <2>. QED BY <2>1, <2>2, <1>1, <1>2 DEF DataOK, IdsOK
<1>6. WorkOK'
  BY DEF DataOK, WorkOK, Settles
<1>7. FateOK'
  <2>1. \A s \in Sess, b \in Addr : part[s][b] # 0 =>
          /\ DeadIn(b, s) => DeadIn(b, s)'
          /\ gtx[s] # 0 /\ KeptBy(b, s) => KeptBy(b, s)'
    <3>1. \A s \in Sess : gtx[s] # 0 => gtx[s] \in Gtx
      BY <1>1, Zenon
    <3>. QED BY <3>1, <1>1, <1>2, StableIn, Zenon
  <2>2. \A b \in Addr, j \in TxId : \A g \in work'[b][j] : g \in work[b][j]
    BY Zenon DEF Settles
  <2>3. \A s \in Sess, b \in Addr :
          gtx[s] # 0 /\ answer[gtx[s]] = "none" /\ <<gtx[s], b>> \in lost' =>
            part[s][b] # 0 /\ status'[b][part[s][b]] = "rolledback"
    <3>. SUFFICES ASSUME NEW s \in Sess, NEW b \in Addr, gtx[s] # 0,
                         answer[gtx[s]] = "none", <<gtx[s], b>> \in lost'
                  PROVE  part[s][b] # 0 /\ status'[b][part[s][b]] = "rolledback"
      BY Zenon
    <3>1. CASE <<gtx[s], b>> \in lost
      BY <3>1, <1>1, Zenon DEF Settles, DataOK, FateOK
    <3>2. CASE <<gtx[s], b>> \notin lost
      <4>1. PICK j \in TxId : gtx[s] \in work[b][j] /\ status'[b][j] = "rolledback"
        BY <3>2, <1>1, Zenon DEF Settles
      <4>2. part[s][b] = j
        BY <4>1, Zenon DEF DataOK, FateOK
      <4>. QED BY <4>1, <4>2, <1>0, Zenon
    <3>. QED BY <3>1, <3>2, Zenon
  <2>. QED BY <2>1, <2>2, <2>3 DEF DataOK, FateOK
<1>8. CommitPersists'
  <2>. SUFFICES ASSUME NEW g \in Gtx, answer[g] = "committed", NEW b \in Addr
       PROVE (<<g, b>> \in acked => <<g, b>> \in durable') /\ <<g, b>> \notin lost'
    BY Zenon DEF CommitPersists, AckedOf, DurableOf, LostOf
  <2>1. (<<g, b>> \in acked => <<g, b>> \in durable) /\ <<g, b>> \notin lost
    BY Zenon DEF DataOK, CommitPersists, AckedOf, DurableOf, LostOf
  <2>2. \A j \in TxId : g \notin work[b][j]
    BY Zenon DEF DataOK, WorkOK
  <2>. QED BY <2>1, <2>2, Zenon DEF Settles
<1>. QED BY <1>3, <1>4, <1>5, <1>6, <1>7, <1>8, Zenon DEF DataOK

-----------------------------------------------------------------------------
(* The requests                                                            *)

\* Session s is not touched, and its transaction is not poisoned by the step.
Untouched(s) ==
  /\ part'[s] = part[s] /\ gtx'[s] = gtx[s] /\ state'[s] = state[s]
  /\ answer'[gtx[s]] = answer[gtx[s]]
  /\ gtx[s] \in poisoned' => gtx[s] \in poisoned
  /\ created <= created' /\ created \in Nat /\ created' \in Nat

\* A request is safe from what happens to other sessions.
LEMMA ServesFrame ==
  ASSUME TypeOK, DataOK, Stable, NEW R \in Request, NEW s \in Sess, Serves(R, s),
         Untouched(s)
  PROVE  Serves(R, s)'
<1>1. CarriesOK(R, s)'
  BY DEF Serves, CarriesOK, Untouched, Sess
<1>2. gtx[s] \in Gtx
  BY DEF Serves, CarriesOK, DataOK, SessionsOK, TypeOK, SessTypes
<1>3. \A a \in Addr : part[s][a] # 0 =>
        /\ DoneIn(a, s) => DoneIn(a, s)'
        /\ DeadIn(a, s) => DeadIn(a, s)'
        /\ KeptBy(a, s) => KeptBy(a, s)'
  <2>1. \A a \in Addr : part[s][a] # 0 => part[s][a] \in TxId /\ part[s][a] <= nextID[a]
    BY Zenon DEF TypeOK, LocalId, DataOK, IdsOK, SessTypes
  <2>2. part'[s] = part[s] /\ gtx'[s] = gtx[s]
    BY Zenon DEF Untouched
  <2>. QED BY <1>2, <2>1, <2>2, StableIn, Zenon
<1>4. R.todo \subseteq Addr /\ R.targets \subseteq Addr
  BY Zenon DEF Request
<1>5. LoopsOK(R, s)'
  BY <1>3, <1>4, Zenon DEF Serves, LoopsOK, Looping, Untouched
<1>6. JoinsOK(R, s)'
  BY <1>3, <1>4, Zenon DEF Serves, JoinsOK, Untouched
<1>. QED BY <1>1, <1>5, <1>6, Zenon DEF Serves

\* The step is one of request r for session s.
Only(r, s) ==
  /\ req' \in [Req -> Request] /\ \A q \in Req \ {r} : req'[q] = req[q]
  /\ req[r].pc = "idle" \/ req[r].sess = s
  /\ req'[r].pc = "idle" \/ req'[r].sess = s
  /\ \A q \in Req \ {r} : req[q].pc # "idle" => req[q].sess # s

\* It touches no other session.
OnlyTouches(s) ==
  /\ \A t \in Sess \ {s} :
       part'[t] = part[t] /\ gtx'[t] = gtx[t] /\ state'[t] = state[t]
  /\ \A g \in Gtx : g # gtx[s] => answer'[g] = answer[g]
  /\ poisoned' \subseteq poisoned \cup {gtx[s]}
  /\ created <= created' /\ created' \in Nat

\* It concerns its own session only.
LEMMA OthersOK ==
  ASSUME IInv, Stable, NEW r \in Req, NEW s \in Sess, Only(r, s), OnlyTouches(s),
         ReqOK(r)',
         \/ state'[s] = "in" \/ part'[s] = NoParticipants
         \/ req'[r].pc = "clear" /\ req'[r].sess = s
  PROVE  RequestsOK'
<1>1. ASSUME NEW q \in Req PROVE ReqOK(q)'
  <2>1. CASE q = r
    BY <2>1, Zenon
  <2>2. CASE q # r /\ req[q].pc = "idle"
    BY <2>2, Zenon DEF ReqOK, Only
  <2>3. CASE q # r /\ req[q].pc # "idle"
    <3>1. PICK R \in Request, t \in Sess : R = req[q] /\ t = req[q].sess
      BY Zenon DEF IInv, TypeOK, Request, BookTypes, FateTypes
    <3>2. req'[q] = req[q] /\ t # s /\ Serves(R, t)
      BY <2>3, <3>1, Zenon DEF Only, IInv, RequestsOK, ReqOK
    <3>3. /\ gtx[t] \in Gtx /\ gtx[t] # gtx[s] /\ created \in Nat
          /\ part'[t] = part[t] /\ gtx'[t] = gtx[t] /\ state'[t] = state[t]
      <4>1. gtx[t] \in 1..gtxs /\ t <= created
        BY <3>2, Zenon DEF Serves, CarriesOK, IInv, DataOK, SessionsOK, TypeOK
      <4>. QED BY <4>1, <3>2 DEF OnlyTouches, IInv, DataOK, SessionsOK, TypeOK,
           BookTypes, SessTypes
    <3>4. Untouched(t)
      BY <3>3, Zenon DEF OnlyTouches, Untouched
    <3>5. Serves(R, t)'
      BY <3>2, <3>4, ServesFrame, Zenon DEF IInv
    <3>. QED BY <3>1, <3>2, <3>5, Zenon DEF ReqOK
  <2>. QED BY <2>1, <2>2, <2>3, Zenon
<1>2. ASSUME NEW p \in Req, NEW q \in Req, req'[p].pc # "idle",
             req'[q].pc # "idle", req'[p].sess = req'[q].sess
      PROVE  p = q
  <2>1. /\ \A x \in Req \ {r} : req'[x] = req[x] /\ (req[x].pc # "idle" => req[x].sess # s)
        /\ req'[r].pc = "idle" \/ req'[r].sess = s
    BY Zenon DEF Only
  <2>2. CASE p = r \/ q = r
    BY <1>2, <2>1, <2>2, Zenon
  <2>3. CASE p # r /\ q # r
    <3>1. req'[p] = req[p] /\ req'[q] = req[q]
      BY <2>1, <2>3, Zenon
    <3>. QED BY <1>2, <3>1 DEF IInv, RequestsOK
  <2>. QED BY <2>2, <2>3, Zenon
<1>3. ASSUME NEW t \in Sess, state'[t] # "in"
      PROVE  \/ part'[t] = NoParticipants
             \/ \E q \in Req : req'[q].pc = "clear" /\ req'[q].sess = t
  <2>1. CASE t = s
    BY <1>3, <2>1, Zenon
  <2>2. CASE t # s
    <3>1. /\ state[t] # "in" /\ part'[t] = part[t]
          /\ \A q \in Req : req[q].pc = "clear" /\ req[q].sess = t => req'[q] = req[q]
      BY <1>3, <2>2, Zenon DEF Only, OnlyTouches
    <3>. QED BY <3>1 DEF IInv, RequestsOK
  <2>. QED BY <2>1, <2>2, Zenon
<1>. QED BY <1>1, <1>2, <1>3, Zenon DEF RequestsOK

-----------------------------------------------------------------------------
(* The step of a request                                                   *)

\* Request r is under way, with locals R, for session s.
Current(r, R, s) ==
  /\ req[r] = R /\ R.sess = s /\ Serves(R, s)
  /\ \A q \in Req \ {r} : req[q].pc # "idle" => req[q].sess # s

\* Its locals become R.
Moves(r, R) ==
  /\ req' \in [Req -> Request] /\ req'[r] = R
  /\ \A q \in Req \ {r} : req'[q] = req[q]

\* A request under way works for one session, which has no other request.
LEMMA UnderWay ==
  ASSUME IInv, NEW r \in Req, req[r].pc # "idle"
  PROVE  \E R \in Request, s \in Sess : Current(r, R, s)
<1>1. PICK R \in Request : R = req[r]
  BY Zenon DEF IInv, TypeOK, BookTypes
<1>2. R.sess \in Sess /\ Serves(R, R.sess)
  BY <1>1, Zenon DEF Request, IInv, RequestsOK, ReqOK
<1>3. \A q \in Req \ {r} : req[q].pc # "idle" => req[q].sess # R.sess
  BY <1>1, Zenon DEF IInv, RequestsOK
<1>. QED BY <1>1, <1>2, <1>3, Zenon DEF Current

\* What it may rely on.
LEMMA CurrentTx ==
  ASSUME IInv, NEW r \in Req, NEW R \in Request, NEW s \in Sess, Current(r, R, s)
  PROVE  /\ gtx[s] \in Gtx /\ answer[gtx[s]] = "none"
         /\ \A b \in Addr : part[s][b] # 0 => part[s][b] \in TxId /\ part[s][b] <= nextID[b]
<1>1. gtx[s] \in Gtx /\ answer[gtx[s]] = "none"
  BY DEF Current, Serves, CarriesOK, IInv, DataOK, SessionsOK, TypeOK,
     SessTypes
<1>. QED BY <1>1 DEF IInv, DataOK, IdsOK, TypeOK, LocalId, SessTypes

\* A step of a request that changes its locals and, perhaps, a tablet.
LEMMA RequestStep ==
  ASSUME IInv, NEW r \in Req, NEW s \in Sess, NEW Q \in Request, Moves(r, Q),
         Q.pc = "idle" \/ (Q.sess = s /\ Serves(Q, s)'),
         req[r].pc = "idle" \/ req[r].sess = s, state[s] = "in",
         \A q \in Req \ {r} : req[q].pc # "idle" => req[q].sess # s,
         NEW a \in Addr, TabletStep(a), UNCHANGED <<bookVars, doomed, clients, left>>
  PROVE  IInv'
<1>1. Stable /\ TabletTypes' /\ Settles
  BY TabletStepStable, TabletStepTypes, TabletStepSettles, Zenon DEF IInv,
     DataOK
<1>2. DataOK'
  BY <1>1, SettlesData, Zenon DEF IInv
<1>3. TypeOK'
  BY <1>1, Zenon DEF IInv, TypeOK, bookVars, Moves, BookTypes, SessTypes,
     FateTypes
<1>4. Only(r, s) /\ ReqOK(r)'
  BY Zenon DEF Only, ReqOK, Moves
<1>5. OnlyTouches(s) /\ state'[s] = "in"
  BY DEF OnlyTouches, bookVars, IInv, TypeOK, BookTypes
<1>6. RequestsOK'
  BY <1>1, <1>4, <1>5, OthersOK, Zenon
<1>. QED BY <1>2, <1>3, <1>6, Zenon DEF IInv

\* The locals of a goroutine that serves no request.
LEMMA NoRequestTyped == NoRequest \in Request /\ NoRequest.pc = "idle"
<1>1. 1 \in Sess /\ (CHOOSE a \in Addr : TRUE) \in Addr
  BY CoordinatorAssumption DEF Sess
<1>2. NoParticipants \in [Addr -> LocalId]
  BY Zenon DEF NoParticipants, LocalId
<1>. QED BY <1>1, <1>2, Zenon DEF NoRequest, Request, PC

\* A step of a request under way.
LEMMA CurrentStep ==
  ASSUME IInv, NEW r \in Req, NEW R \in Request, NEW s \in Sess, Current(r, R, s),
         R.pc # "clear", NEW Q \in Request, Moves(r, Q),
         Q.pc = "idle" \/ (Q.sess = s /\ Serves(Q, s)'),
         NEW a \in Addr, TabletStep(a), UNCHANGED <<bookVars, doomed, clients, left>>
  PROVE  IInv'
<1>1. req[r].sess = s /\ state[s] = "in"
      /\ \A q \in Req \ {r} : req[q].pc # "idle" => req[q].sess # s
  BY Zenon DEF Current, Serves, CarriesOK
<1>. QED BY <1>1, RequestStep, Zenon

\* A request that is answered, in a transaction that goes on.
LEMMA ReturnStep ==
  ASSUME IInv, NEW r \in Req, NEW R \in Request, NEW s \in Sess, Current(r, R, s),
         R.pc # "clear", Return(r), NEW a \in Addr, TabletStep(a),
         UNCHANGED <<bookVars, doomed, clients, left>>
  PROVE  IInv'
<1>1. Moves(r, NoRequest)
  BY NoRequestTyped, Zenon DEF Return, Moves, IInv, TypeOK, BookTypes
<1>. QED BY <1>1, NoRequestTyped, CurrentStep, Zenon

\* Where a request goes on.
LEMMA Gotos ==
  ASSUME IInv, NEW r \in Req, NEW R \in Request, NEW s \in Sess, Current(r, R, s),
         NEW l \in PC, Goto(r, l)
  PROVE  \E Q \in Request :
           /\ Moves(r, Q) /\ Q.pc = l /\ Q.op = R.op /\ Q.sess = s /\ Q.g = R.g
           /\ Q.bad = R.bad
<1>1. PICK Q \in Request : Q = [R EXCEPT !.pc = l]
  BY Zenon DEF Request
<1>2. Moves(r, Q)
  BY <1>1, Zenon DEF Goto, Moves, Current, IInv, TypeOK
<1>3. Q.pc = l /\ Q.op = R.op /\ Q.sess = R.sess /\ Q.g = R.g /\ Q.bad = R.bad
  BY <1>1, Zenon DEF Request
<1>. QED BY <1>2, <1>3, Zenon DEF Current

\* An error in the middle of a transaction leads to rollbackAll.
LEMMA GoesBackStep ==
  ASSUME IInv, NEW r \in Req, NEW R \in Request, NEW s \in Sess, Current(r, R, s),
         R.pc # "clear", R.op # "begin", Goto(r, "rollbackAll"),
         NEW a \in Addr, TabletStep(a), UNCHANGED <<bookVars, doomed, clients, left>>
  PROVE  IInv'
<1>1. PICK Q \in Request :
        Moves(r, Q) /\ Q.pc = "rollbackAll" /\ Q.op = R.op /\ Q.sess = s /\ Q.g = R.g
  BY Gotos DEF PC
<1>2. Serves(Q, s)'
  BY <1>1, Zenon DEF Current, Serves, CarriesOK, JoinsOK, LoopsOK, Joining,
     TwoPhase, RollsBack, Looping, bookVars
<1>. QED BY <1>1, <1>2, CurrentStep, Zenon

\* What tablets did for the session of a request is not undone.
LEMMA CurrentStable ==
  ASSUME IInv, NEW r \in Req, NEW R \in Request, NEW s \in Sess, Current(r, R, s),
         NEW a \in Addr, TabletStep(a), UNCHANGED <<part, gtx>>
  PROVE  \A b \in Addr : part[s][b] # 0 =>
           /\ DoneIn(b, s) => DoneIn(b, s)'
           /\ DeadIn(b, s) => DeadIn(b, s)'
           /\ KeptBy(b, s) => KeptBy(b, s)'
<1>1. Stable
  BY TabletStepStable, Zenon DEF IInv
<1>2. /\ gtx[s] \in Gtx
      /\ \A b \in Addr : part[s][b] # 0 => part[s][b] \in TxId /\ part[s][b] <= nextID[b]
  BY CurrentTx, Zenon
<1>. QED BY <1>1, <1>2, StableIn, Zenon

\* The id a loop sends to a tablet.
LEMMA LoopId ==
  ASSUME IInv, NEW r \in Req, NEW R \in Request, NEW s \in Sess, Current(r, R, s),
         NEW a \in Addr, R.pc \in Looping, a \in R.todo
  PROVE  \E i \in TxId : i = R.snap[a] /\ i = req[r].snap[a] /\ i = part[s][a]
<1>1. part[s][a] # 0 /\ R.snap = part[s]
  BY Zenon DEF Current, Serves, LoopsOK
<1>2. part[s][a] \in TxId
  BY <1>1, CurrentTx, Zenon
<1>. QED BY <1>1, <1>2, Zenon DEF Current

-----------------------------------------------------------------------------
(* Steps that leave requests alone                                         *)

\* Sessions may leave their transactions.
LEMMA LeavesData ==
  ASSUME DataOK, sessions' \subseteq sessions,
         UNCHANGED <<localVars, fateVars, created, part, gtx, gtxs,
                     acked, poisoned, answer>>,
         \A t \in Sess : state'[t] = state[t] \/ (t <= created /\ state'[t] # "in")
  PROVE  DataOK' /\ Stable
<1>. USE DEF localVars, fateVars
<1>1. SessionsOK'
  BY DEF DataOK, SessionsOK, Sess
<1>2. FreshOK' /\ IdsOK' /\ WorkOK'
  BY DEF DataOK, FreshOK, IdsOK, WorkOK
<1>3. FateOK'
  <2>1. \A t \in Sess, b \in Addr :
          (DeadIn(b, t)' <=> DeadIn(b, t)) /\ (KeptBy(b, t)' <=> KeptBy(b, t))
    BY Zenon DEF KeptBy, DeadIn, KeptIn, Dead
  <2>. QED BY <2>1 DEF DataOK, FateOK
<1>4. CommitPersists'
  BY Zenon DEF DataOK, CommitPersists, AckedOf, DurableOf, LostOf
<1>5. Stable
  BY Zenon DEF Stable, KeptIn, Dead
<1>. QED BY <1>1, <1>2, <1>3, <1>4, <1>5, Zenon DEF DataOK

\* Sessions that end leave the rest as it is.
LEMMA KeepsData ==
  ASSUME DataOK, sessions' \subseteq sessions,
         UNCHANGED <<localVars, fateVars, created, state, part, gtx, gtxs,
                     acked, poisoned, answer>>
  PROVE  DataOK' /\ Stable
<1>1. \A t \in Sess : state'[t] = state[t] \/ (t <= created /\ state'[t] # "in")
  BY Zenon
<1>2. UNCHANGED <<localVars, fateVars, created, part, gtx, gtxs, acked, poisoned, answer>>
  BY Zenon
<1>. QED BY <1>1, <1>2, LeavesData, Zenon

\* Requests rely on nothing else.
LEMMA RequestsFrame ==
  ASSUME TypeOK, DataOK, RequestsOK, Stable,
         UNCHANGED <<created, part, gtx, state, answer, poisoned, req>>
  PROVE  RequestsOK'
<1>1. ASSUME NEW r \in Req PROVE ReqOK(r)'
  <2>1. CASE req[r].pc = "idle"
    BY <2>1, Zenon DEF ReqOK
  <2>2. CASE req[r].pc # "idle"
    <3>1. PICK R \in Request, s \in Sess : R = req[r] /\ s = R.sess
      BY Zenon DEF TypeOK, Request
    <3>2. Serves(R, s)
      BY <2>2, <3>1, Zenon DEF RequestsOK, ReqOK
    <3>3. Untouched(s)
      BY DEF Untouched, TypeOK, BookTypes
    <3>4. Serves(R, s)'
      BY <3>2, <3>3, ServesFrame, Zenon
    <3>. QED BY <3>1, <3>4, Zenon DEF ReqOK
  <2>. QED BY <2>1, <2>2, Zenon
<1>. QED BY <1>1, Zenon DEF RequestsOK

-----------------------------------------------------------------------------
(* Joining the tablets of a statement                                      *)

\* A tablet that participates already is joined; another needs BEGIN.
LEMMA JoinStep ==
  ASSUME IInv, NEW r \in Req, NEW a \in Addr, Join(r, a)
  PROVE  IInv'
<1>1. PICK R \in Request, s \in Sess : Current(r, R, s)
  BY UnderWay, Zenon DEF Join
<1>2. R.pc = "join" /\ a \in R.todo
  BY <1>1, Zenon DEF Current, Join
<1>3. PICK Q \in Request :
        Q = IF part[s][a] # 0 THEN [R EXCEPT !.todo = @ \ {a}]
                              ELSE [R EXCEPT !.pc = "begin", !.at = a]
  BY Zenon DEF Request, PC
<1>4. Moves(r, Q)
  BY <1>1, <1>3, Zenon DEF Current, Join, Moves, IInv, TypeOK
<1>5. /\ Q.op = R.op /\ Q.sess = R.sess /\ Q.g = R.g /\ Q.targets = R.targets
      /\ Q.pc \in {"join", "begin"} /\ Q.todo \subseteq R.todo
      /\ \A b \in R.todo \ Q.todo : part[s][b] # 0
      /\ Q.pc = "begin" => Q.at \in Q.todo /\ part[s][Q.at] = 0
  <2>1. CASE part[s][a] # 0
    BY <1>2, <1>3, <2>1, Zenon DEF Request
  <2>2. CASE part[s][a] = 0
    BY <1>2, <1>3, <2>2, Zenon DEF Request
  <2>. QED BY <2>1, <2>2, Zenon
<1>6. /\ TabletStep(a) /\ UNCHANGED <<bookVars, doomed, clients, left>>
      /\ UNCHANGED <<created, part, gtx, state, answer>>
  BY Zenon DEF Join, TabletStep, TabletsUnchanged, bookVars, sessVars,
     ghostVars
<1>7. Q.sess = s /\ CarriesOK(Q, s)'
  BY <1>1, <1>2, <1>5, <1>6, Zenon DEF Current, Serves, CarriesOK, Joining, TwoPhase, RollsBack
<1>8. JoinsOK(Q, s)'
  BY <1>1, <1>2, <1>5, <1>6, Zenon DEF Current, Serves, JoinsOK, Joining
<1>9. LoopsOK(Q, s)'
  BY <1>5, Zenon DEF LoopsOK, Looping
<1>. QED BY <1>1, <1>2, <1>4, <1>6, <1>7, <1>8, <1>9, CurrentStep, Zenon DEF Serves

\* All targets are joined.
LEMMA JoinedStep ==
  ASSUME IInv, NEW r \in Req, Joined(r)
  PROVE  IInv'
<1>1. PICK R \in Request, s \in Sess : Current(r, R, s)
  BY UnderWay, Zenon DEF Joined
<1>2. R.pc = "join" /\ R.todo = {} /\ R.at \in Addr
  BY <1>1, Zenon DEF Current, Joined, Request
<1>3. PICK Q \in Request : Q = [R EXCEPT !.pc = "send", !.todo = R.targets]
  BY Zenon DEF Request, PC
<1>4. Moves(r, Q)
  BY <1>1, <1>3, Zenon DEF Current, Joined, Moves, IInv, TypeOK
<1>5. /\ Q.op = R.op /\ Q.sess = R.sess /\ Q.g = R.g /\ Q.targets = R.targets
      /\ Q.pc = "send" /\ Q.todo = R.targets
  BY <1>3, Zenon DEF Request
<1>6. /\ TabletStep(R.at) /\ UNCHANGED <<bookVars, doomed, clients, left>>
      /\ UNCHANGED <<created, part, gtx, state, answer>>
  BY Zenon DEF Joined, TabletStep, TabletsUnchanged, bookVars, sessVars, ghostVars
<1>7. Q.sess = s /\ CarriesOK(Q, s)'
  BY <1>1, <1>2, <1>5, <1>6, Zenon DEF Current, Serves, CarriesOK, Joining, TwoPhase, RollsBack
<1>8. JoinsOK(Q, s)'
  BY <1>1, <1>2, <1>5, <1>6, Zenon DEF Current, Serves, JoinsOK, Joining
<1>9. LoopsOK(Q, s)'
  BY <1>5, Zenon DEF LoopsOK, Looping
<1>. QED BY <1>1, <1>2, <1>4, <1>6, <1>7, <1>8, <1>9, CurrentStep, Zenon DEF Serves

\* The id read is that of the session, and not 0.
LEMMA ReadLocalTxIDStep ==
  ASSUME IInv, NEW r \in Req, NEW a \in Addr, ReadLocalTxID(r, a)
  PROVE  IInv'
<1>1. PICK R \in Request, s \in Sess : Current(r, R, s)
  BY UnderWay, Zenon DEF ReadLocalTxID
<1>2. R.pc = "send" /\ a \in R.todo
  BY <1>1, Zenon DEF Current, ReadLocalTxID
<1>3. PICK snap \in [Addr -> LocalId] :
        snap = [R.snap EXCEPT ![a] = part[s][a]] /\ snap[a] = part[s][a]
  <2>1. PICK i \in LocalId : i = part[s][a]
    BY Zenon DEF IInv, TypeOK, SessTypes
  <2>2. PICK m \in [Addr -> LocalId] : m = R.snap
    BY Zenon DEF Request
  <2>3. [m EXCEPT ![a] = i] \in [Addr -> LocalId] /\ [m EXCEPT ![a] = i][a] = i
    BY Zenon
  <2>. QED BY <2>1, <2>2, <2>3, Zenon
<1>4. PICK Q \in Request :
        Q = [R EXCEPT !.pc = "rpc", !.at = a, !.todo = @ \ {a}, !.snap = snap]
  BY Zenon DEF Request, PC
<1>5. Moves(r, Q)
  BY <1>1, <1>3, <1>4, Zenon DEF Current, ReadLocalTxID, Moves, IInv, TypeOK,
     TabletTypes, BookTypes, SessTypes, FateTypes
<1>6. /\ Q.op = R.op /\ Q.sess = R.sess /\ Q.g = R.g /\ Q.targets = R.targets
      /\ Q.pc = "rpc" /\ Q.todo = R.todo \ {a} /\ Q.at = a /\ Q.bad = R.bad
      /\ Q.snap = snap
  BY <1>4, Zenon DEF Request
<1>7. /\ TabletStep(a) /\ UNCHANGED <<bookVars, doomed, clients, left>>
      /\ UNCHANGED <<created, part, gtx, state, answer, status, work, durable>>
  BY Zenon DEF ReadLocalTxID, TabletStep, TabletsUnchanged, bookVars, sessVars,
     ghostVars, localVars, fateVars
<1>8. \A b \in Addr : KeptBy(b, s) => KeptBy(b, s)'
  BY <1>7, Zenon DEF KeptBy, KeptIn
<1>9. Q.sess = s /\ Serves(Q, s)'
  <2>1. R.targets \subseteq Addr /\ snap[a] = part[s][a]
    BY <1>3, Zenon DEF Request
  <2>2. CarriesOK(Q, s)' /\ LoopsOK(Q, s)' /\ Q.sess = s
    BY <1>1, <1>2, <1>6, <1>7, Zenon DEF Current, Serves, CarriesOK, LoopsOK,
       Joining, TwoPhase, RollsBack, Looping
  <2>3. JoinsOK(Q, s)'
    BY <1>1, <1>2, <1>6, <1>7, <1>8, <2>1, Zenon DEF Current, Serves, JoinsOK,
       Joining
  <2>. QED BY <2>2, <2>3, Zenon DEF Serves
<1>. QED BY <1>1, <1>2, <1>5, <1>7, <1>9, CurrentStep, Zenon

\* A failed BEGIN leads to rollbackAll; at worst it leaves an unused transaction.
LEMMA BeginFailsStep ==
  ASSUME IInv, NEW r \in Req, BeginFails(r)
  PROVE  IInv'
<1>1. PICK R \in Request, s \in Sess : Current(r, R, s)
  BY UnderWay, Zenon DEF BeginFails
<1>2. R.pc = "begin" /\ R.op = "exec" /\ R.at \in Addr /\ Goto(r, "rollbackAll")
  BY <1>1, Zenon DEF Current, Serves, CarriesOK, Joining, BeginFails, Request
<1>3. TabletStep(R.at) /\ UNCHANGED <<bookVars, doomed, clients, left>>
  BY <1>1, Zenon DEF Current, BeginFails, TabletStep, bookVars, sessVars, ghostVars
<1>. QED BY <1>1, <1>2, <1>3, GoesBackStep, Zenon

\* SetLocalTxID.
Joins(s, a, n) ==
  /\ part' \in [Sess -> [Addr -> LocalId]] /\ part'[s][a] = n
  /\ \A t \in Sess, b \in Addr : t # s \/ b # a => part'[t][b] = part[t][b]
  /\ \A t \in Sess \ {s} : part'[t] = part[t]

\* The tablet hands out an id that no session holds.
LEMMA JoinsData ==
  ASSUME IInv, NEW s \in Sess, NEW a \in Addr, NEW n \in TxId, n = nextID[a] + 1,
         s <= created, part[s][a] = 0, BeginAt(a), Joins(s, a, n),
         UNCHANGED <<sessions, created, state, gtx, gtxs, acked, poisoned, answer>>
  PROVE  DataOK' /\ Stable /\ TabletTypes'
<1>0. \A j \in TxId : j \in Nat /\ j # 0
  BY MaxTxAssumption DEF TxId
<1>1. UNCHANGED <<work, durable, lost>>
  BY Zenon DEF BeginAt, fateVars
<1>2. Stable /\ TabletTypes' /\ Settles
  BY TabletStepStable, TabletStepTypes, TabletStepSettles, Zenon DEF IInv,
     DataOK, TabletStep
<1>3. nextID'[a] = n /\ \A b \in Addr \ {a} : nextID'[b] = nextID[b]
  BY Zenon DEF BeginAt, Begin, IInv, TypeOK, TabletTypes
<1>4. /\ part'[s][a] = n
      /\ \A t \in Sess, b \in Addr : t # s \/ b # a => part'[t][b] = part[t][b]
  BY Zenon DEF Joins
<1>5. /\ \A b \in Addr : nextID[b] \in Nat
      /\ \A t \in Sess, b \in Addr : part[t][b] \in Nat /\ part[t][b] <= nextID[b]
  <2>1. \A b \in Addr : nextID[b] \in 0..MaxTx
    BY Zenon DEF IInv, TypeOK, TabletTypes
  <2>2. \A t \in Sess, b \in Addr : part[t][b] \in LocalId /\ part[t][b] <= nextID[b]
    BY Zenon DEF IInv, TypeOK, DataOK, IdsOK, SessTypes
  <2>3. 0..MaxTx \subseteq Nat /\ LocalId \subseteq Nat
    BY <1>0, MaxTxAssumption DEF LocalId
  <2>. QED BY <2>1, <2>2, <2>3, Zenon
<1>6. \A t \in Sess : part[t][a] # n
  BY <1>5
<1>7. SessionsOK'
  <2>1. \A t \in Sess : t > created => part'[t] = part[t]
    BY DEF Joins, Sess, IInv, TypeOK, BookTypes
  <2>. QED BY <2>1, Zenon DEF IInv, DataOK, SessionsOK
<1>8. FreshOK'
  BY <1>1, <1>2, Zenon DEF IInv, DataOK, FreshOK, Settles
<1>9. IdsOK'
  <2>1. \A t \in Sess, b \in Addr : part'[t][b] <= nextID'[b]
    BY <1>0, <1>3, <1>4, <1>5
  <2>2. \A b \in Addr, t, u \in Sess :
          part[t][b] = part[u][b] /\ part[t][b] # 0 => t = u
    BY Zenon DEF IInv, DataOK, IdsOK
  <2>3. ASSUME NEW b \in Addr, NEW t \in Sess, NEW u \in Sess,
               part'[t][b] = part'[u][b], part'[t][b] # 0
        PROVE  t = u
    <3>1. CASE t # u
      <4>1. part'[t][b] = part[t][b] /\ part'[u][b] = part[u][b]
        BY <1>4, <1>6, <2>3, <3>1, ZenonT(30)
      <4>. QED BY <2>2, <2>3, <4>1, Zenon
    <3>. QED BY <3>1, Zenon
  <2>. QED BY <2>1, <2>3, Zenon DEF IdsOK
<1>10. WorkOK'
  <2>1. work[a][n] = {}
    <3>1. status[a][n] = "absent"
      BY <1>0, <1>5 DEF IInv, DataOK, FreshOK
    <3>. QED BY <3>1, Zenon DEF IInv, DataOK, WorkOK, Unfinished
  <2>2. \A b \in Addr, j \in TxId : work[b][j] # {} => status'[b][j] \in Unfinished
    BY <1>1, <1>2, Zenon DEF Settles
  <2>3. \A b \in Addr, j \in TxId : \A g \in work[b][j] :
          /\ answer[g] # "committed"
          /\ \A h \in work[b][j] : h = g
          /\ \A t \in Sess : part[t][b] = j => gtx[t] = g
    BY Zenon DEF IInv, DataOK, WorkOK
  <2>4. ASSUME NEW b \in Addr, NEW j \in TxId, NEW g \in work[b][j], NEW t \in Sess,
               part'[t][b] = j
        PROVE  gtx[t] = g
    <3>1. part[t][b] = j
      BY <1>4, <2>1, <2>4, Zenon
    <3>. QED BY <2>3, <3>1
  <2>5. ASSUME NEW b \in Addr, NEW j \in TxId, NEW g \in work'[b][j]
        PROVE  /\ status'[b][j] \in Unfinished
               /\ answer'[g] # "committed"
               /\ \A h \in work'[b][j] : h = g
               /\ \A t \in Sess : part'[t][b] = j => gtx'[t] = g
    <3>1. g \in work[b][j] /\ work[b][j] # {}
      BY <1>1, <2>5, Zenon
    <3>. QED BY <1>1, <2>2, <2>3, <2>4, <3>1
  <2>. QED BY <2>5, Zenon DEF WorkOK
<1>11. FateOK'
  <2>1. ASSUME NEW t \in Sess, NEW b \in Addr, part[t][b] # 0
        PROVE  part'[t][b] = part[t][b] /\ part[t][b] \in TxId /\ part[t][b] <= nextID[b]
    BY <1>4, <1>5, <2>1, Zenon DEF IInv, TypeOK, LocalId, SessTypes
  <2>2. ASSUME NEW t \in Sess, NEW b \in Addr, part[t][b] # 0, gtx[t] # 0
        PROVE  /\ part'[t][b] = part[t][b]
               /\ DeadIn(b, t) => DeadIn(b, t)'
               /\ KeptBy(b, t) => KeptBy(b, t)'
               /\ status[b][part[t][b]] = "rolledback" => status'[b][part'[t][b]] = "rolledback"
    <3>1. gtx[t] \in Gtx
      BY <2>2, Zenon DEF IInv, TypeOK, SessTypes
    <3>2. PICK i \in TxId : i = part[t][b] /\ i = part'[t][b] /\ i <= nextID[b]
      BY <2>1, <2>2, Zenon
    <3>3. status[b][i] = "rolledback" => status'[b][i] = "rolledback"
      BY <1>2, Zenon DEF Settles
    <3>4. gtx'[t] = gtx[t]
      BY Zenon
    <3>. QED BY <1>2, <3>1, <3>2, <3>3, <3>4, StableIn, Zenon
  <2>3. ASSUME NEW t \in Sess, gtx[t] # 0, answer[gtx[t]] = "none"
        PROVE  /\ \A b \in Addr :
                    /\ \A i \in TxId : gtx[t] \in work[b][i] => part'[t][b] = i
                    /\ <<gtx[t], b>> \in acked => part'[t][b] # 0 /\ KeptBy(b, t)'
                    /\ <<gtx[t], b>> \in lost =>
                         part'[t][b] # 0 /\ status'[b][part'[t][b]] = "rolledback"
               /\ gtx[t] \in poisoned => \E b \in Addr : part'[t][b] # 0 /\ DeadIn(b, t)'
    <3>1. /\ \A b \in Addr :
               /\ \A i \in TxId : gtx[t] \in work[b][i] => part[t][b] = i
               /\ <<gtx[t], b>> \in acked => part[t][b] # 0 /\ KeptBy(b, t)
               /\ <<gtx[t], b>> \in lost =>
                    part[t][b] # 0 /\ status[b][part[t][b]] = "rolledback"
          /\ gtx[t] \in poisoned => \E b \in Addr : part[t][b] # 0 /\ DeadIn(b, t)
      BY <2>3, Zenon DEF IInv, DataOK, FateOK
    <3>. QED BY <1>0, <2>2, <2>3, <3>1
  <2>. QED BY <1>1, <2>3, Zenon DEF FateOK
<1>12. CommitPersists'
  BY <1>1, Zenon DEF IInv, DataOK, CommitPersists, AckedOf, DurableOf, LostOf
<1>. QED BY <1>2, <1>7, <1>8, <1>9, <1>10, <1>11, <1>12, Zenon DEF DataOK

\* BEGIN on a tablet that does not participate yet.
LEMMA BeginOnTabletStep ==
  ASSUME IInv, NEW r \in Req, BeginOnTablet(r)
  PROVE  IInv'
<1>1. PICK R \in Request, s \in Sess : Current(r, R, s)
  BY UnderWay, Zenon DEF BeginOnTablet
<1>2. PICK a \in Addr : a = R.at /\ R.pc = "begin" /\ R.sess = s /\ req[r] = R
  BY <1>1, Zenon DEF Current, BeginOnTablet, Request
<1>3. a \in R.todo /\ part[s][a] = 0 /\ s <= created /\ state[s] = "in"
  BY <1>1, <1>2, Zenon DEF Current, Serves, JoinsOK, CarriesOK
<1>4. PICK n \in TxId : n = nextID[a] + 1 /\ n # 0 /\ BeginAt(a)
  <2>1. BeginAt(a)
    BY <1>2, Zenon DEF BeginOnTablet
  <2>2. nextID[a] \in 0..MaxTx /\ nextID[a] < MaxTx
    BY <2>1, Zenon DEF BeginAt, Begin, IInv, TypeOK, TabletTypes
  <2>3. nextID[a] + 1 \in TxId /\ nextID[a] + 1 # 0
    BY <2>2, MaxTxAssumption DEF TxId
  <2>. QED BY <2>1, <2>3, Zenon
<1>5. PICK Q \in Request : Q = [R EXCEPT !.pc = "join", !.todo = @ \ {a}]
  BY Zenon DEF Request, PC
<1>6. /\ Q.op = R.op /\ Q.sess = R.sess /\ Q.g = R.g /\ Q.targets = R.targets
      /\ Q.pc = "join" /\ Q.todo = R.todo \ {a}
  BY <1>5, Zenon DEF Request
<1>7. Moves(r, Q)
  BY <1>2, <1>5, Zenon DEF BeginOnTablet, Moves, IInv, TypeOK
<1>8. Joins(s, a, n)
  <2>1. part' = [part EXCEPT ![s][a] = n]
    BY <1>2, <1>4, Zenon DEF BeginOnTablet
  <2>. QED BY <2>1, Zenon DEF Joins, IInv, TypeOK, LocalId, SessTypes
<1>9. UNCHANGED <<sessions, created, state, doomed, clients, left, gtx, gtxs, acked,
                  poisoned, answer>>
  BY Zenon DEF BeginOnTablet, ghostVars
<1>10. DataOK' /\ Stable /\ TabletTypes'
  BY <1>3, <1>4, <1>8, <1>9, JoinsData, Zenon
<1>11. TypeOK'
  BY <1>7, <1>8, <1>9, <1>10, Zenon DEF IInv, TypeOK, Moves, Joins, BookTypes,
     SessTypes, FateTypes
<1>12. Serves(Q, s)'
  <2>1. CarriesOK(Q, s)' /\ LoopsOK(Q, s)'
    BY <1>1, <1>2, <1>6, <1>9, Zenon DEF Current, Serves, CarriesOK, LoopsOK,
       Joining, TwoPhase, RollsBack, Looping
  <2>2. \A b \in Addr : part[s][b] # 0 \/ b = a => part'[s][b] # 0
    BY <1>4, <1>8, Zenon DEF Joins
  <2>3. R.targets \subseteq Addr /\ JoinsOK(R, s)
    BY <1>1, Zenon DEF Current, Serves, Request
  <2>4. JoinsOK(Q, s)'
    BY <1>2, <1>6, <2>2, <2>3, Zenon DEF JoinsOK, Joining
  <2>. QED BY <2>1, <2>4, Zenon DEF Serves
<1>13. Only(r, s) /\ ReqOK(r)'
  BY <1>1, <1>2, <1>6, <1>7, <1>12, Zenon DEF Only, ReqOK, Moves, Current
<1>14. OnlyTouches(s) /\ state'[s] = "in"
  BY <1>3, <1>8, <1>9 DEF OnlyTouches, Joins, IInv, TypeOK, BookTypes
<1>15. RequestsOK'
  BY <1>10, <1>13, <1>14, OthersOK, Zenon
<1>. QED BY <1>10, <1>11, <1>15, Zenon DEF IInv

=============================================================================
