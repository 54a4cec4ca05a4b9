---------------------------- MODULE TabletProofs ----------------------------
(***************************************************************************)
(* Theorems about the tablet, for any batches, goroutines, connections and *)
(* transactions: the inductive invariant of TxManager, the safety          *)
(* properties that follow from it, that TxManager implements LocalTx, and  *)
(* that whatever the handler (Executor) sends the manager under it behaves *)
(* as TxManager and a successful batch forgets none of its writes.         *)
(***************************************************************************)
EXTENDS Executor, TLAPS

\* A process between get and the end of remove, or about to insert.
Inside == {"exec", "run", "wait", "commit", "rollback"}
Busy   == {"insert", "lock", "remove", "release"} \cup Inside

\* What each place of the code knows: the operation, that the id was handed
\* out, who holds t.mu, and that remove comes after the end of the
\* transaction.
Control ==
  \A p \in Proc :
    /\ pc[p] \in {"acquire", "begin", "insert"} => op[p] = "begin"
    /\ pc[p] = "insert" => status[cur[p]] = "open"
    /\ pc[p] = "lock" => op[p] \in {"exec", "commit", "rollback"}
    /\ pc[p] \in {"exec", "run", "wait"} => op[p] = "exec"
    /\ pc[p] = "commit" => op[p] = "commit"
    /\ pc[p] = "rollback" => op[p] = "rollback"
    /\ pc[p] \in Busy => cur[p] \in 1..nextID
    /\ pc[p] \in Inside => mu[cur[p]] = p
    /\ pc[p] \in {"remove", "release"} => status[cur[p]] \in Finished

\* An id is known to nobody else before it is in the map, and its
\* connection is released by nobody else after it left the map.
Private ==
  \A p, q \in Proc : p # q /\ cur[p] = cur[q] =>
    /\ pc[p] = "insert" => pc[q] \notin Busy
    /\ pc[p] = "release" => pc[q] # "release"

OutOfMap ==
  \A p \in Proc : pc[p] \in {"insert", "release"} => cur[p] \notin txns

\* PostgreSQL's side: ids in use have a transaction, and an unfinished one
\* is in the map or about to be.
Alive ==
  \A i \in TxId :
    /\ status[i] = "absent" <=> i > nextID
    /\ status[i] \in Unfinished =>
         i \in txns \/ \E p \in Proc : pc[p] = "insert" /\ cur[p] = i

IInv ==
  /\ TypeOK /\ Control /\ Private /\ OutOfMap /\ Alive
  /\ ConnExclusive /\ NoConnLeak /\ NoZombie /\ OneOutcome

-----------------------------------------------------------------------------
(* One lemma per action: it preserves the inductive invariant.             *)

\* A step that leaves the pool, the hands of Begin and the set of holding
\* transactions alone disturbs no claim about connections.
LEMMA PoolFrame ==
  ASSUME ConnExclusive, NoConnLeak,
         UNCHANGED <<free, hand, conn>>,
         \A j \in TxId : Holding(j)' <=> Holding(j),
         \A q \in Proc : pc'[q] = "begin" <=> pc[q] = "begin"
  PROVE  ConnExclusive' /\ NoConnLeak'
BY Zenon DEF ConnExclusive, NoConnLeak

\* Begin is called: nothing is held yet.
LEMMA CallBeginStep ==
  ASSUME IInv, NEW p \in Thread, CallBegin(p)
  PROVE  IInv'
<1> USE TxManagerAssumption DEF IInv, TypeOK, TxId, Proc, CallBegin, Goto,
          poolVars, txVars
<1>1. TypeOK'
  BY Zenon DEF PC, Control, Inside, Busy
<1>2. Control'
  BY <1>1, ZenonT(30) DEF Control, Inside, Busy, Unfinished, Finished, Private,
         OutOfMap, Alive
<1>3. Private'
  BY DEF Private, Inside, Busy, Control, OutOfMap
<1>4. OutOfMap'
  BY Zenon DEF OutOfMap, Busy, Finished, Control, Private
<1>5. Alive'
  BY Zenon DEF Alive, Unfinished, Finished, Control, Busy, Inside
<1>6. ConnExclusive' /\ NoConnLeak'
  <2>1. \A j \in TxId : Holding(j)' <=> Holding(j)
    BY Zenon DEF Holding, Control, Private, OutOfMap, Inside, Busy
  <2>2. \A q \in Proc : pc'[q] = "begin" <=> pc[q] = "begin"
    BY Zenon
  <2>3. UNCHANGED <<free, hand, conn>>
    BY Zenon
  <2> QED BY <2>1, <2>2, <2>3, PoolFrame, Zenon
<1>8. NoZombie'
  BY Zenon DEF NoZombie, Finished, Control
<1>9. OneOutcome'
  BY DEF OneOutcome, Ended, Inside, Busy, Unfinished, Finished, Control,
         Alive
<1> QED BY <1>1, <1>2, <1>3, <1>4, <1>5, <1>6, <1>8, <1>9, Zenon

\* The connection moves from the pool into the hands of one Begin.
LEMMA AcquireStep ==
  ASSUME IInv, NEW p \in Thread, Acquire(p)
  PROVE  IInv'
<1> USE TxManagerAssumption DEF IInv, TypeOK, TxId, Proc, Acquire, Goto,
          txVars
<1>0. \A j \in TxId : Holding(j)' <=> Holding(j)
  BY Zenon DEF Holding
<1>1. TypeOK'
  BY DEF PC, Control, Inside, Busy
<1>2. Control'
  BY <1>1 DEF Control, Inside, Busy, Unfinished, Finished, Private,
         OutOfMap, Alive
<1>3. Private'
  BY DEF Private, Inside, Busy, Control, OutOfMap
<1>4. OutOfMap'
  BY Zenon DEF OutOfMap, Busy, Finished, Control, Private
<1>5. Alive'
  BY DEF Alive, Unfinished, Finished, Control, Busy, Inside
<1>6. ConnExclusive'
  BY <1>0 DEF ConnExclusive
<1>7. NoConnLeak'
  BY <1>0, Zenon DEF NoConnLeak
<1>8. NoZombie'
  BY DEF NoZombie, Finished, Control
<1>9. OneOutcome'
  BY DEF OneOutcome, Ended, Inside, Busy, Unfinished, Finished, Control,
         Alive
<1> QED BY <1>1, <1>2, <1>3, <1>4, <1>5, <1>6, <1>7, <1>8, <1>9, Zenon

\* Begin returns without a connection.
LEMMA AcquireFailsStep ==
  ASSUME IInv, NEW p \in Thread, AcquireFails(p)
  PROVE  IInv'
<1> USE TxManagerAssumption DEF IInv, TypeOK, TxId, Proc, AcquireFails,
          Goto, Return, poolVars, txVars
<1>1. TypeOK'
  BY Zenon DEF PC, Control, Inside, Busy
<1>2. Control'
  BY <1>1, ZenonT(30) DEF Control, Inside, Busy, Unfinished, Finished, Private,
         OutOfMap, Alive
<1>3. Private'
  BY DEF Private, Inside, Busy, Control, OutOfMap
<1>4. OutOfMap'
  BY Zenon DEF OutOfMap, Busy, Finished, Control, Private
<1>5. Alive'
  BY DEF Alive, Unfinished, Finished, Control, Busy, Inside
<1>6. ConnExclusive' /\ NoConnLeak'
  <2>1. \A j \in TxId : Holding(j)' <=> Holding(j)
    BY Zenon DEF Holding, Control, Private, OutOfMap, Inside, Busy
  <2>2. \A q \in Proc : pc'[q] = "begin" <=> pc[q] = "begin"
    BY Zenon
  <2>3. UNCHANGED <<free, hand, conn>>
    BY Zenon
  <2> QED BY <2>1, <2>2, <2>3, PoolFrame, Zenon
<1>8. NoZombie'
  BY DEF NoZombie, Finished, Control
<1>9. OneOutcome'
  BY DEF OneOutcome, Ended, Inside, Busy, Unfinished, Finished, Control,
         Alive
<1> QED BY <1>1, <1>2, <1>3, <1>4, <1>5, <1>6, <1>8, <1>9, Zenon

\* The connection moves from the hands of Begin to a fresh id.
LEMMA StartTxStep ==
  ASSUME IInv, NEW p \in Proc, StartTx(p)
  PROVE  IInv'
<1> USE TxManagerAssumption DEF IInv, TypeOK, TxId, Proc, StartTx, Goto
<1>a. /\ nextID + 1 \in TxId /\ ~Holding(nextID + 1)
      /\ conn'[nextID + 1] = hand[p]
      /\ \A j \in TxId : j # nextID + 1 => conn'[j] = conn[j]
  BY DEF Holding, Control, Busy
<1>b. \A q \in Proc : /\ pc'[q] = "begin" <=> pc[q] = "begin" /\ q # p
                      /\ q # p => hand'[q] = hand[q]
  BY Zenon
<1>0. \A j \in TxId : Holding(j)' <=> Holding(j) \/ j = nextID + 1
  <2>1. /\ pc'[p] = "insert" /\ cur'[p] = nextID + 1 /\ txns' = txns
        /\ \A q \in Proc : q # p => pc'[q] = pc[q] /\ cur'[q] = cur[q]
    BY Zenon
  <2> QED BY <2>1, Zenon DEF Holding
<1>1. TypeOK'
  <2>1. status' \in [TxId -> {"absent"} \cup Unfinished \cup Finished]
    BY Zenon DEF Unfinished
  <2>2. nextID' \in 0..MaxTx /\ txns' \in SUBSET (1..nextID')
    OBVIOUS
  <2>3. /\ conn' \in [TxId -> Conn \cup {None}]
        /\ hand' \in [Proc -> Conn \cup {None}]
    BY Zenon
  <2>4. pc' \in [Proc -> PC] /\ cur' \in [Proc -> {0} \cup TxId]
    BY <1>a, Zenon DEF PC
  <2> QED BY <2>1, <2>2, <2>3, <2>4, Zenon
<1>2. Control'
  BY <1>1 DEF Control, Inside, Busy, Unfinished, Finished, Private,
         OutOfMap, Alive
<1>3. Private'
  BY DEF Private, Inside, Busy, Control, OutOfMap
<1>4. OutOfMap'
  BY DEF OutOfMap, Busy, Finished, Control, Private
<1>5. Alive'
  BY DEF Alive, Unfinished, Finished, Control, Busy, Inside
<1>6. ConnExclusive'
  <2> USE <1>0, <1>a, <1>b
  <2>0. free' = free /\ hand[p] \in Conn \ free
    BY Zenon DEF ConnExclusive
  <2>1. \A j \in TxId : Holding(j)' => conn'[j] \in Conn \ free
    BY <2>0, Zenon DEF ConnExclusive
  <2>2. \A j, k \in TxId :
          Holding(j)' /\ Holding(k)' /\ conn'[j] = conn'[k] => j = k
    BY DEF ConnExclusive
  <2>3. \A q \in Proc : pc'[q] = "begin" =>
          /\ hand'[q] \in Conn \ free
          /\ \A j \in TxId : Holding(j)' => conn'[j] # hand'[q]
          /\ \A u \in Proc : pc'[u] = "begin" /\ hand'[u] = hand'[q] => u = q
    BY DEF ConnExclusive
  <2> QED BY <2>0, <2>1, <2>2, <2>3, Zenon DEF ConnExclusive
<1>7. NoConnLeak'
  <2> SUFFICES ASSUME NEW c \in Conn PROVE (NoConnLeak!(c))'
    BY Zenon DEF NoConnLeak
  <2>1. CASE c \in free
    BY <2>1, Zenon
  <2>2. ASSUME NEW q \in Proc, pc[q] = "begin", hand[q] = c
        PROVE  (NoConnLeak!(c))'
    BY <2>2, <1>0, <1>a, <1>b, Zenon
  <2>3. ASSUME NEW j \in TxId, Holding(j), conn[j] = c
        PROVE  (NoConnLeak!(c))'
    BY <2>3, <1>0, <1>a, Zenon
  <2> QED BY <2>1, <2>2, <2>3, Zenon DEF NoConnLeak
<1>8. NoZombie'
  BY DEF NoZombie, Finished, Control
<1>9. OneOutcome'
  BY DEF OneOutcome, Ended, Inside, Busy, Unfinished, Finished, Control,
         Alive
<1> QED BY <1>1, <1>2, <1>3, <1>4, <1>5, <1>6, <1>7, <1>8, <1>9, Zenon

\* The connection goes back to the pool.
LEMMA StartTxFailsStep ==
  ASSUME IInv, NEW p \in Proc, StartTxFails(p)
  PROVE  IInv'
<1> USE TxManagerAssumption DEF IInv, TypeOK, TxId, Proc, StartTxFails,
          Goto, Return, txVars
<1>0. \A j \in TxId : Holding(j)' <=> Holding(j)
  BY Zenon DEF Holding
<1>1. TypeOK'
  BY Zenon DEF ConnExclusive, PC
<1>2. Control'
  BY <1>1 DEF Control, Inside, Busy, Unfinished, Finished, Private,
         OutOfMap, Alive
<1>3. Private'
  BY DEF Private, Inside, Busy, Control, OutOfMap
<1>4. OutOfMap'
  BY Zenon DEF OutOfMap, Busy, Finished, Control, Private
<1>5. Alive'
  BY DEF Alive, Unfinished, Finished, Control, Busy, Inside
<1>6. ConnExclusive'
  BY <1>0, Zenon DEF ConnExclusive
<1>7. NoConnLeak'
  BY <1>0, Zenon DEF NoConnLeak
<1>8. NoZombie'
  BY DEF NoZombie, Finished, Control
<1>9. OneOutcome'
  BY DEF OneOutcome, Ended, Inside, Busy, Unfinished, Finished, Control,
         Alive
<1> QED BY <1>1, <1>2, <1>3, <1>4, <1>5, <1>6, <1>7, <1>8, <1>9, Zenon

\* The fresh id enters the map.
LEMMA InsertStep ==
  ASSUME IInv, NEW p \in Proc, Insert(p)
  PROVE  IInv'
<1> USE TxManagerAssumption DEF IInv, TypeOK, TxId, Proc, Insert, Goto,
          Return, poolVars, txVars
<1>a. cur[p] \in 1..nextID /\ status[cur[p]] = "open"
  BY Zenon DEF Control, Busy
<1>1. TypeOK'
  BY <1>a, Zenon DEF PC
<1>2. Control'
  BY <1>1, ZenonT(30) DEF Control, Inside, Busy, Unfinished, Finished, Private,
         OutOfMap, Alive
<1>3. Private'
  BY DEF Private, Inside, Busy, Control, OutOfMap
<1>4. OutOfMap'
  BY DEF OutOfMap, Busy, Finished, Control, Private
<1>5. Alive'
  BY DEF Alive, Unfinished, Finished, Control, Busy, Inside
<1>6. ConnExclusive' /\ NoConnLeak'
  <2>1. \A j \in TxId : Holding(j)' <=> Holding(j)
    BY Zenon DEF Holding, Control, Private, OutOfMap, Inside, Busy
  <2>2. \A q \in Proc : pc'[q] = "begin" <=> pc[q] = "begin"
    BY Zenon
  <2>3. UNCHANGED <<free, hand, conn>>
    BY Zenon
  <2> QED BY <2>1, <2>2, <2>3, PoolFrame, Zenon
<1>8. NoZombie'
  BY <1>a DEF NoZombie, Finished
<1>9. OneOutcome'
  BY DEF OneOutcome, Ended, Inside, Busy, Unfinished, Finished, Control,
         Alive
<1> QED BY <1>1, <1>2, <1>3, <1>4, <1>5, <1>6, <1>8, <1>9, Zenon

\* A request holds a pointer only to an id it found in the map.
LEMMA GetStep ==
  ASSUME IInv, NEW p \in Thread, NEW o \in {"exec", "commit", "rollback"},
         NEW i \in TxId, Get(p, o, i)
  PROVE  IInv'
<1> USE TxManagerAssumption DEF IInv, TypeOK, TxId, Proc, Get, Goto,
          poolVars, txVars
<1>1. TypeOK'
  BY Zenon DEF PC, Control, Inside, Busy
<1>2. Control'
  BY <1>1 DEF Control, Inside, Busy, Unfinished, Finished, Private,
         OutOfMap, Alive
<1>3. Private'
  BY DEF Private, Inside, Busy, Control, OutOfMap
<1>4. OutOfMap'
  BY Zenon DEF OutOfMap, Busy, Finished, Control, Private
<1>5. Alive'
  BY Zenon DEF Alive, Unfinished, Finished, Control, Busy, Inside
<1>6. ConnExclusive' /\ NoConnLeak'
  <2>1. \A j \in TxId : Holding(j)' <=> Holding(j)
    BY Zenon DEF Holding, Control, Private, OutOfMap, Inside, Busy
  <2>2. \A q \in Proc : pc'[q] = "begin" <=> pc[q] = "begin"
    BY Zenon
  <2>3. UNCHANGED <<free, hand, conn>>
    BY Zenon
  <2> QED BY <2>1, <2>2, <2>3, PoolFrame, Zenon
<1>8. NoZombie'
  BY Zenon DEF NoZombie, Finished, Control
<1>9. OneOutcome'
  BY DEF OneOutcome, Ended, Inside, Busy, Unfinished, Finished, Control,
         Alive
<1> QED BY <1>1, <1>2, <1>3, <1>4, <1>5, <1>6, <1>8, <1>9, Zenon

\* t.mu is taken by one process.
LEMMA LockStep ==
  ASSUME IInv, NEW p \in Proc, Lock(p)
  PROVE  IInv'
<1> USE TxManagerAssumption DEF IInv, TypeOK, TxId, Proc, Lock, Goto,
          poolVars, txVars
<1>1. TypeOK'
  BY Zenon DEF PC, Control, Inside, Busy
<1>2. Control'
  BY <1>1 DEF Control, Inside, Busy, Unfinished, Finished, Private,
         OutOfMap, Alive
<1>3. Private'
  BY DEF Private, Inside, Busy, Control, OutOfMap
<1>4. OutOfMap'
  BY Zenon DEF OutOfMap, Busy, Finished, Control, Private
<1>5. Alive'
  BY DEF Alive, Unfinished, Finished, Control, Busy, Inside
<1>6. ConnExclusive' /\ NoConnLeak'
  <2>0. pc[p] = "lock" /\ pc'[p] \in {"exec", "commit", "rollback"}
    BY Zenon DEF Control
  <2>1. \A j \in TxId : Holding(j)' <=> Holding(j)
    BY <2>0, Zenon DEF Holding
  <2>2. \A q \in Proc : pc'[q] = "begin" <=> pc[q] = "begin"
    BY <2>0, Zenon
  <2>3. UNCHANGED <<free, hand, conn>>
    BY Zenon
  <2> QED BY <2>1, <2>2, <2>3, PoolFrame, Zenon
<1>8. NoZombie'
  BY DEF NoZombie, Finished, Control
<1>9. OneOutcome'
  BY DEF OneOutcome, Ended, Inside, Busy, Unfinished, Finished, Control,
         Alive
<1> QED BY <1>1, <1>2, <1>3, <1>4, <1>5, <1>6, <1>8, <1>9, Zenon

\* lastUsed is set under t.mu.
LEMMA TouchStep ==
  ASSUME IInv, NEW p \in Proc, Touch(p)
  PROVE  IInv'
<1> USE TxManagerAssumption DEF IInv, TypeOK, TxId, Proc, Touch, Goto,
          poolVars, txVars
<1>a. cur[p] \in 1..nextID /\ cur[p] \in TxId
  BY DEF Control, Busy, Inside
<1>1. TypeOK'
  BY <1>a DEF PC
<1>2. Control'
  BY <1>1 DEF Control, Inside, Busy, Unfinished, Finished, Private,
         OutOfMap, Alive
<1>3. Private'
  BY DEF Private, Inside, Busy, Control, OutOfMap
<1>4. OutOfMap'
  BY DEF OutOfMap, Busy, Finished, Control, Private
<1>5. Alive'
  BY DEF Alive, Unfinished, Finished, Control, Busy, Inside
<1>6. ConnExclusive' /\ NoConnLeak'
  <2>1. \A j \in TxId : Holding(j)' <=> Holding(j)
    BY DEF Holding, Control, Private, OutOfMap, Inside, Busy
  <2>2. \A q \in Proc : pc'[q] = "begin" <=> pc[q] = "begin"
    BY Zenon
  <2>3. UNCHANGED <<free, hand, conn>>
    BY Zenon
  <2> QED BY <2>1, <2>2, <2>3, PoolFrame, Zenon
<1>8. NoZombie'
  BY DEF NoZombie, Finished, Control
<1>9. OneOutcome'
  BY DEF OneOutcome, Ended, Inside, Busy, Unfinished, Finished, Control,
         Alive
<1> QED BY <1>1, <1>2, <1>3, <1>4, <1>5, <1>6, <1>8, <1>9, Zenon

\* A statement succeeds.
LEMMA RunOkStep ==
  ASSUME IInv, NEW p \in Proc, RunOk(p)
  PROVE  IInv'
<1> USE TxManagerAssumption DEF IInv, TypeOK, TxId, Proc, RunOk, Goto,
          Return, Unlock, poolVars
<1>a. cur[p] \in 1..nextID /\ cur[p] \in TxId
  BY DEF Control, Busy, Inside
<1>1. TypeOK'
  BY <1>a, Zenon DEF PC
<1>2. Control'
  BY <1>1 DEF Control, Inside, Busy, Unfinished, Finished, Private,
         OutOfMap, Alive
<1>3. Private'
  BY DEF Private, Inside, Busy, Control, OutOfMap
<1>4. OutOfMap'
  BY Zenon DEF OutOfMap, Busy, Finished, Control, Private
<1>5. Alive'
  BY DEF Alive, Unfinished, Finished, Control, Busy, Inside
<1>6. ConnExclusive' /\ NoConnLeak'
  <2>1. \A j \in TxId : Holding(j)' <=> Holding(j)
    BY Zenon DEF Holding, Control, Private, OutOfMap, Inside, Busy
  <2>2. \A q \in Proc : pc'[q] = "begin" <=> pc[q] = "begin"
    BY Zenon
  <2>3. UNCHANGED <<free, hand, conn>>
    BY Zenon
  <2> QED BY <2>1, <2>2, <2>3, PoolFrame, Zenon
<1>8. NoZombie'
  BY DEF NoZombie, Finished, Control
<1>9. OneOutcome'
  BY DEF OneOutcome, Ended, Inside, Busy, Unfinished, Finished, Control,
         Alive
<1> QED BY <1>1, <1>2, <1>3, <1>4, <1>5, <1>6, <1>8, <1>9, Zenon

\* A statement fails, and may fail its transaction.
LEMMA RunFailsStep ==
  ASSUME IInv, NEW p \in Proc, RunFails(p)
  PROVE  IInv'
<1> USE TxManagerAssumption DEF IInv, TypeOK, TxId, Proc, RunFails, Goto,
          Return, Unlock, DropRow, poolVars
<1>a. cur[p] \in 1..nextID /\ cur[p] \in TxId
  BY DEF Control, Busy, Inside
<1>1. TypeOK'
  <2>1. status' \in [TxId -> {"absent"} \cup Unfinished \cup Finished]
    <3>1. "failed" \in {"absent"} \cup Unfinished \cup Finished
      BY Zenon DEF Unfinished
    <3>2. CASE status' = [status EXCEPT ![cur[p]] = "failed"]
      BY <3>1, <3>2, Zenon
    <3>3. CASE UNCHANGED status
      BY <3>3, Zenon
    <3> QED BY <3>2, <3>3, Zenon
  <2>2. mu' \in [TxId -> Proc \cup {None}] /\ row' \in {0} \cup TxId
    BY <1>a, Zenon
  <2>3. pc' \in [Proc -> PC]
    BY Zenon DEF PC
  <2> QED BY <2>1, <2>2, <2>3, Zenon
<1>2. Control'
  <2>1. CASE status' = [status EXCEPT ![cur[p]] = "failed"]
    BY <2>1, <1>a DEF Control, Private, Inside, Busy, Finished
  <2>2. CASE UNCHANGED status
    BY <2>2, <1>a DEF Control, Private, Inside, Busy, Finished
  <2> QED BY <2>1, <2>2, Zenon
<1>3. Private'
  BY DEF Private, Inside, Busy, Control, OutOfMap
<1>4. OutOfMap'
  BY Zenon DEF OutOfMap, Busy, Finished, Control, Private
<1>5. Alive'
  <2>1. CASE status' = [status EXCEPT ![cur[p]] = "failed"]
    BY <2>1, <1>a DEF Alive, Unfinished
  <2>2. CASE UNCHANGED status
    BY <2>2, <1>a DEF Alive, Unfinished
  <2> QED BY <2>1, <2>2, Zenon
<1>6. ConnExclusive' /\ NoConnLeak'
  <2>1. \A j \in TxId : Holding(j)' <=> Holding(j)
    BY Zenon DEF Holding, Control, Private, OutOfMap, Inside, Busy
  <2>2. \A q \in Proc : pc'[q] = "begin" <=> pc[q] = "begin"
    BY Zenon
  <2>3. UNCHANGED <<free, hand, conn>>
    BY Zenon
  <2> QED BY <2>1, <2>2, <2>3, PoolFrame, Zenon
<1>8. NoZombie'
  <2>1. CASE status' = [status EXCEPT ![cur[p]] = "failed"]
    BY <2>1, <1>a DEF NoZombie, Finished
  <2>2. CASE UNCHANGED status
    BY <2>2, <1>a DEF NoZombie, Finished
  <2> QED BY <2>1, <2>2, Zenon
<1>9. OneOutcome'
  <2>1. CASE status' = [status EXCEPT ![cur[p]] = "failed"]
    BY <2>1, <1>a DEF OneOutcome, Ended
  <2>2. CASE UNCHANGED status
    BY <2>2, <1>a DEF OneOutcome, Ended
  <2> QED BY <2>1, <2>2, Zenon
<1> QED BY <1>1, <1>2, <1>3, <1>4, <1>5, <1>6, <1>8, <1>9, Zenon

\* A statement meets a transaction that is no longer open.
LEMMA RunRefusedStep ==
  ASSUME IInv, NEW p \in Proc, RunRefused(p)
  PROVE  IInv'
<1> USE TxManagerAssumption DEF IInv, TypeOK, TxId, Proc, RunRefused, Goto,
          Return, Unlock, poolVars, txVars
<1>a. cur[p] \in 1..nextID /\ cur[p] \in TxId
  BY DEF Control, Busy, Inside
<1>1. TypeOK'
  BY <1>a, Zenon DEF PC
<1>2. Control'
  BY <1>1 DEF Control, Inside, Busy, Unfinished, Finished, Private,
         OutOfMap, Alive
<1>3. Private'
  BY DEF Private, Inside, Busy, Control, OutOfMap
<1>4. OutOfMap'
  BY Zenon DEF OutOfMap, Busy, Finished, Control, Private
<1>5. Alive'
  BY DEF Alive, Unfinished, Finished, Control, Busy, Inside
<1>6. ConnExclusive' /\ NoConnLeak'
  <2>1. \A j \in TxId : Holding(j)' <=> Holding(j)
    BY Zenon DEF Holding, Control, Private, OutOfMap, Inside, Busy
  <2>2. \A q \in Proc : pc'[q] = "begin" <=> pc[q] = "begin"
    BY Zenon
  <2>3. UNCHANGED <<free, hand, conn>>
    BY Zenon
  <2> QED BY <2>1, <2>2, <2>3, PoolFrame, Zenon
<1>8. NoZombie'
  BY DEF NoZombie, Finished, Control
<1>9. OneOutcome'
  BY DEF OneOutcome, Ended, Inside, Busy, Unfinished, Finished, Control,
         Alive
<1> QED BY <1>1, <1>2, <1>3, <1>4, <1>5, <1>6, <1>8, <1>9, Zenon

-----------------------------------------------------------------------------
(* The steps that end a transaction: Commit, Rollback, remove, the reaper  *)

\* Commit and Rollback end the transaction under t.mu, or find it ended; an
\* answer "ok" is only given by the process that ended it.
LEMMA EndStep ==
  ASSUME IInv, NEW p \in Proc, NEW s \in Finished, NEW r \in {"ok", "err"},
         pc[p] \in {"commit", "rollback"},
         status' = [status EXCEPT ![cur[p]] = s],
         res' = [res EXCEPT ![p] = r],
         status[cur[p]] \in Finished => s = status[cur[p]] /\ r = res[p],
         r = "ok" => s = IF pc[p] = "commit" THEN "committed"
                                             ELSE "rolledback",
         DropRow(p), Unlock(p), Goto(p, "remove"),
         UNCHANGED <<poolVars, nextID, conn, txns, lastUsed, op, cur, doomed>>
  PROVE  IInv'
<1> USE TxManagerAssumption DEF IInv, TypeOK, TxId, Proc, Goto, poolVars
<1>a. /\ cur[p] \in TxId /\ cur[p] \in 1..nextID
      /\ op[p] = pc[p]
  BY DEF Control, Busy, Inside
<1>b. /\ \A q \in Proc : q # p => pc'[q] = pc[q] /\ res'[q] = res[q]
      /\ pc'[p] = "remove" /\ res'[p] = r
      /\ UNCHANGED <<cur, op, txns, nextID, conn, free, hand>>
  BY Zenon
<1>c. /\ status'[cur[p]] = s
      /\ \A j \in TxId : j # cur[p] => status'[j] = status[j]
  BY <1>a, Zenon
<1>1. TypeOK'
  <2>1. status' \in [TxId -> {"absent"} \cup Unfinished \cup Finished]
    BY <1>a, Zenon
  <2>2. mu' \in [TxId -> Proc \cup {None}] /\ row' \in {0} \cup TxId
    BY Zenon DEF Unlock, DropRow
  <2>3. pc' \in [Proc -> PC] /\ res' \in [Proc -> {"ok", "err"}]
    BY Zenon DEF PC
  <2> QED BY <2>1, <2>2, <2>3, Zenon
<1>2. Control'
  <2> SUFFICES ASSUME NEW q \in Proc
               PROVE  (Control!(q))'
    BY Zenon DEF Control
  <2>1. CASE q = p
    BY <2>1, <1>a, <1>b, <1>c, Zenon DEF Busy, Inside
  <2>2. CASE q # p
    <3>1. pc[q] \in Inside => cur[q] # cur[p]
      BY <2>2 DEF Control, Inside
    <3>2. pc[q] = "insert" => cur[q] # cur[p]
      BY <2>2, Zenon DEF Private, Busy, Inside
    <3>3. pc[q] \in Busy => cur[q] \in TxId
      BY DEF Control
    <3>4. pc[q] \in Inside => mu'[cur[q]] = q
      BY <3>1, <3>3 DEF Control, Unlock, Busy
    <3>5. pc[q] \in {"remove", "release"} => status'[cur[q]] \in Finished
      BY <3>3, <1>c DEF Control, Busy
    <3>6. pc[q] = "insert" => status'[cur[q]] = "open"
      BY <3>2, <3>3, <1>c DEF Control, Busy
    <3> QED BY <2>2, <1>b, <3>4, <3>5, <3>6 DEF Control
  <2> QED BY <2>1, <2>2, Zenon
<1>3. Private'
  BY <1>b DEF Private, Inside, Busy
<1>4. OutOfMap'
  BY <1>b, Zenon DEF OutOfMap
<1>5. Alive'
  <2>1. status[cur[p]] # "absent" /\ ~(cur[p] > nextID)
    BY <1>a DEF Alive
  <2>2. s # "absent" /\ s \notin Unfinished
    BY Zenon DEF Finished, Unfinished
  <2> QED BY <1>a, <1>b, <1>c, <2>1, <2>2 DEF Alive
<1>6. ConnExclusive' /\ NoConnLeak'
  <2>1. \A j \in TxId : Holding(j)' <=> Holding(j)
    BY <1>b, Zenon DEF Holding
  <2>2. \A q \in Proc : pc'[q] = "begin" <=> pc[q] = "begin"
    BY <1>b, Zenon
  <2> QED BY <1>b, <2>1, <2>2, PoolFrame, Zenon
<1>8. NoZombie'
  <2> SUFFICES ASSUME NEW i \in txns, status'[i] \in Finished
               PROVE  \E q \in Proc : pc'[q] = "remove" /\ cur'[q] = i
    BY <1>b, Zenon DEF NoZombie
  <2>1. CASE i = cur[p]
    BY <2>1, <1>b, Zenon
  <2>2. CASE i # cur[p]
    <3>1. PICK q \in Proc : pc[q] = "remove" /\ cur[q] = i
      BY <2>2, <1>c DEF NoZombie
    <3> QED BY <3>1, <1>b, Zenon
  <2> QED BY <2>1, <2>2, Zenon
<1>9. OneOutcome'
  <2>1. \A q \in Proc :
          /\ Ended(q, "commit")' => status'[cur[q]] = "committed"
          /\ Ended(q, "rollback")' => status'[cur[q]] = "rolledback"
    BY <1>a, <1>b, <1>c DEF OneOutcome, Ended, Finished
  <2>2. ASSUME NEW q \in Proc, op[q] \in {"commit", "rollback"},
               res[q] = "ok", cur[q] = cur[p], r = "ok"
        PROVE  q = p
    <3>1. status[cur[p]] \in Finished
      BY <2>2, Zenon DEF OneOutcome, Ended, Finished
    <3>2. res[p] = "ok" /\ op[p] \in {"commit", "rollback"}
      BY <3>1, <2>2, <1>a, Zenon
    <3> QED BY <3>2, <2>2, Zenon DEF OneOutcome
  <2>3. ASSUME NEW q1 \in Proc, NEW q2 \in Proc,
               op[q1] \in {"commit", "rollback"},
               op[q2] \in {"commit", "rollback"},
               res'[q1] = "ok", res'[q2] = "ok", cur[q1] = cur[q2]
        PROVE  q1 = q2
    <3>1. CASE q1 = p
      BY <3>1, <2>2, <2>3, <1>b, Zenon
    <3>2. CASE q2 = p
      BY <3>2, <2>2, <2>3, <1>b, Zenon
    <3>3. CASE q1 # p /\ q2 # p
      BY <3>3, <2>3, <1>b DEF OneOutcome
    <3> QED BY <3>1, <3>2, <3>3, Zenon
  <2> QED BY <1>b, <2>1, <2>3 DEF OneOutcome
<1> QED BY <1>1, <1>2, <1>3, <1>4, <1>5, <1>6, <1>8, <1>9, Zenon

\* The three cases of t.tx.Commit.
LEMMA CommitTxStep ==
  ASSUME IInv, NEW p \in Proc, CommitTx(p)
  PROVE  IInv'
<1> USE DEF IInv, TypeOK
<1>a. /\ cur[p] \in TxId /\ op[p] = "commit"
      /\ res[p] = "ok" => status[cur[p]] = "committed"
  BY DEF CommitTx, Control, Busy, Inside, OneOutcome, Ended, TxId
<1>1. PICK s \in Finished, r \in {"ok", "err"} :
        /\ status' = [status EXCEPT ![cur[p]] = s]
        /\ res' = [res EXCEPT ![p] = r]
        /\ status[cur[p]] \in Finished => s = status[cur[p]] /\ r = res[p]
        /\ r = "ok" => s = "committed"
  <2>1. CASE status[cur[p]] = "open"
    BY <2>1, Zenon DEF CommitTx, Finished
  <2>2. CASE status[cur[p]] = "failed"
    <3>1. res[p] = "err"
      BY <1>a, <2>2, Zenon
    <3>2. res' = [res EXCEPT ![p] = "err"]
      BY <2>2, <3>1, Zenon DEF CommitTx, Finished
    <3> QED BY <2>2, <3>1, <3>2, Zenon DEF CommitTx, Finished
  <2>3. CASE status[cur[p]] \in Finished
    <3>1. status' = [status EXCEPT ![cur[p]] = status[cur[p]]]
      BY <1>a, <2>3, Zenon DEF CommitTx, Finished
    <3>2. res' = [res EXCEPT ![p] = res[p]]
      BY <2>3, Zenon DEF CommitTx, Finished
    <3> QED BY <1>a, <2>3, <3>1, <3>2, Zenon
  <2> QED BY <2>1, <2>2, <2>3, Zenon DEF CommitTx
<1> QED BY <1>1, EndStep, Zenon DEF CommitTx

\* The two cases of t.tx.Rollback.
LEMMA RollbackTxStep ==
  ASSUME IInv, NEW p \in Proc, RollbackTx(p)
  PROVE  IInv'
<1> USE DEF IInv, TypeOK
<1>a. /\ cur[p] \in TxId /\ op[p] = "rollback"
      /\ res[p] = "ok" => status[cur[p]] = "rolledback"
  BY DEF RollbackTx, Control, Busy, Inside, OneOutcome, Ended, TxId
<1>1. PICK s \in Finished, r \in {"ok", "err"} :
        /\ status' = [status EXCEPT ![cur[p]] = s]
        /\ res' = [res EXCEPT ![p] = r]
        /\ status[cur[p]] \in Finished => s = status[cur[p]] /\ r = res[p]
        /\ r = "ok" => s = "rolledback"
  <2>1. CASE status[cur[p]] \in Unfinished
    <3>1. status[cur[p]] \notin Finished /\ "rolledback" \in Finished
      BY <2>1, Zenon DEF Unfinished, Finished
    <3>2. status' = [status EXCEPT ![cur[p]] = "rolledback"]
      BY <2>1, <3>1, Zenon DEF RollbackTx
    <3>3. PICK r \in {"ok", "err"} : res' = [res EXCEPT ![p] = r]
      BY <2>1, <3>1, Zenon DEF RollbackTx
    <3> QED BY <3>1, <3>2, <3>3, Zenon
  <2>2. CASE status[cur[p]] \in Finished
    <3>1. status[cur[p]] \notin Unfinished
      BY <2>2, Zenon DEF Unfinished, Finished
    <3>2. status' = [status EXCEPT ![cur[p]] = status[cur[p]]]
      BY <1>a, <2>2, <3>1, Zenon DEF RollbackTx
    <3>3. res' = [res EXCEPT ![p] = res[p]]
      BY <2>2, <3>1, Zenon DEF RollbackTx
    <3> QED BY <1>a, <2>2, <3>2, <3>3, Zenon
  <2> QED BY <2>1, <2>2, Zenon DEF RollbackTx
<1> QED BY <1>1, EndStep, Zenon DEF RollbackTx

\* One process leaves for a place where at most its id and the end of its
\* transaction matter: what each place knows stays so.
LEMMA ControlKept ==
  ASSUME Control, NEW r \in Proc, UNCHANGED <<nextID, status, mu>>,
         \A q \in Proc : q # r => pc'[q] = pc[q] /\ op'[q] = op[q] /\ cur'[q] = cur[q],
         \/ pc'[r] \in {"idle", "sweep"}
         \/ pc'[r] = "lock" /\ op'[r] = "rollback" /\ cur'[r] \in 1..nextID
         \/ pc'[r] = "release" /\ cur'[r] \in 1..nextID /\ status[cur'[r]] \in Finished
  PROVE  Control'
BY DEF Control, Inside, Busy

\* A call that has not succeeded replaces one of process r: the successful
\* ends stay true and unique.
LEMMA OutcomesKept ==
  ASSUME OneOutcome, NEW r \in Proc, UNCHANGED status, res'[r] # "ok",
         \A q \in Proc : q # r => op'[q] = op[q] /\ cur'[q] = cur[q] /\ res'[q] = res[q]
  PROVE  OneOutcome'
BY DEF OneOutcome, Ended

\* A step that ends no call.
LEMMA OutcomesFrame ==
  ASSUME OneOutcome, UNCHANGED <<status, op, cur, res>>
  PROVE  OneOutcome'
BY DEF OneOutcome, Ended

\* A process returns, or goes on with an id it found in the map: it shares
\* the id with no Begin and with nobody who releases the connection.
LEMMA PrivateKept ==
  ASSUME Private, OutOfMap, NEW r \in Proc,
         \A q \in Proc : q # r => pc'[q] = pc[q] /\ cur'[q] = cur[q],
         pc'[r] \in {"idle", "sweep"} \/ (pc'[r] = "lock" /\ cur'[r] \in txns)
  PROVE  Private'
BY DEF Private, OutOfMap, Busy, Inside

\* The first process to reach remove takes the id out of the map.
LEMMA RemoveStep ==
  ASSUME IInv, NEW p \in Proc, Remove(p)
  PROVE  IInv'
<1> USE TxManagerAssumption DEF IInv, TypeOK, TxId, Proc, Remove, Goto,
          Return, poolVars, txVars
<1>a. cur[p] \in 1..nextID /\ cur[p] \in TxId
  BY DEF Control, Busy, Inside
<1>b. /\ \A i \in txns' : i \in txns /\ i # cur[p]
      /\ \A q \in Proc : q # p => pc'[q] = pc[q]
      /\ pc'[p] # "insert" /\ pc'[p] # "remove" /\ UNCHANGED <<cur, status>>
  BY Zenon
<1>c. pc'[p] = "release" => cur[p] \in txns
  BY Zenon
<1>1. TypeOK'
  <2>1. txns' \in SUBSET (1..nextID)
    BY Zenon
  <2>2. pc' \in [Proc -> PC]
    BY Zenon DEF PC
  <2> QED BY <2>1, <2>2, Zenon
<1>2. Control'
  <2>0. pc[p] = "remove" /\ pc'[p] \in {"release", "idle", "sweep"}
    BY Zenon
  <2>1. status[cur[p]] \in Finished
    BY <2>0, Zenon DEF Control
  <2>2. UNCHANGED <<nextID, status, mu, op, cur>>
    BY Zenon
  <2>3. \A q \in Proc : q # p => op'[q] = op[q] /\ cur'[q] = cur[q]
    BY <2>2, Zenon
  <2>4. Control
    BY Zenon
  <2> HIDE DEF IInv, TypeOK, TxId, Proc, Remove
  <2> QED BY <1>a, <1>b, <2>0, <2>1, <2>2, <2>3, <2>4, ControlKept, Zenon
<1>3. Private'
  BY <1>b, <1>c DEF Private, OutOfMap, Busy, Inside
<1>4. OutOfMap'
  BY <1>b, Zenon DEF OutOfMap
<1>5. Alive'
  <2>1. status[cur[p]] \notin Unfinished
    BY Zenon DEF Control, Finished, Unfinished
  <2>2. \A i \in txns : i # cur[p] => i \in txns'
    BY Zenon
  <2> QED BY <1>b, <2>1, <2>2 DEF Alive
<1>6. ConnExclusive' /\ NoConnLeak'
  <2>1. \A j \in TxId : Holding(j)' <=> Holding(j)
    <3>1. \A i \in txns : i # cur[p] => i \in txns'
      BY Zenon
    <3>2. pc'[p] # "release" => txns' = txns
      BY Zenon
    <3> QED BY <1>b, <1>c, <3>1, <3>2 DEF Holding
  <2>2. \A q \in Proc : pc'[q] = "begin" <=> pc[q] = "begin"
    BY Zenon
  <2>3. UNCHANGED <<free, hand, conn>>
    BY Zenon
  <2> QED BY <2>1, <2>2, <2>3, PoolFrame, Zenon
<1>8. NoZombie'
  <2> SUFFICES ASSUME NEW i \in txns', status'[i] \in Finished
               PROVE  \E q \in Proc : pc'[q] = "remove" /\ cur'[q] = i
    BY Zenon DEF NoZombie
  <2>1. PICK q \in Proc : pc[q] = "remove" /\ cur[q] = i
    BY <1>b, Zenon DEF NoZombie
  <2> QED BY <2>1, <1>b, Zenon
<1>9. OneOutcome'
  <2>1. OneOutcome /\ UNCHANGED <<status, op, cur, res>>
    BY Zenon
  <2> QED BY <2>1, OutcomesFrame, Zenon
<1> QED BY <1>1, <1>2, <1>3, <1>4, <1>5, <1>6, <1>8, <1>9, Zenon

\* The connection of a transaction that ends goes back to the pool: the
\* others keep theirs to themselves.
LEMMA PoolTakesBack ==
  ASSUME ConnExclusive, NEW i \in TxId, Holding(i), free' = free \cup {conn[i]},
         hand' = hand, \A j \in TxId : j # i => conn'[j] = conn[j],
         \A j \in TxId : Holding(j)' <=> Holding(j) /\ j # i,
         \A q \in Proc : pc'[q] = "begin" => pc[q] = "begin"
  PROVE  ConnExclusive'
BY DEF ConnExclusive

\* The process that took the id out gives the connection back.
LEMMA ReleaseStep ==
  ASSUME IInv, NEW p \in Proc, Release(p)
  PROVE  IInv'
<1> USE TxManagerAssumption DEF IInv, TypeOK, TxId, Proc, Release, Goto,
          Return, txVars
<1>a. cur[p] \in 1..nextID /\ cur[p] \in TxId
  BY DEF Control, Busy, Inside
<1>b. /\ \A q \in Proc : q # p => pc'[q] = pc[q]
      /\ pc'[p] \notin {"insert", "release", "begin"}
      /\ UNCHANGED <<cur, txns, hand>> /\ free' = free \cup {conn[cur[p]]}
      /\ \A j \in TxId : j # cur[p] => conn'[j] = conn[j]
  BY <1>a, Zenon
<1>0. \A j \in TxId : Holding(j)' <=> Holding(j) /\ j # cur[p]
  BY <1>b DEF Holding, Private, OutOfMap, Busy
<1>c. Holding(cur[p]) /\ conn[cur[p]] \in Conn
  BY <1>a, Zenon DEF Holding, ConnExclusive
<1>1. TypeOK'
  BY <1>c, ZenonT(30) DEF PC
<1>2. Control'
  <2>1. pc'[p] \in {"idle", "sweep"} /\ UNCHANGED <<nextID, status, mu, op, cur>>
    BY Zenon
  <2>2. \A q \in Proc : q # p => op'[q] = op[q] /\ cur'[q] = cur[q]
    BY <2>1, Zenon
  <2>3. Control
    BY Zenon
  <2> HIDE DEF IInv, TypeOK, TxId, Proc, Release
  <2> QED BY <1>b, <2>1, <2>2, <2>3, ControlKept, Zenon
<1>3. Private'
  <2>1. Private /\ OutOfMap /\ pc'[p] \in {"idle", "sweep"}
    BY Zenon
  <2> HIDE DEF IInv, TypeOK, TxId, Proc, Release
  <2> QED BY <1>b, <2>1, PrivateKept, Zenon
<1>4. OutOfMap'
  BY Zenon DEF OutOfMap, Busy, Finished, Control, Private
<1>5. Alive'
  BY DEF Alive, Unfinished, Finished, Control, Busy, Inside
<1>6. ConnExclusive'
  <2>1. ConnExclusive
    BY Zenon
  <2>2. \A q \in Proc : pc'[q] = "begin" => pc[q] = "begin"
    BY <1>b, Zenon
  <2> HIDE DEF IInv, TypeOK, TxId, Proc, Release
  <2> QED BY <1>0, <1>a, <1>b, <1>c, <2>1, <2>2, PoolTakesBack, Zenon
<1>7. NoConnLeak'
  <2> SUFFICES ASSUME NEW c \in Conn, c \notin free'
               PROVE  \/ \E q \in Proc : pc'[q] = "begin" /\ hand'[q] = c
                      \/ \E j \in TxId : Holding(j)' /\ conn'[j] = c
    BY Zenon DEF NoConnLeak
  <2>1. c \notin free /\ c # conn[cur[p]]
    BY <1>b, Zenon
  <2>2. CASE \E q \in Proc : pc[q] = "begin" /\ hand[q] = c
    BY <2>2, <1>b, Zenon
  <2>3. CASE \E j \in TxId : Holding(j) /\ conn[j] = c
    BY <2>1, <2>3, <1>0, <1>b, Zenon
  <2> QED BY <2>1, <2>2, <2>3, Zenon DEF NoConnLeak
<1>8. NoZombie'
  BY DEF NoZombie, Finished, Control
<1>9. OneOutcome'
  <2>1. OneOutcome /\ UNCHANGED <<status, op, cur, res>>
    BY Zenon
  <2> QED BY <2>1, OutcomesFrame, Zenon
<1> QED BY <1>1, <1>2, <1>3, <1>4, <1>5, <1>6, <1>7, <1>8, <1>9, Zenon

\* Time passes.
LEMMA ExpireStep ==
  ASSUME IInv, NEW i \in TxId, Expire(i)
  PROVE  IInv'
<1> USE TxManagerAssumption DEF IInv, TypeOK, TxId, Proc, Expire, poolVars,
          txVars
<1>1. TypeOK'
  BY Zenon DEF PC, Control, Inside, Busy
<1>2. Control'
  BY Zenon DEF Control
<1>3. Private'
  BY Zenon DEF Private
<1>4. OutOfMap'
  BY Zenon DEF OutOfMap
<1>5. Alive'
  BY Zenon DEF Alive
<1>6. ConnExclusive' /\ NoConnLeak'
  <2>1. \A j \in TxId : Holding(j)' <=> Holding(j)
    BY Zenon DEF Holding
  <2>2. \A q \in Proc : pc'[q] = "begin" <=> pc[q] = "begin"
    BY Zenon
  <2>3. UNCHANGED <<free, hand, conn>>
    BY Zenon
  <2> QED BY <2>1, <2>2, <2>3, PoolFrame, Zenon
<1>8. NoZombie'
  BY Zenon DEF NoZombie
<1>9. OneOutcome'
  BY DEF OneOutcome, Ended
<1> QED BY <1>1, <1>2, <1>3, <1>4, <1>5, <1>6, <1>8, <1>9, Zenon

\* The reaper lists the stale ids.
LEMMA ScanStep ==
  ASSUME IInv, Scan
  PROVE  IInv'
<1> USE TxManagerAssumption DEF IInv, TypeOK, TxId, Proc, Scan, Goto,
          poolVars, txVars, Expired
<1>b. \A q \in Proc : q # Reaper => pc'[q] = pc[q] /\ cur'[q] = cur[q]
  BY Zenon
<1>c. Reaper \in Proc /\ pc'[Reaper] = "sweep"
  BY Zenon
<1>1. TypeOK'
  <2>1. \A j \in txns : j \in TxId
    OBVIOUS
  <2>2. doomed' \in SUBSET TxId
    BY <2>1, Zenon
  <2> QED BY <2>2, Zenon DEF PC
<1>2. Control'
  <2>1. Control /\ UNCHANGED <<nextID, status, mu, op>>
    BY Zenon
  <2>2. \A q \in Proc : op'[q] = op[q]
    BY <2>1, Zenon
  <2> HIDE DEF IInv, TypeOK, TxId, Proc, Scan
  <2> QED BY <1>b, <1>c, <2>1, <2>2, ControlKept, Zenon
<1>3. Private'
  <2>1. Private /\ OutOfMap
    BY Zenon
  <2> HIDE DEF IInv, TypeOK, TxId, Proc, Scan
  <2> QED BY <1>b, <1>c, <2>1, PrivateKept, Zenon
<1>4. OutOfMap'
  BY Zenon DEF OutOfMap, Busy, Finished, Control, Private
<1>5. Alive'
  BY DEF Alive, Unfinished, Finished, Control, Busy, Inside
<1>6. ConnExclusive' /\ NoConnLeak'
  <2>1. \A j \in TxId : Holding(j)' <=> Holding(j)
    BY Zenon DEF Holding, Control, Private, OutOfMap, Inside, Busy
  <2>2. \A q \in Proc : pc'[q] = "begin" <=> pc[q] = "begin"
    BY Zenon
  <2>3. UNCHANGED <<free, hand, conn>>
    BY Zenon
  <2> QED BY <2>1, <2>2, <2>3, PoolFrame, Zenon
<1>8. NoZombie'
  BY DEF NoZombie, Finished, Control
<1>9. OneOutcome'
  <2>1. OneOutcome /\ UNCHANGED <<status, op, cur, res>>
    BY Zenon
  <2> QED BY <2>1, OutcomesFrame, Zenon
<1> QED BY <1>1, <1>2, <1>3, <1>4, <1>5, <1>6, <1>8, <1>9, Zenon

\* The reaper looks a listed id up.
LEMMA SweepStep ==
  ASSUME IInv, Sweep
  PROVE  IInv'
<1> USE TxManagerAssumption DEF IInv, TypeOK, TxId, Proc, Sweep, Goto,
          poolVars, txVars
<1>b. \A q \in Proc : q # Reaper => pc'[q] = pc[q] /\ cur'[q] = cur[q]
  BY Zenon
<1>c. /\ Reaper \in Proc
      /\ pc[Reaper] = "sweep" /\ pc'[Reaper] \in {"lock", "sweep"}
  BY Zenon
<1>1. TypeOK'
  BY DEF PC, Control, Inside, Busy
<1>2. Control'
  <2>1. \A q \in Proc : q # Reaper => op'[q] = op[q]
    BY Zenon
  <2>2. pc'[Reaper] = "lock" => op'[Reaper] = "rollback" /\ cur'[Reaper] \in 1..nextID
    OBVIOUS
  <2>3. UNCHANGED <<nextID, status, mu>>
    BY Zenon
  <2>4. Control
    BY Zenon
  <2> HIDE DEF IInv, TypeOK, TxId, Proc, Sweep
  <2> QED BY <1>b, <1>c, <2>1, <2>2, <2>3, <2>4, ControlKept, Zenon
<1>3. Private'
  <2>1. Private /\ OutOfMap
    BY Zenon
  <2>2. pc'[Reaper] = "lock" => cur'[Reaper] \in txns
    OBVIOUS
  <2> HIDE DEF IInv, TypeOK, TxId, Proc, Sweep
  <2> QED BY <1>b, <1>c, <2>1, <2>2, PrivateKept, Zenon
<1>4. OutOfMap'
  BY <1>b, <1>c, Zenon DEF OutOfMap
<1>5. Alive'
  BY <1>b, <1>c DEF Alive
<1>6. ConnExclusive' /\ NoConnLeak'
  <2>1. \A j \in TxId : Holding(j)' <=> Holding(j)
    BY <1>b, <1>c, Zenon DEF Holding
  <2>2. \A q \in Proc : pc'[q] = "begin" <=> pc[q] = "begin"
    BY <1>b, <1>c, Zenon
  <2>3. UNCHANGED <<free, hand, conn>>
    BY Zenon
  <2> QED BY <2>1, <2>2, <2>3, PoolFrame, Zenon
<1>8. NoZombie'
  <2> SUFFICES ASSUME NEW i \in txns', status'[i] \in Finished
               PROVE  \E q \in Proc : pc'[q] = "remove" /\ cur'[q] = i
    BY Zenon DEF NoZombie
  <2>1. PICK q \in Proc : pc[q] = "remove" /\ cur[q] = i
    BY Zenon DEF NoZombie
  <2> QED BY <2>1, <1>b, <1>c, Zenon
<1>9. OneOutcome'
  <2>1. \A q \in Proc : q # Reaper =>
          op'[q] = op[q] /\ cur'[q] = cur[q] /\ res'[q] = res[q]
    BY Zenon
  <2>2. Reaper \in Proc /\ res'[Reaper] = "err" /\ UNCHANGED status /\ OneOutcome
    BY Zenon
  <2> HIDE DEF IInv, TypeOK, TxId, Proc, Sweep
  <2> QED BY <2>1, <2>2, OutcomesKept, Zenon
<1> QED BY <1>1, <1>2, <1>3, <1>4, <1>5, <1>6, <1>8, <1>9, Zenon

\* The sweep ends.
LEMMA SweepDoneStep ==
  ASSUME IInv, SweepDone
  PROVE  IInv'
<1> USE TxManagerAssumption DEF IInv, TypeOK, TxId, Proc, SweepDone, Goto,
          poolVars, txVars
<1>1. TypeOK'
  BY Zenon DEF PC, Control, Inside, Busy
<1>2. Control'
  <2>1. \A q \in Proc : q # Reaper =>
          pc'[q] = pc[q] /\ op'[q] = op[q] /\ cur'[q] = cur[q]
    BY Zenon
  <2>2. /\ Reaper \in Proc /\ pc'[Reaper] = "idle" /\ Control
        /\ UNCHANGED <<nextID, status, mu>>
    BY Zenon
  <2> HIDE DEF IInv, TypeOK, TxId, Proc, SweepDone
  <2> QED BY <2>1, <2>2, ControlKept, Zenon
<1>3. Private'
  <2>1. \A q \in Proc : q # Reaper => pc'[q] = pc[q] /\ cur'[q] = cur[q]
    BY Zenon
  <2>2. Private /\ OutOfMap /\ Reaper \in Proc /\ pc'[Reaper] = "idle"
    BY Zenon
  <2> HIDE DEF IInv, TypeOK, TxId, Proc, SweepDone
  <2> QED BY <2>1, <2>2, PrivateKept, Zenon
<1>4. OutOfMap'
  BY Zenon DEF OutOfMap, Busy, Finished, Control, Private
<1>5. Alive'
  BY Zenon DEF Alive, Unfinished, Finished, Control, Busy, Inside
<1>6. ConnExclusive' /\ NoConnLeak'
  <2>1. \A j \in TxId : Holding(j)' <=> Holding(j)
    BY Zenon DEF Holding, Control, Private, OutOfMap, Inside, Busy
  <2>2. \A q \in Proc : pc'[q] = "begin" <=> pc[q] = "begin"
    BY Zenon
  <2>3. UNCHANGED <<free, hand, conn>>
    BY Zenon
  <2> QED BY <2>1, <2>2, <2>3, PoolFrame, Zenon
<1>8. NoZombie'
  BY Zenon DEF NoZombie, Finished, Control
<1>9. OneOutcome'
  <2>1. \A q \in Proc : q # Reaper =>
          op'[q] = op[q] /\ cur'[q] = cur[q] /\ res'[q] = res[q]
    BY Zenon
  <2>2. Reaper \in Proc /\ res'[Reaper] = "err" /\ UNCHANGED status /\ OneOutcome
    BY Zenon
  <2> HIDE DEF IInv, TypeOK, TxId, Proc, SweepDone
  <2> QED BY <2>1, <2>2, OutcomesKept, Zenon
<1> QED BY <1>1, <1>2, <1>3, <1>4, <1>5, <1>6, <1>8, <1>9, Zenon

-----------------------------------------------------------------------------
(* The invariant                                                           *)

\* Nothing is held and no transaction exists at start.
LEMMA InitIInv == Init => IInv
<1> SUFFICES ASSUME Init PROVE IInv
  BY Zenon
<1> USE TxManagerAssumption DEF Init
<1>1. TypeOK
  BY DEF TypeOK, PC, Proc, TxId
<1>2. Control /\ Private /\ OutOfMap
  BY Zenon DEF Control, Private, OutOfMap, Busy, Inside
<1>3. Alive
  BY DEF Alive, Unfinished, TxId
<1>4. ConnExclusive /\ NoConnLeak
  BY Zenon DEF ConnExclusive, NoConnLeak, Holding
<1>5. NoZombie /\ OneOutcome
  BY Zenon DEF NoZombie, OneOutcome, Ended
<1> QED BY <1>1, <1>2, <1>3, <1>4, <1>5, Zenon DEF IInv

\* Every step preserves it, one case per action.
LEMMA NextIInv == IInv /\ [Next]_vars => IInv'
<1> SUFFICES ASSUME IInv, [Next]_vars PROVE IInv'
  BY Zenon
<1>1. ASSUME NEW p \in Thread, CallBegin(p) \/ Acquire(p) \/ AcquireFails(p)
      PROVE  IInv'
  BY <1>1, CallBeginStep, AcquireStep, AcquireFailsStep, Zenon
<1>2. ASSUME NEW p \in Thread, NEW o \in {"exec", "commit", "rollback"},
             NEW i \in TxId, Get(p, o, i)
      PROVE  IInv'
  BY <1>2, GetStep, Zenon
<1>3. ASSUME NEW p \in Proc, StartTx(p) \/ StartTxFails(p) \/ Insert(p)
      PROVE  IInv'
  BY <1>3, StartTxStep, StartTxFailsStep, InsertStep, Zenon
<1>4. ASSUME NEW p \in Proc,
             Lock(p) \/ Touch(p) \/ RunOk(p) \/ RunFails(p) \/ RunRefused(p)
      PROVE  IInv'
  BY <1>4, LockStep, TouchStep, RunOkStep, RunFailsStep, RunRefusedStep, Zenon
<1>5. ASSUME NEW p \in Proc,
             CommitTx(p) \/ RollbackTx(p) \/ Remove(p) \/ Release(p)
      PROVE  IInv'
  BY <1>5, CommitTxStep, RollbackTxStep, RemoveStep, ReleaseStep, Zenon
<1>6. ASSUME NEW i \in TxId, Expire(i)
      PROVE  IInv'
  BY <1>6, ExpireStep, Zenon
<1>7. CASE Scan \/ Sweep \/ SweepDone
  BY <1>7, ScanStep, SweepStep, SweepDoneStep, Zenon
<1>8. CASE UNCHANGED vars
  <2>0. TypeOK'
    BY <1>8, Zenon DEF IInv, vars, TypeOK
  <2>1. Control' /\ Private'
    BY <1>8, Zenon DEF IInv, vars, Control, Private
  <2>2. OutOfMap' /\ Alive'
    BY <1>8, Zenon DEF IInv, vars, OutOfMap, Alive
  <2>3. ConnExclusive' /\ NoConnLeak'
    BY <1>8, PoolFrame, Zenon DEF IInv, vars, Holding
  <2>4. NoZombie' /\ OneOutcome'
    BY <1>8, Zenon DEF IInv, vars, NoZombie, OneOutcome, Ended
  <2> QED BY <2>0, <2>1, <2>2, <2>3, <2>4, Zenon DEF IInv
<1> QED BY <1>1, <1>2, <1>3, <1>4, <1>5, <1>6, <1>7, <1>8, Zenon DEF Next

\* IInv holds in every reachable state of the transaction manager.
THEOREM Invariance == Spec => []IInv
BY InitIInv, NextIInv, PTL DEF Spec

\* The state of the manager keeps its types.
THEOREM TypeCorrect == Spec => []TypeOK
<1>1. IInv => TypeOK
  BY Zenon DEF IInv
<1> QED BY <1>1, Invariance, PTL

\* However many goroutines commit, roll back, reap and begin at once, no
\* connection of the pool ever has two users (Begin and remove).
THEOREM ConnectionsExclusive == Spec => []ConnExclusive
<1>1. IInv => ConnExclusive
  BY Zenon DEF IInv
<1> QED BY <1>1, Invariance, PTL

\* No path of Begin, Commit, Rollback or the reaper loses a connection.
THEOREM ConnectionsNotLeaked == Spec => []NoConnLeak
<1>1. IInv => NoConnLeak
  BY Zenon DEF IInv
<1> QED BY <1>1, Invariance, PTL

\* A request that got its pointer from the map and then lost a race for t.mu
\* never runs an unfinished transaction on a connection that was given back.
THEOREM NeverUsedAfterRelease == Spec => []NoUseAfterRelease
<1>1. IInv => NoUseAfterRelease
  <2> SUFFICES ASSUME IInv, NEW p \in Proc, pc[p] \in Inside,
                      status[cur[p]] \in Unfinished
               PROVE  cur[p] \in txns
    BY Zenon DEF NoUseAfterRelease, Inside
  <2>1. cur[p] \in TxId
    BY TxManagerAssumption DEF IInv, TypeOK, Control, Busy, TxId
  <2>2. ~\E q \in Proc : pc[q] = "insert" /\ cur[q] = cur[p]
    BY Zenon DEF IInv, Private, Busy, Inside
  <2> QED BY <2>1, <2>2, Zenon DEF IInv, Alive
<1> QED BY <1>1, Invariance, PTL

\* A transaction whose Commit or Rollback failed does not stay in the map.
THEOREM ZombieFree == Spec => []NoZombie
<1>1. IInv => NoZombie
  BY Zenon DEF IInv
<1> QED BY <1>1, Invariance, PTL

\* A success answer of Commit or Rollback is true and given once.
THEOREM OutcomeUnique == Spec => []OneOutcome
<1>1. IInv => OneOutcome
  BY Zenon DEF IInv
<1> QED BY <1>1, Invariance, PTL

-----------------------------------------------------------------------------
(* Refinement                                                              *)

\* What a step may do to the state LocalTx sees: nothing, begin the next id,
\* or move one transaction along.
LocalMove ==
  \/ UNCHANGED <<nextID, status>>
  \/ /\ nextID < MaxTx
     /\ nextID' = nextID + 1
     /\ status' = [status EXCEPT ![nextID + 1] = "open"]
  \/ \E i \in TxId :
       /\ UNCHANGED nextID
       /\ \/ /\ status[i] = "open"
             /\ \E s \in {"failed", "committed"} :
                  status' = [status EXCEPT ![i] = s]
          \/ /\ status[i] \in Unfinished
             /\ status' = [status EXCEPT ![i] = "rolledback"]

\* Every step of the manager is such a move, one case per action.
LEMMA StepOfLocalTx ==
  ASSUME IInv, [Next]_vars
  PROVE  LocalMove
<1>0. ASSUME NEW p \in Proc, pc[p] \in Inside
      PROVE  cur[p] \in TxId
  BY <1>0, TxManagerAssumption DEF IInv, TypeOK, Control, Busy, TxId
<1>1. ASSUME NEW p \in Thread, CallBegin(p) \/ Acquire(p) \/ AcquireFails(p)
      PROVE  LocalMove
  BY <1>1, Zenon DEF CallBegin, Acquire, AcquireFails, txVars, LocalMove
<1>2. ASSUME NEW p \in Thread, NEW o \in {"exec", "commit", "rollback"},
             NEW i \in TxId, Get(p, o, i)
      PROVE  LocalMove
  BY <1>2, Zenon DEF Get, txVars, LocalMove
<1>3. ASSUME NEW p \in Proc, StartTx(p)
      PROVE  LocalMove
  BY <1>3, Zenon DEF StartTx, LocalMove
<1>4. ASSUME NEW p \in Proc, StartTxFails(p) \/ Insert(p) \/ Lock(p)
               \/ Touch(p) \/ RunOk(p) \/ RunRefused(p)
               \/ Remove(p) \/ Release(p)
      PROVE  LocalMove
  BY <1>4, Zenon DEF StartTxFails, Insert, Lock, Touch, RunOk, RunRefused,
     Remove, Release, txVars, LocalMove
<1>5. ASSUME NEW p \in Proc, RunFails(p)
      PROVE  LocalMove
  <2>1. cur[p] \in TxId
    BY <1>5, <1>0, Zenon DEF RunFails, Inside
  <2> QED BY <1>5, <2>1, Zenon DEF RunFails, LocalMove
<1>6. ASSUME NEW p \in Proc, CommitTx(p)
      PROVE  LocalMove
  <2>1. cur[p] \in TxId
    BY <1>6, <1>0, Zenon DEF CommitTx, Inside
  <2> QED BY <1>6, <2>1, Zenon DEF CommitTx, Finished, Unfinished, LocalMove
<1>7. ASSUME NEW p \in Proc, RollbackTx(p)
      PROVE  LocalMove
  <2>1. cur[p] \in TxId
    BY <1>7, <1>0, Zenon DEF RollbackTx, Inside
  <2> QED BY <1>7, <2>1, Zenon DEF RollbackTx, LocalMove
<1>8. ASSUME NEW i \in TxId, Expire(i)
      PROVE  LocalMove
  BY <1>8, Zenon DEF Expire, txVars, LocalMove
<1>9. CASE Scan \/ Sweep \/ SweepDone
  BY <1>9, Zenon DEF Scan, Sweep, SweepDone, txVars, LocalMove
<1>10. CASE UNCHANGED vars
  BY <1>10, Zenon DEF vars, LocalMove
<1> QED BY <1>1, <1>2, <1>3, <1>4, <1>5, <1>6, <1>7, <1>8, <1>9, <1>10, Zenon
     DEF Next

\* The transaction manager, with its goroutines, locks, connections and
\* reaper, implements the abstract tablet LocalTx that Coordinator uses.
THEOREM Refinement == Spec => ImplementsLocalTx
<1>1. Init => Local!LocalInit
  BY Zenon DEF Init, Local!LocalInit, Local!NoTransactions, Local!TxId, TxId, Tablet
<1>2. IInv /\ [Next]_vars => [Local!LocalNext]_(Local!localVars)
  <2> SUFFICES ASSUME IInv, [Next]_vars
               PROVE  Local!LocalNext \/ UNCHANGED Local!localVars
    BY Zenon
  <2> USE DEF Tablet, Local!TxId, TxId
  <2>0. /\ nextID \in 0..MaxTx
        /\ DOMAIN status = TxId
    BY Zenon DEF IInv, TypeOK
  <2>1. CASE UNCHANGED <<nextID, status>>
    BY <2>1, Zenon DEF Local!localVars
  <2>2. CASE /\ nextID < MaxTx
             /\ nextID' = nextID + 1
             /\ status' = [status EXCEPT ![nextID + 1] = "open"]
    <3>1. Local!Begin("tablet")
      BY <2>2, Zenon DEF Local!Begin
    <3> QED BY <3>1, Zenon DEF Local!LocalNext
  <2>3. ASSUME NEW i \in TxId, UNCHANGED nextID, status[i] = "open",
               status' = [status EXCEPT ![i] = "failed"]
        PROVE  Local!LocalNext
    <3>1. Local!Fail("tablet", i)
      BY <2>3, Zenon DEF Local!Fail
    <3> QED BY <3>1, Zenon DEF Local!LocalNext
  <2>4. ASSUME NEW i \in TxId, UNCHANGED nextID, status[i] = "open",
               status' = [status EXCEPT ![i] = "committed"]
        PROVE  Local!LocalNext
    <3>1. Local!Commit("tablet", i)
      BY <2>4, Zenon DEF Local!Commit
    <3> QED BY <3>1, Zenon DEF Local!LocalNext
  <2>5. ASSUME NEW i \in TxId, UNCHANGED nextID, status[i] \in Unfinished,
               status' = [status EXCEPT ![i] = "rolledback"]
        PROVE  Local!LocalNext
    <3>1. Local!Rollback("tablet", i)
      BY <2>5, Zenon DEF Local!Rollback, Local!Unfinished, Unfinished
    <3> QED BY <3>1, Zenon DEF Local!LocalNext
  <2> QED BY <2>1, <2>2, <2>3, <2>4, <2>5, StepOfLocalTx, Zenon DEF LocalMove
<1> QED BY <1>1, <1>2, Invariance, PTL
       DEF Spec, ImplementsLocalTx, Local!LocalSpec

-----------------------------------------------------------------------------
(* The handler                                                             *)


\* What the handler knows of the call it has made: which operation, on
\* which transaction.
Pending ==
  \A p \in Thread : called[p] =>
    /\ busy[p] /\ todo[p] # <<>>
    /\ Head(todo[p]) = "BEGIN" => nested[p] \/ txID[p] = 0
    /\ Head(todo[p]) \in DOMAIN EndOp =>
         op[p] = EndOp[Head(todo[p])] /\ cur[p] = txID[p]

\* Every write of the batch so far is safe or in the transaction at hand.
Kept ==
  \A p \in Thread : ~nested[p] =>
    \A i \in writes[p] : i \in {0, txID[p]} \/ status[i] = "committed"

\* A goroutine that serves no Execute has no writes to account for.
AtRest == \A p \in Thread : ~busy[p] => writes[p] = {}

EInv == IInv /\ ExecTypeOK /\ Pending /\ Kept

-----------------------------------------------------------------------------

\* Every step of the tablet is a step of TxManager or leaves it alone.
LEMMA StepOfTxManager ==
  ASSUME IInv, ExecTypeOK, [ExecNext]_execVars
  PROVE  [Next]_vars
<1>0. nextID \in 0..MaxTx /\ MaxTx \in Nat
  BY TxManagerAssumption, Zenon DEF IInv, TypeOK
<1>1. ASSUME NEW p \in Thread, NEW i \in 0..nextID,
             (\E b \in Batches : Execute(p, i, b))
      PROVE  UNCHANGED vars
  BY <1>1, Zenon DEF Execute
<1>2. ASSUME NEW p \in Thread, NEW i \in 0..nextID,
             PrepareCommitRollback(p, i)
      PROVE  Next
  <2>1. i \in TxId
    BY <1>0, <1>2 DEF PrepareCommitRollback, TxId
  <2> QED BY <1>2, <2>1, Zenon DEF PrepareCommitRollback, Next
<1>3. ASSUME NEW p \in Thread, MethodOnNothing(p)
      PROVE  UNCHANGED vars
  BY <1>3, Zenon DEF MethodOnNothing, execVars
<1>4. ASSUME NEW p \in Thread, HandlerStep(p)
      PROVE  Next \/ UNCHANGED vars
  <2>0. txID[p] # 0 => txID[p] \in TxId
    BY Zenon DEF ExecTypeOK
  <2>1. CASE BeginStmt(p)
    BY <2>1, Zenon DEF BeginStmt, Next
  <2>2. CASE EndStmt(p)
    <3>1. PICK o \in {"commit", "rollback"} : Get(p, o, txID[p])
      BY <2>2 DEF EndStmt, EndOp
    <3>2. txID[p] \in TxId
      BY <2>0, <2>2, Zenon DEF EndStmt
    <3> QED BY <3>1, <3>2, Zenon DEF Next
  <2>3. CASE TxStmt(p)
    BY <2>0, <2>3, Zenon DEF TxStmt, Next
  <2>4. CASE EndNothing(p) \/ RefuseWrite(p) \/ PoolStmtOk(p)
             \/ PoolStmtFails(p) \/ StmtDone(p) \/ StmtFails(p)
             \/ ExecuteDone(p)
    BY <2>4, Zenon DEF EndNothing, RefuseWrite, PoolStmtOk, PoolStmtFails,
       StmtDone, StmtFails, ExecuteDone
  <2> QED BY <1>4, <2>1, <2>2, <2>3, <2>4, Zenon DEF HandlerStep
<1>5. CASE Running
  BY <1>5, Zenon DEF Running, Next
<1>6. CASE UNCHANGED execVars
  BY <1>6, Zenon DEF execVars
<1> QED BY <1>1, <1>2, <1>3, <1>4, <1>5, <1>6, Zenon DEF ExecNext

\* What PostgreSQL has committed stays committed.
LEMMA CommittedStays ==
  ASSUME IInv, [Next]_vars, NEW i \in TxId, status[i] = "committed"
  PROVE  status'[i] = "committed"
<1>1. LocalMove
  BY StepOfLocalTx, Zenon
<1>2. nextID \in 0..MaxTx /\ MaxTx \in Nat
      /\ status \in [TxId -> {"absent"} \cup Unfinished \cup Finished]
  BY TxManagerAssumption, Zenon DEF IInv, TypeOK
<1>3. i # nextID + 1
  BY <1>2 DEF IInv, Alive, TxId
<1> QED BY <1>1, <1>2, <1>3, Zenon DEF LocalMove, Unfinished

\* A step inside TxManager changes no goroutine's operation, and only Begin
\* changes the transaction it is about.
LEMMA RunningKeeps ==
  ASSUME IInv, Running, NEW p \in Thread
  PROVE  op'[p] = op[p] /\ (op[p] # "begin" => cur'[p] = cur[p])
<1> USE TxManagerAssumption DEF Goto, Return
<1>0. /\ p \in Proc /\ p # Reaper
      /\ cur \in [Proc -> {0} \cup TxId] /\ DOMAIN op = Proc
      /\ DOMAIN pc = Proc
  BY Zenon DEF IInv, TypeOK, Proc
<1>1. ASSUME NEW q \in Proc, StartTx(q)
      PROVE  op'[p] = op[p] /\ (op[p] # "begin" => cur'[p] = cur[p])
  <2>1. op[q] = "begin" /\ op' = op
    BY <1>1, Zenon DEF StartTx, IInv, Control
  <2>2. q # p => cur'[p] = cur[p]
    BY <1>0, <1>1, Zenon DEF StartTx
  <2> QED BY <2>1, <2>2, Zenon
<1>2. ASSUME NEW q \in Proc,
             \/ Acquire(q) \/ AcquireFails(q) \/ StartTxFails(q)
             \/ Insert(q) \/ Lock(q) \/ Touch(q) \/ RunOk(q) \/ RunFails(q)
             \/ RunRefused(q) \/ CommitTx(q) \/ RollbackTx(q) \/ Remove(q)
             \/ Release(q)
      PROVE  UNCHANGED <<op, cur>>
  BY <1>2, Zenon DEF Acquire, AcquireFails, StartTxFails, Insert, Lock, Touch,
     RunOk, RunFails, RunRefused, CommitTx, RollbackTx, Remove, Release
<1>3. CASE Sweep \/ SweepDone
  BY <1>0, <1>3, Zenon DEF Sweep, SweepDone
<1>4. CASE Scan \/ \E i \in TxId : Expire(i)
  BY <1>4, Zenon DEF Scan, Expire
<1> QED BY <1>0, <1>1, <1>2, <1>3, <1>4, Zenon DEF Running, Proc

-----------------------------------------------------------------------------

\* No call is under way at start.
LEMMA InitEInv == ExecInit => EInv
<1> SUFFICES ASSUME ExecInit PROVE EInv
  BY Zenon
<1>1. IInv
  BY InitIInv, Zenon DEF ExecInit
<1>2. ExecTypeOK
  BY DEF ExecInit, ExecTypeOK
<1> QED BY <1>1, <1>2, Zenon DEF ExecInit, EInv, Pending, Kept

\* The answer ends the call.
LEMMA RespondEInv ==
  ASSUME EInv, NEW p \in Thread, Respond(p), UNCHANGED vars
  PROVE  ExecTypeOK' /\ Pending' /\ Kept'
<1> USE DEF EInv, Respond, vars
<1>1. ExecTypeOK'
  BY DEF ExecTypeOK
<1>2. /\ called'[p] = FALSE /\ writes'[p] = {}
      /\ \A q \in Thread : q # p =>
           /\ called'[q] = called[q] /\ busy'[q] = busy[q]
           /\ todo'[q] = todo[q] /\ txID'[q] = txID[q]
           /\ writes'[q] = writes[q] /\ nested'[q] = nested[q]
  BY Zenon DEF ExecTypeOK
<1>3. Pending'
  BY <1>2 DEF Pending
<1>4. Kept'
  BY <1>2, Zenon DEF Kept
<1> QED BY <1>1, <1>3, <1>4, Zenon

\* A call of TxManager: nothing of the batch is done yet.
LEMMA CallEInv ==
  ASSUME EInv, NEW p \in Thread, AtStatement(p), Call(p), [Next]_vars,
         nested' \in [Thread -> BOOLEAN],
         \A q \in Thread : q # p => nested'[q] = nested[q] /\ op'[q] = op[q]
                                      /\ cur'[q] = cur[q],
         nested[p] => nested'[p],
         Head(todo[p]) = "BEGIN" => nested'[p] \/ txID[p] = 0,
         Head(todo[p]) \in DOMAIN EndOp =>
           op'[p] = EndOp[Head(todo[p])] /\ cur'[p] = txID[p]
  PROVE  ExecTypeOK' /\ Pending' /\ Kept'
<1>1. ExecTypeOK'
  BY Zenon DEF EInv, ExecTypeOK, Call
<1>2. /\ UNCHANGED <<busy, todo, txID, writes>>
      /\ \A q \in Thread : q # p => called'[q] = called[q]
  BY Zenon DEF EInv, ExecTypeOK, Call
<1>3. Pending'
  BY <1>2, ZenonT(30) DEF EInv, Pending, AtStatement
<1>4. \A q \in Thread : ~nested'[q] => ~nested[q]
  BY Zenon
<1>5. Kept'
  <2> SUFFICES ASSUME NEW q \in Thread, ~nested'[q], NEW i \in writes[q],
                      i \notin {0, txID[q]}
               PROVE  status'[i] = "committed"
    BY <1>2, Zenon DEF Kept
  <2>1. i \in TxId /\ status[i] = "committed"
    BY <1>4, Zenon DEF EInv, ExecTypeOK, Kept
  <2> QED BY <2>1, CommittedStays, Zenon DEF EInv
<1> QED BY <1>1, <1>3, <1>5, Zenon

\* A statement is done and the loop of ExecuteSQL goes on.
LEMMA AdvanceEInv ==
  ASSUME EInv, NEW p \in Thread, busy[p], todo[p] # <<>>, UNCHANGED vars,
         NEW id \in {0} \cup TxId, Advance(p, id),
         \* where the writes so far are, given the kind of statement
         ~nested[p] => \A i \in writes'[p] :
                         i \in {0, id} \/ status[i] = "committed"
  PROVE  ExecTypeOK' /\ Pending' /\ Kept'
<1>0. /\ writes \in [Thread -> SUBSET ({0} \cup TxId)]
      /\ txID \in [Thread -> {0} \cup TxId] /\ todo \in [Thread -> Seq(Kind)]
      /\ called \in [Thread -> BOOLEAN]
  BY Zenon DEF EInv, ExecTypeOK
<1>1. ExecTypeOK'
  <2>1. writes'[p] \in SUBSET ({0} \cup TxId)
    BY <1>0, ZenonT(30) DEF Advance
  <2>2. writes' \in [Thread -> SUBSET ({0} \cup TxId)]
    BY <1>0, <2>1, Zenon DEF Advance
  <2>3. todo' \in [Thread -> Seq(Kind)]
    <3>1. Tail(todo[p]) \in Seq(Kind)
      BY <1>0
    <3> QED BY <1>0, <3>1, Zenon DEF Advance
  <2> QED BY <1>0, <2>2, <2>3, Zenon DEF EInv, ExecTypeOK, Advance
<1>2. /\ UNCHANGED <<busy, nested, op, cur, status>>
      /\ called'[p] = FALSE /\ txID'[p] = id
      /\ \A q \in Thread : q # p =>
           /\ called'[q] = called[q] /\ todo'[q] = todo[q]
           /\ txID'[q] = txID[q] /\ writes'[q] = writes[q]
  BY <1>0, Zenon DEF Advance, vars
<1>3. Pending'
  BY <1>2 DEF EInv, Pending
<1>4. Kept'
  BY <1>2, Zenon DEF EInv, Kept
<1> QED BY <1>1, <1>3, <1>4, Zenon

\* TxManager has answered without an error: COMMIT made the writes durable,
\* and a BEGIN outside a transaction leaves none behind.
LEMMA StmtDoneEInv ==
  ASSUME EInv, NEW p \in Thread, StmtDone(p)
  PROVE  ExecTypeOK' /\ Pending' /\ Kept'
<1>0. /\ busy[p] /\ called[p] /\ todo[p] # <<>> /\ UNCHANGED vars
      /\ Advance(p, IdAfter(p)) /\ res[p] = "ok" /\ p \in Proc
  BY Zenon DEF StmtDone, Returned, EInv, Pending, Proc
<1>1. /\ writes \in [Thread -> SUBSET ({0} \cup TxId)]
      /\ txID[p] \in {0} \cup TxId /\ cur[p] \in {0} \cup TxId
      /\ Head(todo[p]) \in Kind
  BY <1>0 DEF EInv, ExecTypeOK, IInv, TypeOK
<1>2. IdAfter(p) \in {0} \cup TxId
  BY <1>1, Zenon DEF IdAfter, EndOp, Kind
<1>3. ASSUME ~nested[p], NEW i \in writes'[p]
      PROVE  i \in {0, IdAfter(p)} \/ status[i] = "committed"
  <2>1. \A j \in writes[p] : j \in {0, txID[p]} \/ status[j] = "committed"
    BY <1>3, Zenon DEF EInv, Kept
  <2>2. CASE Head(todo[p]) = "BEGIN"
    <3>1. txID[p] = 0
      BY <1>0, <1>3, <2>2, Zenon DEF EInv, Pending
    <3> QED BY <1>0, <1>1, <1>3, <2>1, <2>2, <3>1, Zenon DEF Advance
  <2>3. CASE Head(todo[p]) = "COMMIT"
    <3>1. op[p] = "commit" /\ cur[p] = txID[p]
      BY <1>0, <2>3 DEF EInv, Pending, EndOp
    <3>2. status[txID[p]] = "committed"
      BY <1>0, <3>1, Zenon DEF EInv, IInv, OneOutcome, Ended
    <3>3. writes'[p] = writes[p]
      BY <1>0, <1>1, <2>3, Zenon DEF Advance
    <3> QED BY <1>3, <2>1, <3>2, <3>3, Zenon
  <2>4. CASE Head(todo[p]) = "ROLLBACK"
    <3>1. writes'[p] = writes[p] \ {txID[p]}
      BY <1>0, <1>1, <2>4, Zenon DEF Advance
    <3> QED BY <1>3, <2>1, <3>1, Zenon
  <2>5. CASE Head(todo[p]) \in {"READ", "WRITE"}
    <3>1. writes'[p] \subseteq writes[p] \cup {txID[p]}
      BY <1>0, <1>1, <2>5, Zenon DEF Advance
    <3>2. IdAfter(p) = txID[p]
      BY <2>5, Zenon DEF IdAfter, EndOp
    <3> QED BY <1>3, <2>1, <3>1, <3>2, Zenon
  <2> QED BY <1>1, <2>2, <2>3, <2>4, <2>5, Zenon DEF Kind
<1> QED BY <1>0, <1>2, <1>3, AdvanceEInv, Zenon

\* One round of the handler, one case per step.
LEMMA HandlerEInv ==
  ASSUME EInv, NEW p \in Thread, HandlerStep(p), [Next]_vars
  PROVE  ExecTypeOK' /\ Pending' /\ Kept'
<1>0. /\ p \in Proc /\ op \in [Proc -> {"none", "begin", "exec", "commit",
                                        "rollback"}]
      /\ cur \in [Proc -> {0} \cup TxId] /\ nested \in [Thread -> BOOLEAN]
      /\ Thread \subseteq Proc
  BY Zenon DEF EInv, IInv, TypeOK, Proc, ExecTypeOK
<1>1. CASE BeginStmt(p)
  <2>1. /\ nested' \in [Thread -> BOOLEAN]
        /\ nested'[p] = (nested[p] \/ txID[p] # 0)
        /\ \A q \in Thread : q # p => nested'[q] = nested[q]
    BY <1>0, <1>1, Zenon DEF BeginStmt
  <2>2. \A q \in Thread : q # p => op'[q] = op[q] /\ cur'[q] = cur[q]
    BY <1>0, <1>1, Zenon DEF BeginStmt, CallBegin
  <2>3. AtStatement(p) /\ Call(p) /\ Head(todo[p]) = "BEGIN"
    BY <1>1, Zenon DEF BeginStmt
  <2> QED BY <2>1, <2>2, <2>3, CallEInv, Zenon DEF EndOp
<1>2. CASE EndStmt(p)
  <2>1. /\ op'[p] = EndOp[Head(todo[p])] /\ cur'[p] = txID[p]
        /\ \A q \in Thread : q # p => op'[q] = op[q] /\ cur'[q] = cur[q]
    BY <1>0, <1>2, Zenon DEF EndStmt, Get
  <2>2. AtStatement(p) /\ Call(p) /\ nested' = nested /\ Head(todo[p]) # "BEGIN"
    BY <1>2, Zenon DEF EndStmt, EndOp
  <2> QED BY <1>0, <2>1, <2>2, CallEInv, Zenon
<1>3. CASE TxStmt(p)
  <2>1. \A q \in Thread : q # p => op'[q] = op[q] /\ cur'[q] = cur[q]
    BY <1>0, <1>3, Zenon DEF TxStmt, Get
  <2>2. AtStatement(p) /\ Call(p) /\ nested' = nested
        /\ Head(todo[p]) \notin DOMAIN EndOp /\ Head(todo[p]) # "BEGIN"
    BY <1>3, Zenon DEF TxStmt, Runnable, EndOp
  <2> QED BY <1>0, <2>1, <2>2, CallEInv, Zenon
<1>4. CASE EndNothing(p) \/ RefuseWrite(p) \/ PoolStmtFails(p)
           \/ StmtFails(p) \/ ExecuteDone(p)
  BY <1>4, RespondEInv, Zenon DEF EndNothing, RefuseWrite, PoolStmtFails, StmtFails,
       ExecuteDone, ExecuteFails
<1>5. CASE PoolStmtOk(p)
  <2>1. /\ busy[p] /\ todo[p] # <<>> /\ UNCHANGED vars /\ Advance(p, 0)
        /\ txID[p] = 0 /\ Head(todo[p]) \in {"READ", "WRITE"}
    BY <1>5, Zenon DEF PoolStmtOk, Runnable, AtStatement
  <2>2. writes'[p] \subseteq writes[p] \cup {0}
    BY <2>1, Zenon DEF EInv, ExecTypeOK, Advance
  <2>3. ~nested[p] => \A i \in writes'[p] :
                        i \in {0} \/ status[i] = "committed"
    BY <2>1, <2>2, Zenon DEF EInv, Kept
  <2> QED BY <2>1, <2>3, AdvanceEInv, Zenon
<1>6. CASE StmtDone(p)
  BY <1>6, StmtDoneEInv, Zenon
<1> QED BY <1>1, <1>2, <1>3, <1>4, <1>5, <1>6, Zenon DEF HandlerStep

\* The manager runs, the reaper included: calls under way stay what they
\* are, and what was committed stays so.
LEMMA RunningEInv ==
  ASSUME EInv, [Next]_vars, Running, UNCHANGED <<readOnly, callVars>>
  PROVE  ExecTypeOK' /\ Pending' /\ Kept'
<1>1. UNCHANGED <<readOnly, busy, todo, txID, called, writes, nested>>
  BY Zenon DEF callVars
<1>2. ExecTypeOK'
  BY <1>1, Zenon DEF EInv, ExecTypeOK
<1>3. Pending'
  <2>1. \A q \in Thread : op'[q] = op[q] /\ (op[q] # "begin" => cur'[q] = cur[q])
    BY RunningKeeps, Zenon DEF EInv
  <2>2. ASSUME NEW q \in Thread, called[q], Head(todo[q]) \in DOMAIN EndOp
        PROVE  op'[q] = EndOp[Head(todo[q])] /\ cur'[q] = txID[q]
    <3>1. op[q] = EndOp[Head(todo[q])] /\ cur[q] = txID[q]
      BY <2>2, Zenon DEF EInv, Pending
    <3>2. op[q] # "begin"
      BY <2>2, <3>1 DEF EndOp
    <3> QED BY <2>1, <3>1, <3>2, Zenon
  <2> QED BY <1>1, <2>2, Zenon DEF EInv, Pending
<1>4. Kept'
  <2> SUFFICES ASSUME NEW q \in Thread, ~nested[q], NEW i \in writes[q],
                      i \notin {0, txID[q]}
               PROVE  status'[i] = "committed"
    BY <1>1, Zenon DEF Kept
  <2>1. i \in TxId /\ status[i] = "committed"
    BY Zenon DEF EInv, ExecTypeOK, Kept
  <2> QED BY <2>1, CommittedStays, Zenon DEF EInv
<1> QED BY <1>2, <1>3, <1>4, Zenon

\* Only the statements of a batch write, and the answer ends the account.
LEMMA RestStep ==
  ASSUME ExecTypeOK, AtRest, [ExecNext]_execVars
  PROVE  AtRest'
<1> USE DEF ExecTypeOK, AtRest
<1>1. ASSUME NEW p \in Thread, NEW i, NEW b, Execute(p, i, b)
      PROVE  AtRest'
  BY <1>1, Zenon DEF Execute
<1>2. ASSUME NEW p \in Thread, HandlerStep(p)
      PROVE  AtRest'
  <2>1. CASE Respond(p)
    BY <2>1, Zenon DEF Respond
  <2>2. ASSUME NEW id, Advance(p, id), busy[p]
        PROVE  AtRest'
    BY <2>2, Zenon DEF Advance
  <2>3. CASE Call(p)
    BY <2>3, Zenon DEF Call
  <2> QED BY <1>2, <2>1, <2>2, <2>3, Zenon DEF HandlerStep, BeginStmt, EndStmt,
       EndNothing, RefuseWrite, TxStmt, PoolStmtOk, PoolStmtFails, StmtDone,
       StmtFails, ExecuteDone, ExecuteFails, Runnable, AtStatement, Returned
<1>3. CASE UNCHANGED callVars
  BY <1>3, Zenon DEF callVars
<1> QED BY <1>1, <1>2, <1>3, Zenon DEF ExecNext, execVars,
     PrepareCommitRollback, MethodOnNothing

\* Every step of the tablet preserves the invariant, one case per kind of step.
LEMMA NextEInv == EInv /\ AtRest /\ [ExecNext]_execVars => EInv' /\ AtRest'
<1> SUFFICES ASSUME EInv, AtRest, [ExecNext]_execVars
             PROVE  EInv' /\ AtRest'
  BY Zenon
<1>0. [Next]_vars /\ AtRest'
  BY StepOfTxManager, RestStep, Zenon DEF EInv
<1>a. IInv'
  BY <1>0, NextIInv, Zenon DEF EInv
<1>b. 0..nextID \subseteq {0} \cup TxId
  BY TxManagerAssumption DEF EInv, IInv, TypeOK, TxId
<1>1. ASSUME NEW p \in Thread, NEW i \in 0..nextID, NEW b \in Batches,
             Execute(p, i, b)
      PROVE  ExecTypeOK' /\ Pending' /\ Kept'
  <2>1. b \in Seq(Kind) /\ i \in {0} \cup TxId
    BY <1>b, ExecutorAssumption, Zenon
  <2>2. ExecTypeOK'
    BY <1>1, <2>1, Zenon DEF Execute, EInv, ExecTypeOK
  <2>3. ~busy[p] /\ ~called[p] /\ writes[p] = {}
    BY <1>1, Zenon DEF Execute, Ready, EInv, Pending, AtRest
  <2>4. /\ UNCHANGED <<called, writes, nested, op, cur, status>>
        /\ \A q \in Thread : q # p => /\ busy'[q] = busy[q]
                                      /\ todo'[q] = todo[q]
                                      /\ txID'[q] = txID[q]
    BY <1>1, Zenon DEF Execute, EInv, ExecTypeOK, vars
  <2>5. Pending'
    BY <2>3, <2>4 DEF EInv, Pending
  <2>6. Kept'
    BY <2>3, <2>4, Zenon DEF EInv, Kept
  <2> QED BY <2>2, <2>5, <2>6, Zenon
<1>2. ASSUME NEW p \in Thread, NEW i \in 0..nextID,
             PrepareCommitRollback(p, i)
      PROVE  ExecTypeOK' /\ Pending' /\ Kept'
  <2>1. /\ UNCHANGED <<readOnly, busy, todo, txID, called, writes, nested>>
        /\ UNCHANGED status
    BY <1>2, Zenon DEF PrepareCommitRollback, callVars, Get, txVars
  <2>2. ~called[p]
    BY <1>2, Zenon DEF PrepareCommitRollback, Ready, EInv, Pending
  <2>3. \A q \in Thread : q # p => op'[q] = op[q] /\ cur'[q] = cur[q]
    BY <1>2, Zenon DEF PrepareCommitRollback, Get, EInv, IInv, TypeOK, Proc
  <2>4. ExecTypeOK'
    BY <2>1, Zenon DEF EInv, ExecTypeOK
  <2>5. Pending'
    BY <2>1, <2>2, <2>3, Zenon DEF EInv, Pending
  <2>6. Kept'
    BY <2>1, Zenon DEF EInv, Kept
  <2> QED BY <2>4, <2>5, <2>6, Zenon
<1>3. ASSUME NEW p \in Thread, HandlerStep(p)
      PROVE  ExecTypeOK' /\ Pending' /\ Kept'
  BY <1>0, <1>3, HandlerEInv, Zenon
<1>4. CASE Running /\ UNCHANGED <<readOnly, callVars>>
  BY <1>0, <1>a, <1>4, RunningEInv, Zenon DEF EInv
<1>5. CASE UNCHANGED execVars
  <2>1. /\ UNCHANGED <<readOnly, busy, todo, txID, called, writes, nested>>
        /\ UNCHANGED <<op, cur, status>>
    BY <1>5, Zenon DEF execVars, callVars, vars
  <2>2. ExecTypeOK' /\ Pending' /\ Kept'
    BY <2>1, Zenon DEF EInv, ExecTypeOK, Pending, Kept
  <2> QED BY <1>0, <1>a, <2>2, Zenon DEF EInv
<1> QED BY <1>0, <1>a, <1>1, <1>2, <1>3, <1>4, <1>5, Zenon DEF ExecNext,
     MethodOnNothing, EInv

\* The invariant of the handler and of TxManager under it.
LEMMA ExecInvariance == ExecSpec => [](EInv /\ AtRest)
<1>1. ExecInit => EInv /\ AtRest
  BY InitEInv, Zenon DEF ExecInit, AtRest
<1> QED BY <1>1, NextEInv, PTL DEF ExecSpec

-----------------------------------------------------------------------------

\* The tablet's handler drives its transaction manager only as TxManager
\* allows: its theorems (no connection lost or shared, one outcome, LocalTx)
\* hold for whatever batches, failed and nested ones included, clients send.
THEOREM TabletIsTxManager == ExecSpec => Spec
<1>1. ExecInit => Init
  BY Zenon DEF ExecInit
<1>2. EInv /\ [ExecNext]_execVars => [Next]_vars
  BY StepOfTxManager, Zenon DEF EInv
<1> QED BY <1>1, <1>2, ExecInvariance, PTL DEF ExecSpec, Spec

\* With any number of goroutines, transactions and connections and any
\* batches, the tablet is to the gate the tablet of LocalTx.
THEOREM TabletIsLocalTx == ExecSpec => ImplementsLocalTx
BY TabletIsTxManager, Refinement, Zenon

\* ExecuteSQL forgets none of the writes of a batch it answers with success,
\* whatever the reaper and other requests do between its statements.
THEOREM WritesAccountedFor == ExecSpec => NothingForgotten
<1>1. EInv => \A p \in Thread : ExecuteDone(p) /\ ~nested[p] =>
        \A i \in writes[p] : i \in {0, txID[p]} \/ status[i] = "committed"
  BY Zenon DEF EInv, Kept
<1> QED BY <1>1, ExecInvariance, PTL DEF ExecSpec, NothingForgotten

=============================================================================
