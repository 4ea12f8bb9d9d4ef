------------------------- MODULE OneAtATimeProofs -------------------------
(***************************************************************************)
(* Theorems about OneAtATime: without faults, and with the registered key, *)
(* a client that sends one request at a time always finds the row and the  *)
(* light client at the same sequence, and its requests succeed.            *)
(***************************************************************************)
EXTENDS OneAtATime, IbcServiceProofs, FiniteSetTheorems

-----------------------------------------------------------------------------
(* What holds however requests overlap.                                    *)

\* Remembering what happened does not change what can happen.
LEMMA SerialIsService == SerialSpec => Spec
<1>1. [Next /\ Remember]_allVars => [Next]_vars
  BY DEF allVars
<1>. QED  BY <1>1, PTL DEF SerialSpec, Spec

\* A message tells the handler that built it, and a header brings a key that
\* the chain has not seen: the first one in chain_keys was there before.
KindOfMsg ==
  \A r \in Requests :
    /\ tx[r].msg = "recv" => job[r].kind = "mint"
    /\ tx[r].msg = "header" => job[r].kind = "update" /\ job[r].newKey # InitKey
    /\ pc[r] = "closing" => job[r].kind = "close"

FirstKey == InitKey \in KnownKeys

\* Nobody keeps the lock but a handler in its transaction.
LockUsed == lock # None => InTransaction(lock) \/ pc[lock] = "closing"

\* Only the handlers that read in a transaction have a snapshot.
StaleReads == \A r \in stale : job[r].kind \in {"update", "close"}

Steady == KindOfMsg /\ FirstKey /\ LockUsed /\ StaleReads

\* A step of one handler leaves the others where they are.
LEMMA OthersStay ==
  ASSUME TypeOK, NEW r \in Requests, Handle(r) \/ Deliver(r) \/ DropTx(r) \/ Fail(r)
  PROVE  /\ job' = job
         /\ \A q \in Requests \ {r} :
              /\ pc'[q] = pc[q] /\ loc'[q] = loc[q] /\ tx'[q] = tx[q]
              /\ resp'[q] = resp[q] /\ out'[q] = out[q]
<1>. USE DEF TypeOK
<1>1. CASE \/ Receive(r) \/ NotConnected(r) \/ Busy(r) \/ Overflow(r) \/ DuplicateKey(r)
           \/ CloseReread(r) \/ Refused(r) \/ Fail(r)
  BY <1>1 DEF Receive, NotConnected, Busy, Overflow, DuplicateKey, CloseReread,
     Refused, Fail, Finish, Goto
<1>2. CASE \/ MintPrepare(r) \/ BurnPrepare(r) \/ UpdatePrepare(r) \/ AckPrepare(r)
           \/ CloseWrite(r) \/ Build(r)
  BY <1>2 DEF MintPrepare, BurnPrepare, UpdatePrepare, AckPrepare, CloseWrite, Build,
     Prepare, Goto
<1>3. CASE \/ Broadcast(r) \/ CheckTxRefuses(r) \/ MintCommit(r) \/ BurnAccepted(r)
           \/ UpdateCommit(r) \/ RecordOperation(r) \/ Notify(r) \/ AckCommit(r)
  BY <1>3 DEF Broadcast, CheckTxRefuses, MintCommit, BurnAccepted, UpdateCommit,
     RecordOperation, Notify, AckCommit, Goto
<1>4. CASE Deliver(r)
  <2>1. \E a \in {"ok", "failack", "noop", "refused"} : Include(r, a)
    BY <1>4 DEF Deliver, DeliverRecv, DeliverDuplicate, DeliverTransfer,
                DeliverAck, DeliverHeader, DeliverRefused
  <2>. QED  BY <2>1 DEF Include
<1>5. CASE DropTx(r)
  BY <1>5 DEF DropTx, handlerVars
<1>. QED  BY <1>1, <1>2, <1>3, <1>4, <1>5 DEF Handle

\* A handler that returns gives the lock back.
LEMMA FinishFrees ==
  ASSUME TypeOK, LockUsed, NEW r \in Requests, NEW result, Finish(r, result), tx' = tx
  PROVE  LockUsed'
BY NoneAssumption DEF TypeOK, LockUsed, Finish, InTransaction

LEMMA SteadyHandle ==
  ASSUME TypeOK, Steady, NEW r \in Requests, Handle(r)
  PROVE  Steady'
<1>. USE NoneAssumption DEF TypeOK, KindOfMsg, FirstKey, StaleReads
<1>1. CASE \/ NotConnected(r) \/ Busy(r) \/ Overflow(r) \/ DuplicateKey(r)
           \/ CloseReread(r) \/ Refused(r)
  <2>1. PICK result : Finish(r, result)
    BY <1>1 DEF NotConnected, Busy, Overflow, DuplicateKey, CloseReread, Refused
  <2>2. keys' = keys /\ job' = job /\ tx' = tx
    BY <1>1 DEF NotConnected, Busy, Overflow, DuplicateKey, CloseReread, Refused
  <2>3. LockUsed'
    BY <2>1, <2>2, FinishFrees DEF Steady
  <2>. QED  BY <2>1, <2>2, <2>3 DEF Steady, Finish, KnownKeys
<1>2. CASE Receive(r)
  BY <1>2 DEF Receive, Goto, dbVars, Steady, LockUsed, InTransaction, KnownKeys
<1>3. CASE MintPrepare(r)
  BY <1>3 DEF MintPrepare, Prepare, Signed, Goto, Steady, LockUsed, InTransaction, KnownKeys
<1>4. CASE BurnPrepare(r)
  BY <1>4 DEF BurnPrepare, dbVars, Signed, Goto, Steady, LockUsed, InTransaction, KnownKeys
<1>5. CASE UpdatePrepare(r)
  BY <1>5 DEF UpdatePrepare, Prepare, Signed, Goto, Steady, LockUsed, InTransaction, KnownKeys
<1>6. CASE AckPrepare(r)
  BY <1>6 DEF AckPrepare, Prepare, Signed, Goto, Steady, LockUsed, InTransaction, KnownKeys
<1>7. CASE CloseWrite(r)
  BY <1>7 DEF CloseWrite, Goto, Steady, LockUsed, InTransaction, KnownKeys
<1>8. CASE Build(r)
  <2>1. /\ \A q \in Requests : tx'[q].msg = tx[q].msg
        /\ pc[r] = "prepared" /\ pc' = [pc EXCEPT ![r] = "built"]
        /\ UNCHANGED <<dbVars, job>>
    BY <1>8 DEF Build, Goto, Tx
  <2>. QED  BY <2>1 DEF dbVars, Steady, LockUsed, InTransaction, KnownKeys
<1>9. CASE Broadcast(r) \/ CheckTxRefuses(r)
  BY <1>9 DEF Broadcast, CheckTxRefuses, dbVars, Goto, Steady, LockUsed, InTransaction, KnownKeys
<1>10. CASE MintCommit(r) \/ AckCommit(r)
  BY <1>10 DEF MintCommit, AckCommit, Commit, Overtaken, Readers, Goto, Steady, LockUsed, KnownKeys
<1>11. CASE UpdateCommit(r)
  <2>1. job[r].newKey \in Keys
    BY DEF Jobs
  <2>2. FirstKey'
    BY <1>11, <2>1 DEF UpdateCommit, Steady, KnownKeys
  <2>. QED  BY <1>11, <2>2 DEF UpdateCommit, Commit, Overtaken, Readers, Goto, Steady, LockUsed
<1>12. CASE BurnAccepted(r)
  BY <1>12 DEF BurnAccepted, dbVars, Goto, Steady, LockUsed, InTransaction, KnownKeys
<1>13. CASE RecordOperation(r) \/ Notify(r)
  BY <1>13 DEF RecordOperation, Overtaken, Readers, Notify, dbVars, Goto, Steady, LockUsed, InTransaction, KnownKeys
<1>. QED
  BY <1>1, <1>2, <1>3, <1>4, <1>5, <1>6, <1>7, <1>8, <1>9, <1>10, <1>11, <1>12, <1>13
  DEF Handle

LEMMA SteadyInvariant == Spec => []Steady
<1>1. Init => Steady
  BY DEF Init, Steady, KindOfMsg, FirstKey, LockUsed, StaleReads, KnownKeys
<1>2. TypeOK /\ Steady /\ [Next]_vars => Steady'
  <2>. SUFFICES ASSUME TypeOK, Steady, [Next]_vars PROVE Steady'
    OBVIOUS
  <2>. USE DEF TypeOK, Steady, KindOfMsg, FirstKey, StaleReads, KnownKeys
  <2>1. ASSUME NEW r \in Requests, Handle(r) PROVE Steady'
    BY <2>1, SteadyHandle
  <2>2. ASSUME NEW r \in Requests, Deliver(r) PROVE Steady'
    <3>1. \E a \in {"ok", "failack", "noop", "refused"} : Include(r, a)
      BY <2>2 DEF Deliver, DeliverRecv, DeliverDuplicate, DeliverTransfer,
                  DeliverAck, DeliverHeader, DeliverRefused
    <3>. QED  BY <3>1 DEF Include, dbVars, LockUsed, InTransaction
  <2>3. ASSUME NEW r \in Requests, Fail(r) PROVE Steady'
    <3>1. keys' = keys /\ job' = job /\ tx' = tx /\ \E result : Finish(r, result)
      BY <2>3 DEF Fail
    <3>2. LockUsed'
      BY <3>1, FinishFrees
    <3>. QED  BY <3>1, <3>2 DEF Finish
  <2>4. CASE (\E r \in Requests : DropTx(r)) \/ OthersCommit \/ UNCHANGED vars
    BY <2>4
    DEF DropTx, OthersCommit, Overtaken, Readers, vars, handlerVars, dbVars,
        LockUsed, InTransaction
  <2>. QED  BY <2>1, <2>2, <2>3, <2>4 DEF Next, Terminated
<1>. QED  BY <1>1, <1>2, TypeCorrect, PTL DEF Spec

-----------------------------------------------------------------------------
(* What holds as long as they do not.                                      *)

OneActive == \A p, q \in Active : p = q

\* The row as it will be once the handler that knows of an acceptance has
\* committed: what the light client is in step with.
Settled == IF \E r \in Requests : Accepted(r) THEN work ELSE row

Synced ==
  /\ cSeq = Settled.seq
  /\ \A p \in received : p < Settled.pkt

\* The handler that runs has read, signed and incremented the row as it is.
ReadsRow(r) ==
  \/ pc[r] \in {"read", "prepared", "built", "sent", "answered"}
  \/ job[r].kind = "burn"
  => loc[r] = row

SignsRow(r) ==
  pc[r] \in {"prepared", "built", "sent", "answered"}
    => tx[r].seq = row.seq /\ tx[r].pkt = row.pkt

HasImage(r) ==
  InTransaction(r) =>
    work = IF tx[r].msg = "recv"
           THEN IncrementPacketSequence(IncrementSequence(row))
           ELSE IncrementSequence(row)

\* Its transaction has the account sequence the chain waits for, and the
\* chain refuses it only for reasons of its own.
NextNonce(r) == pc[r] = "built" => tx[r].nonce = nonce[job[r].signer]

GoodAnswer(r) ==
  pc[r] = "answered" =>
    \/ resp[r] = "ok"
    \/ resp[r] = "failack" /\ tx[r].msg = "recv"
    \/ resp[r] = "refused" /\ tx[r].msg \in Refusable

OnItsOwn(r) ==
  ReadsRow(r) /\ SignsRow(r) /\ HasImage(r) /\ NextNonce(r) /\ GoodAnswer(r)

InStep == Synced /\ \A r \in Active : OnItsOwn(r)

\* The invariants of every run of the service that the proofs below use.
Service ==
  TypeOK /\ LockHeld /\ MsgOfKind /\ MempoolAwaited /\ Steady

LEMMA AtMostOne ==
  ASSUME NEW S, IsFiniteSet(S), Cardinality(S) <= 1
  PROVE  \A p, q \in S : p = q
<1>1. Cardinality(S) = 0 \/ Cardinality(S) = 1
  BY FS_CardinalityType
<1>. QED  BY <1>1, FS_EmptySet, FS_Singleton

\* While one handler takes a step, and never overlaps with another, the
\* others have returned or not yet started.
LEMMA OthersRest ==
  ASSUME Service, OneActive, OneActive', NEW r \in Requests, Handle(r) \/ Deliver(r)
  PROVE  \A q \in Requests \ {r} : pc[q] \in {"idle", "done"} /\ pc'[q] = pc[q]
<1>1. \A q \in Requests \ {r} : pc'[q] = pc[q]
  BY OthersStay DEF Service
<1>2. r \in Active \/ r \in Active'
  <2>1. CASE Deliver(r)
    BY <2>1 DEF Deliver, DeliverRecv, DeliverDuplicate, DeliverTransfer, DeliverAck,
       DeliverHeader, DeliverRefused, Include, Service, MempoolAwaited, Active
  <2>2. CASE Receive(r)
    BY <2>2 DEF Receive, Goto, Active, Service, TypeOK
  <2>3. CASE Handle(r) /\ ~Receive(r)
    BY <2>3 DEF Handle, NotConnected, Busy, Overflow, DuplicateKey, CloseReread,
       Refused, MintPrepare, BurnPrepare, UpdatePrepare, AckPrepare, CloseWrite, Build,
       Broadcast, CheckTxRefuses, MintCommit, BurnAccepted, UpdateCommit,
       RecordOperation, Notify, AckCommit, Active
  <2>. QED  BY <2>1, <2>2, <2>3
<1>. QED  BY <1>1, <1>2 DEF OneActive, Active

\* Without overlap only the handler that runs can know of an acceptance.
LEMMA SettledByOne ==
  ASSUME NEW r \in Requests,
         \A q \in Requests \ {r} : pc[q] \in {"idle", "done"} /\ pc'[q] = pc[q]
  PROVE  /\ Settled = IF Accepted(r) THEN work ELSE row
         /\ Settled' = IF Accepted(r)' THEN work' ELSE row'
BY DEF Settled, Accepted

\* The light client keeps in step when the handler commits what the light
\* client has accepted, or when neither of them moves.
LEMMA StaysSynced ==
  ASSUME Synced, cSeq' = cSeq, received' = received, Settled' = Settled
  PROVE  Synced'
BY DEF Synced

LEMMA HandleInStep ==
  ASSUME "ack" \notin Refusable, Service, InStep, NEW r \in Requests, Handle(r),
         \A q \in Requests \ {r} : pc[q] \in {"idle", "done"} /\ pc'[q] = pc[q]
  PROVE  Synced' /\ (r \in Active' => OnItsOwn(r)')
<1>. USE DEF Service, TypeOK
<1>0. /\ Settled = IF Accepted(r) THEN work ELSE row
      /\ Settled' = IF Accepted(r)' THEN work' ELSE row'
  BY SettledByOne
<1>a. cSeq' = cSeq /\ received' = received /\ job' = job
  BY DEF Handle, NotConnected, Busy, Overflow, DuplicateKey, CloseReread,
     Refused, MintPrepare, BurnPrepare, UpdatePrepare, AckPrepare, CloseWrite, Build,
     Broadcast, CheckTxRefuses, MintCommit, BurnAccepted, UpdateCommit,
     RecordOperation, Notify, AckCommit, Receive, Prepare, chainVars, clientVars
<1>b. pc[r] \notin {"idle", "done"} => OnItsOwn(r)
  BY DEF InStep, Active
<1>. USE DEF OnItsOwn
<1>1. CASE Receive(r)
  <2>1. Settled' = Settled
    BY <1>1, <1>0 DEF Receive, Goto, dbVars, Accepted
  <2>2. OnItsOwn(r)'
    BY <1>1 DEF Receive, Goto, dbVars, ReadsRow, SignsRow, HasImage, InTransaction,
       NextNonce, GoodAnswer
  <2>. QED  BY <1>a, <2>1, <2>2, StaysSynced DEF InStep
<1>2. CASE \/ NotConnected(r) \/ Busy(r) \/ Overflow(r) \/ DuplicateKey(r)
           \/ CloseReread(r) \/ Refused(r)
  <2>1. pc'[r] = "done" /\ row' = row /\ ~Accepted(r)
    BY <1>2 DEF NotConnected, Busy, Overflow, DuplicateKey, CloseReread, Refused,
       Finish, Accepted
  <2>2. Settled' = Settled
    BY <1>0, <2>1 DEF Accepted
  <2>. QED  BY <1>a, <2>1, <2>2, StaysSynced DEF InStep, Active
<1>3. CASE MintPrepare(r) \/ BurnPrepare(r) \/ UpdatePrepare(r) \/ AckPrepare(r)
  <2>1. /\ pc[r] \in {"read", "acking"} /\ pc'[r] = "prepared" /\ row' = row /\ loc' = loc
    BY <1>3 DEF MintPrepare, BurnPrepare, UpdatePrepare, AckPrepare, Prepare, Goto, dbVars
  <2>2. Settled' = Settled
    BY <1>0, <2>1 DEF Accepted
  <2>3. loc[r] = row
    BY <1>3, <1>b, <2>1 DEF ReadsRow, MsgOfKind
  <2>4. tx'[r].seq = loc[r].seq /\ tx'[r].pkt = loc[r].pkt
    BY <1>3 DEF MintPrepare, BurnPrepare, UpdatePrepare, AckPrepare, Prepare, Signed
  <2>5. CASE MintPrepare(r)
    <3>1. work' = IncrementPacketSequence(IncrementSequence(row)) /\ tx'[r].msg = "recv"
      BY <2>5 DEF MintPrepare, Prepare, Signed
    <3>2. HasImage(r)'
      BY <3>1, <2>1 DEF HasImage, IncrementSequence, IncrementPacketSequence
    <3>. QED
      BY <1>a, <2>1, <2>2, <2>3, <2>4, <3>2, StaysSynced
      DEF InStep, ReadsRow, SignsRow, NextNonce, GoodAnswer
  <2>6. CASE BurnPrepare(r)
    <3>1. HasImage(r)'
      BY <2>6 DEF BurnPrepare, Signed, HasImage, InTransaction
    <3>. QED
      BY <1>a, <2>1, <2>2, <2>3, <2>4, <3>1, StaysSynced
      DEF InStep, ReadsRow, SignsRow, NextNonce, GoodAnswer
  <2>7. CASE UpdatePrepare(r) \/ AckPrepare(r)
    <3>1. work' = IncrementSequence(row) /\ tx'[r].msg # "recv"
      BY <2>7 DEF UpdatePrepare, AckPrepare, Prepare, Signed
    <3>2. HasImage(r)'
      BY <3>1, <2>1 DEF HasImage, IncrementSequence
    <3>. QED
      BY <1>a, <2>1, <2>2, <2>3, <2>4, <3>2, StaysSynced
      DEF InStep, ReadsRow, SignsRow, NextNonce, GoodAnswer
  <2>. QED  BY <1>3, <2>5, <2>6, <2>7
<1>4. CASE CloseWrite(r)
  <2>1. /\ pc[r] = "read" /\ pc'[r] = "closing"
        /\ UNCHANGED <<row, loc, tx, resp>>
    BY <1>4 DEF CloseWrite, Goto
  <2>2. Settled' = Settled
    BY <1>0, <2>1 DEF Accepted
  <2>. QED
    BY <1>a, <1>b, <2>1, <2>2, StaysSynced
    DEF InStep, ReadsRow, SignsRow, HasImage, InTransaction, NextNonce, GoodAnswer
<1>5. CASE Build(r)
  <2>1. /\ pc[r] = "prepared" /\ pc'[r] = "built" /\ UNCHANGED <<row, work, loc, nonce>>
        /\ tx'[r].seq = tx[r].seq /\ tx'[r].pkt = tx[r].pkt /\ tx'[r].msg = tx[r].msg
        /\ tx'[r].nonce = nonce[job[r].signer]
    BY <1>5 DEF Build, Goto, dbVars, chainVars, Tx
  <2>2. Settled' = Settled
    BY <1>0, <2>1 DEF Accepted
  <2>3. HasImage(r)'
    BY <1>b, <2>1 DEF HasImage, InTransaction, IncrementSequence, IncrementPacketSequence
  <2>. QED
    BY <1>a, <1>b, <2>1, <2>2, <2>3, StaysSynced
    DEF InStep, ReadsRow, SignsRow, NextNonce, GoodAnswer
<1>6. CASE Broadcast(r)
  <2>1. /\ pc[r] = "built" /\ pc'[r] = "sent" /\ UNCHANGED <<row, work, loc, tx>>
    BY <1>6 DEF Broadcast, Goto, dbVars
  <2>2. Settled' = Settled
    BY <1>0, <2>1 DEF Accepted
  <2>3. HasImage(r)'
    BY <1>b, <2>1 DEF HasImage, InTransaction, IncrementSequence, IncrementPacketSequence
  <2>. QED
    BY <1>a, <1>b, <2>1, <2>2, <2>3, StaysSynced
    DEF InStep, ReadsRow, SignsRow, NextNonce, GoodAnswer
\* Nobody else has a transaction in the mempool.
<1>7. CASE CheckTxRefuses(r)
  <2>1. pc[r] = "built" /\ ~CheckTxOk(r)
    BY <1>7 DEF CheckTxRefuses
  <2>2. \A q \in mempool : pc[q] = "sent" /\ q \in Requests
    BY DEF MempoolAwaited
  <2>3. mempool = {}
    BY <2>1, <2>2
  <2>. QED  BY <1>b, <2>1, <2>3 DEF CheckTxOk, NextNonce
<1>8. CASE MintCommit(r) \/ UpdateCommit(r)
  <2>1. /\ Accepted(r) /\ row' = work /\ job[r].kind # "burn"
        /\ pc'[r] \in {"committed", "recorded", "done"}
    BY <1>8 DEF MintCommit, UpdateCommit, Commit, Goto, Accepted, Steady, KindOfMsg
  <2>2. Settled' = Settled
    BY <1>0, <2>1 DEF Accepted
  <2>. QED
    BY <1>a, <2>1, <2>2, StaysSynced
    DEF InStep, ReadsRow, SignsRow, HasImage, InTransaction, NextNonce, GoodAnswer
<1>9. CASE AckCommit(r)
  <2>1. pc[r] = "answered" /\ tx[r].msg = "ack" /\ row' = work /\ pc'[r] = "done"
    BY <1>9 DEF AckCommit, Commit, Goto
  <2>2. Accepted(r)
    BY <1>b, <2>1 DEF Accepted, GoodAnswer
  <2>3. Settled' = Settled
    BY <1>0, <2>1, <2>2 DEF Accepted
  <2>. QED  BY <1>a, <2>1, <2>3, StaysSynced DEF InStep, Active
<1>10. CASE BurnAccepted(r) \/ RecordOperation(r) \/ Notify(r)
  <2>1. /\ pc[r] \notin {"idle", "done"} /\ ~Accepted(r) /\ row' = row /\ loc' = loc
        /\ pc'[r] \in {"committed", "recorded", "acking", "done"}
    BY <1>10 DEF BurnAccepted, RecordOperation, Notify, Goto, dbVars, Accepted
  <2>2. Settled' = Settled
    BY <1>0, <2>1 DEF Accepted
  <2>3. ReadsRow(r)'
    BY <1>a, <1>b, <2>1 DEF ReadsRow
  <2>. QED
    BY <1>a, <2>1, <2>2, <2>3, StaysSynced
    DEF InStep, SignsRow, HasImage, InTransaction, NextNonce, GoodAnswer
<1>. QED
  BY <1>1, <1>2, <1>3, <1>4, <1>5, <1>6, <1>7, <1>8, <1>9, <1>10 DEF Handle

\* The light client never goes back to the first key.
LEMMA FirstKeyStays ==
  ASSUME Service, NEW r \in Requests, Handle(r) \/ Deliver(r), cKey' = InitKey
  PROVE  cKey = InitKey /\ ~DeliverHeader(r)
<1>1. CASE DeliverHeader(r)
  BY <1>1 DEF DeliverHeader, Service, Steady, KindOfMsg
<1>2. CASE Deliver(r) /\ ~DeliverHeader(r)
  BY <1>2 DEF Deliver, DeliverRecv, DeliverDuplicate, DeliverTransfer, DeliverAck,
     DeliverRefused, clientVars
<1>3. CASE Handle(r)
  <2>1. cKey' = cKey
    BY <1>3 DEF Handle, NotConnected, Busy, Overflow, DuplicateKey, CloseReread,
       Refused, MintPrepare, BurnPrepare, UpdatePrepare, AckPrepare, CloseWrite, Build,
       Broadcast, CheckTxRefuses, MintCommit, BurnAccepted, UpdateCommit,
       RecordOperation, Notify, AckCommit, Receive, Prepare, chainVars, clientVars
  <2>2. ~DeliverHeader(r)
    <3>1. SUFFICES ASSUME DeliverHeader(r) PROVE FALSE
      OBVIOUS
    <3>2. cKey' = job[r].newKey /\ tx[r].msg = "header"
      BY <3>1 DEF DeliverHeader
    <3>. QED  BY <3>2 DEF Service, Steady, KindOfMsg
  <2>. QED  BY <2>1, <2>2
<1>. QED  BY <1>1, <1>2, <1>3

LEMMA NextReceipt ==
  ASSUME NEW S, NEW n \in Nat, \A p \in S : p \in Nat /\ p < n
  PROVE  \A p \in S \cup {n} : p < n + 1
OBVIOUS

\* The chain accepts what the handler has signed at the sequence of the row,
\* and a packet that has no receipt yet.
LEMMA DeliverInStep ==
  ASSUME Signers \subseteq {InitKey}, Service, InStep, NEW r \in Requests, Deliver(r),
         cKey' = InitKey,
         \A q \in Requests \ {r} : pc[q] \in {"idle", "done"} /\ pc'[q] = pc[q]
  PROVE  Synced' /\ OnItsOwn(r)'
<1>. USE DEF Service, TypeOK
<1>1. /\ Settled = IF Accepted(r) THEN work ELSE row
      /\ Settled' = IF Accepted(r)' THEN work' ELSE row'
  BY SettledByOne
<1>2. PICK a \in {"ok", "failack", "noop", "refused"} : Include(r, a)
  BY DEF Deliver, DeliverRecv, DeliverDuplicate, DeliverTransfer,
         DeliverAck, DeliverHeader, DeliverRefused
<1>3. pc[r] = "sent" /\ r \in Active
  BY <1>2 DEF Include, MempoolAwaited, Active
<1>4. /\ pc'[r] = "answered" /\ UNCHANGED <<row, work, job, loc, tx>>
      /\ \A b : Include(r, b) => resp'[r] = b
  BY <1>3, <1>2 DEF Include, dbVars
<1>5. OnItsOwn(r)
  BY <1>3 DEF InStep
<1>6. /\ cSeq = row.seq /\ \A p \in received : p \in Nat /\ p < row.pkt
      /\ row.seq \in Nat /\ row.pkt \in Nat
  BY <1>1, <1>3, Numbers DEF InStep, Synced, Accepted
<1>7. tx[r].seq = row.seq /\ tx[r].pkt = row.pkt
  BY <1>3, <1>5 DEF OnItsOwn, SignsRow
<1>8. Acceptable(r)
  <2>1. job[r].signer = InitKey /\ cKey = InitKey
    BY FirstKeyStays DEF Jobs
  <2>. QED  BY <1>6, <1>7, <2>1 DEF Acceptable, ProofOk, TimeoutAhead
<1>9. ReadsRow(r)' /\ SignsRow(r)' /\ NextNonce(r)'
  BY <1>3, <1>4, <1>5 DEF OnItsOwn, ReadsRow, SignsRow, NextNonce
<1>10. HasImage(r)'
  BY <1>3, <1>4, <1>5
  DEF OnItsOwn, HasImage, InTransaction, IncrementSequence, IncrementPacketSequence
<1>11. CASE DeliverRecv(r)
  <2>1. /\ tx[r].msg = "recv" /\ cSeq' = cSeq + 1
        /\ received' = received \cup {tx[r].pkt}
        /\ resp'[r] \in {"ok", "failack"}
    BY <1>4, <1>11 DEF DeliverRecv
  <2>2. work = IncrementPacketSequence(IncrementSequence(row))
    BY <1>3, <1>5, <2>1 DEF OnItsOwn, HasImage, InTransaction
  <2>3. work.seq = row.seq + 1 /\ work.pkt = row.pkt + 1
    BY <2>2 DEF Row, IncrementSequence, IncrementPacketSequence
  <2>4. Settled' = work
    BY <1>1, <1>4, <2>1 DEF Accepted
  <2>5. cSeq' = Settled'.seq
    BY <1>6, <2>1, <2>3, <2>4
  <2>6. received' = received \cup {row.pkt}
    BY <1>7, <2>1
  <2>7. \A p \in received' : p < row.pkt + 1
    BY <1>6, <2>6, NextReceipt
  <2>. QED
    BY <1>4, <1>9, <1>10, <2>1, <2>3, <2>4, <2>5, <2>7
    DEF Synced, OnItsOwn, GoodAnswer
<1>12. CASE DeliverDuplicate(r)
  BY <1>6, <1>7, <1>12 DEF DeliverDuplicate
<1>13. CASE DeliverTransfer(r)
  <2>1. tx[r].msg = "transfer" /\ UNCHANGED <<cSeq, received>> /\ resp'[r] = "ok"
    BY <1>4, <1>13 DEF DeliverTransfer
  <2>2. Settled' = Settled
    BY <1>1, <1>3, <1>4, <2>1 DEF Accepted
  <2>. QED
    BY <1>9, <1>10, <2>1, <2>2, StaysSynced DEF InStep, OnItsOwn, GoodAnswer
<1>14. CASE DeliverAck(r)
  <2>1. tx[r].msg = "ack" /\ cSeq' = cSeq + 1 /\ received' = received /\ resp'[r] = "ok"
    BY <1>4, <1>14 DEF DeliverAck
  <2>2. work = IncrementSequence(row)
    BY <1>3, <1>5, <2>1 DEF OnItsOwn, HasImage, InTransaction
  <2>3. work.seq = row.seq + 1 /\ work.pkt = row.pkt
    BY <2>2 DEF Row, IncrementSequence
  <2>4. Settled' = work
    BY <1>1, <1>4, <2>1 DEF Accepted
  <2>5. cSeq' = Settled'.seq
    BY <1>6, <2>1, <2>3, <2>4
  <2>. QED
    BY <1>6, <1>9, <1>10, <2>1, <2>3, <2>4, <2>5 DEF Synced, OnItsOwn, GoodAnswer
<1>15. CASE DeliverHeader(r)
  BY <1>15, FirstKeyStays
<1>16. CASE DeliverRefused(r)
  <2>1. /\ tx[r].msg \in Refusable /\ UNCHANGED <<cSeq, received>>
        /\ resp'[r] = "refused"
    BY <1>4, <1>8, <1>16 DEF DeliverRefused, clientVars
  <2>2. Settled' = Settled
    BY <1>1, <1>3, <1>4, <2>1 DEF Accepted
  <2>. QED
    BY <1>4, <1>9, <1>10, <2>1, <2>2, StaysSynced DEF InStep, OnItsOwn, GoodAnswer
<1>. QED
  BY <1>11, <1>12, <1>13, <1>14, <1>15, <1>16 DEF Deliver

AloneInv == ~overlapped => OneActive /\ (cKey = InitKey => InStep)

\* A step of the service that leaves overlapped FALSE is one that began alone.
LEMMA StillAlone ==
  ASSUME Service, AloneInv, [Next /\ Remember]_allVars, ~overlapped',
         IsFiniteSet(Requests)
  PROVE  ~overlapped /\ OneActive /\ OneActive'
<1>1. ~overlapped
  <2>1. CASE UNCHANGED allVars
    BY <2>1 DEF allVars
  <2>. QED  BY <2>1 DEF Remember
<1>2. CASE Remember
  <2>1. ~(Cardinality(Active') > 1)
    BY <1>2 DEF Remember
  <2>2. IsFiniteSet(Active')
    <3>1. Active' \in SUBSET Requests
      BY DEF Active
    <3>. QED  BY <3>1, FS_Subset
  <2>3. Cardinality(Active') <= 1
    BY <2>1, <2>2, FS_CardinalityType
  <2>4. \A p, q \in Active' : p = q
    BY <2>2, <2>3, AtMostOne
  <2>. QED  BY <1>1, <2>4 DEF AloneInv, OneActive
<1>3. CASE UNCHANGED allVars
  BY <1>1, <1>3
  DEF AloneInv, OneActive, Active, allVars, vars, handlerVars
<1>. QED  BY <1>2, <1>3

LEMMA ServiceInvariant ==
  ASSUME ~MayFail
  PROVE  SerialSpec => []Service
BY SerialIsService, TypeCorrect, LockInvariant, ReportsInvariant, KeysInvariant,
   SteadyInvariant, PTL DEF Service, Reports

LEMMA AloneInvariant ==
  ASSUME ~MayFail, IsFiniteSet(Requests), Signers \subseteq {InitKey},
         "ack" \notin Refusable
  PROVE  SerialSpec => []AloneInv
<1>1. Init /\ overlapped = FALSE => AloneInv
  BY WidthAssumption
  DEF Init, AloneInv, OneActive, Active, InStep, Synced, Settled, Accepted
<1>2. Service /\ AloneInv /\ [Next /\ Remember]_allVars => AloneInv'
  <2>. SUFFICES ASSUME Service, AloneInv, [Next /\ Remember]_allVars, ~overlapped'
                PROVE  OneActive' /\ ((cKey = InitKey)' => InStep')
    BY DEF AloneInv
  <2>1. ~overlapped /\ OneActive /\ OneActive'
    BY StillAlone
  <2>2. ASSUME NEW r \in Requests, Handle(r), cKey' = InitKey PROVE InStep'
    <3>1. cKey = InitKey
      BY <2>2, FirstKeyStays
    <3>2. \A q \in Requests \ {r} : pc[q] \in {"idle", "done"} /\ pc'[q] = pc[q]
      BY <2>1, <2>2, OthersRest
    <3>3. Synced' /\ (r \in Active' => OnItsOwn(r)')
      BY <2>1, <2>2, <3>1, <3>2, HandleInStep DEF AloneInv
    <3>. QED  BY <3>2, <3>3 DEF InStep, Active
  <2>3. ASSUME NEW r \in Requests, Deliver(r), cKey' = InitKey PROVE InStep'
    <3>1. cKey = InitKey
      BY <2>3, FirstKeyStays
    <3>2. \A q \in Requests \ {r} : pc[q] \in {"idle", "done"} /\ pc'[q] = pc[q]
      BY <2>1, <2>3, OthersRest
    <3>3. Synced' /\ OnItsOwn(r)'
      BY <2>1, <2>3, <3>1, <3>2, DeliverInStep DEF AloneInv
    <3>. QED  BY <3>2, <3>3 DEF InStep, Active
  <2>4. ASSUME OthersCommit \/ UNCHANGED vars, cKey' = InitKey PROVE InStep'
    <3>1. UNCHANGED <<row, work, pc, job, loc, tx, resp, cSeq, cKey, received, nonce>>
      BY <2>4
      DEF OthersCommit, vars, dbVars, handlerVars, chainVars, clientVars
    <3>2. InStep
      BY <2>1, <2>4, <3>1 DEF AloneInv
    <3>3. Synced'
      BY <3>1, <3>2 DEF InStep, Synced, Settled, Accepted
    <3>4. ASSUME NEW r \in Active' PROVE OnItsOwn(r)'
      <4>1. OnItsOwn(r)
        BY <3>1, <3>2, <3>4 DEF InStep, Active
      <4>. QED
        BY <3>1, <4>1
        DEF OnItsOwn, ReadsRow, SignsRow, HasImage, InTransaction, NextNonce,
            GoodAnswer, IncrementSequence, IncrementPacketSequence
    <3>. QED  BY <3>3, <3>4 DEF InStep
  <2>. QED
    BY <2>1, <2>2, <2>3, <2>4 DEF Next, Terminated, DropTx, Fail, allVars
<1>. QED  BY <1>1, <1>2, ServiceInvariant, PTL DEF SerialSpec

\* Without faults, and with the registered key, burns do not separate the row
\* from the light client either, as long as requests come one at a time: then
\* the sequence that process_packets signs is the one burn read.
THEOREM SerialSyncAlways ==
  ASSUME ~MayFail, IsFiniteSet(Requests), Signers \subseteq {InitKey},
         "ack" \notin Refusable
  PROVE  SerialSpec => []SerialSync
<1>1. Service /\ AloneInv => SerialSync
  <2>. SUFFICES ASSUME Service, AloneInv, ~overlapped, cKey = InitKey, lock = None
                PROVE  row.seq = cSeq
    BY DEF SerialSync, SequenceSync, Quiet
  <2>1. \A r \in Requests : ~Accepted(r)
    BY NoneAssumption DEF Service, LockHeld, Accepted
  <2>. QED  BY <2>1 DEF AloneInv, InStep, Synced, Settled
<1>. QED  BY <1>1, ServiceInvariant, AloneInvariant, PTL

-----------------------------------------------------------------------------
(* Alone, requests succeed.                                                *)

\* Requests that have done what they do to the row.
Spent ==
  {r \in Requests :
     \/ pc[r] = "done"
     \/ pc[r] \in {"committed", "recorded"} /\ job[r].kind # "burn"}

\* Each request moves each sequence once at most.
Counted ==
  /\ row.seq <= InitSeq + Cardinality(Spent)
  /\ row.pkt <= InitPkt + Cardinality(Spent)

\* The u32 fields have room for all requests.
RoomForAll ==
  /\ InitSeq + Cardinality(Requests) <= MaxU32
  /\ InitPkt + Cardinality(Requests) <= MaxU32

SuccessInv == ~overlapped /\ cKey = InitKey => Counted /\ SerialService

\* Handlers that commit.
Commits(r) == MintCommit(r) \/ UpdateCommit(r) \/ AckCommit(r)

LEMMA CountUp ==
  ASSUME NEW T, IsFiniteSet(T), NEW S \in SUBSET T, NEW x \in T \ S
  PROVE  /\ Cardinality(S) \in Nat /\ Cardinality(T) \in Nat
         /\ Cardinality(S) + 1 <= Cardinality(T)
<1>1. IsFiniteSet(S) /\ S \cup {x} \in SUBSET T
  BY FS_Subset
<1>2. Cardinality(S \cup {x}) = Cardinality(S) + 1
  BY <1>1, FS_AddElement
<1>3. Cardinality(S \cup {x}) <= Cardinality(T)
  BY <1>1, FS_Subset
<1>. QED  BY <1>1, <1>2, <1>3, FS_CardinalityType

\* A handler that commits, or overflows, has not done so before.
LEMMA SpentGrows ==
  ASSUME Service, NEW r \in Requests, Handle(r) \/ Deliver(r)
  PROVE  /\ Spent \subseteq Spent'
         /\ Overflow(r) \/ Commits(r) => r \notin Spent
         /\ Commits(r) => r \in Spent'
<1>. USE DEF Service, TypeOK
<1>1. /\ job' = job
      /\ \A q \in Requests \ {r} : pc'[q] = pc[q]
  BY OthersStay
<1>2. r \in Spent => r \in Spent'
  <2>1. CASE \/ NotConnected(r) \/ Busy(r) \/ Overflow(r) \/ DuplicateKey(r)
             \/ CloseReread(r) \/ Refused(r) \/ AckCommit(r)
    BY <2>1 DEF NotConnected, Busy, Overflow, DuplicateKey, CloseReread, Refused,
       AckCommit, Finish, Goto, Spent
  <2>2. CASE RecordOperation(r) \/ Notify(r)
    BY <2>2 DEF RecordOperation, Notify, Goto, Spent
  <2>3. CASE \/ Receive(r) \/ MintPrepare(r) \/ BurnPrepare(r) \/ UpdatePrepare(r)
             \/ AckPrepare(r) \/ CloseWrite(r) \/ Build(r) \/ Broadcast(r)
             \/ CheckTxRefuses(r) \/ MintCommit(r) \/ BurnAccepted(r) \/ UpdateCommit(r)
    BY <2>3 DEF Receive, MintPrepare, BurnPrepare, UpdatePrepare, AckPrepare, CloseWrite,
       Build, Broadcast, CheckTxRefuses, MintCommit, BurnAccepted, UpdateCommit, Spent
  <2>4. CASE Deliver(r)
    BY <2>4 DEF Deliver, DeliverRecv, DeliverDuplicate, DeliverTransfer, DeliverAck,
       DeliverHeader, DeliverRefused, Include, MempoolAwaited, Spent
  <2>. QED  BY <2>1, <2>2, <2>3, <2>4 DEF Handle
<1>3. Overflow(r) \/ Commits(r) => r \notin Spent
  BY DEF Overflow, Commits, MintCommit, UpdateCommit, AckCommit, Spent
<1>4. Commits(r) => r \in Spent'
  BY <1>1 DEF Commits, MintCommit, UpdateCommit, AckCommit, Goto, Spent, Steady, KindOfMsg
<1>. QED  BY <1>1, <1>2, <1>3, <1>4 DEF Spent

LEMMA Images ==
  ASSUME NEW c \in Row
  PROVE  /\ IncrementSequence(c).seq = c.seq + 1
         /\ IncrementSequence(c).pkt = c.pkt
         /\ IncrementSequence(c).channel = c.channel
         /\ IncrementPacketSequence(IncrementSequence(c)).seq = c.seq + 1
         /\ IncrementPacketSequence(IncrementSequence(c)).pkt = c.pkt + 1
         /\ IncrementPacketSequence(IncrementSequence(c)).channel = c.channel
BY DEF Row, IncrementSequence, IncrementPacketSequence

\* Alone, a commit moves each sequence of the row by one at most, and the
\* channel stays what it is.
LEMMA RowByOne ==
  ASSUME Service, InStep, NEW r \in Requests, Handle(r) \/ Deliver(r)
  PROVE  /\ row'.channel = row.channel
         /\ row'.seq <= row.seq + 1 /\ row'.pkt <= row.pkt + 1
         /\ ~Commits(r) => row' = row
<1>. USE DEF Service, TypeOK
<1>1. row.seq \in Nat /\ row.pkt \in Nat
  BY Numbers
<1>2. CASE Commits(r)
  <2>1. row' = work /\ InTransaction(r) /\ r \in Active
    BY <1>2 DEF Commits, MintCommit, UpdateCommit, AckCommit, Commit, InTransaction, Active
  <2>2. HasImage(r)
    BY <2>1 DEF InStep, OnItsOwn
  <2>3. row' = IF tx[r].msg = "recv"
               THEN IncrementPacketSequence(IncrementSequence(row))
               ELSE IncrementSequence(row)
    BY <2>1, <2>2 DEF HasImage
  <2>4. /\ row'.channel = row.channel /\ row'.seq = row.seq + 1
        /\ row'.pkt = row.pkt \/ row'.pkt = row.pkt + 1
    BY <2>3, Images
  <2>. QED  BY <1>1, <1>2, <2>4
<1>3. CASE ~Commits(r)
  <2>1. row' = row
    BY <1>3 DEF Commits, Handle, Deliver, NotConnected, Busy, Overflow, DuplicateKey,
       CloseReread, Refused, MintPrepare, BurnPrepare, UpdatePrepare, AckPrepare,
       CloseWrite, Build, Broadcast, CheckTxRefuses, BurnAccepted, RecordOperation,
       Notify, Receive, Prepare, DeliverRecv, DeliverDuplicate, DeliverTransfer,
       DeliverAck, DeliverHeader, DeliverRefused, Include, dbVars
  <2>. QED  BY <1>1, <1>3, <2>1
<1>. QED  BY <1>2, <1>3

LEMMA CountedStays ==
  ASSUME IsFiniteSet(Requests), Service, InStep, Counted,
         NEW r \in Requests, Handle(r) \/ Deliver(r)
  PROVE  Counted'
<1>1. row' \in Row => row'.seq \in Nat /\ row'.pkt \in Nat
  BY DEF Row
<1>2. IsFiniteSet(Spent) /\ IsFiniteSet(Spent')
  <2>1. Spent \in SUBSET Requests /\ Spent' \in SUBSET Requests
    BY DEF Spent
  <2>. QED  BY <2>1, FS_Subset
<1>3. Cardinality(Spent) \in Nat /\ Cardinality(Spent') \in Nat
  BY <1>2, FS_CardinalityType
<1>4. row.seq \in Nat /\ row.pkt \in Nat /\ InitSeq \in Nat /\ InitPkt \in Nat
  BY Numbers, WidthAssumption DEF Service
<1>5. CASE Commits(r)
  <2>1. Cardinality(Spent) + 1 <= Cardinality(Spent')
    BY <1>2, <1>5, SpentGrows, CountUp
  <2>2. row' = work /\ work.seq \in Nat /\ work.pkt \in Nat
    BY <1>5, Numbers DEF Commits, MintCommit, UpdateCommit, AckCommit, Commit, Service
  <2>3. row'.seq <= row.seq + 1 /\ row'.pkt <= row.pkt + 1
    BY RowByOne
  <2>. QED  BY <1>3, <1>4, <2>1, <2>2, <2>3 DEF Counted
<1>6. CASE ~Commits(r)
  <2>1. row' = row
    BY <1>6, RowByOne
  <2>2. Cardinality(Spent) <= Cardinality(Spent')
    <3>1. Spent \in SUBSET Spent'
      BY SpentGrows
    <3>. QED  BY <1>2, <3>1, FS_Subset
  <2>. QED  BY <1>3, <1>4, <2>1, <2>2 DEF Counted
<1>. QED  BY <1>5, <1>6

LEMMA NeverOverflows ==
  ASSUME IsFiniteSet(Requests), RoomForAll, Service, Counted,
         NEW r \in Requests, r \notin Spent
  PROVE  ~SequenceOverflow(row) /\ ~PacketOverflow(row)
<1>1. Spent \in SUBSET Requests
  BY DEF Spent
<1>2. /\ Cardinality(Spent) \in Nat /\ Cardinality(Requests) \in Nat
      /\ Cardinality(Spent) + 1 <= Cardinality(Requests)
  BY <1>1, CountUp
<1>3. row.seq \in Nat /\ row.pkt \in Nat /\ InitSeq \in Nat /\ InitPkt \in Nat /\ MaxU32 \in Nat
  BY Numbers, WidthAssumption DEF Service
<1>. QED
  BY <1>2, <1>3 DEF Counted, RoomForAll, SequenceOverflow, PacketOverflow

\* A handler that runs alone on an open channel returns Ok.
LEMMA ReturnsOk ==
  ASSUME ~Shared, Refusable \subseteq {"header"}, IsFiniteSet(Requests), RoomForAll,
         Service, InStep, Counted, NEW r \in Requests, Handle(r),
         \A q \in Requests \ {r} : pc[q] \in {"idle", "done"} /\ pc'[q] = pc[q],
         pc'[r] = "done", job[r].kind \in {"mint", "burn"},
         row.channel = "open", resp'[r] # "failack"
  PROVE  out'[r] = "ok"
<1>. USE DEF Service, TypeOK
<1>1. r \in Active => OnItsOwn(r)
  BY DEF InStep
<1>2. CASE NotConnected(r)
  BY <1>1, <1>2 DEF NotConnected, Active, OnItsOwn, ReadsRow, Usable
\* The lock could only be its own, and it has no snapshot.
<1>3. CASE Busy(r)
  <2>1. r \notin stale
    BY DEF Steady, StaleReads
  <2>2. lock \in Requests \ {r} /\ lock # None
    BY <1>3, <2>1 DEF Busy
  <2>. QED  BY <2>2 DEF Steady, LockUsed, InTransaction
<1>4. CASE Overflow(r)
  <2>1. ~SequenceOverflow(row) /\ ~PacketOverflow(row)
    BY <1>4, SpentGrows, NeverOverflows
  <2>. QED  BY <1>4, <2>1 DEF Overflow
<1>5. CASE DuplicateKey(r) \/ CloseReread(r)
  BY <1>5 DEF DuplicateKey, CloseReread, Steady, KindOfMsg
<1>6. CASE Refused(r)
  <2>1. pc[r] = "answered" /\ resp[r] = "refused" /\ r \in Active
    BY <1>6 DEF Refused, Active
  <2>2. tx[r].msg = "header"
    BY <1>1, <2>1 DEF OnItsOwn, GoodAnswer
  <2>. QED  BY <2>2 DEF Steady, KindOfMsg
<1>7. CASE MintCommit(r)
  BY <1>1, <1>7 DEF MintCommit, Active, OnItsOwn, GoodAnswer, Goto
<1>8. CASE AckCommit(r)
  <2>1. pc[r] = "answered" /\ tx[r].msg = "ack" /\ r \in Active
    BY <1>8 DEF AckCommit, Active
  <2>2. resp[r] # "refused"
    BY <1>1, <2>1 DEF OnItsOwn, GoodAnswer
  <2>. QED  BY <1>8, <2>2 DEF AckCommit
<1>9. CASE Notify(r)
  BY <1>9 DEF Notify, Goto
<1>10. CASE \/ Receive(r) \/ MintPrepare(r) \/ BurnPrepare(r) \/ UpdatePrepare(r)
            \/ AckPrepare(r) \/ CloseWrite(r) \/ Build(r) \/ Broadcast(r)
            \/ CheckTxRefuses(r) \/ BurnAccepted(r) \/ UpdateCommit(r) \/ RecordOperation(r)
  BY <1>10 DEF Receive, MintPrepare, BurnPrepare, UpdatePrepare, AckPrepare, CloseWrite,
     Build, Broadcast, CheckTxRefuses, BurnAccepted, UpdateCommit, RecordOperation,
     Prepare, Goto
<1>. QED
  BY <1>2, <1>3, <1>4, <1>5, <1>6, <1>7, <1>8, <1>9, <1>10 DEF Handle

\* Nothing a request leaves behind, in the database or on the chain, makes a
\* later one fail: used one request at a time, with the registered key, an
\* open channel, room in the u32 fields and nobody else on the database file,
\* the service always succeeds.
THEOREM AloneSucceedsAlways ==
  ASSUME ~MayFail, ~Shared, IsFiniteSet(Requests), Signers \subseteq {InitKey},
         Refusable \subseteq {"header"}, RoomForAll
  PROVE  SerialSpec => []AloneSucceeds
<1>1. Init /\ overlapped = FALSE => SuccessInv
  <2>. SUFFICES ASSUME Init PROVE Counted /\ SerialService
    BY DEF SuccessInv
  <2>1. Spent = {}
    BY DEF Init, Spent
  <2>2. Cardinality(Spent) = 0
    BY <2>1, FS_EmptySet
  <2>. QED  BY <2>2, WidthAssumption DEF Init, Counted, SerialService
<1>2. Service /\ AloneInv /\ SuccessInv /\ [Next /\ Remember]_allVars => SuccessInv'
  <2>. SUFFICES ASSUME Service, AloneInv, SuccessInv, [Next /\ Remember]_allVars,
                       ~overlapped', cKey' = InitKey
                PROVE  Counted' /\ SerialService'
    BY DEF SuccessInv
  <2>1. ~overlapped /\ OneActive /\ OneActive'
    BY StillAlone
  <2>2. ASSUME NEW r \in Requests, Handle(r) \/ Deliver(r)
        PROVE  Counted' /\ SerialService'
    <3>1. cKey = InitKey
      BY <2>2, FirstKeyStays
    <3>2. InStep /\ Counted /\ SerialService
      BY <2>1, <3>1 DEF AloneInv, SuccessInv
    <3>3. \A q \in Requests \ {r} : pc[q] \in {"idle", "done"} /\ pc'[q] = pc[q]
      BY <2>1, <2>2, OthersRest
    <3>4. /\ job' = job
          /\ \A q \in Requests \ {r} : out'[q] = out[q] /\ resp'[q] = resp[q]
      BY <2>2, OthersStay DEF Service
    <3>5. row'.channel = row.channel
      BY <2>2, <3>2, RowByOne
    <3>6. ASSUME NEW q \in Requests,
                 pc'[q] = "done", job'[q].kind \in {"mint", "burn"},
                 row'.channel = "open", job'[q].signer = InitKey, resp'[q] # "failack"
          PROVE  out'[q] = "ok"
      <4>1. CASE q # r
        BY <3>1, <3>2, <3>3, <3>4, <3>5, <3>6, <4>1 DEF SerialService
      <4>2. CASE q = r /\ Handle(r)
        BY <3>2, <3>3, <3>4, <3>5, <3>6, <4>2, ReturnsOk
      <4>3. CASE q = r /\ Deliver(r)
        <5>1. PICK a \in {"ok", "failack", "noop", "refused"} : Include(r, a)
          BY <4>3 DEF Deliver, DeliverRecv, DeliverDuplicate, DeliverTransfer,
                      DeliverAck, DeliverHeader, DeliverRefused
        <5>. QED  BY <3>6, <4>3, <5>1 DEF Include, Service, MempoolAwaited, TypeOK
      <4>. QED  BY <2>2, <4>1, <4>2, <4>3
    <3>7. Counted'
      BY <2>2, <3>2, CountedStays
    <3>. QED  BY <3>6, <3>7 DEF SerialService
  <2>3. CASE OthersCommit \/ UNCHANGED vars
    BY <2>1, <2>3
    DEF OthersCommit, SuccessInv, Counted, Spent, SerialService, vars, dbVars, handlerVars, chainVars,
        clientVars
  <2>. QED  BY <2>2, <2>3 DEF Next, Terminated, DropTx, Fail, allVars
<1>3. SuccessInv => AloneSucceeds
  BY DEF SuccessInv, AloneSucceeds, SerialService
<1>4. SerialSpec => []AloneInv
  BY AloneInvariant
<1>. QED
  BY <1>1, <1>2, <1>3, <1>4, ServiceInvariant, PTL DEF SerialSpec

=============================================================================
