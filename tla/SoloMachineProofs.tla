------------------------- MODULE SoloMachineProofs -------------------------
(***************************************************************************)
(* Theorems about SoloMachine, for any number of requests and calls: the   *)
(* lock has one holder, what is stored of chain B stays, and each chain    *)
(* behaves as it would alone.                                              *)
(*                                                                         *)
(* Every handler of either chain takes the lock only when it is free and   *)
(* lets go of it only when it has it, so what it does to the lock is       *)
(* invisible to the other chain.  This needs OneWriter: a commit releases  *)
(* the lock without looking, and it is a commit of the one who holds it.   *)
(***************************************************************************)
EXTENDS SoloMachine, TLAPS

\* The variables that are looked at here are functions.
Domains ==
  /\ DOMAIN pc = Requests /\ DOMAIN tx = Requests /\ DOMAIN resp = Requests
  /\ \A r \in Requests : DOMAIN tx[r] = {"msg", "seq", "pkt", "nonce"}
  /\ DOMAIN bPc = Calls /\ DOMAIN bMsg = Calls /\ DOMAIN bOut = Calls
  /\ DOMAIN addPc = Adds

SoloInv == Domains /\ OneWriter /\ backend = Backend

\* What a call of connect does, or meets.
ConnectMove(c) ==
  ConnectStep(c) \/ SnapshotBusy(c) \/ ConnectAnswer(c) \/ ChainNotFound(c)

-----------------------------------------------------------------------------
(* What a step of one handler may do to the others.                        *)

\* It takes the lock when it is free and gives it back when it has it.
Polite(x) ==
  /\ lock = x => lock' \in {x, None}
  /\ lock # x => lock' = lock \/ (lock = None /\ lock' = x)

\* A step of request r of chain A.
ServiceLocal(r) ==
  /\ DOMAIN pc' = Requests /\ DOMAIN tx' = Requests /\ DOMAIN resp' = Requests
  /\ DOMAIN tx'[r] = {"msg", "seq", "pkt", "nonce"}
  /\ \A q \in Requests \ {r} :
       pc'[q] = pc[q] /\ tx'[q] = tx[q] /\ resp'[q] = resp[q]
  /\ ServiceWrites(r)' => lock' = r
  /\ Polite(r)
  /\ UNCHANGED <<addVars, connectVars>>

\* The handler returns and rolls back what it has not committed.
LEMMA FinishIsLocal ==
  ASSUME SoloInv, NEW r \in Requests, NEW result, Finish(r, result),
         UNCHANGED <<tx, resp>>, UNCHANGED <<addVars, connectVars>>
  PROVE  ServiceLocal(r)
BY NoneAssumption
DEF SoloInv, Domains, Finish, ServiceLocal, ServiceWrites, Polite

\* The handler goes on with the lock and the message it has.
LEMMA GotoIsLocal ==
  ASSUME SoloInv, NEW r \in Requests, NEW label, Goto(r, label),
         UNCHANGED <<tx, resp, addVars, connectVars>>,
         ServiceWrites(r)' => lock' = r, Polite(r)
  PROVE  ServiceLocal(r)
BY DEF SoloInv, Domains, Goto, ServiceLocal

\* The write lock is taken and a message signed.
LEMMA PrepareIsLocal ==
  ASSUME SoloInv, NEW r \in Requests, NEW image, NEW m, Prepare(r, image, m),
         lock = None, UNCHANGED <<addVars, connectVars>>
  PROVE  ServiceLocal(r)
BY NoneAssumption
DEF SoloInv, Domains, Prepare, Goto, Signed, ServiceLocal,
    ServiceWrites, Polite, chainVars

-----------------------------------------------------------------------------
(* The steps of chain A.                                                   *)

LEMMA HandleIsLocal ==
  ASSUME SoloInv, NEW r \in Requests, Handle(r), UNCHANGED <<addVars, connectVars>>
  PROVE  ServiceLocal(r)
<1>. USE DEF chainVars, clientVars
<1>0. /\ Domains /\ r # None
      /\ ServiceWrites(r) => lock = r
  BY NoneAssumption DEF SoloInv, OneWriter
<1>1. CASE Receive(r)
  <2>1. pc[r] = "idle" /\ pc'[r] = "read" /\ UNCHANGED <<lock, tx, resp>>
    BY <1>0, <1>1 DEF Receive, Goto, Domains, dbVars
  <2>. QED
    BY <1>0, <1>1, <2>1, GotoIsLocal DEF Receive, ServiceWrites, Polite
<1>2. CASE NotConnected(r) \/ DuplicateKey(r) \/ CloseReread(r) \/ Refused(r)
  BY <1>2, FinishIsLocal DEF NotConnected, DuplicateKey, CloseReread, Refused
<1>3. CASE Busy(r) \/ Overflow(r)
  BY <1>3, FinishIsLocal DEF Busy, Overflow
<1>4. CASE MintPrepare(r) \/ UpdatePrepare(r) \/ AckPrepare(r)
  BY <1>4, PrepareIsLocal DEF MintPrepare, UpdatePrepare, AckPrepare, CanWrite
<1>5. CASE BurnPrepare(r)
  <2>1. /\ pc[r] = "read" /\ pc'[r] = "prepared" /\ lock' = lock
        /\ tx'[r].msg = "transfer" /\ DOMAIN tx'[r] = {"msg", "seq", "pkt", "nonce"}
    BY <1>0, <1>5 DEF BurnPrepare, Goto, Signed, Domains, dbVars
  <2>2. ~ServiceWrites(r)' /\ Polite(r)
    BY <1>0, <1>5, <2>1 DEF BurnPrepare, ServiceWrites, Polite
  <2>. QED
    BY <1>0, <1>5, <2>1, <2>2 DEF BurnPrepare, Goto, Domains, ServiceLocal
<1>6. CASE CloseWrite(r)
  <2>1. pc[r] = "read" /\ pc'[r] = "closing" /\ lock = None /\ lock' = r
    BY <1>0, <1>6 DEF CloseWrite, CanWrite, Goto, Domains
  <2>. QED
    BY <1>0, <1>6, <2>1, GotoIsLocal DEF CloseWrite, Polite
<1>7. CASE Build(r)
  <2>1. /\ pc[r] = "prepared" /\ pc'[r] = "built" /\ lock' = lock
        /\ tx'[r].msg = tx[r].msg /\ DOMAIN tx'[r] = {"msg", "seq", "pkt", "nonce"}
    BY <1>0, <1>7 DEF Build, Goto, Domains, dbVars
  <2>2. (ServiceWrites(r)' => lock' = r) /\ Polite(r)
    BY <1>0, <1>7, <2>1 DEF Build, ServiceWrites, Polite
  <2>. QED
    BY <1>0, <1>7, <2>1, <2>2 DEF Build, Goto, Domains, ServiceLocal
<1>8. CASE Broadcast(r)
  <2>1. /\ pc[r] = "built" /\ pc'[r] = "sent" /\ UNCHANGED <<lock, tx, resp>>
    BY <1>0, <1>8 DEF Broadcast, Goto, Domains, dbVars
  <2>. QED
    BY <1>0, <1>8, <2>1, GotoIsLocal DEF Broadcast, ServiceWrites, Polite
<1>9. CASE CheckTxRefuses(r)
  <2>1. /\ pc[r] = "built" /\ pc'[r] = "answered" /\ UNCHANGED <<lock, tx>>
        /\ resp'[r] = "refused" /\ DOMAIN resp' = Requests
    BY <1>0, <1>9 DEF CheckTxRefuses, Goto, Domains, dbVars
  <2>2. (ServiceWrites(r)' => lock' = r) /\ Polite(r)
    BY <1>0, <1>9, <2>1 DEF ServiceWrites, Polite
  <2>. QED
    BY <1>0, <1>9, <2>1, <2>2 DEF CheckTxRefuses, Goto, Domains, ServiceLocal
<1>10. CASE MintCommit(r)
  <2>1. pc[r] = "answered" /\ tx[r].msg = "recv" /\ lock = r
    BY <1>0, <1>10 DEF MintCommit, ServiceWrites
  <2>2. lock' = None /\ UNCHANGED <<tx, resp>>
    BY <1>10 DEF MintCommit, Commit
  <2>3. CASE resp[r] = "ok"
    <3>1. pc'[r] = "committed" /\ Goto(r, "committed")
      BY <1>0, <1>10, <2>3 DEF MintCommit, Goto, Domains
    <3>. QED
      BY <1>0, <2>1, <2>2, <2>3, <3>1, GotoIsLocal DEF ServiceWrites, Polite
  <2>4. CASE resp[r] # "ok"
    <3>1. pc'[r] = "done" /\ Goto(r, "done")
      BY <1>0, <1>10, <2>4 DEF MintCommit, Goto, Domains
    <3>. QED
      BY <1>0, <2>1, <2>2, <3>1, GotoIsLocal DEF ServiceWrites, Polite
  <2>. QED  BY <2>3, <2>4
<1>11. CASE BurnAccepted(r)
  <2>1. /\ pc[r] = "answered" /\ pc'[r] = "committed" /\ tx[r].msg = "transfer"
        /\ UNCHANGED <<lock, tx, resp>>
    BY <1>0, <1>11 DEF BurnAccepted, Goto, Domains, dbVars
  <2>. QED
    BY <1>0, <1>11, <2>1, GotoIsLocal DEF BurnAccepted, ServiceWrites, Polite
<1>12. CASE UpdateCommit(r)
  <2>1. /\ pc[r] = "answered" /\ pc'[r] = "recorded" /\ lock = r /\ lock' = None
        /\ UNCHANGED <<tx, resp>>
    BY <1>0, <1>12 DEF UpdateCommit, Commit, Goto, Domains, ServiceWrites
  <2>. QED
    BY <1>0, <1>12, <2>1, GotoIsLocal DEF UpdateCommit, ServiceWrites, Polite
<1>13. CASE RecordOperation(r)
  <2>1. /\ pc[r] = "committed" /\ pc'[r] = "recorded"
        /\ UNCHANGED <<lock, tx, resp>>
    BY <1>0, <1>13 DEF RecordOperation, Goto, Domains
  <2>. QED
    BY <1>0, <1>13, <2>1, GotoIsLocal
    DEF RecordOperation, ServiceWrites, Polite
<1>14. CASE Notify(r)
  <2>1. pc[r] = "recorded" /\ UNCHANGED <<lock, tx, resp>>
    BY <1>14 DEF Notify, dbVars
  <2>2. CASE job[r].kind = "burn"
    <3>1. pc'[r] = "acking" /\ Goto(r, "acking")
      BY <1>0, <1>14, <2>2 DEF Notify, Goto, Domains
    <3>. QED
      BY <1>0, <2>1, <3>1, GotoIsLocal DEF ServiceWrites, Polite
  <2>3. CASE job[r].kind # "burn"
    <3>1. /\ pc'[r] = "done" /\ Goto(r, "done")
      BY <1>0, <1>14, <2>3 DEF Notify, Goto, Domains
    <3>. QED
      BY <1>0, <2>1, <3>1
      DEF Goto, Domains, ServiceLocal, ServiceWrites, Polite
  <2>. QED  BY <2>2, <2>3
<1>15. CASE AckCommit(r)
  <2>1. pc[r] = "answered" /\ lock = r
    BY <1>0, <1>15 DEF AckCommit, ServiceWrites
  <2>2. /\ pc'[r] = "done" /\ Goto(r, "done")
        /\ lock' = None /\ UNCHANGED <<tx, resp>>
    BY <1>0, <1>15 DEF AckCommit, Commit, Goto, Domains
  <2>. QED  BY <1>0, <2>1, <2>2, GotoIsLocal DEF ServiceWrites, Polite
<1>. QED
  BY <1>1, <1>2, <1>3, <1>4, <1>5, <1>6, <1>7, <1>8, <1>9, <1>10, <1>11, <1>12,
     <1>13, <1>14, <1>15
  DEF Handle

\* A block of chain A reaches the handler only if it still waits.
LEMMA AnswerIsLocal ==
  ASSUME SoloInv, NEW r \in Requests, Deliver(r), UNCHANGED <<addVars, connectVars>>
  PROVE  ServiceLocal(r)
<1>1. PICK a \in {"ok", "failack", "noop", "refused"} : Include(r, a)
  BY DEF Deliver, DeliverRecv, DeliverDuplicate, DeliverTransfer, DeliverAck,
         DeliverHeader, DeliverRefused
<1>2. /\ Domains /\ r # None
      /\ ServiceWrites(r) => lock = r
  BY NoneAssumption DEF SoloInv, OneWriter
<1>3. UNCHANGED <<lock, tx>>
  BY <1>1 DEF Include, dbVars
<1>4. CASE pc[r] = "sent"
  <2>1. pc' = [pc EXCEPT ![r] = "answered"] /\ resp' = [resp EXCEPT ![r] = a]
    BY <1>1, <1>4 DEF Include
  <2>. QED
    BY <1>2, <1>3, <1>4, <2>1
    DEF Domains, ServiceLocal, ServiceWrites, Polite
<1>5. CASE pc[r] # "sent"
  <2>1. UNCHANGED <<pc, resp>>
    BY <1>1, <1>5 DEF Include
  <2>. QED
    BY <1>2, <1>3, <2>1 DEF Domains, ServiceLocal, ServiceWrites, Polite
<1>. QED  BY <1>4, <1>5

LEMMA ServiceIsLocal ==
  ASSUME SoloInv, NEW r \in Requests,
         ServiceStep(r) \/ ServiceAnswer(r)
  PROVE  ServiceLocal(r)
<1>1. CASE ServiceStep(r)  BY <1>1, HandleIsLocal DEF ServiceStep
<1>2. CASE ServiceAnswer(r)  BY <1>2, AnswerIsLocal DEF ServiceAnswer
<1>. QED  BY <1>1, <1>2

LEMMA ServiceKeeps ==
  ASSUME SoloInv, NEW r \in Requests, ServiceLocal(r)
  PROVE  SoloInv'
<1>1. Domains' /\ backend' = Backend
  BY DEF SoloInv, Domains, ServiceLocal, addVars, connectVars
<1>2. OneWriter'
  BY NoneAssumption, DisjointAssumption
  DEF SoloInv, OneWriter, ServiceWrites, ConnectWrites, AddWrites, ServiceLocal, Polite,
      addVars, connectVars
<1>. QED  BY <1>1, <1>2 DEF SoloInv

-----------------------------------------------------------------------------
(* The steps of chain B.                                                   *)

\* A step of call c of connect.
ConnectLocal(c) ==
  /\ DOMAIN bPc' = Calls /\ DOMAIN bMsg' = Calls /\ DOMAIN bOut' = Calls
  /\ \A q \in Calls \ {c} : bPc'[q] = bPc[q] /\ bMsg'[q] = bMsg[q]
  /\ ConnectWrites(c)' => lock' = c
  /\ Polite(c)
  /\ backend' = backend
  /\ UNCHANGED <<unlockedVars, addVars>>

LEMMA AbortIsLocal ==
  ASSUME SoloInv, NEW c \in Calls, NEW result, B!Abort(c, result),
         UNCHANGED <<unlockedVars, addVars>>
  PROVE  ConnectLocal(c)
BY DisjointAssumption
DEF SoloInv, Domains, B!Abort, B!Goto, ConnectLocal, ConnectWrites, Polite

\* The lock stays, or it is taken when it is free; so is every next step.
LEMMA BuildIsLocal ==
  ASSUME SoloInv, NEW c \in Calls, NEW k, NEW n, NEW e, B!Build(c, k, n, e),
         k = "createClient" \/ lock = c, UNCHANGED <<unlockedVars, addVars>>
  PROVE  ConnectLocal(c)
BY DEF SoloInv, Domains, B!Build, B!Goto, B!dbVars, ConnectLocal, ConnectWrites, Polite

LEMMA WriteEndIsLocal ==
  ASSUME SoloInv, NEW c \in Calls, NEW end, NEW e, NEW label,
         B!WriteEnd(c, end, e, label), lock = c, UNCHANGED <<unlockedVars, addVars>>
  PROVE  ConnectLocal(c)
BY DEF SoloInv, Domains, B!WriteEnd, B!Goto, ConnectLocal, ConnectWrites, Polite

LEMMA SignIsLocal ==
  ASSUME SoloInv, NEW c \in Calls, NEW k, NEW end, B!SignAndIncrement(c, k, end),
         UNCHANGED <<unlockedVars, addVars>>
  PROVE  ConnectLocal(c)
BY DisjointAssumption
DEF SoloInv, Domains, B!SignAndIncrement, B!Goto, ConnectLocal, ConnectWrites, Polite

LEMMA ConnectHandleIsLocal ==
  ASSUME SoloInv, NEW c \in Calls, B!Handle(c), UNCHANGED <<unlockedVars, addVars>>
  PROVE  ConnectLocal(c)
<1>0. /\ Domains /\ c # None /\ backend = "sqlite"
      /\ ConnectWrites(c) => lock = c
  BY DisjointAssumption, SqliteAssumption DEF SoloInv, OneWriter
<1>1. CASE B!Begin(c)
  <2>1. bPc'[c] \in {"createClient", "begun"}
    BY <1>0, <1>1 DEF B!Begin, B!Goto, Domains
  <2>. QED
    BY <1>0, <1>1, <2>1
    DEF B!Begin, B!Goto, B!dbVars, Domains, ConnectLocal, ConnectWrites, Polite
<1>2. CASE B!AlreadyEstablished(c) \/ B!ReconnectNotImplemented(c)
             \/ B!Refused(c) \/ B!Busy(c)
  BY <1>2, AbortIsLocal
  DEF B!AlreadyEstablished, B!ReconnectNotImplemented, B!Refused, B!Busy
<1>3. CASE B!CreateClient(c)  BY <1>3, BuildIsLocal DEF B!CreateClient
<1>4. CASE B!SaveClient(c)
  BY <1>0, <1>4
  DEF B!SaveClient, B!CanInsert, B!LockByInsert, B!Goto, Domains, ConnectLocal,
      ConnectWrites, Polite
<1>5. CASE B!ConnectionOpenInit(c) \/ B!ChannelOpenInit(c)
  BY <1>0, <1>5, BuildIsLocal
  DEF B!ConnectionOpenInit, B!ChannelOpenInit, ConnectWrites
<1>6. CASE B!ConnectionOpenTry(c) \/ B!ConnectionOpenConfirm(c)
             \/ B!ChannelOpenTry(c) \/ B!ChannelOpenConfirm(c)
  BY <1>0, <1>6, WriteEndIsLocal
  DEF B!ConnectionOpenTry, B!ConnectionOpenConfirm, B!ChannelOpenTry,
      B!ChannelOpenConfirm, ConnectWrites
<1>7. CASE B!ConnectionOpenAck(c) \/ B!ChannelOpenAck(c)
  BY <1>7, SignIsLocal DEF B!ConnectionOpenAck, B!ChannelOpenAck
<1>8. CASE B!BuildSigned(c)
  BY <1>0, <1>8, BuildIsLocal DEF B!BuildSigned, ConnectWrites
<1>9. CASE B!Broadcast(c) \/ B!CheckTxRefuses(c)
  <2>1. /\ bPc[c] = "built" /\ bPc'[c] \in {"waiting", "refused"}
        /\ UNCHANGED <<lock, bMsg, bOut, backend>>
        /\ bPc' = [bPc EXCEPT ![c] = bPc'[c]]
    BY <1>0, <1>9 DEF B!Broadcast, B!CheckTxRefuses, B!Goto, B!dbVars, Domains
  <2>. QED
    BY <1>0, <2>1 DEF Domains, ConnectLocal, ConnectWrites, Polite
<1>10. CASE B!NotifyEstablished(c)
  BY <1>0, <1>10
  DEF B!NotifyEstablished, B!Goto, B!dbVars, Domains, ConnectLocal, ConnectWrites,
      Polite
<1>11. CASE B!Commit(c)
  BY <1>0, <1>11
  DEF B!Commit, B!Goto, Domains, ConnectLocal, ConnectWrites, Polite
<1>. QED
  BY <1>1, <1>2, <1>3, <1>4, <1>5, <1>6, <1>7, <1>8, <1>9, <1>10, <1>11 DEF B!Handle

LEMMA ConnectAnswerIsLocal ==
  ASSUME SoloInv, NEW c \in Calls, NEW label, B!Answer(c, label),
         label = "saveClient" => bMsg[c].kind = "createClient",
         bMsg[c].kind = "createClient" => label \in {"saveClient", "refused"},
         UNCHANGED <<unlockedVars, addVars>>
  PROVE  ConnectLocal(c)
<1>1. Domains /\ (ConnectWrites(c) => lock = c)
  BY DEF SoloInv, OneWriter
<1>2. UNCHANGED <<lock, bMsg, bOut, backend>>
  BY DEF B!Answer, B!dbVars
<1>3. /\ DOMAIN bPc' = Calls /\ \A q \in Calls \ {c} : bPc'[q] = bPc[q]
      /\ bPc'[c] = IF bPc[c] = "waiting" THEN label ELSE bPc[c]
  BY <1>1 DEF B!Answer, Domains
<1>. QED
  BY <1>1, <1>2, <1>3 DEF Domains, ConnectLocal, ConnectWrites, Polite

\* Also for a call that was not made: the chain is not there.
LEMMA ConnectIsLocal ==
  ASSUME SoloInv, NEW c \in Calls,
         ConnectMove(c)
  PROVE  ConnectLocal(c)
<1>1. CASE ConnectStep(c)  BY <1>1, ConnectHandleIsLocal DEF ConnectStep
<1>2. CASE ConnectAnswer(c) /\ B!Deliver(c)
  <2>. DEFINE k == bMsg[c].kind
  <2>1. B!Answer(c, B!AfterAnswer[k]) /\ UNCHANGED <<unlockedVars, addVars>>
    BY <1>2 DEF ConnectAnswer, B!Deliver
  <2>2. CASE bPc[c] = "waiting" /\ k = "createClient"
    <3>1. B!AfterAnswer[k] = "saveClient"
      BY <2>2 DEF B!AfterAnswer
    <3>. QED  BY <2>1, <2>2, <3>1, ConnectAnswerIsLocal
  <2>3. CASE ~(bPc[c] = "waiting" /\ k = "createClient")
    <3>1. Domains /\ (ConnectWrites(c) => lock = c)
      BY DEF SoloInv, OneWriter
    <3>2. UNCHANGED <<lock, bMsg, bOut, backend>>
      BY <2>1 DEF B!Answer, B!dbVars
    <3>3. /\ DOMAIN bPc' = Calls /\ \A q \in Calls \ {c} : bPc'[q] = bPc[q]
          /\ bPc[c] # "waiting" => bPc'[c] = bPc[c]
      BY <2>1, <3>1 DEF B!Answer, Domains
    <3>. QED
      BY <2>1, <2>3, <3>1, <3>2, <3>3
      DEF Domains, ConnectLocal, ConnectWrites, Polite
  <2>. QED  BY <2>2, <2>3
<1>3. CASE ConnectAnswer(c) /\ B!DeliverRefused(c)
  BY <1>3, ConnectAnswerIsLocal DEF ConnectAnswer, B!DeliverRefused
<1>4. CASE SnapshotBusy(c) \/ ChainNotFound(c)
  BY <1>4, AbortIsLocal DEF SnapshotBusy, ChainNotFound
<1>. QED  BY <1>1, <1>2, <1>3, <1>4 DEF ConnectMove, ConnectAnswer

LEMMA ConnectKeeps ==
  ASSUME SoloInv, NEW c \in Calls, ConnectLocal(c)
  PROVE  SoloInv'
<1>1. UNCHANGED <<pc, tx, resp, addPc>>
  BY DEF ConnectLocal, unlockedVars, addVars, handlerVars
<1>2. Domains' /\ backend' = Backend
  BY <1>1 DEF SoloInv, Domains, ConnectLocal
<1>3. OneWriter'
  BY <1>1, NoneAssumption, DisjointAssumption
  DEF SoloInv, OneWriter, ServiceWrites, ConnectWrites, AddWrites, ConnectLocal, Polite
<1>. QED  BY <1>2, <1>3 DEF SoloInv

-----------------------------------------------------------------------------
(* The steps of ChainService::add.                                         *)

LEMMA AddKeeps ==
  ASSUME SoloInv, NEW a \in Adds, Add(a)
  PROVE  /\ SoloInv' /\ Polite(a)
         /\ UNCHANGED <<unlockedVars, connectVars>>
<1>1. UNCHANGED <<unlockedVars, connectVars>>
  BY DEF Add, AddChain, AddDuplicate, AddBusy, AddCommit, AddNotify, AddFail,
         unlockedVars, vars, dbVars
<1>2. UNCHANGED <<pc, tx, resp, backend, bPc, bMsg, bOut>>
  BY <1>1 DEF unlockedVars, handlerVars, connectVars
<1>3. /\ DOMAIN addPc' = Adds /\ \A q \in Adds \ {a} : addPc'[q] = addPc[q]
      /\ addPc'[a] = "inserted" => lock' = a
      /\ Polite(a)
  BY DisjointAssumption
  DEF SoloInv, Domains, OneWriter, AddWrites, Add, AddChain, AddDuplicate, AddBusy,
      AddCommit, AddNotify, AddFail, AddGoto, Polite, vars, dbVars
<1>4. Domains' /\ backend' = Backend
  BY <1>2, <1>3 DEF SoloInv, Domains
<1>5. OneWriter'
  BY <1>2, <1>3, NoneAssumption, DisjointAssumption
  DEF SoloInv, OneWriter, ServiceWrites, ConnectWrites, AddWrites, Polite
<1>. QED  BY <1>1, <1>3, <1>4, <1>5 DEF SoloInv

\* The inductive invariant: in every interleaving of the handlers of both
\* chains the lock is held by the one that has uncommitted writes.
THEOREM LockInvariant == SoloSpec => []SoloInv
<1>1. SoloInit => SoloInv
  BY NoneAssumption, DisjointAssumption
  DEF SoloInit, Init, B!Init, SoloInv, Domains, OneWriter,
      ServiceWrites, ConnectWrites, AddWrites, B!NoMsg
<1>2. SoloInv /\ [SoloNext]_soloVars => SoloInv'
  <2>. SUFFICES ASSUME SoloInv, [SoloNext]_soloVars PROVE SoloInv'
    OBVIOUS
  <2>1. CASE UNCHANGED soloVars
    BY <2>1
    DEF SoloInv, Domains, OneWriter, ServiceWrites, ConnectWrites,
        AddWrites, soloVars, vars, dbVars, handlerVars, addVars, connectVars
  <2>2. ASSUME NEW r \in Requests, ServiceStep(r) \/ ServiceAnswer(r)
        PROVE  SoloInv'
    BY <2>2, ServiceIsLocal, ServiceKeeps
  <2>3. ASSUME NEW c \in Calls, ConnectMove(c)
        PROVE  SoloInv'
    BY <2>3, ConnectIsLocal, ConnectKeeps
  <2>4. ASSUME NEW a \in Adds, Add(a) PROVE SoloInv'
    BY <2>4, AddKeeps
  <2>. QED  BY <2>1, <2>2, <2>3, <2>4 DEF SoloNext, SoloTerminated, ConnectMove
<1>. QED  BY <1>1, <1>2, PTL DEF SoloSpec

\* Handlers of different chains never have uncommitted writes at the same time.
THEOREM OneWriterAlways == SoloSpec => []OneWriter
<1>1. SoloInv => OneWriter
  BY DEF SoloInv
<1>. QED  BY <1>1, LockInvariant, PTL

-----------------------------------------------------------------------------
(* What is stored of chain B stays.                                        *)

\* A call that has written when details appear has the lock and is the one
\* that brings them; the others have read that there are none and are not let
\* write any more.
NobodyBehind == details # None => \A c \in Calls : ~ConnectWrites(c)

\* A call that does not commit leaves the row alone.
LEMMA ConnectStores ==
  ASSUME NEW c \in Calls, ConnectMove(c)
  PROVE  B!Commit(c) \/ UNCHANGED <<details, bSeq>>
<1>1. CASE ConnectStep(c)
  BY <1>1
  DEF ConnectStep, B!Handle, B!Begin, B!AlreadyEstablished, B!ReconnectNotImplemented,
      B!CreateClient, B!SaveClient, B!ConnectionOpenInit, B!ConnectionOpenTry,
      B!ConnectionOpenAck, B!ConnectionOpenConfirm, B!ChannelOpenInit, B!ChannelOpenTry,
      B!ChannelOpenAck, B!ChannelOpenConfirm, B!BuildSigned, B!Broadcast,
      B!CheckTxRefuses, B!Refused, B!Busy, B!NotifyEstablished, B!Build, B!WriteEnd,
      B!SignAndIncrement, B!Abort, B!dbVars
<1>2. CASE SnapshotBusy(c) \/ ConnectAnswer(c) \/ ChainNotFound(c)
  BY <1>2
  DEF SnapshotBusy, ConnectAnswer, ChainNotFound, B!Deliver, B!DeliverRefused, B!Answer,
      B!Abort, B!dbVars
<1>. QED  BY <1>1, <1>2 DEF ConnectMove

\* A call that has not written never writes once there are details.
LEMMA NeverWrites ==
  ASSUME SoloInv, NEW c \in Calls, ~ConnectWrites(c), details # None, ConnectMove(c)
  PROVE  ~ConnectWrites(c)'
<1>1. Domains /\ backend = "sqlite"
  BY SqliteAssumption DEF SoloInv
<1>. USE DEF Domains, ConnectWrites
<1>2. CASE ConnectStep(c)
  <2>1. CASE \/ B!Begin(c) \/ B!AlreadyEstablished(c) \/ B!ReconnectNotImplemented(c)
             \/ B!CreateClient(c) \/ B!Broadcast(c) \/ B!CheckTxRefuses(c)
             \/ B!Refused(c) \/ B!Busy(c)
    BY <1>1, <2>1
    DEF B!Begin, B!AlreadyEstablished, B!ReconnectNotImplemented, B!CreateClient,
        B!Broadcast, B!CheckTxRefuses, B!Refused, B!Busy, B!Build, B!Abort, B!Goto
  <2>2. CASE B!SaveClient(c)
    BY <1>1, <2>2 DEF B!SaveClient, B!CanInsert
  <2>3. CASE \/ B!ConnectionOpenInit(c) \/ B!ConnectionOpenTry(c) \/ B!ConnectionOpenAck(c)
             \/ B!ConnectionOpenConfirm(c) \/ B!ChannelOpenInit(c) \/ B!ChannelOpenTry(c)
             \/ B!ChannelOpenAck(c) \/ B!ChannelOpenConfirm(c) \/ B!BuildSigned(c)
             \/ B!NotifyEstablished(c) \/ B!Commit(c)
    BY <2>3
    DEF B!ConnectionOpenInit, B!ConnectionOpenTry, B!ConnectionOpenAck,
        B!ConnectionOpenConfirm, B!ChannelOpenInit, B!ChannelOpenTry, B!ChannelOpenAck,
        B!ChannelOpenConfirm, B!BuildSigned, B!NotifyEstablished, B!Commit
  <2>. QED  BY <1>2, <2>1, <2>2, <2>3 DEF ConnectStep, B!Handle
<1>3. CASE ConnectAnswer(c)
  <2>1. PICK label : B!Answer(c, label) /\ label \in {B!AfterAnswer[bMsg[c].kind], "refused"}
    BY <1>3 DEF ConnectAnswer, B!Deliver, B!DeliverRefused
  <2>2. bMsg' = bMsg /\ bPc'[c] = IF bPc[c] = "waiting" THEN label ELSE bPc[c]
    BY <1>1, <2>1 DEF B!Answer
  <2>3. bPc[c] = "waiting" => label \in {"saveClient", "refused"}
    BY <2>1 DEF B!AfterAnswer
  <2>4. bPc[c] = "waiting" => bMsg[c].kind = "createClient"
    OBVIOUS
  <2>. QED  BY <2>2, <2>3, <2>4
<1>4. CASE SnapshotBusy(c) \/ ChainNotFound(c)
  BY <1>1, <1>4 DEF SnapshotBusy, ChainNotFound, B!Abort, B!Goto
<1>. QED  BY <1>2, <1>3, <1>4 DEF ConnectMove

\* The call that commits has the lock: no other one has written.
LEMMA NobodyBehindConnect ==
  ASSUME SoloInv, NobodyBehind, NEW c \in Calls, ConnectMove(c)
  PROVE  NobodyBehind' /\ (details # None => ~B!Commit(c))
<1>1. Domains /\ ConnectLocal(c) /\ OneWriter
  BY ConnectIsLocal DEF SoloInv
<1>2. \A q \in Calls \ {c} : ConnectWrites(q)' <=> ConnectWrites(q)
  BY <1>1 DEF ConnectLocal, ConnectWrites
<1>3. CASE B!Commit(c)
  <2>1. bPc[c] = "commit" /\ bPc'[c] = "done"
    BY <1>1, <1>3 DEF Domains, B!Commit, B!Goto
  <2>2. ConnectWrites(c) /\ ~ConnectWrites(c)'
    BY <2>1 DEF ConnectWrites
  <2>3. \A q \in Calls \ {c} : ~ConnectWrites(q)
    BY <1>1, <2>2 DEF OneWriter
  <2>. QED  BY <1>2, <2>2, <2>3 DEF NobodyBehind
<1>4. CASE ~B!Commit(c)
  <2>1. details' = details
    BY <1>4, ConnectStores
  <2>. QED  BY <1>2, <1>4, <2>1, NeverWrites DEF NobodyBehind
<1>. QED  BY <1>3, <1>4

\* Neither another call of add nor another call of connect resets the
\* sequence or the connection of a chain that is connected.
THEOREM NothingResetAlways == SoloSpec => NothingReset
<1>1. SoloInit => NobodyBehind
  BY DEF SoloInit, B!Init, NobodyBehind
<1>2. SoloInv /\ NobodyBehind /\ [SoloNext]_soloVars
        => /\ NobodyBehind'
           /\ [details # None => details' = details /\ bSeq' = bSeq]_soloVars
  <2>. SUFFICES ASSUME SoloInv, NobodyBehind, [SoloNext]_soloVars
                PROVE  /\ NobodyBehind'
                       /\ details # None => details' = details /\ bSeq' = bSeq
    OBVIOUS
  <2>1. ASSUME UNCHANGED connectVars
        PROVE  NobodyBehind' /\ details' = details /\ bSeq' = bSeq
    BY <2>1 DEF NobodyBehind, ConnectWrites, connectVars
  <2>2. ASSUME NEW r \in Requests, ServiceStep(r) \/ ServiceAnswer(r)
        PROVE  UNCHANGED connectVars
    BY <2>2 DEF ServiceStep, ServiceAnswer
  <2>3. ASSUME NEW a \in Adds, Add(a) PROVE UNCHANGED connectVars
    BY <2>3, AddKeeps
  <2>4. ASSUME NEW c \in Calls, ConnectMove(c)
        PROVE  /\ NobodyBehind'
               /\ details # None => details' = details /\ bSeq' = bSeq
    BY <2>4, NobodyBehindConnect, ConnectStores
  <2>. QED
    BY <2>1, <2>2, <2>3, <2>4 DEF SoloNext, SoloTerminated, ConnectMove, soloVars
<1>. QED  BY <1>1, <1>2, LockInvariant, PTL DEF SoloSpec, NothingReset

-----------------------------------------------------------------------------
(* Chain B as it would be alone.                                           *)

\* Steps of others are stutters, because they leave the lock of B alone.
LEMMA ForeignToConnect ==
  ASSUME NEW x, x \notin Calls, Polite(x), UNCHANGED connectVars
  PROVE  UNCHANGED Connection!vars
BY DisjointAssumption
DEF Polite, LockOf, connectVars, Connection!vars, Connection!dbVars,
    Connection!callVars, Connection!endVars

\* A call that gives up, for whatever reason, is one that fails.
LEMMA AbortIsFail ==
  ASSUME NEW c \in Calls, B!Abort(c, "err"), bPc[c] # "done"
  PROVE  Connection!Fail(c)
BY DisjointAssumption
DEF LockOf, B!Abort, B!Goto, B!NoEnds, B!endVars, Connection!Fail, Connection!Abort,
    Connection!Goto, Connection!NoEnds, Connection!endVars

LEMMA BuildIsBuild ==
  ASSUME NEW c \in Calls, NEW k, NEW n, NEW e, B!Build(c, k, n, e)
  PROVE  Connection!Build(c, k, n, e)
BY DEF LockOf, B!Build, B!Goto, B!dbVars, B!endVars, Connection!Build, Connection!Goto,
       Connection!dbVars, Connection!endVars

LEMMA WriteEndIsWriteEnd ==
  ASSUME NEW c \in Calls, NEW end, NEW e, NEW label, B!WriteEnd(c, end, e, label)
  PROVE  Connection!WriteEnd(c, end, e, label)
BY DEF LockOf, B!WriteEnd, B!Goto, B!endVars, Connection!WriteEnd, Connection!Goto,
       Connection!endVars

LEMMA SignIsSign ==
  ASSUME NEW c \in Calls, NEW k, NEW end, B!SignAndIncrement(c, k, end)
  PROVE  Connection!SignAndIncrement(c, k, end)
BY DisjointAssumption
DEF LockOf, B!SignAndIncrement, B!Goto, B!endVars, Connection!SignAndIncrement,
    Connection!Goto, Connection!endVars

LEMMA ConnectStepMaps ==
  ASSUME SoloInv, NEW c \in Calls, B!Handle(c)
  PROVE  Connection!Handle(c) \/ Connection!Fail(c)
<1>1. CASE B!Begin(c)
  <2>1. B!Active = Connection!Active
    BY DEF B!Active, Connection!Active
  <2>2. \A S : B!Cardinality(S) = Connection!Cardinality(S)
    BY DEF B!Cardinality, Connection!Cardinality
  <2>3. Connection!Cardinality(Connection!Active) < MaxActive
    BY <1>1, <2>1, <2>2 DEF B!Begin
  <2>. Connection!Begin(c)
    BY <1>1, <2>3
    DEF LockOf, B!Begin, B!Goto, B!dbVars, B!endVars, Connection!Begin, Connection!Goto,
        Connection!dbVars, Connection!endVars
  <2>. QED  BY DEF Connection!Handle
<1>2. CASE B!AlreadyEstablished(c) \/ B!Refused(c) \/ B!Busy(c)
  BY <1>2, AbortIsFail DEF B!AlreadyEstablished, B!Refused, B!Busy
<1>3. CASE B!ReconnectNotImplemented(c)
  BY <1>3 DEF B!ReconnectNotImplemented
<1>4. CASE B!CreateClient(c)
  BY <1>4, BuildIsBuild DEF B!CreateClient, Connection!CreateClient, Connection!Handle
<1>5. CASE B!SaveClient(c)
  <2>. Connection!SaveClient(c)
    BY <1>5, DisjointAssumption
    DEF LockOf, B!SaveClient, B!CanInsert, B!LockByInsert, B!CopyRow, B!Goto, B!endVars,
        Connection!SaveClient, Connection!CanInsert, Connection!LockByInsert,
        Connection!CopyRow, Connection!Goto, Connection!endVars
  <2>. QED  BY DEF Connection!Handle
<1>6. CASE B!ConnectionOpenInit(c) \/ B!ChannelOpenInit(c)
  BY <1>6, BuildIsBuild
  DEF B!ConnectionOpenInit, B!ChannelOpenInit, Connection!ConnectionOpenInit,
      Connection!ChannelOpenInit, Connection!Handle
<1>7. CASE B!ConnectionOpenTry(c) \/ B!ConnectionOpenConfirm(c)
             \/ B!ChannelOpenTry(c) \/ B!ChannelOpenConfirm(c)
  BY <1>7, WriteEndIsWriteEnd
  DEF B!ConnectionOpenTry, B!ConnectionOpenConfirm, B!ChannelOpenTry,
      B!ChannelOpenConfirm, Connection!ConnectionOpenTry,
      Connection!ConnectionOpenConfirm, Connection!ChannelOpenTry,
      Connection!ChannelOpenConfirm, Connection!Handle
<1>8. CASE B!ConnectionOpenAck(c) \/ B!ChannelOpenAck(c)
  BY <1>8, SignIsSign
  DEF B!ConnectionOpenAck, B!ChannelOpenAck, Connection!ConnectionOpenAck,
      Connection!ChannelOpenAck, Connection!Handle
<1>9. CASE B!BuildSigned(c)
  BY <1>9, BuildIsBuild DEF B!BuildSigned, Connection!BuildSigned, Connection!Handle
<1>10. CASE B!Broadcast(c)
  <2>. Connection!Broadcast(c)
    BY <1>10
    DEF LockOf, B!Broadcast, B!CheckTxOk, B!Goto, B!dbVars, B!endVars,
        Connection!Broadcast, Connection!CheckTxOk, Connection!Goto, Connection!dbVars, Connection!endVars
  <2>. QED  BY DEF Connection!Handle
<1>11. CASE B!CheckTxRefuses(c)
  <2>. Connection!CheckTxRefuses(c)
    BY <1>11
    DEF LockOf, B!CheckTxRefuses, B!CheckTxOk, B!Goto, B!dbVars, B!endVars,
        Connection!CheckTxRefuses, Connection!CheckTxOk, Connection!Goto,
        Connection!dbVars, Connection!endVars
  <2>. QED  BY DEF Connection!Handle
<1>12. CASE B!NotifyEstablished(c)
  <2>. Connection!NotifyEstablished(c)
    BY <1>12
    DEF LockOf, B!NotifyEstablished, B!Goto, B!dbVars, B!endVars,
        Connection!NotifyEstablished, Connection!Goto, Connection!dbVars,
        Connection!endVars
  <2>. QED  BY DEF Connection!Handle
<1>13. CASE B!Commit(c)
  <2>. Connection!Commit(c)
    BY <1>13, DisjointAssumption
    DEF LockOf, B!Commit, B!Goto, B!endVars, Connection!Commit, Connection!Goto,
        Connection!endVars
  <2>. QED  BY DEF Connection!Handle
<1>. QED
  BY <1>1, <1>2, <1>3, <1>4, <1>5, <1>6, <1>7, <1>8, <1>9, <1>10, <1>11, <1>12, <1>13
  DEF B!Handle

LEMMA ConnectAnswerMaps ==
  ASSUME NEW c \in Calls, ConnectAnswer(c)
  PROVE  Connection!Deliver(c) \/ Connection!DeliverRefused(c)
<1>1. CASE B!Deliver(c)
  <2>. Connection!Deliver(c)
    BY <1>1
    DEF LockOf, B!Deliver, B!Valid, B!Answer, B!AfterAnswer, B!dbVars,
        Connection!Deliver, Connection!Valid, Connection!Answer, Connection!AfterAnswer, Connection!dbVars
  <2>. QED  OBVIOUS
<1>2. CASE B!DeliverRefused(c)
  <2>. Connection!DeliverRefused(c)
    BY <1>2
    DEF LockOf, B!DeliverRefused, B!Valid, B!Answer, B!dbVars, B!endVars,
        Connection!DeliverRefused, Connection!Valid, Connection!Answer,
        Connection!dbVars, Connection!endVars
  <2>. QED  OBVIOUS
<1>. QED  BY <1>1, <1>2 DEF ConnectAnswer

\* Whatever the requests of chain A and the calls of add do, the calls of
\* connect behave as Connect says, with calls that may fail at any time: all
\* that is proved of Connect holds of chain B.
THEOREM ConnectIsIsolated == SoloSpec => ConnectIsolated
<1>1. SoloInit => Connection!Init
  BY NoneAssumption, DisjointAssumption
  DEF LockOf, SoloInit, Init, B!Init, B!NoEnds, B!NoMsg, Connection!Init,
      Connection!NoEnds, Connection!NoMsg
<1>2. SoloInv /\ [SoloNext]_soloVars => [Connection!Next]_Connection!vars
  <2>. SUFFICES ASSUME SoloInv, [SoloNext]_soloVars
                PROVE  Connection!Next \/ UNCHANGED Connection!vars
    OBVIOUS
  <2>1. CASE UNCHANGED soloVars
    BY <2>1
    DEF LockOf, soloVars, vars, dbVars, connectVars, Connection!vars, Connection!dbVars,
        Connection!callVars, Connection!endVars
  <2>2. ASSUME NEW r \in Requests, ServiceStep(r) \/ ServiceAnswer(r)
        PROVE  UNCHANGED Connection!vars
    <3>1. ServiceLocal(r) /\ r \notin Calls
      BY <2>2, ServiceIsLocal, DisjointAssumption
    <3>. QED  BY <3>1, ForeignToConnect DEF ServiceLocal
  <2>3. ASSUME NEW a \in Adds, Add(a)
        PROVE  UNCHANGED Connection!vars
    BY <2>3, AddKeeps, DisjointAssumption, ForeignToConnect
  <2>4. ASSUME NEW c \in Calls, ConnectStep(c)
        PROVE  Connection!Next
    BY <2>4, ConnectStepMaps DEF ConnectStep, Connection!Next
  <2>5. ASSUME NEW c \in Calls, ConnectAnswer(c)
        PROVE  Connection!Next
    BY <2>5, ConnectAnswerMaps DEF Connection!Next
  <2>6. ASSUME NEW c \in Calls, SnapshotBusy(c) \/ ChainNotFound(c)
        PROVE  Connection!Next
    BY <2>6, AbortIsFail DEF SnapshotBusy, ChainNotFound, Connection!Next
  <2>. QED  BY <2>1, <2>2, <2>3, <2>4, <2>5, <2>6 DEF SoloNext, SoloTerminated
<1>. QED
  BY <1>1, <1>2, LockInvariant, PTL DEF SoloSpec, ConnectIsolated, Connection!Spec

-----------------------------------------------------------------------------
(* Chain A as it would be alone.                                           *)

\* Steps of others are stutters, or commits that its transactions overlook.
LEMMA ForeignToService ==
  ASSUME NEW x, x \notin Requests, Polite(x), UNCHANGED unlockedVars,
         stale' \in {stale, Overtaken}
  PROVE  UNCHANGED Service!vars \/ Service!OthersCommit
<1>1. LockOf(Requests)' = LockOf(Requests)
  BY NoneAssumption DEF Polite, LockOf
<1>2. Overtaken = Service!Overtaken
  BY DEF Overtaken, Readers, Service!Overtaken, Service!Readers
<1>. QED
  BY <1>1, <1>2
  DEF unlockedVars, handlerVars, chainVars, clientVars, Service!vars, Service!dbVars,
      Service!handlerVars, Service!chainVars, Service!clientVars, Service!OthersCommit

\* What is seen of the lock after a step that leaves, takes or releases it.
LEMMA LockSeen ==
  ASSUME NEW r \in Requests
  PROVE  /\ lock' = lock => LockOf(Requests)' = LockOf(Requests)
         /\ lock = None => LockOf(Requests) = None
         /\ lock' = None => LockOf(Requests)' = None
         /\ lock' = r => LockOf(Requests)' = r
         /\ lock' = (IF lock = r THEN None ELSE lock) =>
              LockOf(Requests)' = IF LockOf(Requests) = r THEN None ELSE LockOf(Requests)
BY NoneAssumption DEF LockOf

LEMMA CommitSeen ==
  ASSUME Commit
  PROVE  Service!Commit
<1>1. LockOf(Requests)' = None
  BY DEF Commit, LockOf
<1>. QED
  BY <1>1
  DEF Commit, Overtaken, Readers, Service!Commit, Service!Overtaken, Service!Readers

LEMMA CanWriteSeen ==
  ASSUME NEW r \in Requests, CanWrite(r)
  PROVE  Service!CanWrite(r)
BY LockSeen DEF CanWrite, Service!CanWrite

LEMMA FinishSeen ==
  ASSUME NEW r \in Requests, NEW result, Finish(r, result)
  PROVE  Service!Finish(r, result)
<1>1. LockOf(Requests)' = IF LockOf(Requests) = r THEN None ELSE LockOf(Requests)
  BY LockSeen DEF Finish
<1>. QED  BY <1>1 DEF Finish, Service!Finish

LEMMA PrepareSeen ==
  ASSUME NEW r \in Requests, NEW image, NEW m, Prepare(r, image, m)
  PROVE  Service!Prepare(r, image, m)
<1>1. LockOf(Requests)' = r
  BY LockSeen DEF Prepare
<1>. QED
  BY <1>1
  DEF Prepare, Signed, Goto, chainVars, clientVars, Service!Prepare, Service!Signed,
      Service!Goto, Service!chainVars, Service!clientVars

\* The error returns: a lock of chain B is one of the other users of the file.
LEMMA ErrorMaps ==
  ASSUME NEW r \in Requests,
         \/ NotConnected(r) \/ DuplicateKey(r) \/ CloseReread(r) \/ Refused(r)
         \/ Busy(r) \/ Overflow(r)
  PROVE  Service!Handle(r)
<1>. USE CanWriteSeen, FinishSeen DEF chainVars, clientVars, Service!chainVars, Service!clientVars
<1>0. Failure(r) = Service!Failure(r)
  BY DEF Failure, InProcessPackets, Service!Failure, Service!InProcessPackets
<1>1. CASE NotConnected(r)
  <2>1. Service!NotConnected(r)
    BY <1>1 DEF NotConnected, Usable, Service!NotConnected, Service!Usable
  <2>. QED  BY <2>1 DEF Service!Handle
<1>2. CASE DuplicateKey(r)
  <2>1. Service!DuplicateKey(r)
    BY <1>2 DEF DuplicateKey, KnownKeys, Service!DuplicateKey, Service!KnownKeys
  <2>. QED  BY <2>1 DEF Service!Handle
<1>3. CASE CloseReread(r)
  <2>1. Service!CloseReread(r)
    BY <1>3 DEF CloseReread, Service!CloseReread
  <2>. QED  BY <2>1 DEF Service!Handle
<1>4. CASE Refused(r)
  <2>1. Service!Refused(r)
    BY <1>4 DEF Refused, Service!Refused
  <2>. QED  BY <2>1 DEF Service!Handle
<1>5. CASE Busy(r)
  <2>1. Service!Busy(r)
    BY <1>0, <1>5 DEF Busy, Service!Busy
  <2>. QED  BY <2>1 DEF Service!Handle
<1>6. CASE Overflow(r)
  <2>1. Service!Overflow(r)
    BY <1>0, <1>6
    DEF Overflow, Usable, SequenceOverflow, PacketOverflow, Service!Overflow,
        Service!Usable, Service!SequenceOverflow, Service!PacketOverflow
  <2>. QED  BY <2>1 DEF Service!Handle
<1>. QED  BY <1>1, <1>2, <1>3, <1>4, <1>5, <1>6

\* The other steps of a handler.
LEMMA HandleMaps ==
  ASSUME NEW r \in Requests, Handle(r)
  PROVE  Service!Handle(r)
<1>. USE DEF Service!Handle
<1>1. CASE \/ NotConnected(r) \/ DuplicateKey(r) \/ CloseReread(r) \/ Refused(r)
           \/ Busy(r) \/ Overflow(r)
  BY <1>1, ErrorMaps
<1>2. CASE Receive(r)
  <2>1. LockOf(Requests)' = LockOf(Requests)
    BY <1>2, LockSeen DEF Receive, dbVars
  <2>2. Active = Service!Active
    BY DEF Active, Service!Active
  <2>3. \A S : Cardinality(S) = Service!Cardinality(S)
    BY DEF Cardinality, Service!Cardinality
  <2>4. Service!Cardinality(Service!Active) < MaxActive
    BY <1>2, <2>2, <2>3 DEF Receive
  <2>. Service!Receive(r)
    BY <1>2, <2>1, <2>4
    DEF Receive, Goto, dbVars, chainVars, clientVars, Service!Receive, Service!Goto,
        Service!dbVars, Service!chainVars, Service!clientVars
  <2>. QED  OBVIOUS
<1>3. CASE MintPrepare(r)
  BY <1>3, CanWriteSeen, PrepareSeen
  DEF MintPrepare, Usable, SequenceOverflow, PacketOverflow, IncrementSequence,
      IncrementPacketSequence, Service!MintPrepare, Service!Usable,
      Service!SequenceOverflow, Service!PacketOverflow, Service!IncrementSequence,
      Service!IncrementPacketSequence
<1>4. CASE UpdatePrepare(r)
  BY <1>4, CanWriteSeen, PrepareSeen
  DEF UpdatePrepare, Usable, SequenceOverflow, IncrementSequence, KnownKeys,
      Service!UpdatePrepare, Service!Usable, Service!SequenceOverflow,
      Service!IncrementSequence, Service!KnownKeys
<1>5. CASE AckPrepare(r)
  BY <1>5, CanWriteSeen, PrepareSeen
  DEF AckPrepare, SequenceOverflow, IncrementSequence, Service!AckPrepare,
      Service!SequenceOverflow, Service!IncrementSequence
<1>6. CASE BurnPrepare(r)
  <2>1. LockOf(Requests)' = LockOf(Requests)
    BY <1>6, LockSeen DEF BurnPrepare, dbVars
  <2>. Service!BurnPrepare(r)
    BY <1>6, <2>1
    DEF BurnPrepare, Usable, Signed, Goto, dbVars, chainVars, clientVars,
        Service!BurnPrepare, Service!Usable, Service!Signed, Service!Goto,
        Service!dbVars, Service!chainVars, Service!clientVars
  <2>. QED  OBVIOUS
<1>7. CASE CloseWrite(r)
  <2>1. LockOf(Requests)' = r
    BY <1>7, LockSeen DEF CloseWrite
  <2>. Service!CloseWrite(r)
    BY <1>7, <2>1, CanWriteSeen
    DEF CloseWrite, Usable, Goto, chainVars, clientVars, Service!CloseWrite,
        Service!Usable, Service!Goto, Service!chainVars, Service!clientVars
  <2>. QED  OBVIOUS
<1>8. CASE Build(r)
  <2>1. LockOf(Requests)' = LockOf(Requests)
    BY <1>8, LockSeen DEF Build, dbVars
  <2>. Service!Build(r)
    BY <1>8, <2>1
    DEF Build, Goto, dbVars, chainVars, clientVars, Service!Build, Service!Goto,
        Service!dbVars, Service!chainVars, Service!clientVars
  <2>. QED  OBVIOUS
<1>9. CASE Broadcast(r)
  <2>1. LockOf(Requests)' = LockOf(Requests)
    BY <1>9, LockSeen DEF Broadcast, dbVars
  <2>. Service!Broadcast(r)
    BY <1>9, <2>1
    DEF Broadcast, CheckTxOk, Goto, dbVars, clientVars, Service!Broadcast,
        Service!CheckTxOk, Service!Goto, Service!dbVars, Service!clientVars
  <2>. QED  OBVIOUS
<1>10. CASE CheckTxRefuses(r)
  <2>1. LockOf(Requests)' = LockOf(Requests)
    BY <1>10, LockSeen DEF CheckTxRefuses, dbVars
  <2>. Service!CheckTxRefuses(r)
    BY <1>10, <2>1
    DEF CheckTxRefuses, CheckTxOk, Goto, dbVars, chainVars, clientVars,
        Service!CheckTxRefuses, Service!CheckTxOk, Service!Goto, Service!dbVars,
        Service!chainVars, Service!clientVars
  <2>. QED  OBVIOUS
<1>11. CASE MintCommit(r)
  BY <1>11, CommitSeen
  DEF MintCommit, Goto, chainVars, clientVars, Service!MintCommit, Service!Goto,
      Service!chainVars, Service!clientVars
<1>12. CASE BurnAccepted(r)
  <2>1. LockOf(Requests)' = LockOf(Requests)
    BY <1>12, LockSeen DEF BurnAccepted, dbVars
  <2>. Service!BurnAccepted(r)
    BY <1>12, <2>1
    DEF BurnAccepted, Goto, dbVars, chainVars, clientVars, Service!BurnAccepted,
        Service!Goto, Service!dbVars, Service!chainVars, Service!clientVars
  <2>. QED  OBVIOUS
<1>13. CASE UpdateCommit(r)
  BY <1>13, CommitSeen
  DEF UpdateCommit, Goto, chainVars, clientVars, Service!UpdateCommit, Service!Goto,
      Service!chainVars, Service!clientVars
<1>14. CASE RecordOperation(r)
  <2>1. LockOf(Requests)' = LockOf(Requests) /\ Service!CanWriteOnPool
    BY <1>14, LockSeen DEF RecordOperation, CanWriteOnPool, Service!CanWriteOnPool
  <2>2. stale' = Service!Overtaken
    BY <1>14
    DEF RecordOperation, Overtaken, Readers, Service!Overtaken, Service!Readers
  <2>. Service!RecordOperation(r)
    BY <1>14, <2>1, <2>2
    DEF RecordOperation, Goto, chainVars, clientVars, Service!RecordOperation,
        Service!Goto, Service!chainVars, Service!clientVars
  <2>. QED  OBVIOUS
<1>15. CASE Notify(r)
  <2>1. LockOf(Requests)' = LockOf(Requests)
    BY <1>15, LockSeen DEF Notify, dbVars
  <2>. Service!Notify(r)
    BY <1>15, <2>1
    DEF Notify, Goto, dbVars, chainVars, clientVars, Service!Notify, Service!Goto,
        Service!dbVars, Service!chainVars, Service!clientVars
  <2>. QED  OBVIOUS
<1>16. CASE AckCommit(r)
  BY <1>16, CommitSeen
  DEF AckCommit, Goto, chainVars, clientVars, Service!AckCommit, Service!Goto,
      Service!chainVars, Service!clientVars
<1>. QED
  BY <1>1, <1>2, <1>3, <1>4, <1>5, <1>6, <1>7, <1>8, <1>9, <1>10, <1>11, <1>12, <1>13,
     <1>14, <1>15, <1>16
  DEF Handle

LEMMA AnswerMaps ==
  ASSUME NEW r \in Requests, Deliver(r)
  PROVE  Service!Deliver(r)
<1>1. PICK a : Include(r, a)
  BY DEF Deliver, DeliverRecv, DeliverDuplicate, DeliverTransfer, DeliverAck,
         DeliverHeader, DeliverRefused
<1>2. LockOf(Requests)' = LockOf(Requests)
  BY <1>1, LockSeen DEF Include, dbVars
<1>3. ASSUME NEW b, Include(r, b) PROVE Service!Include(r, b)
  BY <1>2, <1>3 DEF Include, dbVars, Service!Include, Service!dbVars
<1>4. Acceptable(r) <=> Service!Acceptable(r)
  BY DEF Acceptable, TimeoutAhead, ProofOk, Service!Acceptable, Service!TimeoutAhead,
         Service!ProofOk
<1>. QED
  BY <1>3, <1>4
  DEF Deliver, DeliverRecv, DeliverDuplicate, DeliverTransfer, DeliverAck,
      DeliverHeader, DeliverRefused, clientVars, Service!Deliver, Service!DeliverRecv,
      Service!DeliverDuplicate, Service!DeliverTransfer, Service!DeliverAck,
      Service!DeliverHeader, Service!DeliverRefused, Service!clientVars

\* Whatever the calls of connect and of add for chain B do, the requests of
\* chain A behave as IbcService says, without any fault, on a file with other
\* users: all that is proved of IbcService without faults holds of chain A.
THEOREM ServiceIsIsolated == SoloSpec => ServiceIsolated
<1>1. SoloInit => Service!Init
  BY NoneAssumption DEF SoloInit, Init, Jobs, LockOf, Service!Init, Service!Jobs
<1>2. SoloInv /\ [SoloNext]_soloVars => [Service!Next]_Service!vars
  <2>. SUFFICES ASSUME SoloInv, [SoloNext]_soloVars
                PROVE  Service!Next \/ UNCHANGED Service!vars
    OBVIOUS
  <2>1. CASE UNCHANGED soloVars
    BY <2>1
    DEF soloVars, vars, dbVars, handlerVars, chainVars, clientVars, LockOf,
        Service!vars, Service!dbVars, Service!handlerVars, Service!chainVars,
        Service!clientVars
  <2>2. ASSUME NEW r \in Requests, ServiceStep(r)
        PROVE  Service!Next
    BY <2>2, HandleMaps DEF ServiceStep, Service!Next
  <2>3. ASSUME NEW r \in Requests, ServiceAnswer(r)
        PROVE  Service!Next
    BY <2>3, AnswerMaps DEF ServiceAnswer, Service!Next
  <2>4. ASSUME NEW c \in Calls, ConnectMove(c)
        PROVE  Service!Next \/ UNCHANGED Service!vars
    <3>1. ConnectLocal(c) /\ c \notin Requests
      BY <2>4, ConnectIsLocal, DisjointAssumption
    <3>2. stale' \in {stale, Overtaken}
      BY <2>4 DEF ConnectMove, ConnectStep, SnapshotBusy, ConnectAnswer, ChainNotFound
    <3>. QED  BY <3>1, <3>2, ForeignToService DEF ConnectLocal, Service!Next
  <2>5. ASSUME NEW a \in Adds, Add(a)
        PROVE  Service!Next \/ UNCHANGED Service!vars
    <3>1. stale' \in {stale, Overtaken}
      BY <2>5
      DEF Add, AddChain, AddDuplicate, AddBusy, AddCommit, AddNotify, AddFail, vars, dbVars
    <3>. QED
      BY <2>5, <3>1, AddKeeps, DisjointAssumption, ForeignToService DEF Service!Next
  <2>. QED
    BY <2>1, <2>2, <2>3, <2>4, <2>5 DEF SoloNext, SoloTerminated, ConnectMove
<1>. QED
  BY <1>1, <1>2, LockInvariant, PTL DEF SoloSpec, ServiceIsolated, Service!Spec
=============================================================================
