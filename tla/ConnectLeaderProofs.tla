------------------------ MODULE ConnectLeaderProofs ------------------------
(***************************************************************************)
(* Somebody connects, on Postgres, when no call is cut off and the chain   *)
(* refuses nothing without a reason.                                       *)
(*                                                                         *)
(* The argument: calls get in each other's way at the account sequence     *)
(* only, and there the one whose transaction the chain takes is never the  *)
(* one that fails.  Until the first commit there is always a leader: the   *)
(* call whose message is in the mempool or, when the mempool is empty, one *)
(* whose next message will be let in.  The leader changes when another     *)
(* call broadcasts first.                                                  *)
(***************************************************************************)
EXTENDS ConnectProofs

\* What the chain will find when it checks the proofs of r.
Ready(r) ==
  /\ Early(r) => loc[r] = InitSeq
  /\ pc[r] \in {"connTry", "connAck"} \/ Sending(r, "connAck") => conn[r] = "INIT"
  /\ pc[r] = "connAck" => local[r].conn = "TRYOPEN"
  /\ Sending(r, "connAck") => msg[r].seq = InitSeq /\ msg[r].end = "TRYOPEN"
  /\ pc[r] \in {"chanTry", "chanAck"} \/ Sending(r, "chanAck") => chan[r] = "INIT"
  /\ pc[r] = "chanAck" => local[r].chan = "TRYOPEN"
  /\ Sending(r, "chanAck") => msg[r].end = "TRYOPEN"

\* The mempool has room for one message of the account, and its call waits.
OneInLine ==
  /\ \A q \in Calls : q \in mempool <=> pc[q] = "waiting"
  /\ \A p, q \in mempool : p = q

\* Only stored details make a call stop at once.
NobodyBegun == details = None => \A q \in Calls : pc[q] # "begun"

\* Nothing keeps q from sending its next message.
Leads(q) ==
  /\ pc[q] \notin {"begun", "refused", "done"}
  /\ pc[q] = "built" => msg[q].nonce = nonce
  /\ mempool # {} => q \in mempool

Leader == backend = "postgres" /\ details = None => \E q \in Calls : Leads(q)

LeaderInv == (\A r \in Calls : Ready(r)) /\ OneInLine /\ NobodyBegun /\ Leader
-----------------------------------------------------------------------------
(* Steps of one call, and what they leave of the others.                   *)

\* The others stay where they are and keep their messages.
Alone(r) ==
  \A q \in Calls \ {r} :
    /\ pc'[q] = pc[q] /\ msg'[q] = msg[q] /\ loc'[q] = loc[q]
    /\ local'[q] = local[q] /\ conn'[q] = conn[q] /\ chan'[q] = chan[q]

LEMMA HandleAlone ==
  ASSUME TypeOK, NEW r \in Calls, Handle(r)
  PROVE  Alone(r) /\ UNCHANGED <<conn, chan>>
<1>. USE DEF TypeOK, Goto, dbVars, endVars, Alone
<1>1. CASE Begin(r) \/ AlreadyEstablished(r) \/ ReconnectNotImplemented(r)
           \/ Refused(r) \/ Busy(r)
  BY <1>1 DEF Begin, AlreadyEstablished, ReconnectNotImplemented, Refused, Busy, Abort
<1>2. CASE CreateClient(r) \/ ConnectionOpenInit(r) \/ ChannelOpenInit(r) \/ BuildSigned(r)
  BY <1>2 DEF CreateClient, ConnectionOpenInit, ChannelOpenInit, BuildSigned, Build
<1>3. CASE ConnectionOpenTry(r) \/ ConnectionOpenConfirm(r) \/ ChannelOpenTry(r)
           \/ ChannelOpenConfirm(r)
  BY <1>3
  DEF ConnectionOpenTry, ConnectionOpenConfirm, ChannelOpenTry, ChannelOpenConfirm,
      WriteEnd
<1>4. CASE ConnectionOpenAck(r) \/ ChannelOpenAck(r)
  BY <1>4 DEF ConnectionOpenAck, ChannelOpenAck, SignAndIncrement
<1>5. CASE SaveClient(r) \/ NotifyEstablished(r) \/ Commit(r)
  BY <1>5 DEF SaveClient, NotifyEstablished, Commit
<1>6. CASE Broadcast(r) \/ CheckTxRefuses(r)
  BY <1>6 DEF Broadcast, CheckTxRefuses
<1>. QED  BY <1>1, <1>2, <1>3, <1>4, <1>5, <1>6 DEF Handle

LEMMA AnswerAlone ==
  ASSUME TypeOK, NEW r \in Calls, Deliver(r)
  PROVE  Alone(r) /\ UNCHANGED <<backend, details, loc, msg, local>>
BY DEF TypeOK, Deliver, Answer, Alone, dbVars

-----------------------------------------------------------------------------
(* Every proof that is sent before the first commit will be accepted.      *)

\* A step of r keeps what the chain will find for the others.
LEMMA ReadyStays ==
  ASSUME NEW r, NEW q \in Calls \ {r}, Alone(r), Ready(q)
  PROVE  Ready(q)'
BY DEF Alone, Ready, Early, Sending

LEMMA ReadyHandle ==
  ASSUME ConnectInv, NEW r \in Calls, Ready(r), Handle(r)
  PROVE  Ready(r)'
<1>. USE DEF Ready, Early, Sending, Goto
<1>0. TypeOK /\ CallInv(r) /\ conn'[r] = conn[r] /\ chan'[r] = chan[r]
  BY HandleAlone DEF ConnectInv
<1>1. CASE Begin(r) \/ AlreadyEstablished(r) \/ ReconnectNotImplemented(r)
           \/ Refused(r) \/ Busy(r)
  <2>1. pc'[r] \in {"createClient", "begun", "done"}
    BY <1>0, <1>1
    DEF TypeOK, Begin, AlreadyEstablished, ReconnectNotImplemented, Refused, Busy, Abort
  <2>. QED  BY <2>1
<1>2. CASE CreateClient(r) \/ ConnectionOpenInit(r) \/ ChannelOpenInit(r) \/ BuildSigned(r)
  <2>1. /\ pc'[r] = "built" /\ loc'[r] = loc[r] /\ local'[r] = local[r]
        /\ \/ msg'[r].kind \in {"createClient", "chanInit"}
           \/ msg'[r].kind = "connInit" /\ pc[r] = "connInit"
           \/ /\ pc[r] = "signed"
              /\ msg'[r].kind = msg[r].kind /\ msg'[r].seq = msg[r].seq
              /\ msg'[r].end = msg[r].end
    BY <1>0, <1>2
    DEF TypeOK, CreateClient, ConnectionOpenInit, ChannelOpenInit, BuildSigned, Build,
        dbVars
  <2>. QED  BY <1>0, <2>1
<1>3. CASE ConnectionOpenTry(r)
  <2>1. /\ pc[r] = "connTry" /\ pc'[r] = "connAck" /\ loc'[r] = loc[r]
        /\ local'[r].conn = "TRYOPEN"
    BY <1>0, <1>3 DEF TypeOK, ConnectionOpenTry, WriteEnd
  <2>. QED  BY <1>0, <2>1
<1>4. CASE ChannelOpenTry(r)
  <2>1. /\ pc[r] = "chanTry" /\ pc'[r] = "chanAck" /\ local'[r].chan = "TRYOPEN"
    BY <1>0, <1>4 DEF TypeOK, ChannelOpenTry, WriteEnd
  <2>. QED  BY <1>0, <2>1
<1>5. CASE ConnectionOpenConfirm(r) \/ ChannelOpenConfirm(r)
  <2>1. pc'[r] \in {"chanInit", "notify"}
    BY <1>0, <1>5 DEF TypeOK, ConnectionOpenConfirm, ChannelOpenConfirm, WriteEnd
  <2>. QED  BY <2>1
<1>6. CASE ConnectionOpenAck(r)
  <2>1. /\ pc[r] = "connAck" /\ pc'[r] = "signed" /\ msg'[r].kind = "connAck"
        /\ msg'[r].seq = loc[r] /\ msg'[r].end = local[r].conn
    BY <1>0, <1>6 DEF TypeOK, ConnectionOpenAck, SignAndIncrement
  <2>. QED  BY <1>0, <2>1
<1>7. CASE ChannelOpenAck(r)
  <2>1. /\ pc[r] = "chanAck" /\ pc'[r] = "signed" /\ msg'[r].kind = "chanAck"
        /\ msg'[r].end = local[r].chan
    BY <1>0, <1>7 DEF TypeOK, ChannelOpenAck, SignAndIncrement
  <2>. QED  BY <1>0, <2>1
<1>8. CASE SaveClient(r)
  <2>1. pc[r] = "saveClient" /\ pc'[r] = "connInit" /\ loc'[r] = loc[r]
    BY <1>0, <1>8 DEF TypeOK, SaveClient
  <2>. QED  BY <1>0, <2>1
<1>9. CASE NotifyEstablished(r) \/ Commit(r)
  <2>1. pc'[r] \in {"commit", "done"}
    BY <1>0, <1>9 DEF TypeOK, NotifyEstablished, Commit
  <2>. QED  BY <2>1
<1>10. CASE Broadcast(r) \/ CheckTxRefuses(r)
  <2>1. /\ pc[r] = "built" /\ pc'[r] \in {"waiting", "refused"}
        /\ msg' = msg /\ loc' = loc
    BY <1>0, <1>10 DEF TypeOK, Broadcast, CheckTxRefuses
  <2>. QED  BY <1>0, <2>1
<1>. QED
  BY <1>1, <1>2, <1>3, <1>4, <1>5, <1>6, <1>7, <1>8, <1>9, <1>10 DEF Handle

\* Before the first commit the chain has no reason to refuse a message.
LEMMA WillBeValid ==
  ASSUME ConnectInv, NEW r \in Calls, Ready(r), pc[r] = "waiting", details = None
  PROVE  Valid(r)
<1>1. CallInv(r) /\ seq = InitSeq
  BY DEF ConnectInv, Stored
<1>2. CASE msg[r].kind = "connAck"
  BY <1>1, <1>2 DEF CallInv, Client, Ready, Sending, Valid
<1>3. CASE msg[r].kind = "chanAck"
  BY <1>1, <1>3 DEF CallInv, Client, Ready, Sending, Valid
<1>. QED  BY <1>2, <1>3 DEF Valid

LEMMA ReadyDeliver ==
  ASSUME ConnectInv, NEW r \in Calls, OneInLine, Ready(r), Deliver(r)
  PROVE  /\ Ready(r)'
         /\ pc[r] = "waiting"
         /\ pc'[r] \in {"saveClient", "connTry", "connConfirm", "chanTry", "chanConfirm"}
<1>. DEFINE k == msg[r].kind
<1>1. TypeOK /\ CallInv(r) /\ r \in mempool /\ pc[r] = "waiting"
  BY DEF ConnectInv, OneInLine, Deliver, Answer
<1>2. k \in DOMAIN AfterAnswer
  BY <1>1 DEF CallInv, Message
<1>3. pc'[r] = AfterAnswer[k] /\ UNCHANGED <<loc, msg, local>>
  BY <1>1 DEF TypeOK, Deliver, Answer, dbVars
<1>4. /\ k = "connInit" => conn'[r] = "INIT"
      /\ k = "chanInit" => chan'[r] = "INIT"
  BY <1>1 DEF TypeOK, Deliver
<1>5. CASE k = "createClient"
  <2>1. pc'[r] = "saveClient" /\ loc[r] = InitSeq
    BY <1>1, <1>3, <1>5 DEF AfterAnswer, CallInv, Client, Unborn, Sending
  <2>. QED  BY <1>1, <1>3, <2>1 DEF Ready, Early, Sending
<1>6. CASE k = "connInit"
  <2>1. pc'[r] = "connTry" /\ loc[r] = InitSeq
    BY <1>1, <1>3, <1>6 DEF AfterAnswer, Ready, Early, Sending
  <2>. QED  BY <1>1, <1>3, <1>4, <1>6, <2>1 DEF Ready, Early, Sending
<1>7. CASE k = "chanInit"
  <2>1. pc'[r] = "chanTry"
    BY <1>3, <1>7 DEF AfterAnswer
  <2>. QED  BY <1>1, <1>3, <1>4, <1>7, <2>1 DEF Ready, Early, Sending
<1>8. CASE k \in {"connAck", "chanAck"}
  <2>1. pc'[r] \in {"connConfirm", "chanConfirm"}
    BY <1>3, <1>8 DEF AfterAnswer
  <2>. QED  BY <1>1, <2>1 DEF Ready, Early, Sending
<1>. QED  BY <1>2, <1>5, <1>6, <1>7, <1>8 DEF AfterAnswer
-----------------------------------------------------------------------------
(* There is always a leader.                                               *)

\* A step of r that leaves mempool and account alone keeps any other leader.
LEMMA LeaderStays ==
  ASSUME NEW r, NEW q \in Calls \ {r}, Alone(r), Leads(q),
         UNCHANGED <<mempool, nonce>>
  PROVE  Leads(q)'
BY DEF Alone, Leads

LEMMA LeaderHandle ==
  ASSUME ConnectInv, LeaderInv, NEW r \in Calls, Handle(r)
  PROVE  OneInLine' /\ NobodyBegun' /\ Leader'
<1>. USE DEF Goto, dbVars
<1>0. /\ TypeOK /\ Alone(r)
      /\ OneInLine /\ NobodyBegun /\ Leader
      /\ details # None => details' # None
  <2>1. details # None => ~Commit(r)
    BY FirstToCommit
  <2>2. Commit(r) \/ UNCHANGED details
    BY DEF Handle, Begin, AlreadyEstablished, ReconnectNotImplemented, CreateClient,
        SaveClient, ConnectionOpenInit, ConnectionOpenTry, ConnectionOpenAck,
        ConnectionOpenConfirm, ChannelOpenInit, ChannelOpenTry, ChannelOpenAck,
        ChannelOpenConfirm, BuildSigned, Broadcast, CheckTxRefuses, Refused, Busy,
        NotifyEstablished, Build, WriteEnd, SignAndIncrement, Abort
  <2>. QED  BY <2>1, <2>2, HandleAlone DEF ConnectInv, LeaderInv
<1>1. CASE Broadcast(r)
  <2>1. /\ mempool = {} /\ mempool' = {r} /\ pc'[r] = "waiting"
        /\ UNCHANGED <<backend, details>>
    BY <1>0, <1>1 DEF TypeOK, Broadcast, CheckTxOk
  <2>2. OneInLine' /\ NobodyBegun'
    BY <1>0, <2>1 DEF OneInLine, NobodyBegun, Alone
  <2>3. Leads(r)'
    BY <2>1 DEF Leads
  <2>. QED  BY <2>2, <2>3 DEF Leader
<1>2. CASE CheckTxRefuses(r)
  <2>1. /\ pc[r] = "built" /\ pc'[r] = "refused"
        /\ UNCHANGED <<backend, details, mempool, nonce>>
    BY <1>0, <1>2 DEF TypeOK, CheckTxRefuses
  <2>2. OneInLine' /\ NobodyBegun'
    BY <1>0, <2>1 DEF OneInLine, NobodyBegun, Alone
  <2>3. ~Leads(r)
    BY <1>0, <1>2 DEF CheckTxRefuses, CheckTxOk, Leads, OneInLine
  <2>4. Leader'
    BY <1>0, <2>1, <2>3, LeaderStays DEF Leader
  <2>. QED  BY <2>2, <2>4
<1>3. CASE Commit(r)
  <2>1. /\ pc[r] = "commit" /\ pc'[r] = "done" /\ details' # None
        /\ UNCHANGED <<mempool>>
    BY <1>0, <1>3, CallsAssumption DEF TypeOK, Commit
  <2>. QED  BY <1>0, <2>1 DEF OneInLine, NobodyBegun, Leader, Alone
<1>4. CASE Begin(r) \/ AlreadyEstablished(r) \/ ReconnectNotImplemented(r)
           \/ Refused(r) \/ Busy(r)
  <2>1. /\ pc[r] # "waiting"
        /\ \/ pc'[r] = "createClient"
           \/ pc'[r] = "begun" /\ details # None
           \/ pc'[r] = "done" /\ (pc[r] \in {"begun", "refused"} \/ backend = "sqlite")
        /\ UNCHANGED <<backend, details, mempool, nonce>>
    BY <1>0, <1>4, CallsAssumption
    DEF TypeOK, Begin, AlreadyEstablished, ReconnectNotImplemented, Refused, Busy, Abort,
        CanInsert
  <2>2. OneInLine' /\ NobodyBegun'
    BY <1>0, <2>1 DEF OneInLine, NobodyBegun, Alone
  <2>3. backend = "postgres" /\ details = None /\ Leads(r) => Leads(r)'
    BY <2>1 DEF Leads
  <2>. QED  BY <1>0, <2>1, <2>2, <2>3, LeaderStays DEF Leader
<1>5. CASE CreateClient(r) \/ ConnectionOpenInit(r) \/ ChannelOpenInit(r) \/ BuildSigned(r)
  <2>1. /\ pc[r] \in {"createClient", "connInit", "chanInit", "signed"}
        /\ pc'[r] = "built" /\ msg'[r].nonce = nonce
        /\ UNCHANGED <<backend, details, mempool, nonce>>
    BY <1>0, <1>5
    DEF TypeOK, CreateClient, ConnectionOpenInit, ChannelOpenInit, BuildSigned, Build
  <2>2. OneInLine' /\ NobodyBegun'
    BY <1>0, <2>1 DEF OneInLine, NobodyBegun, Alone
  <2>3. Leads(r) => Leads(r)'
    BY <2>1 DEF Leads
  <2>. QED  BY <1>0, <2>1, <2>2, <2>3, LeaderStays DEF Leader
<1>6. CASE SaveClient(r) \/ ConnectionOpenTry(r) \/ ConnectionOpenAck(r)
           \/ ConnectionOpenConfirm(r) \/ ChannelOpenTry(r) \/ ChannelOpenAck(r)
           \/ ChannelOpenConfirm(r) \/ NotifyEstablished(r)
  <2>1. /\ pc[r] \notin {"begun", "built", "waiting", "refused", "done"}
        /\ pc'[r] \notin {"begun", "built", "waiting", "refused", "done"}
        /\ UNCHANGED <<backend, details, mempool, nonce>>
    BY <1>0, <1>6
    DEF TypeOK, SaveClient, ConnectionOpenTry, ConnectionOpenAck, ConnectionOpenConfirm,
        ChannelOpenTry, ChannelOpenAck, ChannelOpenConfirm, NotifyEstablished, WriteEnd,
        SignAndIncrement
  <2>2. OneInLine' /\ NobodyBegun'
    BY <1>0, <2>1 DEF OneInLine, NobodyBegun, Alone
  <2>3. Leads(r) => Leads(r)'
    BY <2>1 DEF Leads
  <2>. QED  BY <1>0, <2>1, <2>2, <2>3, LeaderStays DEF Leader
<1>. QED  BY <1>1, <1>2, <1>3, <1>4, <1>5, <1>6 DEF Handle

LEMMA LeaderDeliver ==
  ASSUME ConnectInv, LeaderInv, NEW r \in Calls, Deliver(r)
  PROVE  OneInLine' /\ NobodyBegun' /\ Leader'
<1>1. /\ TypeOK /\ Alone(r) /\ OneInLine /\ NobodyBegun /\ Leader
      /\ UNCHANGED <<backend, details>>
  BY AnswerAlone DEF ConnectInv, LeaderInv
<1>2. /\ pc[r] = "waiting"
      /\ pc'[r] \in {"saveClient", "connTry", "connConfirm", "chanTry", "chanConfirm"}
  BY ReadyDeliver DEF LeaderInv
<1>3. r \in mempool /\ mempool' = mempool \ {r}
  BY DEF Deliver, Answer
<1>4. mempool' = {}
  BY <1>1, <1>3 DEF OneInLine
<1>5. OneInLine' /\ NobodyBegun'
  BY <1>1, <1>2, <1>3, <1>4 DEF OneInLine, NobodyBegun, Alone
<1>6. Leads(r)'
  BY <1>2, <1>4 DEF Leads
<1>. QED  BY <1>5, <1>6 DEF Leader

\* A message is refused only after the first commit.
LEMMA LeaderDeliverRefused ==
  ASSUME ~MayRefuse, ConnectInv, LeaderInv, NEW r \in Calls, DeliverRefused(r)
  PROVE  LeaderInv'
<1>1. /\ r \in mempool /\ mempool' = mempool \ {r}
      /\ pc' = (IF pc[r] = "waiting" THEN [pc EXCEPT ![r] = "refused"] ELSE pc)
      /\ UNCHANGED <<backend, details, loc, msg, local, conn, chan>>
  BY DEF DeliverRefused, Answer, dbVars, endVars
<1>2. pc[r] = "waiting" /\ Ready(r) /\ TypeOK /\ OneInLine
  BY <1>1 DEF LeaderInv, OneInLine, ConnectInv
<1>3. details # None
  BY <1>2, WillBeValid DEF DeliverRefused
<1>4. Alone(r) /\ pc'[r] = "refused"
  BY <1>1, <1>2 DEF TypeOK, Alone
<1>5. ASSUME NEW q \in Calls PROVE Ready(q)'
  <2>1. CASE q = r  BY <1>4, <2>1 DEF Ready, Early, Sending
  <2>2. CASE q # r  BY <1>4, <2>2, ReadyStays DEF LeaderInv
  <2>. QED  BY <2>1, <2>2
<1>6. OneInLine'
  BY <1>1, <1>2, <1>4 DEF OneInLine, Alone
<1>. QED  BY <1>1, <1>3, <1>5, <1>6 DEF LeaderInv, NobodyBegun, Leader

\* The inductive invariant: one message at a time, every proof before the
\* first commit as the chain wants it, and a leader.
THEOREM LeaderInvariant ==
  ASSUME ~MayFail, ~MayRefuse, Calls # {}
  PROVE  Spec => []LeaderInv
<1>1. Init => LeaderInv
  BY DEF Init, LeaderInv, Ready, Early, Sending, OneInLine, NobodyBegun, Leader, Leads
<1>2. ConnectInv /\ LeaderInv /\ [Next]_vars => LeaderInv'
  <2>. SUFFICES ASSUME ConnectInv, LeaderInv, [Next]_vars PROVE LeaderInv'
    OBVIOUS
  <2>1. ASSUME NEW r \in Calls, Alone(r), Ready(r)', NEW q \in Calls PROVE Ready(q)'
    <3>1. CASE q = r  BY <2>1, <3>1
    <3>2. CASE q # r  BY <2>1, <3>2, ReadyStays DEF LeaderInv
    <3>. QED  BY <3>1, <3>2
  <2>2. ASSUME NEW r \in Calls, Handle(r) PROVE LeaderInv'
    <3>1. Alone(r) /\ Ready(r)'
      BY <2>2, HandleAlone, ReadyHandle DEF ConnectInv, LeaderInv
    <3>. QED  BY <2>1, <2>2, <3>1, LeaderHandle DEF LeaderInv
  <2>3. ASSUME NEW r \in Calls, Deliver(r) PROVE LeaderInv'
    <3>1. Alone(r) /\ Ready(r)'
      BY <2>3, AnswerAlone, ReadyDeliver DEF ConnectInv, LeaderInv
    <3>. QED  BY <2>1, <2>3, <3>1, LeaderDeliver DEF LeaderInv
  <2>4. ASSUME NEW r \in Calls, DeliverRefused(r) PROVE LeaderInv'
    BY <2>4, LeaderDeliverRefused
  <2>5. CASE UNCHANGED vars
    BY <2>5
    DEF LeaderInv, Ready, Early, Sending, OneInLine, NobodyBegun, Leader, Leads, vars,
        dbVars, callVars, endVars
  <2>. QED
    BY <2>2, <2>3, <2>4, <2>5 DEF Next, Terminated, DropTx, Fail
<1>. QED  BY <1>1, <1>2, ConnectInvariant, PTL DEF Spec

\* When all calls of connect have returned, one of them has connected: on
\* Postgres, however many calls compete and in whatever order they run.
THEOREM SomeoneConnectsAlways ==
  ASSUME ~MayFail, ~MayRefuse, Calls # {}
  PROVE  Spec => []SomeoneConnects
<1>1. LeaderInv => SomeoneConnects
  BY DEF LeaderInv, Leader, Leads, SomeoneConnects
<1>. QED  BY <1>1, LeaderInvariant, PTL
=============================================================================
