--------------------------- MODULE ConnectProofs ---------------------------
(***************************************************************************)
(* Theorems about Connect, for any number of calls on either database.     *)
(*                                                                         *)
(* The argument: as long as no details are stored the row says InitSeq,    *)
(* and so every light client is created at InitSeq and is at InitSeq + 2   *)
(* when its handshake is over.  The call that holds the lock has signed    *)
(* its second proof with the row it reads back, one above the committed    *)
(* one, and the chain accepts it only if that is InitSeq + 1.  Hence a     *)
(* call comes to its commit only if nobody committed before it.            *)
(***************************************************************************)
EXTENDS Connect, TLAPS

\* The message of r is on its way and is of kind k.
Sending(r, k) == pc[r] \in {"signed", "built", "waiting"} /\ msg[r].kind = k

\* Before there is a light client.
Unborn(r) == pc[r] = "createClient" \/ Sending(r, "createClient")
\* Before the first proof is signed.
Early(r) ==
  pc[r] \in {"saveClient", "connInit", "connTry", "connAck"} \/ Sending(r, "connInit")
\* Between the two proofs.
Middle(r) ==
  pc[r] \in {"connConfirm", "chanInit", "chanTry", "chanAck"} \/ Sending(r, "chanInit")
\* After the second.
Late(r) == pc[r] \in {"chanConfirm", "notify", "commit"}

\* What the handler, the row and the light client know of each other.
Client(r) ==
  /\ pc[r] \in {"idle", "begun"} \/ Unborn(r) => lock # r
  /\ Unborn(r) => loc[r] = InitSeq
  /\ Sending(r, "createClient") => msg[r].seq = InitSeq
  /\ Early(r) \/ Sending(r, "connAck") => cSeq[r] = InitSeq
  /\ Early(r) /\ lock = r => workSeq = seq
  /\ Middle(r) \/ Sending(r, "connAck") =>
       lock = r /\ workSeq = seq + 1 /\ loc[r] = workSeq
  /\ Middle(r) \/ Sending(r, "chanAck") =>
       cSeq[r] = InitSeq + 1 /\ conn[r] = "OPEN"
  /\ Sending(r, "chanAck") =>
       lock = r /\ workSeq = seq + 2 /\ msg[r].seq = seq + 1
  /\ Late(r) =>
       /\ lock = r /\ seq = InitSeq /\ workSeq = InitSeq + 2
       /\ cSeq[r] = InitSeq + 2 /\ conn[r] = "OPEN" /\ chan[r] = "OPEN"

\* What it has written in its transaction.
Ends(r) ==
  /\ \/ pc[r] \in {"chanInit", "chanTry", "chanAck"} \/ Late(r)
     \/ Sending(r, "chanInit") \/ Sending(r, "chanAck")
     => local[r].conn = "OPEN"
  /\ pc[r] \in {"notify", "commit"} => local[r].chan = "OPEN"

\* Messages on their way have a kind, and only they are in the mempool.
Message(r) ==
  /\ pc[r] \in {"signed", "built", "waiting"} => msg[r].kind \in DOMAIN AfterAnswer
  /\ pc[r] = "signed" => msg[r].kind \in {"connAck", "chanAck"}
  /\ r \in mempool => pc[r] \in {"waiting", "done"}

CallInv(r) == Client(r) /\ Ends(r) /\ Message(r)

\* What is stored, and that the call it is of is over.
Stored ==
  /\ details = None => seq = InitSeq
  /\ details # None =>
       /\ seq = InitSeq + 2
       /\ pc[details] = "done" /\ details \notin mempool

ConnectInv ==
  TypeOK /\ Stored /\ HandshakeAgreement /\ \A r \in Calls : CallInv(r)

-----------------------------------------------------------------------------
(* A step of one call leaves the others alone.                             *)

\* What a step of another call must not disturb for call q.
Undisturbed(q) ==
  /\ pc'[q] = pc[q] /\ msg'[q] = msg[q] /\ loc'[q] = loc[q]
  /\ local'[q] = local[q]
  /\ cSeq'[q] = cSeq[q] /\ conn'[q] = conn[q] /\ chan'[q] = chan[q]
  /\ q \in mempool' => q \in mempool
  /\ lock = q => lock' = q /\ workSeq' = workSeq /\ seq' = seq
  /\ lock # q => lock' # q

Others(r) == \A q \in Calls \ {r} : Undisturbed(q)

\* The invariant of a call depends on nothing but what is its own, the lock,
\* and the sequences while it holds the lock.
LEMMA CallInvStays ==
  ASSUME NEW q \in Calls, CallInv(q), Undisturbed(q)
  PROVE  CallInv(q)'
<1>1. /\ Unborn(q)' <=> Unborn(q)
      /\ Early(q)' <=> Early(q)
      /\ Middle(q)' <=> Middle(q)
      /\ Late(q)' <=> Late(q)
  BY DEF Undisturbed, Unborn, Early, Middle, Late, Sending
<1>2. Client(q)'
  BY <1>1 DEF CallInv, Client, Undisturbed, Sending, Late, Middle, Early
<1>3. Ends(q)'
  BY <1>1 DEF CallInv, Ends, Undisturbed, Sending
<1>4. Message(q)'
  BY DEF CallInv, Message, Undisturbed
<1>. QED  BY <1>2, <1>3, <1>4 DEF CallInv

\* A step of r that commits nothing keeps the invariant if it keeps the types
\* and the invariant of r, and if r is not the call whose details are stored.
LEMMA StepOfOne ==
  ASSUME ConnectInv, NEW r \in Calls, TypeOK', CallInv(r)', Others(r),
         details # r, UNCHANGED <<details, seq, saved>>
  PROVE  ConnectInv'
<1>1. ASSUME NEW q \in Calls PROVE CallInv(q)'
  <2>1. CASE q = r  BY <2>1
  <2>2. CASE q # r
    BY <2>2, CallInvStays DEF ConnectInv, Others
  <2>. QED  BY <2>1, <2>2
<1>2. ASSUME details # None PROVE details \in Calls \ {r}
  BY <1>2 DEF ConnectInv, TypeOK
<1>3. Stored'
  BY <1>2 DEF ConnectInv, Stored, Others, Undisturbed
<1>4. HandshakeAgreement'
  BY <1>2 DEF ConnectInv, HandshakeAgreement, Others, Undisturbed
<1>. QED  BY <1>1, <1>3, <1>4 DEF ConnectInv

\* The call whose details are stored has returned and has sent everything.
LEMMA StoredIsOver ==
  ASSUME ConnectInv, NEW r \in Calls, pc[r] # "done" \/ r \in mempool
  PROVE  details # r
BY CallsAssumption DEF ConnectInv, Stored

-----------------------------------------------------------------------------
(* The steps that several actions have in common.                          *)

LEMMA AbortStep ==
  ASSUME ConnectInv, NEW r \in Calls, NEW result \in {"err", "panic"},
         pc[r] # "done", Abort(r, result)
  PROVE  ConnectInv'
<1>1. TypeOK'
  BY DEF ConnectInv, TypeOK, Abort, Goto, Labels, NoEnds, EndStates, endVars
<1>2. pc'[r] = "done"
  BY DEF ConnectInv, TypeOK, Abort, Goto
<1>3. CallInv(r)'
  BY <1>2 DEF CallInv, Client, Ends, Message, Unborn, Early, Middle, Late, Sending
<1>4. Others(r)
  BY CallsAssumption
  DEF ConnectInv, TypeOK, Abort, Goto, Others, Undisturbed, endVars
<1>5. UNCHANGED <<details, seq, saved>>
  BY DEF Abort
<1>. QED  BY <1>1, <1>3, <1>4, <1>5, StepOfOne, StoredIsOver

LEMMA BuildStep ==
  ASSUME ConnectInv, NEW r \in Calls, NEW k \in DOMAIN AfterAnswer,
         NEW n \in Nat, NEW e \in EndStates, pc[r] \notin {"waiting", "done"},
         Build(r, k, n, e), Client(r)', Ends(r)'
  PROVE  ConnectInv'
<1>1. TypeOK'
  BY DEF ConnectInv, TypeOK, Build, Goto, Labels, Msg, dbVars, endVars
<1>2. pc'[r] = "built" /\ msg'[r].kind = k
  BY DEF ConnectInv, TypeOK, Build, Goto
<1>3. Message(r)'
  BY <1>2 DEF ConnectInv, CallInv, Message, Build
<1>4. Others(r)
  BY DEF ConnectInv, TypeOK, Build, Goto, Others, Undisturbed, dbVars, endVars
<1>5. UNCHANGED <<details, seq, saved>>
  BY DEF Build, dbVars
<1>. QED
  BY <1>1, <1>3, <1>4, <1>5, StepOfOne, StoredIsOver DEF CallInv

LEMMA WriteEndStep ==
  ASSUME ConnectInv, NEW r \in Calls, NEW end \in {"conn", "chan"},
         NEW e \in EndStates, NEW label \in {"connAck", "chanInit", "chanAck", "notify"},
         pc[r] \notin {"waiting", "done"},
         WriteEnd(r, end, e, label), Client(r)', Ends(r)'
  PROVE  ConnectInv'
<1>1. local' \in [Calls -> [conn : EndStates, chan : EndStates]]
  <2>1. [local[r] EXCEPT ![end] = e] \in [conn : EndStates, chan : EndStates]
    BY DEF ConnectInv, TypeOK
  <2>. QED  BY <2>1 DEF ConnectInv, TypeOK, WriteEnd
<1>2. TypeOK'
  BY <1>1 DEF ConnectInv, TypeOK, WriteEnd, Goto, Labels, endVars
<1>3. pc'[r] = label
  BY DEF ConnectInv, TypeOK, WriteEnd, Goto
<1>4. Message(r)'
  BY <1>3 DEF ConnectInv, CallInv, Message, WriteEnd
<1>5. Others(r)
  BY DEF ConnectInv, TypeOK, WriteEnd, Goto, Others, Undisturbed, endVars
<1>6. UNCHANGED <<details, seq, saved>>
  BY DEF WriteEnd
<1>. QED
  BY <1>2, <1>4, <1>5, <1>6, StepOfOne, StoredIsOver DEF CallInv

LEMMA SignStep ==
  ASSUME ConnectInv, NEW r \in Calls, NEW k \in {"connAck", "chanAck"},
         NEW end \in {"conn", "chan"}, pc[r] \notin {"waiting", "done"},
         SignAndIncrement(r, k, end), Client(r)', Ends(r)'
  PROVE  ConnectInv'
<1>1. workSeq' \in Nat
  BY DEF ConnectInv, TypeOK, SignAndIncrement
<1>2. local[r][end] \in EndStates
  BY DEF ConnectInv, TypeOK
<1>3. TypeOK'
  BY <1>1, <1>2
  DEF ConnectInv, TypeOK, SignAndIncrement, Goto, Labels, Msg, AfterAnswer, endVars
<1>4. pc'[r] = "signed" /\ msg'[r].kind = k
  BY DEF ConnectInv, TypeOK, SignAndIncrement, Goto
<1>5. Message(r)'
  BY <1>4 DEF ConnectInv, CallInv, Message, SignAndIncrement, AfterAnswer
<1>6. Others(r)
  BY CallsAssumption
  DEF ConnectInv, TypeOK, SignAndIncrement, Goto, Others, Undisturbed, endVars
<1>7. UNCHANGED <<details, seq, saved>>
  BY DEF SignAndIncrement
<1>. QED
  BY <1>3, <1>5, <1>6, <1>7, StepOfOne, StoredIsOver DEF CallInv

-----------------------------------------------------------------------------
(* The steps of the handler.                                               *)

\* The transaction begins: nothing is stored, or the handler goes no further.
LEMMA BeginStep ==
  ASSUME ConnectInv, NEW r \in Calls, Begin(r)
  PROVE  ConnectInv'
<1>1. TypeOK'
  BY DEF ConnectInv, TypeOK, Begin, Goto, Labels, dbVars, endVars
<1>2. /\ pc[r] = "idle" /\ lock # r /\ r \notin mempool
      /\ loc'[r] = seq
      /\ pc'[r] = IF details = None THEN "createClient" ELSE "begun"
  BY DEF ConnectInv, TypeOK, CallInv, Client, Message, Begin, Goto
<1>3. details = None => seq = InitSeq
  BY DEF ConnectInv, Stored
<1>4. CallInv(r)'
  BY <1>2, <1>3
  DEF Begin, CallInv, Client, Ends, Message, Unborn, Early, Middle, Late, Sending,
      dbVars, endVars
<1>5. Others(r)
  BY DEF ConnectInv, TypeOK, Begin, Goto, Others, Undisturbed, dbVars, endVars
<1>6. details # r /\ UNCHANGED <<details, seq, saved>>
  BY <1>2, StoredIsOver DEF Begin, dbVars
<1>. QED  BY <1>1, <1>4, <1>5, <1>6, StepOfOne

\* The first write: the transaction sees the committed row.
LEMMA SaveClientStep ==
  ASSUME ConnectInv, NEW r \in Calls, SaveClient(r)
  PROVE  ConnectInv'
<1>1. TypeOK'
  BY DEF ConnectInv, TypeOK, SaveClient, LockByInsert, CopyRow, Goto, Labels, endVars
<1>2. pc[r] = "saveClient" /\ pc'[r] = "connInit" /\ r \notin mempool
  BY DEF ConnectInv, TypeOK, CallInv, Message, SaveClient, Goto
<1>3. lock' = r => workSeq' = seq
  BY <1>2 DEF ConnectInv, CallInv, Client, Early, SaveClient, CopyRow
<1>4. CallInv(r)'
  BY <1>2, <1>3
  DEF ConnectInv, SaveClient, CallInv, Client, Ends, Message, Unborn, Early, Middle,
      Late, Sending, endVars
<1>5. Others(r)
  BY CallsAssumption
  DEF ConnectInv, TypeOK, SaveClient, CanInsert, LockByInsert, CopyRow, Goto, Others,
      Undisturbed, endVars
<1>6. details # r /\ UNCHANGED <<details, seq, saved>>
  BY <1>2, StoredIsOver DEF SaveClient
<1>. QED  BY <1>1, <1>4, <1>5, <1>6, StepOfOne

\* Messages that leave for the chain, or that check_tx refuses.
LEMMA BroadcastStep ==
  ASSUME ConnectInv, NEW r \in Calls, Broadcast(r) \/ CheckTxRefuses(r)
  PROVE  ConnectInv'
<1>1. TypeOK'
  BY DEF ConnectInv, TypeOK, Broadcast, CheckTxRefuses, Goto, Labels, dbVars, endVars
<1>2. pc[r] = "built" /\ pc'[r] \in {"waiting", "refused"} /\ r \notin mempool
  BY DEF ConnectInv, TypeOK, CallInv, Message, Broadcast, CheckTxRefuses, Goto
<1>3. pc'[r] = "waiting" \/ r \notin mempool'
  BY <1>2 DEF ConnectInv, TypeOK, Broadcast, CheckTxRefuses, Goto
<1>4. UNCHANGED <<dbVars, loc, msg, endVars>>
  BY DEF Broadcast, CheckTxRefuses
<1>5. CallInv(r)
  BY DEF ConnectInv
<1>6. Client(r)' /\ Ends(r)'
  BY <1>2, <1>4, <1>5
  DEF CallInv, Client, Ends, Unborn, Early, Middle, Late, Sending, dbVars, endVars
<1>7. Message(r)'
  BY <1>2, <1>3, <1>4, <1>5 DEF CallInv, Message
<1>8. Others(r)
  BY DEF ConnectInv, TypeOK, Broadcast, CheckTxRefuses, Goto, Others, Undisturbed,
         dbVars, endVars
<1>9. details # r /\ UNCHANGED <<details, seq, saved>>
  BY <1>2, <1>4, StoredIsOver DEF dbVars
<1>. QED  BY <1>1, <1>6, <1>7, <1>8, <1>9, StepOfOne DEF CallInv

LEMMA NotifyStep ==
  ASSUME ConnectInv, NEW r \in Calls, NotifyEstablished(r)
  PROVE  ConnectInv'
<1>1. TypeOK'
  BY DEF ConnectInv, TypeOK, NotifyEstablished, Goto, Labels, dbVars, endVars
<1>2. pc[r] = "notify" /\ pc'[r] = "commit"
  BY DEF ConnectInv, TypeOK, NotifyEstablished, Goto
<1>3. CallInv(r)'
  BY <1>2
  DEF ConnectInv, NotifyEstablished, CallInv, Client, Ends, Message, Unborn, Early,
      Middle, Late, Sending, dbVars, endVars
<1>4. Others(r)
  BY DEF ConnectInv, TypeOK, NotifyEstablished, Goto, Others, Undisturbed, dbVars,
         endVars
<1>5. details # r /\ UNCHANGED <<details, seq, saved>>
  BY <1>2, StoredIsOver DEF NotifyEstablished, dbVars
<1>. QED  BY <1>1, <1>3, <1>4, <1>5, StepOfOne

\* A call that commits is the first one: the committed row says InitSeq.
LEMMA FirstToCommit ==
  ASSUME ConnectInv, NEW r \in Calls, Commit(r)
  PROVE  /\ details = None /\ lock = r /\ workSeq = InitSeq + 2
         /\ cSeq[r] = InitSeq + 2 /\ conn[r] = "OPEN" /\ chan[r] = "OPEN"
         /\ local[r].conn = "OPEN" /\ local[r].chan = "OPEN"
         /\ r \notin mempool
<1>1. pc[r] = "commit" /\ CallInv(r)
  BY DEF ConnectInv, Commit
<1>2. /\ lock = r /\ seq = InitSeq /\ workSeq = InitSeq + 2
      /\ cSeq[r] = InitSeq + 2 /\ conn[r] = "OPEN" /\ chan[r] = "OPEN"
  BY <1>1 DEF CallInv, Client, Late
<1>3. local[r].conn = "OPEN" /\ local[r].chan = "OPEN" /\ r \notin mempool
  BY <1>1 DEF CallInv, Ends, Late, Message
<1>4. details = None
  BY <1>2, SeqAssumption DEF ConnectInv, Stored
<1>. QED  BY <1>2, <1>3, <1>4

LEMMA CommitStep ==
  ASSUME ConnectInv, NEW r \in Calls, Commit(r)
  PROVE  ConnectInv'
<1>1. /\ lock = r /\ workSeq = InitSeq + 2 /\ r \notin mempool
      /\ cSeq[r] = InitSeq + 2 /\ conn[r] = "OPEN" /\ chan[r] = "OPEN"
      /\ local[r].conn = "OPEN" /\ local[r].chan = "OPEN"
  BY FirstToCommit
<1>2. TypeOK'
  BY DEF ConnectInv, TypeOK, Commit, Goto, Labels, endVars
<1>3. pc'[r] = "done" /\ details' = r /\ seq' = InitSeq + 2
  BY <1>1 DEF ConnectInv, TypeOK, Commit, Goto
<1>4. Stored'
  BY <1>1, <1>3, CallsAssumption DEF Stored, Commit
<1>5. HandshakeAgreement'
  <2>1. saved'[r] = [conn |-> "OPEN", chan |-> "OPEN"]
    BY <1>1 DEF ConnectInv, TypeOK, Commit
  <2>. QED  BY <1>1, <1>3, <2>1 DEF HandshakeAgreement, Commit, endVars
<1>6. ASSUME NEW q \in Calls PROVE CallInv(q)'
  <2>1. CASE q = r
    BY <1>3, <2>1
    DEF CallInv, Client, Ends, Message, Unborn, Early, Middle, Late, Sending
  <2>2. CASE q # r
    <3>1. Undisturbed(q)
      BY <1>1, <2>2, CallsAssumption
      DEF ConnectInv, TypeOK, Commit, Goto, Undisturbed, endVars
    <3>. QED  BY <3>1, CallInvStays DEF ConnectInv
  <2>. QED  BY <2>1, <2>2
<1>. QED  BY <1>2, <1>4, <1>5, <1>6 DEF ConnectInv

LEMMA HandleStep ==
  ASSUME ConnectInv, NEW r \in Calls, Handle(r)
  PROVE  ConnectInv'
<1>. USE DEF CallInv
<1>0. CallInv(r) /\ TypeOK
  BY DEF ConnectInv
<1>1. CASE Begin(r)  BY <1>1, BeginStep
<1>2. CASE AlreadyEstablished(r) \/ ReconnectNotImplemented(r)
             \/ Refused(r) \/ Busy(r)
  BY <1>2, AbortStep
  DEF AlreadyEstablished, ReconnectNotImplemented, Refused, Busy
<1>3. CASE CreateClient(r)
  <2>1. pc'[r] = "built" /\ msg'[r].kind = "createClient" /\ msg'[r].seq = loc[r]
    BY <1>0, <1>3 DEF TypeOK, CreateClient, Build, Goto
  <2>2. Client(r)' /\ Ends(r)'
    BY <1>0, <1>3, <2>1
    DEF CreateClient, Build, Client, Ends, Unborn, Early, Middle, Late, Sending,
        dbVars, endVars
  <2>3. loc[r] \in Nat /\ "none" \in EndStates /\ "createClient" \in DOMAIN AfterAnswer
    BY <1>0 DEF TypeOK, EndStates, AfterAnswer
  <2>. QED  BY <1>3, <2>2, <2>3, BuildStep DEF CreateClient
<1>4. CASE SaveClient(r)  BY <1>4, SaveClientStep
<1>5. CASE ConnectionOpenInit(r)
  <2>1. pc'[r] = "built" /\ msg'[r].kind = "connInit"
    BY <1>0, <1>5 DEF TypeOK, ConnectionOpenInit, Build, Goto
  <2>2. Client(r)' /\ Ends(r)'
    BY <1>0, <1>5, <2>1
    DEF ConnectionOpenInit, Build, Client, Ends, Unborn, Early, Middle, Late, Sending,
        dbVars, endVars
  <2>3. "none" \in EndStates /\ "connInit" \in DOMAIN AfterAnswer
    BY DEF EndStates, AfterAnswer
  <2>. QED  BY <1>5, <2>2, <2>3, BuildStep DEF ConnectionOpenInit
<1>6. CASE ConnectionOpenTry(r)
  <2>1. pc'[r] = "connAck"
    BY <1>0, <1>6 DEF TypeOK, ConnectionOpenTry, WriteEnd, Goto
  <2>2. Client(r)' /\ Ends(r)'
    BY <1>0, <1>6, <2>1
    DEF ConnectionOpenTry, WriteEnd, Client, Ends, Unborn, Early, Middle, Late, Sending,
        endVars
  <2>3. "TRYOPEN" \in EndStates
    BY DEF EndStates
  <2>. QED  BY <1>6, <2>2, <2>3, WriteEndStep DEF ConnectionOpenTry
<1>7. CASE ConnectionOpenAck(r)
  <2>1. pc'[r] = "signed" /\ msg'[r].kind = "connAck" /\ loc'[r] = workSeq'
    BY <1>0, <1>7 DEF TypeOK, ConnectionOpenAck, SignAndIncrement, Goto
  <2>2. lock' = r /\ workSeq' = seq + 1
    BY <1>0, <1>7, CallsAssumption
    DEF TypeOK, ConnectionOpenAck, SignAndIncrement, Client, Early
  <2>3. cSeq[r] = InitSeq
    BY <1>0, <1>7 DEF ConnectionOpenAck, Client, Early
  <2>4. Client(r)' /\ Ends(r)'
    BY <1>7, <2>1, <2>2, <2>3
    DEF ConnectionOpenAck, SignAndIncrement, Client, Ends, Unborn, Early, Middle, Late,
        Sending, endVars
  <2>. QED  BY <1>7, <2>4, SignStep DEF ConnectionOpenAck
<1>8. CASE ConnectionOpenConfirm(r)
  <2>1. pc'[r] = "chanInit" /\ local'[r].conn = "OPEN"
    BY <1>0, <1>8 DEF TypeOK, ConnectionOpenConfirm, WriteEnd, Goto
  <2>2. Client(r)' /\ Ends(r)'
    BY <1>0, <1>8, <2>1
    DEF ConnectionOpenConfirm, WriteEnd, Client, Ends, Unborn, Early, Middle, Late,
        Sending, endVars
  <2>3. "OPEN" \in EndStates
    BY DEF EndStates
  <2>. QED  BY <1>8, <2>2, <2>3, WriteEndStep DEF ConnectionOpenConfirm
<1>9. CASE ChannelOpenInit(r)
  <2>1. pc'[r] = "built" /\ msg'[r].kind = "chanInit"
    BY <1>0, <1>9 DEF TypeOK, ChannelOpenInit, Build, Goto
  <2>2. Client(r)' /\ Ends(r)'
    BY <1>0, <1>9, <2>1
    DEF ChannelOpenInit, Build, Client, Ends, Unborn, Early, Middle, Late, Sending,
        dbVars, endVars
  <2>3. "none" \in EndStates /\ "chanInit" \in DOMAIN AfterAnswer
    BY DEF EndStates, AfterAnswer
  <2>. QED  BY <1>9, <2>2, <2>3, BuildStep DEF ChannelOpenInit
<1>10. CASE ChannelOpenTry(r)
  <2>1. pc'[r] = "chanAck" /\ local'[r].conn = local[r].conn
    BY <1>0, <1>10 DEF TypeOK, ChannelOpenTry, WriteEnd, Goto
  <2>2. Client(r)' /\ Ends(r)'
    BY <1>0, <1>10, <2>1
    DEF ChannelOpenTry, WriteEnd, Client, Ends, Unborn, Early, Middle, Late, Sending,
        endVars
  <2>3. "TRYOPEN" \in EndStates
    BY DEF EndStates
  <2>. QED  BY <1>10, <2>2, <2>3, WriteEndStep DEF ChannelOpenTry
<1>11. CASE ChannelOpenAck(r)
  <2>1. pc'[r] = "signed" /\ msg'[r].kind = "chanAck" /\ msg'[r].seq = loc[r]
    BY <1>0, <1>11 DEF TypeOK, ChannelOpenAck, SignAndIncrement, Goto
  <2>2. /\ lock = r /\ workSeq = seq + 1 /\ loc[r] = workSeq
        /\ cSeq[r] = InitSeq + 1 /\ conn[r] = "OPEN" /\ local[r].conn = "OPEN"
    BY <1>0, <1>11 DEF ChannelOpenAck, Client, Ends, Middle
  <2>3. lock' = r /\ workSeq' = seq + 2
    BY <1>0, <1>11, <2>2 DEF TypeOK, ChannelOpenAck, SignAndIncrement
  <2>4. Client(r)' /\ Ends(r)'
    BY <1>11, <2>1, <2>2, <2>3
    DEF ChannelOpenAck, SignAndIncrement, Client, Ends, Unborn, Early, Middle, Late,
        Sending, endVars
  <2>. QED  BY <1>11, <2>4, SignStep DEF ChannelOpenAck
<1>12. CASE ChannelOpenConfirm(r)
  <2>1. pc'[r] = "notify" /\ local'[r].conn = local[r].conn /\ local'[r].chan = "OPEN"
    BY <1>0, <1>12 DEF TypeOK, ChannelOpenConfirm, WriteEnd, Goto
  <2>2. Client(r)' /\ Ends(r)'
    BY <1>0, <1>12, <2>1
    DEF ChannelOpenConfirm, WriteEnd, Client, Ends, Unborn, Early, Middle, Late, Sending,
        endVars
  <2>3. "OPEN" \in EndStates
    BY DEF EndStates
  <2>. QED  BY <1>12, <2>2, <2>3, WriteEndStep DEF ChannelOpenConfirm
<1>13. CASE BuildSigned(r)
  <2>1. /\ pc[r] = "signed" /\ pc'[r] = "built"
        /\ msg'[r].kind = msg[r].kind /\ msg'[r].seq = msg[r].seq
    BY <1>0, <1>13 DEF TypeOK, BuildSigned, Build, Goto
  <2>2. Client(r)' /\ Ends(r)'
    BY <1>0, <1>13, <2>1
    DEF BuildSigned, Build, Client, Ends, Unborn, Early, Middle, Late, Sending, dbVars,
        endVars
  <2>3. /\ msg[r].kind \in DOMAIN AfterAnswer
        /\ msg[r].seq \in Nat /\ msg[r].end \in EndStates
    BY <1>0, <2>1 DEF TypeOK, Msg, Message
  <2>. QED  BY <1>13, <2>1, <2>2, <2>3, BuildStep DEF BuildSigned
<1>14. CASE Broadcast(r) \/ CheckTxRefuses(r)  BY <1>14, BroadcastStep
<1>15. CASE NotifyEstablished(r)  BY <1>15, NotifyStep
<1>16. CASE Commit(r)  BY <1>16, CommitStep
<1>. QED
  BY <1>1, <1>2, <1>3, <1>4, <1>5, <1>6, <1>7, <1>8, <1>9, <1>10, <1>11, <1>12,
     <1>13, <1>14, <1>15, <1>16
  DEF Handle

-----------------------------------------------------------------------------
(* The steps of the chain.                                                 *)

\* A message leaves the mempool; its call, if it still waits, goes on.
LEMMA AnswerFacts ==
  ASSUME ConnectInv, NEW r \in Calls, NEW label \in Labels, Answer(r, label)
  PROVE  /\ pc[r] \in {"waiting", "done"}
         /\ pc'[r] = (IF pc[r] = "waiting" THEN label ELSE "done")
         /\ r \notin mempool' /\ details # r
         /\ pc' \in [Calls -> Labels] /\ mempool' \subseteq Calls /\ nonce' \in Nat
         /\ \A q \in Calls \ {r} : pc'[q] = pc[q] /\ (q \in mempool' => q \in mempool)
         /\ UNCHANGED <<dbVars, loc, msg, out, announced>>
<1>1. r \in mempool /\ pc[r] \in {"waiting", "done"}
  BY DEF ConnectInv, CallInv, Message, Answer
<1>2. details # r
  BY <1>1, StoredIsOver
<1>. QED  BY <1>1, <1>2 DEF ConnectInv, TypeOK, Answer

LEMMA DeliverStep ==
  ASSUME ConnectInv, NEW r \in Calls, Deliver(r)
  PROVE  ConnectInv'
<1>. DEFINE k == msg[r].kind
            next == AfterAnswer[k]
<1>1. CallInv(r) /\ TypeOK /\ Answer(r, next)
  BY DEF ConnectInv, Deliver
<1>2. /\ r \in mempool /\ pc[r] \in {"waiting", "done"}
      /\ pc[r] = "waiting" => k \in DOMAIN AfterAnswer
  BY <1>1 DEF CallInv, Message, Answer
<1>3. /\ pc'[r] = (IF pc[r] = "waiting" THEN next ELSE "done")
      /\ pc' \in [Calls -> Labels]
  <2>1. CASE pc[r] = "waiting"
    <3>1. next \in Labels
      BY <1>2, <2>1 DEF AfterAnswer, Labels
    <3>. QED  BY <1>1, <2>1, <3>1 DEF TypeOK, Answer
  <2>2. CASE pc[r] = "done"  BY <1>1, <2>2 DEF TypeOK, Answer
  <2>. QED  BY <1>2, <2>1, <2>2
<1>4. /\ r \notin mempool' /\ mempool' \subseteq Calls /\ nonce' \in Nat
      /\ \A q \in Calls \ {r} : pc'[q] = pc[q] /\ (q \in mempool' => q \in mempool)
      /\ UNCHANGED <<dbVars, loc, msg, out, announced>>
  BY <1>1 DEF TypeOK, Answer
<1>5. /\ cSeq' = [cSeq EXCEPT ![r] = IF k = "createClient" THEN msg[r].seq
                                     ELSE IF k \in {"connAck", "chanAck"} THEN @ + 1
                                     ELSE @]
      /\ conn' = [conn EXCEPT ![r] = IF k = "connInit" THEN "INIT"
                                     ELSE IF k = "connAck" THEN "OPEN" ELSE @]
      /\ chan' = [chan EXCEPT ![r] = IF k = "chanInit" THEN "INIT"
                                     ELSE IF k = "chanAck" THEN "OPEN" ELSE @]
  BY <1>1 DEF Deliver, TypeOK
<1>6. TypeOK'
  <2>1. msg[r].seq \in Nat /\ cSeq[r] \in Nat
    BY <1>1 DEF TypeOK, Msg
  <2>2. cSeq' \in [Calls -> Nat]
    BY <1>1, <1>5, <2>1 DEF TypeOK
  <2>3. conn' \in [Calls -> EndStates] /\ chan' \in [Calls -> EndStates]
    BY <1>1, <1>5 DEF TypeOK, EndStates
  <2>. QED  BY <1>1, <1>3, <1>4, <2>2, <2>3 DEF TypeOK, dbVars
<1>7. Others(r)
  BY <1>1, <1>4, <1>5 DEF TypeOK, Others, Undisturbed, dbVars
<1>8. CallInv(r)'
  <2>1. CASE pc[r] = "done"
    BY <1>3, <1>4, <2>1
    DEF CallInv, Client, Ends, Message, Unborn, Early, Middle, Late, Sending
  <2>2. CASE pc[r] = "waiting" /\ k = "createClient"
    <3>1. loc[r] = InitSeq /\ lock # r /\ msg[r].seq = InitSeq
      BY <1>1, <2>2 DEF CallInv, Client, Unborn, Sending
    <3>2. pc'[r] = "saveClient" /\ cSeq'[r] = InitSeq
      BY <1>1, <1>3, <1>5, <2>2, <3>1 DEF AfterAnswer, TypeOK
    <3>. QED
      BY <1>4, <3>1, <3>2
      DEF CallInv, Client, Ends, Message, Unborn, Early, Middle, Late, Sending, dbVars
  <2>3. CASE pc[r] = "waiting" /\ k = "connInit"
    <3>1. cSeq[r] = InitSeq /\ (lock = r => workSeq = seq)
      BY <1>1, <2>3 DEF CallInv, Client, Early, Sending
    <3>2. pc'[r] = "connTry" /\ cSeq'[r] = InitSeq
      BY <1>1, <1>3, <1>5, <2>3, <3>1 DEF AfterAnswer, TypeOK
    <3>. QED
      BY <1>4, <3>1, <3>2
      DEF CallInv, Client, Ends, Message, Unborn, Early, Middle, Late, Sending, dbVars
  <2>4. CASE pc[r] = "waiting" /\ k = "connAck"
    <3>1. cSeq[r] = InitSeq /\ lock = r /\ workSeq = seq + 1 /\ loc[r] = workSeq
      BY <1>1, <2>4 DEF CallInv, Client, Sending
    <3>2. pc'[r] = "connConfirm" /\ cSeq'[r] = InitSeq + 1 /\ conn'[r] = "OPEN"
      BY <1>1, <1>3, <1>5, <2>4, <3>1 DEF AfterAnswer, TypeOK
    <3>. QED
      BY <1>4, <3>1, <3>2
      DEF CallInv, Client, Ends, Message, Unborn, Early, Middle, Late, Sending, dbVars
  <2>5. CASE pc[r] = "waiting" /\ k = "chanInit"
    <3>1. /\ cSeq[r] = InitSeq + 1 /\ conn[r] = "OPEN" /\ local[r].conn = "OPEN"
          /\ lock = r /\ workSeq = seq + 1 /\ loc[r] = workSeq
      BY <1>1, <2>5 DEF CallInv, Client, Ends, Middle, Sending
    <3>2. pc'[r] = "chanTry" /\ cSeq'[r] = InitSeq + 1 /\ conn'[r] = "OPEN"
      BY <1>1, <1>3, <1>5, <2>5, <3>1 DEF AfterAnswer, TypeOK
    <3>. QED
      BY <1>4, <3>1, <3>2
      DEF CallInv, Client, Ends, Message, Unborn, Early, Middle, Late, Sending, dbVars
  <2>6. CASE pc[r] = "waiting" /\ k = "chanAck"
    <3>1. /\ cSeq[r] = InitSeq + 1 /\ conn[r] = "OPEN" /\ local[r].conn = "OPEN"
          /\ lock = r /\ workSeq = seq + 2 /\ msg[r].seq = seq + 1
      BY <1>1, <2>6 DEF CallInv, Client, Ends, Sending
    <3>2. msg[r].seq = cSeq[r]
      BY <2>6 DEF Deliver, Valid
    <3>3. seq = InitSeq
      BY <1>1, <3>1, <3>2, SeqAssumption DEF TypeOK
    <3>4. /\ pc'[r] = "chanConfirm" /\ cSeq'[r] = InitSeq + 2
          /\ conn'[r] = "OPEN" /\ chan'[r] = "OPEN"
      BY <1>1, <1>3, <1>5, <2>6, <3>1, SeqAssumption DEF AfterAnswer, TypeOK
    <3>. QED
      BY <1>4, <3>1, <3>3, <3>4
      DEF CallInv, Client, Ends, Message, Unborn, Early, Middle, Late, Sending, dbVars
  <2>. QED
    BY <1>2, <2>1, <2>2, <2>3, <2>4, <2>5, <2>6 DEF AfterAnswer
<1>9. details # r /\ UNCHANGED <<details, seq, saved>>
  BY <1>2, <1>4, StoredIsOver DEF dbVars
<1>. QED  BY <1>6, <1>7, <1>8, <1>9, StepOfOne

LEMMA DeliverRefusedStep ==
  ASSUME ConnectInv, NEW r \in Calls, DeliverRefused(r)
  PROVE  ConnectInv'
<1>1. Answer(r, "refused") /\ UNCHANGED endVars
  BY DEF DeliverRefused
<1>2. "refused" \in Labels
  BY DEF Labels
<1>3. /\ pc'[r] \in {"refused", "done"} /\ r \notin mempool' /\ details # r
      /\ pc' \in [Calls -> Labels] /\ mempool' \subseteq Calls /\ nonce' \in Nat
      /\ \A q \in Calls \ {r} : pc'[q] = pc[q] /\ (q \in mempool' => q \in mempool)
      /\ UNCHANGED <<dbVars, loc, msg, out, announced>>
  BY <1>1, <1>2, AnswerFacts
<1>4. TypeOK'
  BY <1>1, <1>3 DEF ConnectInv, TypeOK, dbVars, endVars
<1>5. CallInv(r)'
  BY <1>3 DEF CallInv, Client, Ends, Message, Unborn, Early, Middle, Late, Sending
<1>6. Others(r)
  BY <1>1, <1>3 DEF Others, Undisturbed, dbVars, endVars
<1>. QED  BY <1>3, <1>4, <1>5, <1>6, StepOfOne DEF dbVars

LEMMA DropTxStep ==
  ASSUME ConnectInv, NEW r \in Calls, DropTx(r)
  PROVE  ConnectInv'
<1>1. /\ r \in mempool /\ mempool' = mempool \ {r}
      /\ UNCHANGED <<dbVars, callVars, nonce, endVars>>
  BY DEF DropTx
<1>2. TypeOK'
  BY <1>1 DEF ConnectInv, TypeOK, dbVars, callVars, endVars
<1>3. Undisturbed(r) /\ Others(r)
  BY <1>1 DEF Others, Undisturbed, dbVars, callVars, endVars
<1>4. CallInv(r)'
  BY <1>3, CallInvStays DEF ConnectInv
<1>. QED  BY <1>1, <1>2, <1>3, <1>4, StoredIsOver, StepOfOne DEF dbVars

-----------------------------------------------------------------------------
(* The theorems.                                                           *)

\* The inductive invariant: every step of every call and of the chain keeps
\* the types, what a call and its light client know of each other, and what
\* the stored details say.
THEOREM ConnectInvariant == Spec => []ConnectInv
<1>1. Init => ConnectInv
  <2>. SUFFICES ASSUME Init PROVE ConnectInv
    OBVIOUS
  <2>1. TypeOK
    BY SeqAssumption
    DEF Init, TypeOK, NoEnds, EndStates, NoMsg, Msg, Labels
  <2>2. Stored /\ HandshakeAgreement
    BY DEF Init, Stored, HandshakeAgreement
  <2>3. \A r \in Calls : CallInv(r)
    BY CallsAssumption
    DEF Init, CallInv, Client, Ends, Message, Unborn, Early, Middle, Late, Sending
  <2>. QED  BY <2>1, <2>2, <2>3 DEF ConnectInv
<1>2. ConnectInv /\ [Next]_vars => ConnectInv'
  <2>. SUFFICES ASSUME ConnectInv, [Next]_vars PROVE ConnectInv'
    OBVIOUS
  <2>1. ASSUME NEW r \in Calls, Handle(r) PROVE ConnectInv'
    BY <2>1, HandleStep
  <2>2. ASSUME NEW r \in Calls, Deliver(r) \/ DeliverRefused(r) \/ DropTx(r)
        PROVE  ConnectInv'
    BY <2>2, DeliverStep, DeliverRefusedStep, DropTxStep
  <2>3. ASSUME NEW r \in Calls, Fail(r) PROVE ConnectInv'
    BY <2>3, AbortStep DEF Fail
  <2>4. CASE UNCHANGED vars
    <3>1. TypeOK' /\ Stored' /\ HandshakeAgreement'
      BY <2>4
      DEF ConnectInv, TypeOK, Stored, HandshakeAgreement, vars, dbVars, callVars, endVars
    <3>2. ASSUME NEW q \in Calls PROVE CallInv(q)'
      BY <2>4, CallInvStays
      DEF ConnectInv, Undisturbed, vars, dbVars, callVars, endVars
    <3>. QED  BY <3>1, <3>2 DEF ConnectInv
  <2>. QED  BY <2>1, <2>2, <2>3, <2>4 DEF Next, Terminated
<1>. QED  BY <1>1, <1>2, PTL DEF Spec

\* Every variable of Connect keeps its type.
THEOREM TypeCorrect == Spec => []TypeOK
<1>1. ConnectInv => TypeOK
  BY DEF ConnectInv
<1>. QED  BY <1>1, ConnectInvariant, PTL

\* What a call of connect saves agrees with the chain: both ends are open and
\* the row is at the sequence of the light client, whatever other calls do and
\* wherever they are cut off.
THEOREM HandshakeAgrees == Spec => []HandshakeAgreement
<1>1. ConnectInv => HandshakeAgreement
  BY DEF ConnectInv
<1>. QED  BY <1>1, ConnectInvariant, PTL

\* Nobody replaces the details of the first call that commits, nor moves the
\* row they count on.
THEOREM FirstConnectionStays == Spec => DetailsNeverReplaced
<1>1. ConnectInv /\ [Next]_vars
        => [details # None => details' = details /\ seq' = seq]_vars
  <2>. SUFFICES ASSUME ConnectInv, Next, details # None
                PROVE  details' = details /\ seq' = seq
    BY DEF vars, dbVars
  <2>1. ASSUME NEW r \in Calls PROVE ~Commit(r)
    BY FirstToCommit
  <2>2. ASSUME NEW r \in Calls, Handle(r) PROVE details' = details /\ seq' = seq
    BY <2>1, <2>2
    DEF Handle, Begin, AlreadyEstablished, ReconnectNotImplemented, CreateClient,
        SaveClient, ConnectionOpenInit, ConnectionOpenTry, ConnectionOpenAck,
        ConnectionOpenConfirm, ChannelOpenInit, ChannelOpenTry, ChannelOpenAck,
        ChannelOpenConfirm, BuildSigned, Broadcast, CheckTxRefuses, Refused, Busy,
        NotifyEstablished, Build, WriteEnd, SignAndIncrement, Abort, dbVars
  <2>3. ASSUME NEW r \in Calls,
               Deliver(r) \/ DeliverRefused(r) \/ DropTx(r) \/ Fail(r)
        PROVE  details' = details /\ seq' = seq
    BY <2>3 DEF Deliver, DeliverRefused, Answer, DropTx, Fail, Abort, dbVars
  <2>. QED  BY <2>2, <2>3 DEF Next, Terminated, vars, dbVars
<1>. QED  BY <1>1, ConnectInvariant, PTL DEF Spec, DetailsNeverReplaced
=============================================================================
