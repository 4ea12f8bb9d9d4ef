------------------------------ MODULE Connect ------------------------------
(***************************************************************************)
(* Connecting the solo machine with an IBC enabled chain: concurrent calls *)
(* of IbcService::connect (solo-machine-core/src/service/ibc_service.rs).  *)
(*                                                                         *)
(* One call creates a light client on each side and walks a connection and *)
(* a channel through the ICS-3 and ICS-4 handshakes.  The solo machine's   *)
(* half of it is rows of its database, written in a single transaction     *)
(* that stays open over the whole handshake; the other half is on the      *)
(* chain, where every step is final.  Two steps need a proof, signed at    *)
(* the sequence of the solo machine, which they then increment.            *)
(*                                                                         *)
(* A call creates at most one client, connection and channel on each side  *)
(* (with random identifiers on the solo machine's), so they are named by   *)
(* the call that created them.                                             *)
(***************************************************************************)
EXTENDS Naturals, FiniteSets

CONSTANTS
  Calls,      \* the calls of connect
  Forced,     \* those with the argument `force`
  MaxActive,  \* how many of them run at the same time
  InitSeq,    \* chains.sequence before the first of them
  Backends,   \* the builds looked at: a subset of {"sqlite", "postgres"}
  MayFail,    \* TRUE: calls may be cut off and transactions get lost
  MayRefuse,  \* TRUE: the chain may refuse messages for other reasons
  None        \* no call

ASSUME SeqAssumption == InitSeq \in Nat
ASSUME CallsAssumption == None \notin Calls /\ Forced \subseteq Calls
ASSUME EnvironmentAssumption ==
  /\ Backends \subseteq {"sqlite", "postgres"}
  /\ MayFail \in BOOLEAN /\ MayRefuse \in BOOLEAN

VARIABLES
  backend,   \* the database, a cargo feature of the build
  seq,       \* committed chains.sequence
  details,   \* committed chains.connection_details: the call they are of
  saved,     \* committed connection and channel ends in ibc_data
  lock,      \* call whose transaction holds the write lock, or None
  workSeq,   \* chains.sequence as the holder of the lock sees it
  local,     \* connection and channel end in the transaction of each call
  pc,        \* where each call is
  loc,       \* sequence in the handler's local variable `chain`
  msg,       \* the message each call is waiting for the chain to execute
  out,       \* what each call returned
  announced, \* calls that have sent the event ConnectionEstablished
  mempool,   \* calls whose message waits for inclusion in a block
  nonce,     \* account sequence of the signer on the chain
  cSeq,      \* sequence of the light client each call created, 0 for none
  conn,      \* state of the connection end each call created on the chain
  chan       \* state of the channel end each call created on the chain

dbVars == <<backend, seq, details, saved, lock, workSeq, local>>
callVars == <<pc, loc, msg, out, announced>>
endVars == <<cSeq, conn, chan>>
vars == <<dbVars, callVars, mempool, nonce, endVars>>

EndStates == {"none", "INIT", "TRYOPEN", "OPEN"}
NoEnds == [conn |-> "none", chan |-> "none"]

\* The handler's program: what it does after each answer of the chain.
AfterAnswer ==
  [createClient |-> "saveClient", connInit |-> "connTry",
   connAck |-> "connConfirm", chanInit |-> "chanTry", chanAck |-> "chanConfirm"]

NoMsg == [kind |-> "none", seq |-> 0, end |-> "none", nonce |-> 0]
Msg == [kind : DOMAIN AfterAnswer \cup {"none"}, seq : Nat, end : EndStates,
        nonce : Nat]
Labels ==
  {"idle", "begun", "createClient", "saveClient", "connInit", "connTry",
   "connAck", "connConfirm", "chanInit", "chanTry", "chanAck", "chanConfirm",
   "signed", "built", "waiting", "refused", "notify", "commit", "done"}

-----------------------------------------------------------------------------
Goto(r, label) == pc' = [pc EXCEPT ![r] = label]

\* The call returns; what its transaction has written is rolled back.
Abort(r, result) ==
  /\ Goto(r, "done")
  /\ out' = [out EXCEPT ![r] = result]
  /\ local' = [local EXCEPT ![r] = NoEnds]
  /\ lock' = IF lock = r THEN None ELSE lock
  /\ UNCHANGED <<backend, seq, details, saved, workSeq, loc, msg, announced,
                 mempool, nonce, endVars>>

Active == {r \in Calls : pc[r] \notin {"idle", "done"}}

\* Writes to ibc_data lock the database on SQLite, only new rows on Postgres.
\* A transaction on SQLite (in WAL mode) writes only if what it has read is
\* the newest: it has read that there are no details, and details are what
\* every commit brings.
CanInsert(r) == backend = "sqlite" => lock = None /\ details = None
LockByInsert(r) == lock' = IF backend = "sqlite" THEN r ELSE lock

\* The first insert of the transaction takes the lock, and with it a copy of
\* the row; so does the first update of the row on Postgres.
CopyRow(r) == workSeq' = IF lock' = r /\ lock # r THEN seq ELSE workSeq

Init ==
  /\ backend \in Backends
  /\ seq = InitSeq /\ details = None
  /\ saved = [r \in Calls |-> NoEnds]
  /\ lock = None /\ workSeq = InitSeq
  /\ local = [r \in Calls |-> NoEnds]
  /\ pc = [r \in Calls |-> "idle"]
  /\ loc = [r \in Calls |-> InitSeq]
  /\ msg = [r \in Calls |-> NoMsg]
  /\ out = [r \in Calls |-> "none"]
  /\ announced = {} /\ mempool = {} /\ nonce = 0
  /\ cSeq = [r \in Calls |-> 0]
  /\ conn = [r \in Calls |-> "none"] /\ chan = [r \in Calls |-> "none"]

\* The transaction begins and reads the chain.
Begin(r) ==
  /\ pc[r] = "idle" /\ Cardinality(Active) < MaxActive
  /\ loc' = [loc EXCEPT ![r] = seq]
  /\ Goto(r, IF details = None THEN "createClient" ELSE "begun")
  /\ UNCHANGED <<dbVars, msg, out, announced, mempool, nonce, endVars>>

\* Details are there, and the channel they name is not closed.
AlreadyEstablished(r) ==
  /\ pc[r] = "begun" /\ r \notin Forced
  /\ Abort(r, "err")

\* With force, or when the channel is closed, the handler runs into todo!().
ReconnectNotImplemented(r) ==
  /\ pc[r] = "begun" /\ r \in Forced
  /\ Abort(r, "panic")

\* Message k is built for the chain, at the account sequence of the last
\* block; a proof in it names sequence n and attests state e of an end in the
\* database of the solo machine.
Build(r, k, n, e) ==
  /\ msg' = [msg EXCEPT ![r] = [kind |-> k, seq |-> n, end |-> e, nonce |-> nonce]]
  /\ Goto(r, "built")
  /\ UNCHANGED <<dbVars, loc, out, announced, mempool, nonce, endVars>>

\* CheckTx: the account sequence must be the next one; all calls are signed
\* with one account.
CheckTxOk(r) == msg[r].nonce = nonce /\ mempool = {}

\* broadcast_tx_commit: the message enters the mempool, or check_tx refuses.
Broadcast(r) ==
  /\ pc[r] = "built" /\ CheckTxOk(r)
  /\ mempool' = mempool \cup {r}
  /\ Goto(r, "waiting")
  /\ UNCHANGED <<dbVars, loc, msg, out, announced, nonce, endVars>>

CheckTxRefuses(r) ==
  /\ pc[r] = "built" /\ ~CheckTxOk(r)
  /\ Goto(r, "refused")
  /\ UNCHANGED <<dbVars, loc, msg, out, announced, mempool, nonce, endVars>>

\* The client state on the chain starts at the sequence read at the beginning.
CreateClient(r) ==
  pc[r] = "createClient" /\ Build(r, "createClient", loc[r], "none")

\* create_tendermint_client: the first write of the transaction.
SaveClient(r) ==
  /\ pc[r] = "saveClient" /\ CanInsert(r)
  /\ LockByInsert(r) /\ CopyRow(r)
  /\ Goto(r, "connInit")
  /\ UNCHANGED <<backend, seq, details, saved, local, loc, msg, out, announced,
                 mempool, nonce, endVars>>

ConnectionOpenInit(r) == pc[r] = "connInit" /\ Build(r, "connInit", 0, "none")

\* The handler writes state e of its own connection or channel end.
WriteEnd(r, end, e, label) ==
  /\ local' = [local EXCEPT ![r][end] = e]
  /\ Goto(r, label)
  /\ UNCHANGED <<backend, seq, details, saved, lock, workSeq, loc, msg, out,
                 announced, mempool, nonce, endVars>>

\* Mutant of ConnectionOpenTry: a state that connection ends do not have.
ConnectionOpenTryClosed(r) ==
  pc[r] = "connTry" /\ WriteEnd(r, "conn", "CLOSED", "connAck")

\* connection_open_try writes the end the chain's proof check will look for.
ConnectionOpenTry(r) ==
  pc[r] = "connTry" /\ WriteEnd(r, "conn", "TRYOPEN", "connAck")

\* Mutant of SignAndIncrement: counts locally instead of reading the row back.
SignAndIncrementLocally(r, k, end) ==
  /\ lock \in {None, r}
  /\ lock' = r
  /\ workSeq' = (IF lock = r THEN workSeq ELSE seq) + 1
  /\ msg' = [msg EXCEPT ![r] =
       [kind |-> k, seq |-> loc[r], end |-> local[r][end], nonce |-> 0]]
  /\ loc' = [loc EXCEPT ![r] = @ + 1]
  /\ Goto(r, "signed")
  /\ UNCHANGED <<backend, seq, details, saved, local, out, announced, mempool,
                 nonce, endVars>>

\* Mutant of SignAndIncrement: the local chain is not replaced by the new row.
SignAndForget(r, k, end) ==
  /\ lock \in {None, r}
  /\ lock' = r
  /\ workSeq' = (IF lock = r THEN workSeq ELSE seq) + 1
  /\ msg' = [msg EXCEPT ![r] =
       [kind |-> k, seq |-> loc[r], end |-> local[r][end], nonce |-> 0]]
  /\ loc' = loc
  /\ Goto(r, "signed")
  /\ UNCHANGED <<backend, seq, details, saved, local, out, announced, mempool,
                 nonce, endVars>>

\* The end is signed at the local sequence, then the row is incremented, for
\* which Postgres takes the lock, and read back into the local variable.
\* (An increment that overflows u32 is one of the failing awaits of Fail.)
SignAndIncrement(r, k, end) ==
  /\ lock \in {None, r}
  /\ lock' = r
  /\ workSeq' = (IF lock = r THEN workSeq ELSE seq) + 1
  /\ msg' = [msg EXCEPT ![r] =
       [kind |-> k, seq |-> loc[r], end |-> local[r][end], nonce |-> 0]]
  /\ loc' = [loc EXCEPT ![r] = workSeq']
  /\ Goto(r, "signed")
  /\ UNCHANGED <<backend, seq, details, saved, local, out, announced, mempool,
                 nonce, endVars>>

ConnectionOpenAck(r) ==
  pc[r] = "connAck" /\ SignAndIncrement(r, "connAck", "conn")

ChannelOpenAck(r) ==
  pc[r] = "chanAck" /\ SignAndIncrement(r, "chanAck", "chan")

\* Only then is the message with the proof built.
BuildSigned(r) ==
  /\ pc[r] = "signed"
  /\ Build(r, msg[r].kind, msg[r].seq, msg[r].end)

ConnectionOpenConfirm(r) ==
  pc[r] = "connConfirm" /\ WriteEnd(r, "conn", "OPEN", "chanInit")

ChannelOpenInit(r) == pc[r] = "chanInit" /\ Build(r, "chanInit", 0, "none")

ChannelOpenTry(r) ==
  pc[r] = "chanTry" /\ WriteEnd(r, "chan", "TRYOPEN", "chanAck")

ChannelOpenConfirm(r) ==
  pc[r] = "chanConfirm" /\ WriteEnd(r, "chan", "OPEN", "notify")

\* add_connection_details, still in the transaction, and the event.
NotifyEstablished(r) ==
  /\ pc[r] = "notify"
  /\ announced' = announced \cup {r}
  /\ Goto(r, "commit")
  /\ UNCHANGED <<dbVars, loc, msg, out, mempool, nonce, endVars>>

Commit(r) ==
  /\ pc[r] = "commit"
  /\ seq' = workSeq /\ details' = r /\ lock' = None
  /\ saved' = [saved EXCEPT ![r] = local[r]]
  /\ out' = [out EXCEPT ![r] = "ok"]
  /\ Goto(r, "done")
  /\ UNCHANGED <<backend, workSeq, local, loc, msg, announced, mempool, nonce,
                 endVars>>

\* SQLite gives up at once: the transaction has read, and it cannot become a
\* writer since another one is, or has committed in the meantime.
Busy(r) ==
  /\ pc[r] = "saveClient" /\ ~CanInsert(r)
  /\ Abort(r, "err")

\* Any await fails, from the begin of the transaction on, or the call is
\* dropped; the mempool keeps its message.
Fail(r) ==
  /\ MayFail /\ pc[r] # "done"
  /\ Abort(r, "err")

\* Mutant of Refused: the answer is not checked.
RefusedIgnored(r) ==
  /\ pc[r] = "refused" /\ Goto(r, AfterAnswer[msg[r].kind])
  /\ UNCHANGED <<dbVars, loc, msg, out, announced, mempool, nonce, endVars>>

\* Mutant of Refused: the handler looks again instead of returning.
RefusedWaits(r) == pc[r] = "refused" /\ UNCHANGED vars

\* ensure_response_success fails.
Refused(r) == pc[r] = "refused" /\ Abort(r, "err")

-----------------------------------------------------------------------------
(* The chain.                                                              *)

\* Is the message of r valid on the chain?
Valid(r) ==
  LET m == msg[r]
      proof == m.seq = cSeq[r] /\ m.end = "TRYOPEN"
  IN CASE m.kind = "connAck" -> conn[r] = "INIT" /\ proof
       [] m.kind = "chanAck" -> chan[r] = "INIT" /\ conn[r] = "OPEN" /\ proof
       [] OTHER -> TRUE

Answer(r, label) ==
  /\ r \in mempool
  /\ mempool' = mempool \ {r} /\ nonce' = nonce + 1
  /\ pc' = IF pc[r] = "waiting" THEN [pc EXCEPT ![r] = label] ELSE pc
  /\ UNCHANGED <<dbVars, loc, msg, out, announced>>

\* The message is executed, and a proof in it moves the light client on.
Deliver(r) ==
  /\ Valid(r)
  /\ LET k == msg[r].kind
     IN /\ Answer(r, AfterAnswer[k])
        /\ cSeq' = CASE k = "createClient" -> [cSeq EXCEPT ![r] = msg[r].seq]
                     [] k \in {"connAck", "chanAck"} -> [cSeq EXCEPT ![r] = @ + 1]
                     [] OTHER -> cSeq
        /\ conn' = CASE k = "connInit" -> [conn EXCEPT ![r] = "INIT"]
                     [] k = "connAck" -> [conn EXCEPT ![r] = "OPEN"]
                     [] OTHER -> conn
        /\ chan' = CASE k = "chanInit" -> [chan EXCEPT ![r] = "INIT"]
                     [] k = "chanAck" -> [chan EXCEPT ![r] = "OPEN"]
                     [] OTHER -> chan

DeliverRefused(r) ==
  /\ ~Valid(r) \/ MayRefuse
  /\ Answer(r, "refused")
  /\ UNCHANGED endVars

\* The transaction is evicted from the mempool and never included.
DropTx(r) ==
  /\ MayFail /\ r \in mempool
  /\ mempool' = mempool \ {r}
  /\ UNCHANGED <<dbVars, callVars, nonce, endVars>>

-----------------------------------------------------------------------------
Handle(r) ==
  \/ Begin(r) \/ AlreadyEstablished(r) \/ ReconnectNotImplemented(r)
  \/ CreateClient(r) \/ SaveClient(r)
  \/ ConnectionOpenInit(r) \/ ConnectionOpenTry(r) \/ ConnectionOpenAck(r)
  \/ ConnectionOpenConfirm(r)
  \/ ChannelOpenInit(r) \/ ChannelOpenTry(r) \/ ChannelOpenAck(r)
  \/ ChannelOpenConfirm(r)
  \/ BuildSigned(r) \/ Broadcast(r) \/ CheckTxRefuses(r)
  \/ Refused(r) \/ Busy(r) \/ NotifyEstablished(r) \/ Commit(r)

\* Every call has returned and no message is left on its way.
Terminated ==
  /\ \A r \in Calls : pc[r] = "done"
  /\ mempool = {}
  /\ UNCHANGED vars

Next ==
  \/ \E r \in Calls :
       Handle(r) \/ Deliver(r) \/ DeliverRefused(r) \/ DropTx(r) \/ Fail(r)
  \/ Terminated

Spec == Init /\ [][Next]_vars

\* The executor polls every handler, and the chain makes blocks.
Fairness ==
  \A r \in Calls :
    WF_vars(Handle(r)) /\ WF_vars(Deliver(r) \/ DeliverRefused(r))
FairSpec == Spec /\ Fairness

-----------------------------------------------------------------------------
(* Properties.                                                             *)

\* Every variable keeps its type.
TypeOK ==
  /\ backend \in Backends
  /\ seq \in Nat /\ workSeq \in Nat
  /\ details \in Calls \cup {None} /\ lock \in Calls \cup {None}
  /\ saved \in [Calls -> [conn : EndStates, chan : EndStates]]
  /\ local \in [Calls -> [conn : EndStates, chan : EndStates]]
  /\ pc \in [Calls -> Labels] /\ loc \in [Calls -> Nat]
  /\ msg \in [Calls -> Msg]
  /\ out \in [Calls -> {"none", "ok", "err", "panic"}]
  /\ announced \subseteq Calls /\ mempool \subseteq Calls
  /\ nonce \in Nat
  /\ cSeq \in [Calls -> Nat]
  /\ conn \in [Calls -> EndStates] /\ chan \in [Calls -> EndStates]

\* The details in the database name a connection and a channel that are open
\* on both sides, and a light client that waits for exactly the sequence in
\* the row: the first mint after connect will be accepted.
HandshakeAgreement ==
  details # None =>
    /\ conn[details] = "OPEN" /\ chan[details] = "OPEN"
    /\ saved[details] = [conn |-> "OPEN", chan |-> "OPEN"]
    /\ cSeq[details] = seq

\* Whoever connects first stays: no other call replaces its details, and with
\* them the client whose sequence the row counts.
DetailsNeverReplaced == [][details # None => details' = details /\ seq' = seq]_vars

\* When every call has returned, one of them has connected.  (On SQLite two
\* calls can make each other fail: one holds the lock while its message is
\* refused because of the message of the other, which then finds it locked.)
SomeoneConnects ==
  backend = "postgres" /\ (\A r \in Calls : pc[r] = "done") => details # None

\* Every call returns.
EveryCallReturns == \A r \in Calls : pc[r] # "idle" ~> pc[r] = "done"

\* The event "Connection successfully established" (event.rs:121) is sent for
\* connections that are in the database once the call has returned.
EstablishedIsSaved ==
  \A r \in announced : pc[r] = "done" => details = r
=============================================================================
