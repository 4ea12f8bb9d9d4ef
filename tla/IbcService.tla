----------------------------- MODULE IbcService -----------------------------
(***************************************************************************)
(* The established phase of the solo machine: concurrent mint, burn,       *)
(* update_signer and close_channel requests of                             *)
(* solo-machine-core/src/service/ibc_service.rs, the database row that     *)
(* holds the solo machine's proof sequence, and the IBC enabled chain that *)
(* keeps its own copy of that sequence in a light client.                  *)
(*                                                                         *)
(* Every proof the solo machine signs names a sequence.  The light client  *)
(* accepts a proof only at its own sequence and then moves on by one; the  *)
(* service increments chains.sequence inside a database transaction that   *)
(* it commits after the chain answered.  Nothing but this discipline keeps *)
(* the two numbers together, and nothing in the code repairs them.         *)
(*                                                                         *)
(* A request is one call of a handler.  It runs once; a client that        *)
(* retries makes another request.                                          *)
(***************************************************************************)
EXTENDS Integers, Sequences, FiniteSets

CONSTANTS
  Requests,   \* the calls made to the service
  MaxActive,  \* how many handlers run at the same time
  Kinds,      \* which handlers are called: a subset of AllKinds
  Signers,    \* the keys requests are signed with
  Keys,       \* all public keys; a key is also an account on the chain
  InitKey,    \* the key the light client was created with
  InitSeq,    \* chains.sequence when the model starts
  InitPkt,    \* chains.packet_sequence when the model starts
  MaxU32,     \* largest value of the u32 fields of Chain
  Backend,    \* "sqlite" or "postgres", the cargo feature of the build
  MayFail,    \* TRUE: calls may be cut off and transactions get lost
  Refusable,  \* messages the chain may refuse for reasons not modelled
  MayFailAck, \* TRUE: a received packet may get an error acknowledgement
  Shared,     \* TRUE: the database file has users this module does not know
  None        \* no request

AllKinds == {"mint", "burn", "update", "close"}
Msgs == {"recv", "transfer", "ack", "header"}

ASSUME KindsAssumption == Kinds \subseteq AllKinds
ASSUME KeysAssumption == Signers \subseteq Keys /\ InitKey \in Keys
ASSUME WidthAssumption ==
  /\ InitSeq \in Nat /\ InitPkt \in Nat /\ MaxU32 \in Nat
  /\ InitSeq <= MaxU32 /\ InitPkt <= MaxU32
ASSUME BackendAssumption == Backend \in {"sqlite", "postgres"}
ASSUME EnvironmentAssumption ==
  /\ MayFail \in BOOLEAN /\ MayFailAck \in BOOLEAN /\ Shared \in BOOLEAN
  /\ Refusable \subseteq Msgs
ASSUME NoneAssumption == None \notin Requests

VARIABLES
  row,      \* committed row of `chains`: sequence, packet_sequence, channel
  keys,     \* committed rows of `chain_keys`, oldest first
  ops,      \* requests that have a row in `operations`
  lock,     \* request whose transaction holds the write lock, or None
  work,     \* `row` as the transaction that holds the lock sees it
  stale,    \* requests whose transaction has read what is no longer the newest
  pc,       \* where each request is in its handler
  job,      \* what each request asks for, and the key it is signed with
  loc,      \* the handler's local variable `chain`
  tx,       \* the last transaction the handler built
  resp,     \* the chain's answer to the handler's broadcast
  out,      \* what the handler returned
  cSeq,     \* sequence of the light client on the chain
  cKey,     \* public key of the light client on the chain
  received, \* packet sequences with a receipt on the chain
  unacked,  \* burns whose packet commitment is still on the chain
  executed, \* requests whose operation took effect on the chain
  nonce,    \* account sequence of each key on the chain
  mempool   \* requests whose transaction waits for inclusion in a block

dbVars == <<row, keys, ops, lock, work, stale>>
handlerVars == <<pc, job, loc, tx, resp, out>>
clientVars == <<cSeq, cKey, received, unacked, executed>>
chainVars == <<clientVars, nonce, mempool>>
vars == <<dbVars, handlerVars, chainVars>>

Row == [seq : 0 .. MaxU32, pkt : 0 .. MaxU32, channel : {"none", "open", "closed"}]
Jobs == [kind : Kinds, signer : Signers, newKey : Keys]
Tx == [msg : Msgs \cup {"none"}, seq : Nat, pkt : Nat, nonce : Nat]

-----------------------------------------------------------------------------
(* Database.                                                               *)

\* Transactions that have read and not yet written.
Readers ==
  {r \in Requests : pc[r] = "read" /\ job[r].kind \in {"update", "close"}}

\* The file that `init` creates is in WAL mode: a commit does not wait for
\* readers, but they stay with the snapshot they have begun with.
Overtaken == IF Backend = "sqlite" THEN stale \cup Readers ELSE stale

\* A transaction writes with the row lock (Postgres) or the lock of the whole
\* file (SQLite), and on SQLite only if its snapshot is the newest one.
CanWrite(r) == lock = None /\ r \notin stale

\* A statement on the pool, outside any transaction, that writes one row.
CanWriteOnPool == Backend = "sqlite" => lock = None

IncrementSequence(c) == [c EXCEPT !.seq = @ + 1]
IncrementPacketSequence(c) == [c EXCEPT !.pkt = @ + 1]

\* The incremented row no longer converts to the u32 fields of Chain.
SequenceOverflow(c) == c.seq + 1 > MaxU32
PacketOverflow(c) == c.pkt + 1 > MaxU32

KnownKeys == {keys[i] : i \in 1 .. Len(keys)}

-----------------------------------------------------------------------------
(* Handlers.                                                               *)

\* Details are there and, where the handler looks, so are the channel ids.
Usable(k, c) == IF k = "update" THEN c.channel # "none" ELSE c.channel = "open"

\* The handler of r returns.  A transaction it still holds is rolled back.
Finish(r, result) ==
  /\ pc' = [pc EXCEPT ![r] = "done"]
  /\ out' = [out EXCEPT ![r] = result]
  /\ lock' = IF lock = r THEN None ELSE lock
  /\ stale' = stale \ {r}

\* process_packets runs after the transfer of a burn; its errors are warnings.
InProcessPackets(r) == pc[r] = "acking" \/ tx[r].msg = "ack"

Failure(r) == IF InProcessPackets(r) THEN "warn" ELSE "err"

Goto(r, label) == pc' = [pc EXCEPT ![r] = label]

\* Mutant of Signed: asks the chain for the sequence instead of the database.
SignedAtClientSequence(r, m) ==
  [msg |-> m, seq |-> cSeq, pkt |-> loc[r].pkt, nonce |-> 0]

\* r signs message m with the sequences in its local chain, not in the row.
Signed(r, m) == [msg |-> m, seq |-> loc[r].seq, pkt |-> loc[r].pkt, nonce |-> 0]

\* r takes the write lock, updates the row to image and has message m signed.
Prepare(r, image, m) ==
  /\ lock' = r
  /\ work' = image
  /\ tx' = [tx EXCEPT ![r] = Signed(r, m)]
  /\ Goto(r, "prepared")
  /\ UNCHANGED <<row, keys, ops, stale, job, loc, resp, out, chainVars>>

Active == {r \in Requests : pc[r] \notin {"idle", "done"}}

Init ==
  /\ row \in [seq : {InitSeq}, pkt : {InitPkt}, channel : {"none", "open"}]
  /\ keys = <<InitKey>> /\ ops = {} /\ lock = None /\ work = row /\ stale = {}
  /\ job \in [Requests -> Jobs]
  /\ \A r \in Requests : job[r].kind # "update" => job[r].newKey = InitKey
  /\ pc = [r \in Requests |-> "idle"]
  /\ loc = [r \in Requests |-> row]
  /\ tx = [r \in Requests |-> [msg |-> "none", seq |-> 0, pkt |-> 0, nonce |-> 0]]
  /\ resp = [r \in Requests |-> "none"]
  /\ out = [r \in Requests |-> "none"]
  /\ cSeq = InitSeq /\ cKey = InitKey
  /\ received = {} /\ unacked = {} /\ executed = {}
  /\ nonce = [k \in Keys |-> 0] /\ mempool = {}

\* The handler starts and reads the chain: mint and burn on the pool, the
\* other two inside the transaction they have just begun.
Receive(r) ==
  /\ pc[r] = "idle" /\ Cardinality(Active) < MaxActive
  /\ Goto(r, "read")
  /\ loc' = [loc EXCEPT ![r] = row]
  /\ UNCHANGED <<dbVars, job, tx, resp, out, chainVars>>

\* No connection with the chain: every handler bails out.
NotConnected(r) ==
  /\ pc[r] = "read" /\ ~Usable(job[r].kind, loc[r])
  /\ Finish(r, "err")
  /\ UNCHANGED <<row, keys, ops, work, job, loc, tx, resp, chainVars>>

\* Mutant of Busy: every statement waits until it can run, as long as it takes.
BusyWaits(r) ==
  /\ Backend = "sqlite" /\ (lock \notin {None, r} \/ r \in stale)
  /\ pc[r] \in {"read", "committed", "acking"}
  /\ UNCHANGED vars

\* SQLite gives up ("database is locked"): a statement that waits for the
\* lock does so after its busy timeout, a transaction that has already read
\* does so at once, because of the lock or of its stale snapshot.
Busy(r) ==
  /\ Backend = "sqlite"
  /\ \/ /\ Shared \/ lock \notin {None, r}
        /\ \/ pc[r] = "read" /\ job[r].kind # "burn"
           \/ pc[r] \in {"committed", "acking"}
     \/ pc[r] = "read" /\ r \in stale
  /\ Finish(r, Failure(r))
  /\ UNCHANGED <<row, keys, ops, work, job, loc, tx, resp, chainVars>>

\* increment_sequence or increment_packet_sequence returns a row that does
\* not fit into u32: the error rolls the transaction back.
Overflow(r) ==
  /\ CanWrite(r)
  /\ \/ /\ pc[r] = "read" /\ Usable(job[r].kind, loc[r])
        /\ \/ job[r].kind \in {"mint", "update"} /\ SequenceOverflow(row)
           \/ job[r].kind = "mint" /\ PacketOverflow(row)
     \/ pc[r] = "acking" /\ SequenceOverflow(row)
  /\ Finish(r, Failure(r))
  /\ UNCHANGED <<row, keys, ops, work, job, loc, tx, resp, chainVars>>

\* Mutant of MintPrepare: the row is not converted to u32.
MintPrepareUnchecked(r) ==
  /\ pc[r] = "read" /\ job[r].kind = "mint" /\ Usable("mint", loc[r])
  /\ CanWrite(r)
  /\ Prepare(r, IncrementPacketSequence(IncrementSequence(row)), "recv")

\* mint signs the packet commitment with the sequences it read outside the
\* transaction and then increments both of them.
MintPrepare(r) ==
  /\ pc[r] = "read" /\ job[r].kind = "mint" /\ Usable("mint", loc[r])
  /\ CanWrite(r) /\ ~SequenceOverflow(row) /\ ~PacketOverflow(row)
  /\ Prepare(r, IncrementPacketSequence(IncrementSequence(row)), "recv")

\* burn needs no proof, only the sequence for the timeout of the packet.
BurnPrepare(r) ==
  /\ pc[r] = "read" /\ job[r].kind = "burn" /\ Usable("burn", loc[r])
  /\ tx' = [tx EXCEPT ![r] = Signed(r, "transfer")]
  /\ Goto(r, "prepared")
  /\ UNCHANGED <<dbVars, job, loc, resp, out, chainVars>>

\* chain_keys is UNIQUE (chain_id, public_key): a key cannot come back.
DuplicateKey(r) ==
  /\ pc[r] = "read" /\ job[r].kind = "update"
  /\ Backend = "sqlite" => CanWrite(r)
  /\ job[r].newKey \in KnownKeys
  /\ Finish(r, "err")
  /\ UNCHANGED <<row, keys, ops, work, job, loc, tx, resp, chainVars>>

\* update_signer inserts the new key, signs the header and increments.
UpdatePrepare(r) ==
  /\ pc[r] = "read" /\ job[r].kind = "update" /\ Usable("update", loc[r])
  /\ CanWrite(r) /\ job[r].newKey \notin KnownKeys /\ ~SequenceOverflow(row)
  /\ Prepare(r, IncrementSequence(row), "header")

\* close_channel first stores the connection details without channel ids ...
CloseWrite(r) ==
  /\ pc[r] = "read" /\ job[r].kind = "close" /\ Usable("close", loc[r])
  /\ CanWrite(r)
  /\ lock' = r
  /\ work' = [row EXCEPT !.channel = "closed"]
  /\ Goto(r, "closing")
  /\ UNCHANGED <<row, keys, ops, stale, job, loc, tx, resp, out, chainVars>>

\* ... and then channel_close_init reads the row again, in the same
\* transaction, and bails out because the channel id is gone.  What would
\* follow (MsgChannelCloseInit and the commit) needs work.channel = "open".
CloseReread(r) ==
  /\ pc[r] = "closing" /\ work.channel # "open"
  /\ Finish(r, "err")
  /\ UNCHANGED <<row, keys, ops, work, job, loc, tx, resp, chainVars>>

\* The transaction is wrapped for the signer's account at the account
\* sequence of the last block.
Build(r) ==
  /\ pc[r] = "prepared"
  /\ tx' = [tx EXCEPT ![r].nonce = nonce[job[r].signer]]
  /\ Goto(r, "built")
  /\ UNCHANGED <<dbVars, job, loc, resp, out, chainVars>>

-----------------------------------------------------------------------------
(* The chain (ibc-go and the SDK), as the handlers use it.                 *)

\* CheckTx: the account sequence must be the next one, counting transactions
\* of the same account that wait in the mempool.
CheckTxOk(r) ==
  /\ tx[r].nonce = nonce[job[r].signer]
  /\ \A q \in mempool : job[q].signer # job[r].signer

\* broadcast_tx_commit: the transaction enters the mempool ...
Broadcast(r) ==
  /\ pc[r] = "built" /\ CheckTxOk(r)
  /\ mempool' = mempool \cup {r}
  /\ Goto(r, "sent")
  /\ UNCHANGED <<dbVars, job, loc, tx, resp, out, clientVars, nonce>>

\* ... or check_tx answers with an error code.
CheckTxRefuses(r) ==
  /\ pc[r] = "built" /\ ~CheckTxOk(r)
  /\ resp' = [resp EXCEPT ![r] = "refused"]
  /\ Goto(r, "answered")
  /\ UNCHANGED <<dbVars, job, loc, tx, out, chainVars>>

\* The block with r's transaction is committed and the handler, if it still
\* waits, gets answer a.
Include(r, a) ==
  /\ r \in mempool
  /\ mempool' = mempool \ {r}
  /\ nonce' = [nonce EXCEPT ![job[r].signer] = @ + 1]
  /\ resp' = IF pc[r] = "sent" THEN [resp EXCEPT ![r] = a] ELSE resp
  /\ pc' = IF pc[r] = "sent" THEN [pc EXCEPT ![r] = "answered"] ELSE pc
  /\ UNCHANGED <<dbVars, job, loc, tx, out>>

\* The light client verifies a proof: its sequence and its key.
ProofOk(r) == tx[r].seq = cSeq /\ job[r].signer = cKey

\* MsgTransfer: the timeout height (0, seq + 1) must be ahead of the client.
TimeoutAhead(r) == tx[r].seq + 1 > cSeq

Acceptable(r) == IF tx[r].msg = "transfer" THEN TimeoutAhead(r) ELSE ProofOk(r)

\* MsgRecvPacket of a packet that has no receipt: the tokens are minted, or
\* the transfer application answers with an error acknowledgement.
DeliverRecv(r) ==
  /\ tx[r].msg = "recv" /\ Acceptable(r) /\ tx[r].pkt \notin received
  /\ cSeq' = cSeq + 1
  /\ received' = received \cup {tx[r].pkt}
  /\ \/ executed' = executed \cup {r} /\ Include(r, "ok")
     \/ MayFailAck /\ executed' = executed /\ Include(r, "failack")
  /\ UNCHANGED <<cKey, unacked>>

\* MsgRecvPacket of a packet that has a receipt: a no-op with code 0 whose
\* state changes, the client's included, are dropped.
DeliverDuplicate(r) ==
  /\ tx[r].msg = "recv" /\ Acceptable(r) /\ tx[r].pkt \in received
  /\ Include(r, "noop")
  /\ UNCHANGED clientVars

DeliverTransfer(r) ==
  /\ tx[r].msg = "transfer" /\ Acceptable(r)
  /\ executed' = executed \cup {r} /\ unacked' = unacked \cup {r}
  /\ Include(r, "ok")
  /\ UNCHANGED <<cSeq, cKey, received>>

DeliverAck(r) ==
  /\ tx[r].msg = "ack" /\ Acceptable(r)
  /\ cSeq' = cSeq + 1 /\ unacked' = unacked \ {r}
  /\ Include(r, "ok")
  /\ UNCHANGED <<cKey, received, executed>>

DeliverHeader(r) ==
  /\ tx[r].msg = "header" /\ Acceptable(r)
  /\ cSeq' = cSeq + 1 /\ cKey' = job[r].newKey
  /\ executed' = executed \cup {r}
  /\ Include(r, "ok")
  /\ UNCHANGED <<received, unacked>>

\* deliver_tx answers with an error code; only the fee is paid.
DeliverRefused(r) ==
  /\ ~Acceptable(r) \/ tx[r].msg \in Refusable
  /\ Include(r, "refused")
  /\ UNCHANGED clientVars

\* The transaction is evicted from the mempool and never included.
DropTx(r) ==
  /\ MayFail /\ r \in mempool
  /\ mempool' = mempool \ {r}
  /\ UNCHANGED <<dbVars, handlerVars, clientVars, nonce>>

-----------------------------------------------------------------------------
(* Handlers, after the chain has answered.                                 *)

\* Mutant of Refused: the handler keeps its transaction and looks again.
RefusedWaits(r) ==
  /\ pc[r] = "answered" /\ resp[r] = "refused" /\ tx[r].msg # "ack"
  /\ UNCHANGED vars

\* ensure_response_success fails: the transaction is dropped.
Refused(r) ==
  /\ pc[r] = "answered" /\ resp[r] = "refused" /\ tx[r].msg # "ack"
  /\ Finish(r, "err")
  /\ UNCHANGED <<row, keys, ops, work, job, loc, tx, resp, chainVars>>

\* The database transaction of r commits.
Commit == row' = work /\ lock' = None /\ stale' = Overtaken

\* Mutant of MintCommit: commits before ensure_response_success.
MintCommitUnchecked(r) ==
  /\ pc[r] = "answered" /\ tx[r].msg = "recv"
  /\ Commit
  /\ IF resp[r] = "ok"
     THEN Goto(r, "committed") /\ out' = out
     ELSE Goto(r, "done") /\ out' = [out EXCEPT ![r] = "err"]
  /\ UNCHANGED <<keys, ops, work, job, loc, tx, resp, chainVars>>

\* Mutant of MintCommit: does not look for the "success" attribute.
MintCommitAnyAck(r) ==
  /\ pc[r] = "answered" /\ tx[r].msg = "recv" /\ resp[r] # "refused"
  /\ Commit
  /\ Goto(r, "committed")
  /\ UNCHANGED <<keys, ops, work, job, loc, tx, resp, out, chainVars>>

\* Mutant of MintCommit: skips add_operation.
MintCommitUnrecorded(r) ==
  /\ pc[r] = "answered" /\ tx[r].msg = "recv" /\ resp[r] # "refused"
  /\ Commit
  /\ IF resp[r] = "ok"
     THEN Goto(r, "recorded") /\ out' = out
     ELSE Goto(r, "done") /\ out' = [out EXCEPT ![r] = "err"]
  /\ UNCHANGED <<keys, ops, work, job, loc, tx, resp, chainVars>>

\* Mutant of MintCommit: the branches of the "success" attribute swapped.
MintCommitSwapped(r) ==
  /\ pc[r] = "answered" /\ tx[r].msg = "recv" /\ resp[r] # "refused"
  /\ Commit
  /\ IF resp[r] # "ok"
     THEN Goto(r, "committed") /\ out' = out
     ELSE Goto(r, "done") /\ out' = [out EXCEPT ![r] = "err"]
  /\ UNCHANGED <<keys, ops, work, job, loc, tx, resp, chainVars>>

\* Mutant of MintCommit: add_operation comes before the commit, still on the
\* pool, and on SQLite waits in vain for the lock of its own handler.
MintRecordsFirst(r) ==
  /\ pc[r] = "answered" /\ tx[r].msg = "recv" /\ resp[r] # "refused"
  /\ Finish(r, "err")
  /\ UNCHANGED <<row, keys, ops, work, job, loc, tx, resp, chainVars>>

\* mint commits on any code 0 and then looks for the "success" attribute,
\* which a no-op does not have and an error acknowledgement has as "false".
MintCommit(r) ==
  /\ pc[r] = "answered" /\ tx[r].msg = "recv" /\ resp[r] # "refused"
  /\ Commit
  /\ IF resp[r] = "ok"
     THEN Goto(r, "committed") /\ out' = out
     ELSE Goto(r, "done") /\ out' = [out EXCEPT ![r] = "err"]
  /\ UNCHANGED <<keys, ops, work, job, loc, tx, resp, chainVars>>

\* burn has no database transaction of its own to commit.
BurnAccepted(r) ==
  /\ pc[r] = "answered" /\ tx[r].msg = "transfer" /\ resp[r] = "ok"
  /\ Goto(r, "committed")
  /\ UNCHANGED <<dbVars, job, loc, tx, resp, out, chainVars>>

\* Mutant of UpdateCommit: stores the key before checking the answer.
UpdateCommitUnchecked(r) ==
  /\ pc[r] = "answered" /\ tx[r].msg = "header"
  /\ Commit
  /\ keys' = Append(keys, job[r].newKey)
  /\ Goto(r, "recorded")
  /\ UNCHANGED <<ops, work, job, loc, tx, resp, out, chainVars>>

\* update_signer commits the new key and the increment together.
UpdateCommit(r) ==
  /\ pc[r] = "answered" /\ tx[r].msg = "header" /\ resp[r] = "ok"
  /\ Commit
  /\ keys' = Append(keys, job[r].newKey)
  /\ Goto(r, "recorded")
  /\ UNCHANGED <<ops, work, job, loc, tx, resp, out, chainVars>>

\* add_operation, on the pool.
RecordOperation(r) ==
  /\ pc[r] = "committed" /\ CanWriteOnPool
  /\ ops' = ops \cup {r} /\ stale' = Overtaken
  /\ Goto(r, "recorded")
  /\ UNCHANGED <<row, keys, lock, work, job, loc, tx, resp, out, chainVars>>

\* notify_event; mint and update_signer then return Ok, burn goes on with
\* process_packets.
Notify(r) ==
  /\ pc[r] = "recorded"
  /\ IF job[r].kind = "burn"
     THEN Goto(r, "acking") /\ out' = out
     ELSE Goto(r, "done") /\ out' = [out EXCEPT ![r] = "ok"]
  /\ UNCHANGED <<dbVars, job, loc, tx, resp, chainVars>>

\* Mutant of AckPrepare: does not increment the sequence.
AckPrepareWithoutIncrement(r) ==
  /\ pc[r] = "acking" /\ CanWrite(r) /\ ~SequenceOverflow(row)
  /\ Prepare(r, row, "ack")

\* process_packets signs the acknowledgement with the sequence that burn
\* read before the transfer and increments the one in the row.
AckPrepare(r) ==
  /\ pc[r] = "acking" /\ CanWrite(r) /\ ~SequenceOverflow(row)
  /\ Prepare(r, IncrementSequence(row), "ack")

\* Mutant of AckCommit: does not check the answer at all.
AckCommitUnchecked(r) ==
  /\ pc[r] = "answered" /\ tx[r].msg = "ack"
  /\ Commit
  /\ Goto(r, "done")
  /\ out' = [out EXCEPT ![r] = "ok"]
  /\ UNCHANGED <<keys, ops, work, job, loc, tx, resp, chainVars>>

\* process_packets commits whatever the answer is and checks it afterwards;
\* a bad answer is only a warning.
AckCommit(r) ==
  /\ pc[r] = "answered" /\ tx[r].msg = "ack"
  /\ Commit
  /\ Goto(r, "done")
  /\ out' = [out EXCEPT ![r] = IF resp[r] = "refused" THEN "warn" ELSE "ok"]
  /\ UNCHANGED <<keys, ops, work, job, loc, tx, resp, chainVars>>

\* From the broadcast on until the operation is in the database.
AtStake(r) ==
  pc[r] \in {"sent", "answered", "committed"} /\ ~InProcessPackets(r)

\* All that is left to do is to tell.
OnRecord(r) == pc[r] = "recorded" \/ InProcessPackets(r)

\* The handler is dropped ("cut"): request timeout of the server, caller
\* gone, process killed.  Or an await of it fails, which its caller sees as
\* an error whatever it was: sending the request or the query that comes
\* before it ("err"), the answer, the commit or add_operation ("unsure"), or an
\* event that nobody receives ("late"); process_packets turns its own errors
\* into warnings.  The transaction is rolled back, the mempool is not.
Fail(r) ==
  /\ MayFail /\ pc[r] \notin {"idle", "done"}
  /\ \/ Finish(r, "cut")
     \/ ~AtStake(r) /\ ~OnRecord(r) /\ Finish(r, "err")
     \/ AtStake(r) /\ Finish(r, "unsure")
     \/ OnRecord(r) /\ Finish(r, "late")
     \/ InProcessPackets(r) /\ Finish(r, "warn")
  /\ UNCHANGED <<row, keys, ops, work, job, loc, tx, resp, chainVars>>

\* Another user of the database file commits.
OthersCommit ==
  /\ Shared /\ stale' = Overtaken
  /\ UNCHANGED <<row, keys, ops, lock, work, handlerVars, chainVars>>

-----------------------------------------------------------------------------
Deliver(r) ==
  \/ DeliverRecv(r) \/ DeliverDuplicate(r) \/ DeliverTransfer(r)
  \/ DeliverAck(r) \/ DeliverHeader(r) \/ DeliverRefused(r)

Handle(r) ==
  \/ Receive(r) \/ NotConnected(r) \/ Busy(r) \/ Overflow(r)
  \/ MintPrepare(r) \/ BurnPrepare(r) \/ DuplicateKey(r) \/ UpdatePrepare(r)
  \/ CloseWrite(r) \/ CloseReread(r)
  \/ Build(r) \/ Broadcast(r) \/ CheckTxRefuses(r)
  \/ Refused(r) \/ MintCommit(r) \/ BurnAccepted(r) \/ UpdateCommit(r)
  \/ RecordOperation(r) \/ Notify(r) \/ AckPrepare(r) \/ AckCommit(r)

\* Every request has returned and no transaction is left on its way.
Terminated ==
  /\ \A r \in Requests : pc[r] = "done"
  /\ mempool = {}
  /\ UNCHANGED vars

Next ==
  \/ \E r \in Requests : Handle(r) \/ Deliver(r) \/ DropTx(r) \/ Fail(r)
  \/ OthersCommit
  \/ Terminated

Spec == Init /\ [][Next]_vars

\* The executor polls every handler, and the chain makes blocks.
Fairness == \A r \in Requests : WF_vars(Handle(r)) /\ WF_vars(Deliver(r))
FairSpec == Spec /\ Fairness
-----------------------------------------------------------------------------
(* Properties.                                                             *)

\* Every variable keeps its type; in particular the committed row always
\* converts to a Chain, or no handler could ever read it again.
TypeOK ==
  /\ row \in Row /\ keys \in Seq(Keys) /\ ops \subseteq Requests
  /\ lock \in Requests \cup {None} /\ work \in Row /\ stale \subseteq Requests
  /\ pc \in [Requests -> {"idle", "read", "closing", "prepared", "built", "sent",
                          "answered", "committed", "recorded", "acking", "done"}]
  /\ job \in [Requests -> Jobs] /\ loc \in [Requests -> Row]
  /\ tx \in [Requests -> Tx]
  /\ resp \in [Requests -> {"none", "ok", "failack", "noop", "refused"}]
  /\ out \in [Requests -> {"none", "ok", "warn", "err", "unsure", "late", "cut"}]
  /\ cSeq \in Nat /\ cKey \in Keys /\ received \subseteq Nat
  /\ unacked \subseteq Requests /\ executed \subseteq Requests
  /\ nonce \in [Keys -> Nat] /\ mempool \subseteq Requests

\* Nobody is between the chain and the database.
Quiet == lock = None /\ mempool = {}

\* Whatever fails, and whatever handlers run together, the light client is
\* at most one proof ahead of the database: a proof is signed at a sequence
\* some handler read from a committed row.
OneProofBehind == cSeq <= row.seq + 1

\* The next proof the service signs is at the sequence the light client
\* waits for ("Sequence of solo machine (used when creating transactions on
\* chain)", model/chain/chain.rs:37).
SequenceSync == Quiet => row.seq = cSeq

\* The newest row of chain_keys is the key of the light client.
KeySync == Quiet => keys[Len(keys)] = cKey

\* The history lists nothing that did not happen on the chain.
HistorySound == ops \subseteq executed

\* The history lists every mint and burn that happened on the chain, unless
\* its handler was dropped or failed before add_operation was through; an
\* error from further on does not take the record back ("Fetches history of
\* all operations", service/ibc_service.rs:715).
HistoryComplete ==
  \A r \in executed :
    pc[r] = "done" /\ out[r] \notin {"cut", "unsure"}
      /\ job[r].kind \in {"mint", "burn"}
      => r \in ops

\* A handler that returns Ok has done on the chain what it was asked for, and
\* a burn without a warning has had its packet acknowledged.  So has one that
\* returns an error only because its event or its warning could not be sent.
OkIsTrue ==
  \A r \in Requests :
    /\ out[r] \in {"ok", "warn", "late"} => r \in executed
    /\ out[r] = "ok" => r \notin unacked

\* A handler that finds a reason to give up, or that fails before it has
\* broadcast anything, has changed nothing on the chain and never will: the
\* caller may try again.
ErrorIsTrue ==
  \A r \in Requests : out[r] = "err" => r \notin executed \cup mempool

\* Used by one client at a time, with the registered key, every mint that the
\* chain does not refuse and every burn succeeds: no request leaves anything
\* behind that makes a later one fail.
SerialService ==
  \A r \in Requests :
    pc[r] = "done" /\ job[r].kind \in {"mint", "burn"} /\ row.channel = "open"
      /\ job[r].signer = InitKey /\ cKey = InitKey /\ resp[r] # "failack"
      => out[r] = "ok"

\* The light client has accepted the proof whose increment r will commit.
Accepted(r) ==
  pc[r] = "answered" /\ tx[r].msg # "transfer" /\ resp[r] # "refused"

\* The light client is ahead and no handler knows of it.
Behind == cSeq > row.seq /\ \A r \in Requests : ~Accepted(r)

\* Without faults the service never forgets a proof that the light client has
\* accepted: handlers that run together, burns among them, may leave the row
\* ahead of the light client but not behind it.
NothingForgotten == ~Behind

\* Without burns, a service that fell behind stays behind for ever: no proof
\* that it signs is accepted again, and no later commit catches up.
StaysBehind == [][Behind => Behind' /\ row.seq' = row.seq /\ cSeq' = cSeq]_vars

\* Every request that is made returns.
EveryRequestReturns == \A r \in Requests : pc[r] # "idle" ~> pc[r] = "done"

\* A close request on an open channel closes it ("Close solomachine channel",
\* solo-machine/src/command/ibc.rs:45).
CloseCloses ==
  \A r \in Requests :
    pc[r] = "read" /\ job[r].kind = "close" /\ row.channel = "open"
      ~> row.channel = "closed"

\* The database and the light client implement a stop-and-wait protocol.
Sequences == INSTANCE StopAndWait
  WITH First <- InitSeq, known <- row.seq, accepted <- cSeq

StopAndWaitSpec == Sequences!Spec
=============================================================================
