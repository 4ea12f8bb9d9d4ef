---------------------------- MODULE SoloMachine ----------------------------
(***************************************************************************)
(* One server with one SQLite database and two chains.  Chain A is         *)
(* connected and serves requests (IbcService); chain B is being added to   *)
(* the database (ChainService::add, solo-machine-core/src/service/         *)
(* chain_service.rs) and connected (Connect).  The chains have nothing in  *)
(* common but the database file.  On SQLite its locks are of the whole     *)
(* file: a handler of one chain waits for the transactions of the other    *)
(* and gives up when its busy timeout is over, and a transaction of one    *)
(* that has read cannot write after a commit of the other.                 *)
(*                                                                         *)
(* Names of IbcService are those of chain A; the variables of Connect are  *)
(* renamed for chain B, except for the lock, which both share.             *)
(***************************************************************************)
EXTENDS IbcService

CONSTANTS
  Calls,  \* the calls of connect for chain B
  Adds    \* the calls of add for chain B

ASSUME DisjointAssumption ==
  /\ Requests \cap (Calls \cup Adds) = {} /\ Calls \cap Adds = {}
  /\ None \notin Calls \cup Adds
ASSUME SqliteAssumption == Backend = "sqlite"

VARIABLES
  added,    \* chain B has its rows in `chains` and `chain_keys`
  addPc,    \* where each call of add is
  outdated, \* calls of connect that have read before others than they commit
  backend, bSeq, details, saved, workSeq, local,  \* the database of B
  bPc, bLoc, bMsg, bOut, announced,               \* the calls of connect
  bMempool, bNonce, bCSeq, bConn, bChan           \* chain B

B == INSTANCE Connect WITH
  Forced <- {}, Backends <- {Backend}, MayRefuse <- FALSE,
  seq <- bSeq, pc <- bPc, loc <- bLoc, msg <- bMsg, out <- bOut,
  mempool <- bMempool, nonce <- bNonce, cSeq <- bCSeq, conn <- bConn,
  chan <- bChan

addVars == <<added, addPc>>
connectVars ==
  <<backend, bSeq, details, saved, workSeq, local, bPc, bLoc, bMsg, bOut,
    announced, bMempool, bNonce, bCSeq, bConn, bChan>>
unlockedVars == <<row, keys, ops, work, handlerVars, chainVars>>
soloVars == <<vars, addVars, outdated, connectVars>>

SoloInit ==
  /\ Init /\ B!Init
  /\ added = FALSE /\ addPc = [a \in Adds |-> "idle"] /\ outdated = {}

-----------------------------------------------------------------------------
(* ChainService::add.                                                      *)

AddGoto(a, label) == addPc' = [addPc EXCEPT ![a] = label]

\* Mutant of AddChain: does not wait for the database lock.
AddChainUnlocked(a) ==
  /\ addPc[a] = "idle" /\ ~added
  /\ lock' = a
  /\ AddGoto(a, "inserted")
  /\ UNCHANGED <<unlockedVars, stale, added, outdated, connectVars>>

\* The rows of the chain and of its key are inserted in one transaction.
AddChain(a) ==
  /\ addPc[a] = "idle" /\ lock = None /\ ~added
  /\ lock' = a
  /\ AddGoto(a, "inserted")
  /\ UNCHANGED <<unlockedVars, stale, added, outdated, connectVars>>

\* Mutant of AddDuplicate: INSERT OR REPLACE.
AddReplaces(a) ==
  /\ addPc[a] = "idle" /\ lock = None /\ added /\ B!Active = {}
  /\ bSeq' = InitSeq /\ details' = None
  /\ AddGoto(a, "committed")
  /\ UNCHANGED <<vars, added, outdated, backend, saved, workSeq, local, bPc, bLoc,
                 bMsg, bOut, announced, bMempool, bNonce, bCSeq, bConn, bChan>>

\* chains.id is the primary key: a chain is added once.
AddDuplicate(a) ==
  /\ addPc[a] = "idle" /\ lock = None /\ added
  /\ AddGoto(a, "err")
  /\ UNCHANGED <<vars, added, outdated, connectVars>>

\* The insert gives up on the lock after its busy timeout.
AddBusy(a) ==
  /\ addPc[a] = "idle" /\ lock # None
  /\ AddGoto(a, "err")
  /\ UNCHANGED <<vars, added, outdated, connectVars>>

\* A commit leaves all snapshots behind: those of the requests of chain A, and
\* those of connect.  Whoever commits has the lock, so no connect has written.
AddCommit(a) ==
  /\ addPc[a] = "inserted"
  /\ added' = TRUE /\ lock' = None
  /\ stale' = Overtaken /\ outdated' = outdated \cup B!Active
  /\ AddGoto(a, "committed")
  /\ UNCHANGED <<unlockedVars, connectVars>>

\* The event ChainAdded, and Ok.
AddNotify(a) ==
  /\ addPc[a] = "committed"
  /\ AddGoto(a, "ok")
  /\ UNCHANGED <<vars, added, outdated, connectVars>>

\* The chain does not tell its identity, an await fails, or the call is
\* dropped; before the commit its rows go with it.
AddFail(a) ==
  /\ addPc[a] \in {"idle", "inserted", "committed"}
  /\ lock' = IF lock = a THEN None ELSE lock
  /\ AddGoto(a, "err")
  /\ UNCHANGED <<unlockedVars, stale, added, outdated, connectVars>>

Add(a) ==
  \/ AddChain(a) \/ AddDuplicate(a) \/ AddBusy(a) \/ AddCommit(a)
  \/ AddNotify(a) \/ AddFail(a)

-----------------------------------------------------------------------------
(* Chain A, in the presence of chain B.                                    *)

\* r commits: a transaction, or a statement on the pool.
Commits == <<row, ops>>' # <<row, ops>>

\* A request finds the file locked by chain B as it would by chain A.
ServiceStep(r) ==
  /\ Handle(r)
  /\ outdated' = IF Commits THEN outdated \cup B!Active ELSE outdated
  /\ UNCHANGED <<addVars, connectVars>>

ServiceAnswer(r) == Deliver(r) /\ UNCHANGED <<addVars, outdated, connectVars>>

-----------------------------------------------------------------------------
(* Chain B, in the presence of chain A.                                    *)

\* connect for a chain that was not added.
ChainNotFound(c) ==
  /\ bPc[c] = "idle" /\ ~added
  /\ B!Abort(c, "err")
  /\ UNCHANGED <<unlockedVars, stale, outdated, addVars>>

\* The first write of connect comes after its first message to chain B.  If
\* anybody has committed since its first read it fails at once.
SnapshotBusy(c) ==
  /\ bPc[c] = "saveClient" /\ c \in outdated
  /\ B!Abort(c, "err")
  /\ UNCHANGED <<unlockedVars, stale, outdated, addVars>>

\* Mutant of ConnectStep: increments the sequence of every chain.
ConnectStepEverywhere(c) ==
  /\ bPc[c] = "idle" => added
  /\ bPc[c] = "saveClient" => c \notin outdated
  /\ B!Handle(c)
  /\ row' = [row EXCEPT !.seq = @ + bSeq' - bSeq]
  /\ stale' = IF bPc[c] = "commit" THEN Overtaken ELSE stale
  /\ UNCHANGED <<keys, ops, work, handlerVars, chainVars, outdated, addVars>>

ConnectStep(c) ==
  /\ bPc[c] = "idle" => added
  /\ bPc[c] = "saveClient" => c \notin outdated
  /\ B!Handle(c)
  /\ stale' = IF bPc[c] = "commit" THEN Overtaken ELSE stale
  /\ UNCHANGED <<unlockedVars, outdated, addVars>>

ConnectAnswer(c) ==
  /\ B!Deliver(c) \/ B!DeliverRefused(c)
  /\ UNCHANGED <<unlockedVars, stale, outdated, addVars>>

-----------------------------------------------------------------------------
Everybody ==
  /\ \A r \in Requests : pc[r] = "done"
  /\ \A c \in Calls : bPc[c] = "done"
  /\ \A a \in Adds : addPc[a] \in {"ok", "err"}

SoloTerminated == Everybody /\ mempool \cup bMempool = {} /\ UNCHANGED soloVars

SoloNext ==
  \/ \E r \in Requests : ServiceStep(r) \/ ServiceAnswer(r)
  \/ \E c \in Calls :
       ConnectStep(c) \/ SnapshotBusy(c) \/ ConnectAnswer(c) \/ ChainNotFound(c)
  \/ \E a \in Adds : Add(a)
  \/ SoloTerminated

\* The executor polls every handler, and both chains make blocks.
SoloFairness ==
  /\ \A r \in Requests :
       /\ WF_soloVars(ServiceStep(r))
       /\ WF_soloVars(ServiceAnswer(r))
  /\ \A c \in Calls :
       /\ WF_soloVars(ConnectStep(c) \/ SnapshotBusy(c) \/ ChainNotFound(c))
       /\ WF_soloVars(ConnectAnswer(c))
  /\ \A a \in Adds : WF_soloVars(Add(a))

SoloSpec == SoloInit /\ [][SoloNext]_soloVars /\ SoloFairness

-----------------------------------------------------------------------------
(* Properties.                                                             *)

\* Handlers that have written and not committed.
ServiceWrites(r) ==
  \/ pc[r] = "closing"
  \/ pc[r] \in {"prepared", "built", "sent", "answered"} /\ tx[r].msg # "transfer"
ConnectWrites(c) ==
  \/ bPc[c] \in {"connInit", "connTry", "connAck", "connConfirm", "chanInit",
                 "chanTry", "chanAck", "chanConfirm", "signed", "notify", "commit"}
  \/ bPc[c] \in {"built", "waiting", "refused"} /\ bMsg[c].kind # "createClient"
AddWrites(a) == addPc[a] = "inserted"

\* At most one handler of all chains has written and not committed: no two of
\* them can overwrite or half-see each other's rows.
OneWriter ==
  /\ \A r \in Requests : ServiceWrites(r) => lock = r
  /\ \A c \in Calls : ConnectWrites(c) => lock = c
  /\ \A a \in Adds : AddWrites(a) => lock = a

\* Adding a chain again never resets the sequence or the connection of a
\* chain that is connected ("Add details of an IBC enabled chain",
\* chain_service.rs:41).
NothingReset == [][details # None => details' = details /\ bSeq' = bSeq]_soloVars

\* Nobody waits for ever, whatever lock it waits for: from every state on all
\* calls that were made, of either chain, come to return.
EverybodyReturns ==
  []<>(/\ Active = {} /\ B!Active = {}
       /\ \A a \in Adds : addPc[a] \in {"idle", "ok", "err"})

\* A lock that others hold is not seen.
LockOf(handlers) == IF lock \in handlers THEN lock ELSE None

\* Chain A as it would be alone without faults, on a file with other users.
Service == INSTANCE IbcService WITH
  MayFail <- FALSE, Shared <- TRUE, lock <- LockOf(Requests)

\* Chain B as it would be alone.
Connection == INSTANCE Connect WITH
  Forced <- {}, Backends <- {Backend}, MayRefuse <- FALSE, MayFail <- TRUE,
  lock <- LockOf(Calls),
  seq <- bSeq, pc <- bPc, loc <- bLoc, msg <- bMsg, out <- bOut,
  mempool <- bMempool, nonce <- bNonce, cSeq <- bCSeq, conn <- bConn,
  chan <- bChan

\* To each chain the rest of the solo machine is nothing but a cause of calls
\* that fail.  A request of chain A fails where it does because of other users
\* of the file: whatever holds of it alone without faults holds here too.  A
\* connect fails as it does under faults.
ServiceIsolated == Service!Spec
ConnectIsolated == Connection!Spec
=============================================================================
