# Verification of the IBC solo machine

TLA+ models of `ibc-solo-machine`, the TLC runs that check them and the
theorems about them that TLAPS checks. A solo machine is a single signer that
takes part in IBC without a blockchain of its own: it keeps the state of an IBC
counterparty in a SQL database and signs the proofs that an IBC enabled chain
verifies with a light client of type `06-solomachine`.

Everything turns on one number. A proof names a *sequence*; the light client
accepts it only at its own sequence and then moves on by one. The solo machine
keeps its copy in `chains.sequence` and increments it in a database transaction
that it commits after the chain has answered. No code compares the two
numbers, and none repairs them.

## 1. Inventory

| Component | State | Operations | Where |
|---|---|---|---|
| `IbcService`, established phase | rows `chains`, `chain_keys`, `operations`; a handler's local `chain`; its open transaction | `mint`, `burn` (with `process_packets`), `update_signer`, `close_channel`, `history` | `solo-machine-core/src/service/ibc_service.rs` |
| `IbcService::connect` | the same row, connection and channel ends in `ibc_data` | ICS-3 and ICS-4 handshakes | same file |
| Transaction builder | none | builds and signs messages, increments sequences | `transaction_builder.rs` |
| Database model | tables; locks of SQLite or PostgreSQL | queries and updates | `model/` |
| `ChainService` | row `chains`, first row of `chain_keys` | `add`, queries | `service/chain_service.rs` |
| Event bus | unbounded channel, one task, a list of handlers | `notify_event`, `spawn`, `handle` | `solo-machine/src/event.rs`, `event.rs` |
| gRPC server | one pool, one sender | concurrent requests of both services, 60 s timeout | `solo-machine/src/server` |
| Command line | none | one operation per process, then waits for the event task | `solo-machine/src/command` |
| Signers and keys | keys | sign, verify (multisignatures too) | `signer.rs`, `cosmos/crypto`, `signers/` |
| Identifiers, paths, heights | none | parse and format | `ibc/core` |
| IBC enabled chain (external) | light client, receipts, commitments, ends, accounts, mempool | CheckTx, message handlers | ibc-go, CometBFT |

How they interact. A handler runs in a task of the server or in a process of
its own. It reads the chain row, opens a database transaction, has the
transaction builder sign and increment, awaits `broadcast_tx_commit`, commits,
and sends events. Handlers share nothing but the database and the chain; the
database connects them by locks, the chain by account sequences and by the
sequence of the light client.

What is hard:

- *stale reads*: `mint` and `burn` read the row outside of the transaction in
  which they increment it; the account sequence is read before the broadcast;
- *two commits*: the block and the database transaction commit one after the
  other, and an answer, a process or a connection can be lost in between;
- *order*: `process_packets` commits before it looks at the answer,
  `add_operation` runs after the commit and outside of it, events are sent
  before (`connect`) or after (the others) the commit;
- *locks across the network*: the row lock (PostgreSQL) or the database lock
  (SQLite) is held during the broadcast, `connect` holds it for a handshake. On
  SQLite the lock is of the whole file, so that chains that have nothing to do
  with each other get in each other's way;
- *a task that ends*: the first event handler that fails ends the task of all
  handlers, and from then on every operation that sends an event is an error;
  the command line waits for that task, and the task for the last sender;
- *the end of the u32 range* of both sequences.

What makes each component correct:

- established phase: the sequences and keys of row and light client agree when
  nobody is at work; nothing is reported or recorded that did not happen;
  every request returns;
- connect: what is saved names ends that are open on both sides and a client at
  the sequence of the row; a saved connection is never replaced by accident;
- event bus: handlers read one log in order, a command that succeeds has had all
  of it handled, and what they are told of is durable;
- chain service: a chain is added once, and adding it again resets nothing;
- all together: one writer at a time, nobody waits for ever, and to each chain
  the others are nothing but a cause of failing calls.

`PROJECT.json` lists every component and, under `hazards`, every place where
one of the above bites, with the properties that would notice.

## 2. Modules

| Module | What it is |
|---|---|
| `IbcService` | the established phase: handlers, database, chain |
| `StopAndWait` | abstract specification: what the sequence discipline promises |
| `IbcServiceProofs` | theorems about `IbcService` |
| `OneAtATime` | `IbcService` with a history variable: were two requests ever handled together? |
| `OneAtATimeProofs` | theorems about `OneAtATime` |
| `Connect` | concurrent calls of `connect`, the database and the chain |
| `ConnectProofs` | theorems about `Connect` that hold under every fault |
| `ConnectLeaderProofs` | somebody connects: a theorem about `Connect` without faults |
| `EventBus` | operations that send events, the channel, its task and handlers, the process |
| `EventLog` | abstract specification: what the bus promises to event handlers |
| `EventBusProofs` | theorems about `EventBus` |
| `SoloMachine` | one server, one SQLite file, two chains: `IbcService`, `Connect` and `ChainService::add` composed |
| `SoloMachineProofs` | theorems about `SoloMachine`: the lock, what is stored, the two refinements |
| `SoloSequenceProofs` | theorems about `SoloMachine`: what becomes of the sequences of chain A |
| `MCIbcService`, `MCConnect`, `MCEventBus`, `MCSoloMachine` | the instances TLC checks; the `.cfg` files choose the constants |

Definitions whose comment begins with "Mutant of" are not part of the
specifications. Each is a plausible bug of the definition it names; with it in
that definition's place TLC must find the property listed in `PROJECT.json`
violated. They show that the properties notice.

### 2.1 IbcService

*State.* `row`, `keys` and `ops` are the committed tables. `lock` and `work` are
the transaction that has written: who holds the lock and what it sees. `stale`
are the requests whose transaction has read a row that others have overtaken. A
handler has a position `pc`, its request `job`, its local variable `chain`
(`loc`), the transaction it built (`tx`), the answer (`resp`) and its result
(`out`). The chain has the light client (`cSeq`, `cKey`), packet receipts
(`received`), packet commitments (`unacked`), account sequences (`nonce`) and a
`mempool`. `executed` is a history variable: the requests whose operation took
effect on the chain.

*Actions.* A handler is cut at its awaits that other parties can come between.

| `pc` | Reached by | In the code |
|---|---|---|
| `read` | `Receive` | `get_chain`, on the pool (mint, burn) or in the transaction (update, close) |
| `closing` | `CloseWrite` | `close_channel_confirm` has written the details |
| `prepared` | `MintPrepare`, `BurnPrepare`, `UpdatePrepare`, `AckPrepare` | signed and incremented, the lock is taken |
| `built` | `Build` | account sequence queried, transaction signed |
| `sent` | `Broadcast` | inside `broadcast_tx_commit` |
| `answered` | `Deliver*`, `CheckTxRefuses` | the answer is there |
| `committed` | `MintCommit`, `BurnAccepted` | before `add_operation` |
| `recorded` | `RecordOperation`, `UpdateCommit` | before `notify_event` |
| `acking` | `Notify` | burn, in `process_packets` |
| `done` | all others | the handler has returned |

Errors and early returns are actions too: `NotConnected`, `Busy`, `Overflow`,
`DuplicateKey`, `CloseReread`, `Refused`; they return "err". `Fail` is every other
failing await and a dropped handler (timeout of the server, closed connection,
crash). The transaction is rolled back, the message stays in the mempool. The
code returns the same kind of error for all failing awaits; the model tells
apart where the error came from, because that is what its meaning depends on:

| `out` | What failed | What it means |
|---|---|---|
| `err` | the handler gave up, or an await before the broadcast | nothing happened, nothing will (`ErrorIsTrue`) |
| `unsure` | the answer, the commit or `add_operation` | nothing is known; the record may be missing |
| `late` | an event that could not be sent, the warning of burn among them | the operation happened and is recorded (`OkIsTrue`, `HistoryComplete`) |
| `warn` | `process_packets` | burn returns Ok, its packet may not be acknowledged |
| `cut` | the handler is dropped, nobody sees a result | nothing is known |

A request runs once; a retry is another request. A restart loses the handlers and
nothing else, because everything else is in the database.

*Database.* PostgreSQL: the first UPDATE takes the row lock, the others wait.
SQLite in WAL mode, which is what the file has that `init` creates
(`create_database` of sqlx, `solo-machine-core/src/lib.rs:38`) and which nobody
changes later: the first write takes the lock of the whole file; a statement that
has to wait for it fails after the busy timeout; readers go on and commits do not
wait for them. A transaction that has read stays with the snapshot it has read:
when it wants to write while another one holds the lock, or after another one has
committed (`Overtaken`), it fails at once. `Busy` is all of these failures. With
`Shared` the file has users that are not in the module: `OthersCommit` overtakes
snapshots, and a statement may find the file locked by them. No handler asks
the pool for a second connection while it holds a transaction, so the size of
the pool is left out.

*Chain* (external). A proof is accepted if its sequence and its key are those of
the light client, which then moves on. A packet with a receipt is a no-op with
code 0: the proof is verified, but the state changes are dropped. A transfer
needs its timeout (0, seq + 1) ahead of the client. A failing transaction pays
its fee, so the account sequence moves on. Other reasons for a refusal are in
`Refusable`. Signatures are perfect, and the client was created with the key the
chain was added with.

*Left out*: amounts, denominations, addresses, memos, balances, packet contents.
What follows the bail-out in `close_channel` (the message and the commit) is
never reached: `CloseReread` has no successful counterpart because `work.channel`
cannot be open after `CloseWrite`.

### 2.2 Connect

One call creates one client, connection and channel on each side, so these are
named by the call. `local` is what the call's transaction has written to
`ibc_data`, `saved` what is committed; `details` is the call whose identifiers are
in `connection_details`. The handshake is the chain of labels of `AfterAnswer`.
`connAck` and `chanAck` carry proofs: each is signed at the local sequence, then
the row is incremented and read back. On SQLite a call has read long before its
first write (`SaveClient`), which fails at once if another call holds the lock or
has committed since (`Busy`); from then on it holds the lock, and its commit waits
for nobody. On PostgreSQL calls wait for the row lock. With `force`, or a closed channel, and details
present, the handler runs into `todo!()`: `ReconnectNotImplemented`.
The database is a rigid variable: `Init` chooses it from `Backends`.
An increment past the u32 range is left out here: it ends the call like any other
failing await (`Fail`), and `IbcService` models it.

### 2.3 EventBus

One process. `mode` says whether it is a command of the command line, which calls
one operation, or the gRPC server, which runs several. For the bus an operation
is its `Program`: where it commits, records, sends and acknowledges, in the order
of the code. `queue` is the unbounded channel; the task (`Receive`, `HandleEvent`)
takes one event out and passes it to the hooks in the order of the command line
and then to the handler of the process, `CliEventHandler` or `EnvLogger`
(`HandlerCount`). Each of them may fail: a hook for reasons of its own,
`CliEventHandler` when it cannot print, `EnvLogger` when it cannot serialise
(`env_logger.rs:113`). `HandlerFails` is the `?` of the loop: the task returns, and
the channel is gone with all that is in it; from then on `NotifyEvent` is an error.
`SendersGone` is the drop of the service by a command, which is how `recv`
comes to return `None` and the task to end. `CommandEnds` joins the task and
passes its result on, `CommandFails` returns without joining it. The server
holds its senders as long as it lives; it does not look at the task. `sent` is a
history variable, `seen` what each handler has handled.

`EventLog` is what a writer of hooks may rely on, and what the README of the
repository says: one log, each event through all handlers before the next one,
and after the first error nothing more. `EventBus` implements it with `sent` as
the log and a running task as an open bus. "warning" events are the failing
`process_packets` at the step "ack". What handlers print is left out.

### 2.4 SoloMachine

`IbcService` is chain A, by `EXTENDS`; `Connect` is chain B, by `INSTANCE` with its
variables renamed and its lock identified with that of A, since SQLite locks
the whole file; `ChainService::add` for B is a few actions of its own. What one
chain does to the other is the lock, which both name, and the snapshots that a
commit overtakes: those of chain A are `stale`, those of the calls of connect
`outdated`. connect has its first network calls between its first read and its
first write, so whatever commits in between makes that write fail (`SnapshotBusy`),
with a client already created on the chain. `connect` for a chain that is not
added is an error (`ChainNotFound`), a second `add` is refused by the primary key
(`AddDuplicate`).

`ServiceIsolated` and `ConnectIsolated` are the abstract view: each chain is an
instance of its own specification, the lock of others unseen (`LockOf`). Chain A is
`IbcService` *without* faults on a file with other users (`Shared`): its steps map
to the steps of the same name, and a commit of chain B to `OthersCommit`. Chain B
is `Connect` with calls that may fail. So what section 4 proves of `IbcService`
holds of chain A in the presence of another chain, even where it needs the absence
of faults, and only not where it needs `~Shared` or PostgreSQL; what it proves of
`Connect` under every fault holds of chain B.

## 3. Runs

Bounds: three requests are enough for one to commit between the read and the
broadcast of another while a third observes; two keys are the registered one and
another; sequences are bounded by the number of requests or by `MaxU32`, which
`service_faults` puts within reach so that overflows happen. Two operations and
two handlers are enough for an event of one operation to overtake, be lost or be
refused relative to one of the other, and for the loop over the handlers to be
left in the middle; no operation sends more than four events. In `solo_machine`
two requests, one call of connect and two of add let every lock be waited for by
every kind of handler. Requests and calls are interchangeable, and the fault runs
of both services use that symmetry. The initial states cover every choice of
kind and key for each request.

| Run | Question | Instance |
|---|---|---|
| `service_faults` | What holds whatever fails? `TypeOK`, `OneProofBehind`, `HistorySound`, `OkIsTrue`, `HistoryComplete`, `ErrorIsTrue` | 3 requests of all kinds, PostgreSQL, every fault, `MaxU32 = 3` |
| `service_stop_and_wait` | Does the sequence discipline work, and what happens after a loss? `StopAndWaitSpec`, `StaysBehind` | 3 requests, no burns, a SQLite file with other users (`Shared`), every fault |
| `service_postgres` | Do the handlers get along? `SequenceSync`, `KeySync`, `EveryRequestReturns` | 3 requests, no burns, PostgreSQL, packets may be refused or get an error acknowledgement |
| `service_sqlite` | And on SQLite? `KeySync`, `OkIsTrue`, `NothingForgotten`, `EveryRequestReturns`. And one request at a time? `SerialSync`, `AloneSucceeds` | 3 requests of all kinds, 2 at a time (`OneAtATime`) |
| `connect_faults` | Is what connect saves true? `TypeOK`, `HandshakeAgreement`, `DetailsNeverReplaced` | 3 calls, 2 at a time, both databases, every fault |
| `connect_calls` | Does every call return, and does somebody connect? `EveryCallReturns`, `SomeoneConnects` | 3 calls, one forced, both databases, no faults |
| `event_bus` | What do handlers and callers know? `EventLogSpec`, `TellsTheTruth`, `OkIsAnnounced`, `SuccessIsDrained`, `EventsAreHandled`, `EveryCommandEnds`, `TypeOK` | 2 operations of all kinds, command line and server, 2 handlers, every failure |
| `solo_machine` | What do two chains on one file do to each other? `OneWriter`, `NothingForgotten`, `NothingReset`, `ServiceIsolated`, `ConnectIsolated`, `EverybodyReturns` | 2 requests (mint, update), 1 connect, 2 adds; adds may fail, no other faults |

Four runs show where the program and its own words disagree. TLC finds the
first three without any fault of the environment; the last needs one:

| Run | What happens |
|---|---|
| `service_burns` | Two burns together. The acknowledgement of one is refused (here by `check_tx`, the account sequence being stale), `process_packets` commits the increment all the same, and the row is ahead of the light client: no later proof is accepted. |
| `service_close` | `close_channel` removes the channel ids and then looks for them. |
| `service_history` | Two mints together on SQLite. One is executed and committed; its `add_operation` meets the lock of the other; it returns an error and is never in the history. |
| `connect_event` | The event `ConnectionEstablished` is sent before the commit. The commit fails, or the handler is cut off between the two: the connection is announced and not in the database. |

What the passing runs leave open on purpose, with the reason:

- `SequenceSync` fails with burns (the run above) and with faults: a lost answer
  leaves the row behind, which `OneProofBehind` bounds and `StaysBehind` shows to
  be final. With burns it also fails one request at a time if the burn is
  signed with a key that is no longer registered: the transfer is accepted, the
  acknowledgement is not, and its increment is committed. Hence `cKey = InitKey` in
  `SerialSync`, and a run in which requests are signed with the first key only.
  What survives is one direction: without faults handlers of all kinds may together
  leave the row ahead of the light client, but never behind it (`NothingForgotten`).
- `HistoryComplete` and `ErrorIsTrue` fail on SQLite, where a statement after the
  commit can meet the lock of another handler. The theorems assume PostgreSQL.
  They also say nothing about a handler that is dropped or that fails between its
  broadcast and the end of `add_operation` ("unsure"): there the code does lose
  records, and its error does not say whether the operation happened.
- `SomeoneConnects` fails on SQLite: two calls can make each other fail.

*Fairness.* `FairSpec` asks for weak fairness of each handler and of each
delivery: the executor polls every task that can run, every wait for a lock ends
in the lock or in a timeout, and the chain makes blocks with what is in its
mempool. Nothing is assumed about `Fail` and `DropTx`. In `IbcService` and `Connect`
fairness of a handler also makes an idle request start, on which nothing
depends: the liveness properties speak of requests that have started. In
`EventBus` nothing makes a client call; fair are the steps of an operation that was
called (`OpStep`), of the task and of the process. In `SoloMachine` every handler of
both chains and of add is fair, a handler that waits for a lock being served by
the lock or by `Busy`, `SnapshotBusy` or `AddBusy`.
The liveness runs of the services have no faults, since a cut-off handler has
returned anyway; `event_bus` has all of them, and its liveness properties allow for
a task that has ended.
Deadlock is checked in every run. The only final states are those of `Terminated`
(`SoloTerminated`): every request has returned and the mempool is empty, or the
process of `EventBus` is gone or has nothing to do.

## 4. Proofs

All theorems are for any number of requests, calls, operations and handlers, and
for any values of the other constants that satisfy the named assumptions of the
modules. Where a theorem needs more than that, the table says so; otherwise it
holds under every fault, for every mixture of handlers and on either database.

| Module | Theorem | What | Needs |
|---|---|---|---|
| `IbcServiceProofs` | `TypeCorrect` | `TypeOK`: among others, the row always converts to a `Chain` | |
| | `LockInvariant` | exactly the handler in an open transaction holds the lock | |
| | `NeverFarBehind` | `OneProofBehind` | |
| | `OkIsTrueAlways`, `HistorySoundAlways` | `OkIsTrue`, `HistorySound` | |
| | `ErrorIsTrueAlways`, `HistoryCompleteAlways` | `ErrorIsTrue`, `HistoryComplete` | PostgreSQL |
| | `StopAndWaitInvariant`, `ImplementsStopAndWait` | refinement of `StopAndWait` | no burns |
| | `NeverCatchesUp` | `StaysBehind` | no burns |
| | `FaultFreeInvariant`, `SequencesAgree` | `SequenceSync` | no burns, no faults |
| | `KeysAgree` | `KeySync` | no faults |
| | `NothingForgottenAlways` | `NothingForgotten` | no faults |
| `OneAtATimeProofs` | `SerialSyncAlways` | `SerialSync` | no faults, `Signers` has the first key only, the chain refuses no acknowledgement for reasons of its own |
| | `AloneSucceedsAlways` | `AloneSucceeds` | the same; nobody else on the database file (`~Shared`); the chain refuses nothing but headers for reasons of its own; both sequences have room for all requests in a u32 |
| `ConnectProofs` | `TypeCorrect` | `TypeOK` | |
| | `ConnectInvariant`, `HandshakeAgrees`, `FirstConnectionStays` | `HandshakeAgreement`, `DetailsNeverReplaced` | |
| `ConnectLeaderProofs` | `LeaderInvariant`, `SomeoneConnectsAlways` | `SomeoneConnects` (which speaks of PostgreSQL only) | no faults, no refusals, at least one call |
| `EventBusProofs` | `TypeCorrect` | `TypeOK` | |
| | `SuccessIsDrainedAlways`, `OkIsAnnouncedAlways`, `TellsTheTruthAlways` | the three invariants of these names | |
| | `ImplementsEventLog` | refinement of `EventLog` | |
| `SoloMachineProofs` | `LockInvariant`, `OneWriterAlways` | `OneWriter` | |
| | `NothingResetAlways` | `NothingReset` | |
| | `ConnectIsIsolated`, `ServiceIsIsolated` | refinement of `Connect` by chain B, of `IbcService` by chain A | |
| `SoloSequenceProofs` | `NothingForgottenTogether` | `NothingForgotten`, of chain A in `SoloMachine`, burns included | |
| | `NeverFarBehindTogether` | `OneProofBehind`, of chain A in `SoloMachine` | |

"No faults" is `~MayFail`, "no burns" is `"burn" \notin Kinds`, which the run
`service_burns` shows to be needed. The two theorems of `OneAtATimeProofs` also
assume that there are finitely many requests. Their other assumptions are the ones
of the run `service_sqlite`, and each is needed: a burn signed with an unregistered
key, or whose acknowledgement is refused, commits an increment that the light
client does not make.

The arguments for `IbcService`:

- `OneProofBehind` is not inductive. What is: every local chain and every signed
  proof has a sequence that was once in the row, and the row never goes back
  (`SignedFromRow`). A proof is accepted only at `cSeq`, so `cSeq` moves only to
  at most `row.seq + 1`. That the row never goes back needs that the copy of a
  transaction is not older than the row, which is what `LockHeld` gives.
- `OkIsTrue` and `HistorySound` follow from `Reports`, which says for each `pc`
  what must have been executed by then. `ErrorIsTrue` and `HistoryComplete` follow
  from the other direction (`OutcomesInvariant`): what cannot have been executed or
  be in the mempool at a `pc` from which an error returns. On PostgreSQL no such
  `pc` comes after the commit.
- Without burns `StopAndWaitInv` adds that the copy of an open transaction is
  exactly one increment ahead (`WorkImage`), that an accepted proof whose handler
  has not committed yet is the one at the row's sequence (`DatabaseBehind`), and
  that no packet is received twice (`ReceiptsBehind`). The latter needs that
  packet sequences move together with sequences (`PacketWithSequence`): it
  excludes the no-op answer, which mint takes for a success and commits.
- `NeverCatchesUp`: when the light client is ahead and no handler knows, every
  proof on its way was signed at or below the row, so none is accepted
  (`BehindStep`).
- `SequenceSync` and `KeySync` need to know who knows: `FaultFreeInv` says that when
  the sequences differ there is a handler that has the answer and not yet
  committed, `KeysKnown` that the light client has the newest key of the database
  or that of such a handler. It holds the lock, so `Quiet` is false. Without
  faults every message in the mempool has a handler waiting for it
  (`MempoolAwaited`), so the acceptance is known as soon as it happens. Burns can
  increment the row without the light client, so they break the first and not the
  second: no burn installs a key.
- `NothingForgotten` is half of `SequenceSync` and survives burns. Whoever commits
  moves the row by one (`NextInWork`), which by `OneProofBehind` is all that the
  light client can be ahead; so it does not matter whose acceptance a commit
  makes up for, and a handler need not be the only one that knows.

For `OneAtATime`: `AloneInv` describes the one handler that runs (`OnItsOwn`): its
local copy is the row, its signed sequences are those of the row, its transaction
has the row incremented, its account sequence is the next one, and its answer is
good unless the chain had reasons of its own. The light client is in step with
what the row will be once the handler that knows of an acceptance has committed
(`Settled`), and so it accepts what comes next. The key of the light client is the
first one or will never be again (`FirstKeyStays`): the unique index on `chain_keys`
keeps a key from being registered twice. That only one handler runs comes from the
history variable: a step that leaves `overlapped` false has at most one active
request after it (`StillAlone`). For `AloneSucceeds` the errors are excluded one by
one (`ReturnsOk`): `Busy` since nobody else holds the lock (`LockUsed`), `Refused`
since the answer is good, `Overflow` by counting: every request moves each sequence
once at most, and one that is about to overflow has not done so (`Counted`, `Spent`).

For `Connect`: as long as no details are stored the row says `InitSeq`, so every
light client starts there and is two proofs ahead when its handshake is over.
`ConnectInv` follows each call through its handshake (`Unborn`, `Early`, `Middle`,
`Late`) and says at each stage what its light client, its copy of the row and its
signed proof are; the second proof is accepted only if the row it was read from
was `InitSeq`, and so a call reaches its commit only if nobody committed before
(`FirstToCommit`). This works without any assumption about which calls overlap.
`SomeoneConnects` has an invariant of its own. Without faults a call finds on the
chain what its handshake expects (`Ready`), so calls get in each other's way only at
the account sequence: one message of the account waits in the mempool (`OneInLine`)
and makes the others fail. As long as no details are stored there is a leader, the
call whose message is there or, when none is, one whose next message will be let in
(`Leader`); who leads changes when another call broadcasts first.

For `EventBus`: `BusInv` ties the counters together. What every handler has seen,
the event being handled and the queue make up `sent`, handlers before `next` being
one event ahead of the others. `Progress` and `Durable` say that the steps before
`pc` were done, the sends accepted and the commit made.

For `SoloMachine`: `SoloInv` is `OneWriter` and the domains of the functions. Its
preservation is one lemma per handler: a step is local (`ServiceLocal`,
`ConnectLocal`) and *polite* (`Polite`): it takes the lock only when it is free and
gives it back only when it has it. Commits release the lock without looking, so
that is where `OneWriter` is needed. A step of others is a stutter of `Connection`,
and of `Service` a stutter or `OthersCommit` (`ForeignToService`), which has to show
that what it overtakes are the readers of chain A. A step of the chain's own is the
step of the same name, in `Connection` also `Fail`. `NothingReset` needs that once
details are stored no call has written (`NobodyBehind`): the one that commits held
the lock, so no other had written, and the first write of the others finds that
their snapshot is not the newest. The sequences of chain A have their own invariant
(`SeqInv`): signed proofs are at sequences some row had, and a commit is one
increment ahead of the row. So a commit makes up for whatever the light client is
ahead (`CommitMakesUp`), and no step of the other chain takes that commit away: who
holds the lock and has an answer commits.

Only model-checked: liveness (`EveryRequestReturns`, `EveryCallReturns`,
`EventsAreHandled`, `EveryCommandEnds`, `EverybodyReturns`) and the absence of
deadlocks, which are out of the prover's reach. Every invariant and every action
property of a passing run is the subject of a theorem. That all theorems about
`IbcService` and `Connect` carry over to the two chains of `SoloMachine` is the
reading of its two refinement theorems: TLAPS does not let a theorem of an
instanced module be cited. `NeverFarBehindTogether` is one that was proved again
for the composition.

## 5. Not modelled

- *Signers and keys.* Signatures are perfect in the models. `verify_signature`, the
  multisignatures and the bit array below it have no caller in the repository: the
  solo machine signs, and the chain verifies.
- *Identifiers, paths, heights; protobuf conversions.* Strings and data; model
  values stand for them.
- *Queries*: balances, history by address and page, public keys, IBC denominations.
  They read committed rows and change nothing.
- *`init`*: migrations of a database that nobody uses yet. Opening a database with
  migrations missing is an error of every operation.
- *The tendermint light client* that `connect` consults for a trusted header, and
  the contents of client, header and packet data.
- *What `close_channel` would do* after its bail-out, and reconnecting (`force`),
  which is `todo!()`.
- *Amounts, fees and balances*: whether an account can pay is one of the reasons for
  a refusal in `Refusable`.

What could come next: two calls of connect in `solo_machine`, beyond what TLC does
in minutes; the interplay of `EventBus` and `SoloMachine` in one module, instead of
a `notify_event` that may fail; `SerialSync` under the weaker condition that no burn
overlaps with another request, which needs a finer history variable.
