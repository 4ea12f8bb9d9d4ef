------------------------------ MODULE EventBus ------------------------------
(***************************************************************************)
(* The events of one process of the solo machine: operations of the        *)
(* services send them into an unbounded channel, and one task, spawned by  *)
(* HandlerRegistrar::spawn (solo-machine/src/event.rs), takes them out and  *)
(* calls every registered handler in turn.  The first handler that fails   *)
(* ends the task and with it the channel.                                  *)
(*                                                                         *)
(* A process is either one command of the command line, which waits for    *)
(* the task before it reports success, or the gRPC server, which runs      *)
(* operations concurrently for as long as it lives.                        *)
(***************************************************************************)
EXTENDS Naturals, Sequences, FiniteSets

CONSTANTS
  Ops,     \* the operations that are called
  Kinds,   \* which operations are called: a subset of AllKinds
  Modes,   \* which processes are looked at: a subset of {"cli", "server"}
  Hooks,   \* how many handlers are loaded from dynamic libraries
  MayFail, \* TRUE: operations and handlers may fail, the process may be killed
  None     \* no event

AllKinds == {"mint", "burn", "update", "add", "connect", "query"}

\* Mutant of Program: the event is sent before the commit.
AnnounceFirst(k) ==
  CASE k = "mint"    -> <<"send", "commit", "record">>
    [] k = "burn"    -> <<"commit", "record", "send", "ack">>
    [] k = "update"  -> <<"send", "commit">>
    [] k = "add"     -> <<"commit", "send">>
    [] k = "connect" -> <<"send", "send", "commit">>
    [] k = "query"   -> <<>>

\* What the operations do, as far as events are concerned: "commit" makes the
\* operation durable, "record" is add_operation, "send" is notify_event, and
\* "ack" is process_packets, whose failure is sent as a warning.  connect
\* sends more events on its way than the two modelled.
Program(k) ==
  CASE k = "mint"    -> <<"commit", "record", "send">>
    [] k = "burn"    -> <<"commit", "record", "send", "ack">>
    [] k = "update"  -> <<"commit", "send">>
    [] k = "add"     -> <<"commit", "send">>
    [] k = "connect" -> <<"send", "send", "commit">>
    [] k = "query"   -> <<>>

ASSUME BusAssumption ==
  /\ Kinds \subseteq AllKinds /\ Modes \subseteq {"cli", "server"}
  /\ Hooks \in Nat /\ MayFail \in BOOLEAN

\* The hooks in the order of the command line, and after them the handler of
\* the process itself: CliEventHandler or EnvLogger.
HandlerCount == Hooks + 1
Handlers == 1 .. HandlerCount

Events == [op : Ops, step : 1 .. 4]
ASSUME NoneAssumption == None \notin Events

VARIABLES
  mode,      \* the process
  kind,      \* which operation each one is
  pc,        \* next step of each operation, 0 before it is called
  out,       \* what each operation returned
  committed, \* operations that are durable
  sent,      \* all events the channel accepted, in order
  queue,     \* events in the channel
  current,   \* event the task has taken out, or None
  next,      \* the handler that gets it next
  seen,      \* events each handler has handled
  task,      \* "running", or how the task ended
  exit       \* what the process reported

opVars == <<kind, pc, out, committed>>
taskVars == <<current, next, seen, task>>
vars == <<mode, opVars, sent, queue, taskVars, exit>>

-----------------------------------------------------------------------------
Init ==
  /\ mode \in Modes /\ kind \in [Ops -> Kinds]
  /\ pc = [o \in Ops |-> 0] /\ out = [o \in Ops |-> "none"]
  /\ committed = {} /\ sent = <<>> /\ queue = <<>>
  /\ current = None /\ next = 1 /\ seen = [h \in Handlers |-> <<>>]
  /\ task = "running" /\ exit = "none"

Called(o) == pc[o] > 0
Working(o) == exit = "none" /\ Called(o) /\ out[o] = "none"
AtStep(o, s) ==
  /\ Working(o) /\ pc[o] <= Len(Program(kind[o]))
  /\ Program(kind[o])[pc[o]] = s

Advance(o) == pc' = [pc EXCEPT ![o] = @ + 1]
Return(o, result) == out' = [out EXCEPT ![o] = result]

\* The command line calls one operation, the server many.
Call(o) ==
  /\ exit = "none" /\ ~Called(o)
  /\ mode = "cli" => \A p \in Ops : ~Called(p)
  /\ Advance(o)
  /\ UNCHANGED <<mode, kind, out, committed, sent, queue, taskVars, exit>>

Commit(o) ==
  /\ AtStep(o, "commit")
  /\ committed' = committed \cup {o}
  /\ Advance(o)
  /\ UNCHANGED <<mode, kind, out, sent, queue, taskVars, exit>>

Record(o) ==
  /\ AtStep(o, "record")
  /\ Advance(o)
  /\ UNCHANGED <<mode, kind, out, committed, sent, queue, taskVars, exit>>

\* The packets of the burn are processed.
Acknowledge(o) ==
  /\ AtStep(o, "ack")
  /\ Advance(o)
  /\ UNCHANGED <<mode, kind, out, committed, sent, queue, taskVars, exit>>

\* Mutant of NotifyEvent: a send that fails is ignored.
NotifyEventUnchecked(o) ==
  /\ AtStep(o, "send") \/ (MayFail /\ AtStep(o, "ack"))
  /\ IF task = "running"
     THEN LET e == [op |-> o, step |-> pc[o]]
          IN sent' = Append(sent, e) /\ queue' = Append(queue, e)
     ELSE UNCHANGED <<sent, queue>>
  /\ Advance(o)
  /\ UNCHANGED <<mode, kind, out, committed, taskVars, exit>>

\* notify_event: the channel accepts the event as long as the task has its
\* end of it, and otherwise the operation fails.  At "ack" the event is the
\* warning about packets that were not processed.
NotifyEvent(o) ==
  /\ AtStep(o, "send") \/ (MayFail /\ AtStep(o, "ack"))
  /\ IF task = "running"
     THEN LET e == [op |-> o, step |-> pc[o]]
          IN /\ sent' = Append(sent, e) /\ queue' = Append(queue, e)
             /\ Advance(o) /\ out' = out
     ELSE Return(o, "err") /\ UNCHANGED <<pc, sent, queue>>
  /\ UNCHANGED <<mode, kind, committed, taskVars, exit>>

\* An operation fails for reasons of its own, or its caller is gone.
OperationFails(o) ==
  /\ MayFail /\ Working(o) /\ pc[o] <= Len(Program(kind[o]))
  /\ Return(o, "err")
  /\ UNCHANGED <<mode, kind, pc, committed, sent, queue, taskVars, exit>>

ReturnOk(o) ==
  /\ Working(o) /\ pc[o] > Len(Program(kind[o]))
  /\ Return(o, "ok")
  /\ UNCHANGED <<mode, kind, pc, committed, sent, queue, taskVars, exit>>

-----------------------------------------------------------------------------
(* The task.                                                               *)

\* Mutant of SendersGone: the command keeps a sender while it waits.
SenderKept == FALSE

\* The services own the senders.  Those of the server live as long as it
\* does; a command drops the only one when its operation returns.
SendersGone == mode = "cli" /\ \E o \in Ops : out[o] # "none"

\* Mutant of Receive: does not wait for the handlers of the event before.
ReceiveEagerly ==
  /\ task = "running" /\ queue # <<>>
  /\ current' = Head(queue) /\ next' = 1 /\ queue' = Tail(queue)
  /\ UNCHANGED <<mode, opVars, sent, seen, task, exit>>

\* receiver.recv() returns the next event.
Receive ==
  /\ task = "running" /\ current = None /\ queue # <<>>
  /\ current' = Head(queue) /\ next' = 1 /\ queue' = Tail(queue)
  /\ UNCHANGED <<mode, opVars, sent, seen, task, exit>>

\* Mutant of HandleEvent: the loop over the handlers goes one too far.
HandleEventPastTheEnd ==
  /\ task = "running" /\ current # None
  /\ seen' = IF next \in Handlers THEN [seen EXCEPT ![next] = Append(@, current)]
                                  ELSE seen
  /\ IF next > HandlerCount THEN current' = None /\ next' = 1
                            ELSE current' = current /\ next' = next + 1
  /\ UNCHANGED <<mode, opVars, sent, queue, task, exit>>

\* One handler has handled the event, and the next one gets it.
HandleEvent ==
  /\ task = "running" /\ current # None
  /\ seen' = [seen EXCEPT ![next] = Append(@, current)]
  /\ IF next = HandlerCount THEN current' = None /\ next' = 1
                            ELSE current' = current /\ next' = next + 1
  /\ UNCHANGED <<mode, opVars, sent, queue, task, exit>>

\* Mutant of HandlerFails: the task goes on with the next event.
HandlerFailsAndGoesOn ==
  /\ MayFail /\ task = "running" /\ current # None
  /\ current' = None /\ next' = 1
  /\ UNCHANGED <<mode, opVars, sent, queue, seen, task, exit>>

\* A handler fails: a hook for reasons of its own, CliEventHandler when it
\* cannot print, EnvLogger when it cannot serialise.  The task returns and
\* drops the channel with what is in it.
HandlerFails ==
  /\ MayFail /\ task = "running" /\ current # None
  /\ task' = "failed" /\ current' = None /\ queue' = <<>>
  /\ UNCHANGED <<mode, opVars, sent, next, seen, exit>>

\* recv() returns None: no event is left and nobody can send another one.
TaskEnds ==
  /\ task = "running" /\ current = None /\ queue = <<>> /\ SendersGone
  /\ task' = "ended"
  /\ UNCHANGED <<mode, opVars, sent, queue, current, next, seen, exit>>

-----------------------------------------------------------------------------
(* The process.                                                            *)

\* The process is gone, and the task with it.
Exit(result) ==
  /\ exit' = result
  /\ task' = IF task = "running" THEN "killed" ELSE task
  /\ queue' = <<>> /\ current' = None
  /\ UNCHANGED <<mode, opVars, sent, next, seen>>

\* The operation of a command failed: it returns without waiting for the task.
CommandFails ==
  /\ mode = "cli" /\ exit = "none" /\ \E o \in Ops : out[o] = "err"
  /\ Exit("err")

\* Mutant of CommandEnds: success is reported without waiting for the task.
CommandEndsAtOnce ==
  /\ mode = "cli" /\ exit = "none" /\ \E o \in Ops : out[o] = "ok"
  /\ Exit(IF task = "failed" THEN "err" ELSE "ok")

\* The operation succeeded: the command waits for the task and returns what
\* the task returned.
CommandEnds ==
  /\ mode = "cli" /\ exit = "none" /\ \E o \in Ops : out[o] = "ok"
  /\ task # "running"
  /\ Exit(IF task = "ended" THEN "ok" ELSE "err")

\* The process is killed, or the server fails.
Stop ==
  /\ MayFail /\ exit = "none"
  /\ Exit("err")

OpStep(o) ==
  \/ Commit(o) \/ Record(o) \/ Acknowledge(o) \/ NotifyEvent(o)
  \/ OperationFails(o) \/ ReturnOk(o)

TaskStep == Receive \/ HandleEvent \/ HandlerFails \/ TaskEnds
ProcessStep == CommandFails \/ CommandEnds

\* The process is gone, or a server has nothing to do.
Terminated ==
  /\ \/ exit # "none"
     \/ /\ mode = "server" /\ \A o \in Ops : out[o] # "none"
        /\ queue = <<>> /\ current = None
  /\ UNCHANGED vars

Next ==
  \/ \E o \in Ops : Call(o) \/ OpStep(o)
  \/ TaskStep \/ ProcessStep \/ Stop
  \/ Terminated

Spec == Init /\ [][Next]_vars

\* The executor polls what can run; nothing makes a client call.
Fairness ==
  /\ \A o \in Ops : WF_vars(OpStep(o))
  /\ WF_vars(TaskStep) /\ WF_vars(ProcessStep)
FairSpec == Spec /\ Fairness

-----------------------------------------------------------------------------
(* Properties.                                                             *)

\* Every variable keeps its type; the loop over the handlers stays in bounds.
TypeOK ==
  /\ mode \in Modes /\ kind \in [Ops -> Kinds]
  /\ pc \in [Ops -> Nat] /\ out \in [Ops -> {"none", "ok", "err"}]
  /\ committed \subseteq Ops
  /\ sent \in Seq(Events) /\ queue \in Seq(Events)
  /\ current \in Events \cup {None} /\ next \in Handlers
  /\ seen \in [Handlers -> Seq(Events)]
  /\ task \in {"running", "ended", "failed", "killed"}
  /\ exit \in {"none", "ok", "err"}

\* The bus is a log that all handlers read in order, one event at a time; the
\* first failure closes it ("they're executed in order they're provided in
\* CLI. Also, if an event handler returns an error when handling a message,
\* all the future event handlers will not get executed", README.md:28).
Bus == INSTANCE EventLog
  WITH Handlers <- HandlerCount, log <- sent, open <- task = "running"

EventLogSpec == Bus!Spec

\* A command that reports success has had every event of its operation
\* handled by every handler, and its operation returned Ok.
SuccessIsDrained ==
  mode = "cli" /\ exit = "ok" =>
    /\ \A h \in Handlers : seen[h] = sent
    /\ \E o \in Ops : out[o] = "ok"

\* An operation that returns Ok has had all of its events accepted: after a
\* handler has failed no operation with an event to send succeeds.
OkIsAnnounced ==
  \A o \in Ops : out[o] = "ok" =>
    \A s \in 1 .. Len(Program(kind[o])) : Program(kind[o])[s] = "send" =>
      \E i \in 1 .. Len(sent) : sent[i] = [op |-> o, step |-> s]

\* A handler that is told of a mint, a burn, a new key or a new chain is told
\* what cannot be rolled back any more.
TellsTheTruth ==
  \A h \in Handlers : \A i \in 1 .. Len(seen[h]) :
    LET o == seen[h][i].op IN kind[o] # "connect" => o \in committed

\* Every event the channel accepts reaches every handler, unless the task ends.
EventsAreHandled ==
  \A n \in 1 .. 4 * Cardinality(Ops) :
    Len(sent) >= n ~>
      task # "running" \/ \A h \in Handlers : Len(seen[h]) >= n

\* A command ends: the task that it waits for does not wait for a sender that
\* the command still owns.
EveryCommandEnds ==
  mode = "cli" /\ (\E o \in Ops : Called(o)) ~> exit # "none"
=============================================================================
