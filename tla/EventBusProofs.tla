--------------------------- MODULE EventBusProofs ---------------------------
(***************************************************************************)
(* Theorems about EventBus for any number of operations and handlers, both *)
(* kinds of process and every failure.                                     *)
(***************************************************************************)
EXTENDS EventBus, SequenceTheorems, TLAPS

-----------------------------------------------------------------------------
(* The operations.                                                         *)

Steps == {"commit", "record", "send", "ack"}

\* An operation has at most four steps, and every operation but connect
\* commits before it does anything else.
WellFormed(k, p) ==
  /\ p \in Seq(Steps) /\ Len(p) <= 4
  /\ (k # "connect" /\ Len(p) > 0) => p[1] = "commit"

\* All operations are of that form.
LEMMA ProgramShape ==
  ASSUME NEW k \in AllKinds
  PROVE  WellFormed(k, Program(k))
<1>1. CASE k = "mint"
  <2>1. Program(k) = <<"commit", "record", "send">>
    BY <1>1 DEF Program
  <2>2. WellFormed("mint", <<"commit", "record", "send">>)
    BY DEF WellFormed, Steps
  <2>. QED
    BY <1>1, <2>1, <2>2
<1>2. CASE k = "burn"
  <2>1. Program(k) = <<"commit", "record", "send", "ack">>
    BY <1>2 DEF Program
  <2>2. WellFormed("burn", <<"commit", "record", "send", "ack">>)
    BY DEF WellFormed, Steps
  <2>. QED
    BY <1>2, <2>1, <2>2
<1>3. CASE k = "update"
  <2>1. Program(k) = <<"commit", "send">>
    BY <1>3 DEF Program
  <2>2. WellFormed("update", <<"commit", "send">>)
    BY DEF WellFormed, Steps
  <2>. QED
    BY <1>3, <2>1, <2>2
<1>4. CASE k = "add"
  <2>1. Program(k) = <<"commit", "send">>
    BY <1>4 DEF Program
  <2>2. WellFormed("add", <<"commit", "send">>)
    BY DEF WellFormed, Steps
  <2>. QED
    BY <1>4, <2>1, <2>2
<1>5. CASE k = "connect"
  <2>1. Program(k) = <<"send", "send", "commit">>
    BY <1>5 DEF Program
  <2>2. WellFormed("connect", <<"send", "send", "commit">>)
    BY DEF WellFormed, Steps
  <2>. QED
    BY <1>5, <2>1, <2>2
<1>6. CASE k = "query"
  <2>1. Program(k) = <<>>
    BY <1>6 DEF Program
  <2>2. WellFormed("query", <<>>)
    BY DEF WellFormed, Steps
  <2>. QED
    BY <1>6, <2>1, <2>2
<1>. QED
  BY <1>1, <1>2, <1>3, <1>4, <1>5, <1>6 DEF AllKinds

-----------------------------------------------------------------------------
(* Types.                                                                  *)

\* The event that an operation sends at its current step.
LEMMA EventType ==
  ASSUME TypeOK, NEW o \in Ops, AtStep(o, "send") \/ AtStep(o, "ack")
  PROVE  [op |-> o, step |-> pc[o]] \in Events
<1>1. Len(Program(kind[o])) <= 4 /\ Program(kind[o]) \in Seq(Steps)
  BY ProgramShape, BusAssumption DEF WellFormed, TypeOK
<1>2. pc[o] \in Nat /\ pc[o] > 0 /\ pc[o] <= Len(Program(kind[o]))
  BY DEF AtStep, Working, Called, TypeOK
<1>3. pc[o] \in 1 .. 4
  BY <1>1, <1>2
<1>. QED
  BY <1>3 DEF Events

\* Every variable keeps its type, for any number of operations and hooks.
THEOREM TypeCorrect == Spec => []TypeOK
<1>1. Init => TypeOK
  BY BusAssumption DEF Init, TypeOK, Handlers, HandlerCount
<1>2. TypeOK /\ [Next]_vars => TypeOK'
  <2> SUFFICES ASSUME TypeOK, [Next]_vars PROVE TypeOK'
    OBVIOUS
  <2> USE DEF TypeOK, opVars, taskVars
  <2>1. ASSUME NEW o \in Ops, Call(o) PROVE TypeOK'
    BY <2>1 DEF Call, Advance
  <2>2. ASSUME NEW o \in Ops, Commit(o) PROVE TypeOK'
    BY <2>2 DEF Commit, Advance
  <2>3. ASSUME NEW o \in Ops, Record(o) \/ Acknowledge(o) PROVE TypeOK'
    <3>1. pc' = [pc EXCEPT ![o] = @ + 1]
      BY <2>3 DEF Record, Acknowledge, Advance
    <3>2. UNCHANGED <<mode, kind, out, committed, sent, queue, taskVars, exit>>
      BY <2>3 DEF Record, Acknowledge
    <3>. QED
      BY <3>1, <3>2
  <2>4. ASSUME NEW o \in Ops, NotifyEvent(o) PROVE TypeOK'
    <3>1. [op |-> o, step |-> pc[o]] \in Events
      BY <2>4, EventType DEF NotifyEvent
    <3>2. CASE task = "running"
      <4> DEFINE e == [op |-> o, step |-> pc[o]]
      <4>0. sent' = Append(sent, e) /\ queue' = Append(queue, e)
        BY <2>4, <3>2 DEF NotifyEvent
      <4>1. sent' \in Seq(Events) /\ queue' \in Seq(Events)
        BY <3>1, <4>0
      <4>2. pc' \in [Ops -> Nat] /\ out' = out
        BY <2>4, <3>2 DEF NotifyEvent, Advance
      <4>3. UNCHANGED <<mode, kind, committed, taskVars, exit>>
        BY <2>4 DEF NotifyEvent
      <4>. QED
        BY <4>1, <4>2, <4>3
    <3>3. CASE task # "running"
      BY <2>4, <3>3 DEF NotifyEvent, Return
    <3>. QED
      BY <3>2, <3>3
  <2>5. ASSUME NEW o \in Ops, OperationFails(o) \/ ReturnOk(o) PROVE TypeOK'
    BY <2>5 DEF OperationFails, ReturnOk, Return
  <2>6. CASE Receive
    BY <2>6, BusAssumption DEF Receive, Handlers, HandlerCount
  <2>7. CASE HandleEvent
    <3>1. next \in 1 .. HandlerCount /\ HandlerCount \in Nat
      BY BusAssumption DEF Handlers, HandlerCount
    <3>2. current \in Events
      BY <2>7 DEF HandleEvent
    <3>3. seen' \in [Handlers -> Seq(Events)]
      BY <2>7, <3>2 DEF HandleEvent
    <3>4. current' \in Events \cup {None} /\ next' \in Handlers
      <4>1. CASE next = HandlerCount
        BY <2>7, <3>1, <4>1 DEF HandleEvent, Handlers
      <4>2. CASE next # HandlerCount
        BY <2>7, <3>1, <4>2 DEF HandleEvent, Handlers
      <4>. QED
        BY <4>1, <4>2
    <3>. QED
      BY <2>7, <3>3, <3>4 DEF HandleEvent
  <2>8. CASE HandlerFails \/ TaskEnds
    <3>1. CASE HandlerFails
      BY <3>1 DEF HandlerFails
    <3>2. CASE TaskEnds
      BY <3>2 DEF TaskEnds
    <3>. QED
      BY <2>8, <3>1, <3>2
  <2>9. ASSUME NEW result \in {"ok", "err"}, Exit(result) PROVE TypeOK'
    BY <2>9 DEF Exit
  <2>10. CASE ProcessStep \/ Stop
    BY <2>9, <2>10 DEF ProcessStep, CommandFails, CommandEnds, Stop
  <2>11. CASE UNCHANGED vars
    BY <2>11 DEF vars
  <2>. QED
    BY <2>1, <2>2, <2>3, <2>4, <2>5, <2>6, <2>7, <2>8, <2>10, <2>11
    DEF Next, OpStep, TaskStep, Terminated
<1>. QED
  BY <1>1, <1>2, PTL DEF Spec

-----------------------------------------------------------------------------
(* The task reads the channel in order.                                    *)

\* How many events the task has taken out of the channel.
Taken == Len(sent) - Len(queue)

\* Every handler has handled the first events, in order.
InOrder ==
  \A h \in Handlers :
    /\ Len(seen[h]) <= Len(sent)
    /\ \A i \in 1 .. Len(seen[h]) : seen[h][i] = sent[i]

\* The channel holds the last events, and the handlers before `next` are one
\* event ahead of the others.
Flow ==
  task = "running" =>
    /\ Len(queue) <= Len(sent)
    /\ \A i \in 1 .. Len(queue) : queue[i] = sent[Taken + i]
    /\ current = None => \A h \in Handlers : Len(seen[h]) = Taken
    /\ current # None =>
         /\ Taken > 0 /\ current = sent[Taken]
         /\ \A h \in Handlers :
              Len(seen[h]) = IF h < next THEN Taken ELSE Taken - 1

\* The task ends well only when nothing is left and nobody can send any more,
\* and a command reports success only then.
Drained ==
  /\ task = "ended" => SendersGone /\ \A h \in Handlers : Len(seen[h]) = Len(sent)
  /\ exit = "ok" => task = "ended" /\ \E o \in Ops : out[o] = "ok"

BusInv == InOrder /\ Flow /\ Drained

\* The steps that leave the channel and the task alone.
LEMMA OperationStep ==
  ASSUME BusInv, UNCHANGED <<mode, sent, queue, taskVars, exit>>,
         \A o \in Ops : out[o] # "none" => out'[o] = out[o]
  PROVE  BusInv'
<1>1. InOrder'
  BY DEF BusInv, InOrder, taskVars
<1>2. Flow'
  BY DEF BusInv, Flow, Taken, taskVars
<1>3. Drained'
  BY DEF BusInv, Drained, SendersGone, taskVars
<1>. QED
  BY <1>1, <1>2, <1>3 DEF BusInv

\* An event is sent: it is the last one of the log and of the channel.
LEMMA SendStep ==
  ASSUME TypeOK, BusInv, NEW e \in Events, task = "running",
         sent' = Append(sent, e), queue' = Append(queue, e),
         UNCHANGED <<mode, out, taskVars, exit>>
  PROVE  BusInv'
<1>1. /\ Len(sent') = Len(sent) + 1 /\ Len(queue') = Len(queue) + 1
      /\ Len(sent) \in Nat /\ Len(queue) \in Nat
      /\ \A i \in 1 .. Len(sent) : sent'[i] = sent[i]
      /\ \A i \in 1 .. Len(queue) : queue'[i] = queue[i]
      /\ sent'[Len(sent) + 1] = e /\ queue'[Len(queue) + 1] = e
  BY DEF TypeOK
<1>2. Taken' = Taken /\ Taken \in Int /\ Taken <= Len(sent)
  BY <1>1 DEF Taken
<1>3. InOrder'
  <2>1. \A h \in Handlers : Len(seen[h]) \in Nat
    BY DEF TypeOK
  <2>. QED
    BY <1>1, <2>1 DEF BusInv, InOrder, taskVars
<1>4. Flow'
  <2>1. Len(queue') <= Len(sent')
    BY <1>1 DEF BusInv, Flow
  <2>2. ASSUME NEW i \in 1 .. Len(queue') PROVE queue'[i] = sent'[Taken' + i]
    <3>1. CASE i = Len(queue')
      BY <1>1, <1>2, <3>1 DEF Taken
    <3>2. CASE i # Len(queue')
      <4>1. i \in 1 .. Len(queue) /\ Taken + i \in 1 .. Len(sent)
        BY <1>1, <3>2 DEF BusInv, Flow, Taken
      <4>2. queue[i] = sent[Taken + i]
        BY <4>1 DEF BusInv, Flow
      <4>3. sent'[Taken + i] = sent[Taken + i] /\ queue'[i] = queue[i]
        BY <1>1, <4>1
      <4>. QED
        BY <1>2, <4>2, <4>3
    <3>. QED
      BY <3>1, <3>2
  <2>3. current # None => sent'[Taken] = sent[Taken]
    <3>1. current # None => Taken \in 1 .. Len(sent)
      BY <1>1, <1>2 DEF BusInv, Flow
    <3>. QED
      BY <1>1, <3>1
  <2>. QED
    BY <1>2, <2>1, <2>2, <2>3 DEF BusInv, Flow, taskVars
<1>5. Drained'
  BY DEF BusInv, Drained, taskVars
<1>. QED
  BY <1>3, <1>4, <1>5 DEF BusInv

\* The task takes the next event out of the channel.
LEMMA ReceiveStep ==
  ASSUME TypeOK, BusInv, Receive
  PROVE  BusInv'
<1>1. /\ Len(queue') = Len(queue) - 1 /\ Len(queue) \in Nat \ {0}
      /\ \A i \in 1 .. Len(queue') : queue'[i] = queue[i + 1]
      /\ current' = queue[1] /\ current' \in Events
      /\ next' = 1 /\ task = "running" /\ current = None
      /\ UNCHANGED <<mode, out, sent, seen, task, exit>>
  BY DEF TypeOK, Receive, opVars
<1>2. Taken' = Taken + 1 /\ Taken \in Nat /\ Len(sent) \in Nat
  BY <1>1 DEF TypeOK, Taken, BusInv, Flow
<1>3. InOrder' /\ Drained'
  BY <1>1 DEF BusInv, InOrder, Drained
<1>4. Flow'
  <2>1. Len(queue') <= Len(sent')
    BY <1>1, <1>2 DEF BusInv, Flow
  <2>2. \A i \in 1 .. Len(queue) : queue[i] = sent[Taken + i]
    BY <1>1 DEF BusInv, Flow
  <2>3. ASSUME NEW i \in 1 .. Len(queue') PROVE queue'[i] = sent'[Taken' + i]
    <3>1. i + 1 \in 1 .. Len(queue) /\ Taken + (i + 1) = Taken' + i
      BY <1>1, <1>2
    <3>. QED
      BY <1>1, <2>2, <3>1
  <2>4. current' # None /\ current' = sent'[Taken'] /\ Taken' > 0
    BY <1>1, <1>2, <2>2, NoneAssumption
  <2>5. \A h \in Handlers :
          Len(seen'[h]) = IF h < next' THEN Taken' ELSE Taken' - 1
    BY <1>1, <1>2 DEF BusInv, Flow, Handlers
  <2>. QED
    BY <2>1, <2>3, <2>4, <2>5 DEF Flow
<1>. QED
  BY <1>3, <1>4 DEF BusInv

\* What a handler that handles the event is given, and what it has then.
LEMMA HandlerTurn ==
  ASSUME TypeOK, BusInv, HandleEvent
  PROVE  /\ next \in Handlers /\ Taken \in 1 .. Len(sent)
         /\ current = sent[Taken] /\ Len(seen[next]) = Taken - 1
         /\ seen' = [seen EXCEPT ![next] = Append(seen[next], sent[Taken])]
         /\ Len(seen'[next]) = Taken /\ seen'[next][Taken] = sent[Taken]
         /\ \A i \in 1 .. Taken - 1 : seen'[next][i] = seen[next][i]
         /\ \A h \in Handlers \ {next} : seen'[h] = seen[h]
<1>1. next \in Handlers /\ next \in Nat /\ seen[next] \in Seq(Events)
  BY BusAssumption DEF TypeOK, Handlers, HandlerCount
<1>2. /\ Taken > 0 /\ current = sent[Taken] /\ Len(seen[next]) = Taken - 1
      /\ Len(queue) <= Len(sent) /\ current \in Events
  BY <1>1 DEF TypeOK, HandleEvent, BusInv, Flow
<1>3. Taken \in 1 .. Len(sent)
  BY <1>2 DEF TypeOK, Taken
<1>4. seen' = [seen EXCEPT ![next] = Append(seen[next], sent[Taken])]
  BY <1>2 DEF HandleEvent
<1>5. seen'[next] = Append(seen[next], sent[Taken])
  BY <1>1, <1>4 DEF TypeOK
<1>6. /\ Len(seen'[next]) = Taken /\ seen'[next][Taken] = sent[Taken]
      /\ \A i \in 1 .. Taken - 1 : seen'[next][i] = seen[next][i]
  BY <1>1, <1>2, <1>3, <1>5
<1>7. \A h \in Handlers \ {next} : seen'[h] = seen[h]
  BY <1>4 DEF TypeOK
<1>. QED
  BY <1>1, <1>2, <1>3, <1>4, <1>6, <1>7

\* A handler handles the event, and the next one gets it.
LEMMA HandleStep ==
  ASSUME TypeOK, BusInv, HandleEvent
  PROVE  BusInv'
<1>1. UNCHANGED <<mode, out, sent, queue, task, exit>> /\ task = "running"
  BY DEF HandleEvent, opVars
<1>2. Taken' = Taken /\ Taken \in Nat /\ current # None
  BY <1>1, HandlerTurn DEF Taken, HandleEvent
<1>3. InOrder'
  <2>1. ASSUME NEW h \in Handlers, h = next
        PROVE  Len(seen'[h]) <= Len(sent) /\ \A i \in 1 .. Len(seen'[h]) : seen'[h][i] = sent[i]
    <3>1. \A i \in 1 .. Taken - 1 : seen'[h][i] = sent[i]
      BY <2>1, HandlerTurn DEF BusInv, InOrder
    <3>. QED
      BY <2>1, <3>1, <1>2, HandlerTurn
  <2>2. ASSUME NEW h \in Handlers, h # next
        PROVE  Len(seen'[h]) <= Len(sent) /\ \A i \in 1 .. Len(seen'[h]) : seen'[h][i] = sent[i]
    BY <2>2, HandlerTurn DEF BusInv, InOrder
  <2>. QED
    BY <1>1, <2>1, <2>2 DEF InOrder
<1>4. \A h \in Handlers :
        Len(seen'[h]) = IF h < next \/ h = next THEN Taken ELSE Taken - 1
  BY <1>1, <1>2, HandlerTurn DEF BusInv, Flow
<1>5. Flow'
  <2>1. CASE next = HandlerCount
    <3>1. \A h \in Handlers : Len(seen'[h]) = Taken
      BY <1>4, <2>1, BusAssumption DEF Handlers, HandlerCount
    <3>2. current' = None
      BY <2>1 DEF HandleEvent
    <3>. QED
      BY <1>1, <1>2, <3>1, <3>2 DEF BusInv, Flow
  <2>2. CASE next # HandlerCount
    <3>1. current' = current /\ next' = next + 1
      BY <2>2 DEF HandleEvent
    <3>2. \A h \in Handlers :
            Len(seen'[h]) = IF h < next' THEN Taken ELSE Taken - 1
      BY <1>4, <3>1, HandlerTurn, BusAssumption DEF Handlers, HandlerCount
    <3>. QED
      BY <1>1, <1>2, <3>1, <3>2, HandlerTurn DEF BusInv, Flow
  <2>. QED
    BY <2>1, <2>2
<1>6. Drained'
  BY <1>1 DEF BusInv, Drained
<1>. QED
  BY <1>3, <1>5, <1>6 DEF BusInv

\* The process is gone: the task, if it still ran, and the channel with it.
LEMMA ExitStep ==
  ASSUME BusInv, NEW result \in {"ok", "err"}, Exit(result),
         result = "ok" => task = "ended" /\ \E o \in Ops : out[o] = "ok"
  PROVE  BusInv'
<1>1. /\ UNCHANGED <<mode, out, sent, seen>> /\ exit' = result
      /\ task' = IF task = "running" THEN "killed" ELSE task
  BY DEF Exit, opVars
<1>2. InOrder'
  BY <1>1 DEF BusInv, InOrder
<1>3. Flow'
  BY <1>1 DEF Flow
<1>4. Drained'
  BY <1>1 DEF BusInv, Drained, SendersGone
<1>. QED
  BY <1>2, <1>3, <1>4 DEF BusInv

\* Whatever fails, the handlers read what was sent, in order and one event at
\* a time, and a task that ends well has read everything.
THEOREM BusInvariant == Spec => []BusInv
<1>1. Init => BusInv
  BY BusAssumption DEF Init, BusInv, InOrder, Flow, Drained, Taken, Handlers, HandlerCount
<1>2. TypeOK /\ BusInv /\ [Next]_vars => BusInv'
  <2> SUFFICES ASSUME TypeOK, BusInv, [Next]_vars PROVE BusInv'
    OBVIOUS
  <2>1. ASSUME NEW o \in Ops, Call(o) \/ Commit(o) \/ Record(o) \/ Acknowledge(o)
        PROVE  BusInv'
    <3>1. UNCHANGED <<mode, out, sent, queue, taskVars, exit>>
      BY <2>1 DEF Call, Commit, Record, Acknowledge
    <3>. QED
      BY <3>1, OperationStep
  <2>2. ASSUME NEW o \in Ops, NotifyEvent(o) PROVE BusInv'
    <3>1. CASE task = "running"
      <4> DEFINE e == [op |-> o, step |-> pc[o]]
      <4>1. e \in Events
        BY <2>2, EventType DEF NotifyEvent
      <4>2. /\ sent' = Append(sent, e) /\ queue' = Append(queue, e)
            /\ UNCHANGED <<mode, out, taskVars, exit>>
        BY <2>2, <3>1 DEF NotifyEvent
      <4> HIDE DEF e
      <4>. QED
        BY <3>1, <4>1, <4>2, SendStep
    <3>2. CASE task # "running"
      <4>1. /\ out' = [out EXCEPT ![o] = "err"] /\ out[o] = "none"
            /\ UNCHANGED <<mode, sent, queue, taskVars, exit>>
        BY <2>2, <3>2 DEF NotifyEvent, Return, AtStep, Working
      <4>2. \A p \in Ops : out[p] # "none" => out'[p] = out[p]
        BY <4>1 DEF TypeOK
      <4>. QED
        BY <4>1, <4>2, OperationStep
    <3>. QED
      BY <3>1, <3>2
  <2>3. ASSUME NEW o \in Ops, OperationFails(o) \/ ReturnOk(o) PROVE BusInv'
    <3>1. /\ \E result \in {"ok", "err"} : out' = [out EXCEPT ![o] = result]
          /\ out[o] = "none" /\ UNCHANGED <<mode, sent, queue, taskVars, exit>>
      BY <2>3 DEF OperationFails, ReturnOk, Return, Working
    <3>2. \A p \in Ops : out[p] # "none" => out'[p] = out[p]
      BY <3>1 DEF TypeOK
    <3>. QED
      BY <3>1, <3>2, OperationStep
  <2>4. CASE Receive
    BY <2>4, ReceiveStep
  <2>5. CASE HandleEvent
    BY <2>5, HandleStep
  <2>6. CASE HandlerFails
    BY <2>6 DEF HandlerFails, opVars, BusInv, InOrder, Flow, Drained
  <2>7. CASE TaskEnds
    <3>1. /\ task = "running" /\ current = None /\ queue = <<>> /\ SendersGone
          /\ task' = "ended" /\ UNCHANGED <<mode, out, sent, seen, exit>>
      BY <2>7 DEF TaskEnds, opVars
    <3>2. \A h \in Handlers : Len(seen[h]) = Len(sent)
      BY <3>1 DEF BusInv, Flow, Taken, TypeOK
    <3>. QED
      BY <3>1, <3>2 DEF BusInv, InOrder, Flow, Drained, SendersGone
  <2>8. CASE ProcessStep \/ Stop
    <3>1. PICK result \in {"ok", "err"} :
            /\ Exit(result)
            /\ result = "ok" => task = "ended" /\ \E o \in Ops : out[o] = "ok"
      BY <2>8 DEF ProcessStep, CommandFails, CommandEnds, Stop
    <3>. QED
      BY <3>1, ExitStep
  <2>9. CASE UNCHANGED vars
    BY <2>9, OperationStep DEF vars, opVars
  <2>. QED
    BY <2>1, <2>2, <2>3, <2>4, <2>5, <2>6, <2>7, <2>8, <2>9
    DEF Next, OpStep, TaskStep, Terminated
<1>. QED
  BY <1>1, <1>2, TypeCorrect, PTL DEF Spec

\* A command reports success only when every handler has handled every event
\* of an operation that succeeded.
THEOREM SuccessIsDrainedAlways == Spec => []SuccessIsDrained
<1>1. TypeOK /\ BusInv => SuccessIsDrained
  <2> SUFFICES ASSUME TypeOK, BusInv, exit = "ok"
               PROVE  /\ \A h \in Handlers : seen[h] = sent
                      /\ \E o \in Ops : out[o] = "ok"
    BY DEF SuccessIsDrained
  <2>1. task = "ended" /\ \E o \in Ops : out[o] = "ok"
    BY DEF BusInv, Drained
  <2>2. ASSUME NEW h \in Handlers PROVE seen[h] = sent
    <3>1. seen[h] \in Seq(Events) /\ sent \in Seq(Events) /\ Len(seen[h]) = Len(sent)
      BY <2>1 DEF TypeOK, BusInv, Drained
    <3>2. \A i \in 1 .. Len(seen[h]) : seen[h][i] = sent[i]
      BY DEF BusInv, InOrder
    <3>. QED
      BY <3>1, <3>2, SeqEqual
  <2>. QED
    BY <2>1, <2>2
<1>. QED
  BY <1>1, TypeCorrect, BusInvariant, PTL

\* The bus implements EventLog: nothing is lost, repeated or reordered before
\* the bus closes, and nothing happens after it has closed.
THEOREM ImplementsEventLog == Spec => EventLogSpec
<1>1. Init => Bus!Init
  BY DEF Init, Bus!Init, Handlers
<1>2. TypeOK /\ BusInv /\ [Next]_vars => [Bus!Next]_(Bus!vars)
  <2> SUFFICES ASSUME TypeOK, BusInv, [Next]_vars
               PROVE  Bus!Next \/ UNCHANGED <<sent, seen, task>>
                      \/ UNCHANGED <<sent, seen, task = "running">>
    BY DEF Bus!vars
  <2>1. ASSUME NEW o \in Ops, Call(o) \/ Commit(o) \/ Record(o) \/ Acknowledge(o)
        PROVE  UNCHANGED <<sent, seen, task>>
    BY <2>1 DEF Call, Commit, Record, Acknowledge, taskVars
  <2>2. ASSUME NEW o \in Ops, NotifyEvent(o)
        PROVE  Bus!Next \/ UNCHANGED <<sent, seen, task>>
    <3>1. CASE task = "running"
      <4>1. [op |-> o, step |-> pc[o]] \in Events
        BY <2>2, EventType DEF NotifyEvent
      <4>2. Bus!Publish([op |-> o, step |-> pc[o]])
        BY <2>2, <3>1 DEF NotifyEvent, taskVars, Bus!Publish
      <4>. QED
        BY <4>1, <4>2 DEF Bus!Next
    <3>2. CASE task # "running"
      BY <2>2, <3>2 DEF NotifyEvent, taskVars
    <3>. QED
      BY <3>1, <3>2
  <2>3. ASSUME NEW o \in Ops, OperationFails(o) \/ ReturnOk(o)
        PROVE  UNCHANGED <<sent, seen, task>>
    BY <2>3 DEF OperationFails, ReturnOk, taskVars
  <2>4. CASE Receive
    BY <2>4 DEF Receive
  <2>5. CASE HandleEvent
    <3>1. /\ task = "running" /\ task' = task /\ sent' = sent
          /\ Len(seen[next]) < Len(sent) /\ sent[Len(seen[next]) + 1] = current
      BY <2>5, HandlerTurn DEF HandleEvent
    <3>2. \A g \in Handlers :
            Len(seen[g]) = IF g < next THEN Len(seen[next]) + 1 ELSE Len(seen[next])
      BY <2>5, HandlerTurn DEF HandleEvent, BusInv, Flow
    <3>3. seen' = [seen EXCEPT ![next] = Append(@, sent[Len(@) + 1])]
      BY <2>5, <3>1 DEF HandleEvent
    <3>4. Bus!Handle(next) /\ next \in 1 .. HandlerCount
      BY <2>5, <3>1, <3>2, <3>3, HandlerTurn DEF Bus!Handle, Handlers
    <3>. QED
      BY <3>4 DEF Bus!Next
  <2>6. CASE HandlerFails \/ TaskEnds
    <3>1. /\ task = "running" /\ task' # "running" /\ UNCHANGED <<sent, seen>>
      BY <2>6 DEF HandlerFails, TaskEnds
    <3>. QED
      BY <3>1 DEF Bus!Next, Bus!Close
  <2>7. CASE ProcessStep \/ Stop
    <3>1. /\ UNCHANGED <<sent, seen>>
          /\ task' = IF task = "running" THEN "killed" ELSE task
      BY <2>7 DEF ProcessStep, CommandFails, CommandEnds, Stop, Exit
    <3>. QED
      BY <3>1 DEF Bus!Next, Bus!Close
  <2>8. CASE UNCHANGED vars
    BY <2>8 DEF vars, taskVars
  <2>. QED
    BY <2>1, <2>2, <2>3, <2>4, <2>5, <2>6, <2>7, <2>8
    DEF Next, OpStep, TaskStep, Terminated
<1>. QED
  BY <1>1, <1>2, TypeCorrect, BusInvariant, PTL DEF Spec, EventLogSpec, Bus!Spec

-----------------------------------------------------------------------------
(* What operations announce.                                               *)

\* The channel has accepted the event that o sends at its step s.
Announced(o, s) == \E i \in 1 .. Len(sent) : sent[i] = [op |-> o, step |-> s]

\* Operations get past a step that sends only when the event is accepted, and
\* return Ok only at their end.
Progress ==
  \A o \in Ops :
    /\ \A s \in 1 .. Len(Program(kind[o])) :
         s < pc[o] /\ Program(kind[o])[s] = "send" => Announced(o, s)
    /\ out[o] = "ok" => pc[o] > Len(Program(kind[o]))

\* Operations other than connect get past their first step by committing, and
\* send nothing before.
Durable ==
  /\ \A o \in Ops :
       kind[o] # "connect" /\ pc[o] > 1 /\ Len(Program(kind[o])) > 0
         => o \in committed
  /\ \A i \in 1 .. Len(sent) :
       kind[sent[i].op] # "connect" => sent[i].op \in committed

\* A step of o that sends nothing.
LEMMA SilentStep ==
  ASSUME TypeOK, Progress, Durable, NEW o \in Ops,
         UNCHANGED <<kind, sent>>,
         pc' = pc \/ (/\ pc' = [pc EXCEPT ![o] = @ + 1]
                      /\ pc[o] = 0 \/ (/\ Program(kind[o])[pc[o]] # "send"
                                       /\ out[o] = "none")),
         out' = out \/ (/\ \E result \in {"ok", "err"} : out' = [out EXCEPT ![o] = result]
                        /\ out'[o] = "ok" => pc'[o] > Len(Program(kind[o]))),
         out[o] = "ok" => pc' = pc,
         committed \subseteq committed',
         kind[o] # "connect" /\ pc'[o] > 1 /\ Len(Program(kind[o])) > 0
           => o \in committed'
  PROVE  Progress' /\ Durable'
<1>1. pc \in [Ops -> Nat] /\ out \in [Ops -> {"none", "ok", "err"}]
  BY DEF TypeOK
<1>2. \A p, s : Announced(p, s)' <=> Announced(p, s)
  BY DEF Announced
<1>3. ASSUME NEW p \in Ops, NEW s \in 1 .. Len(Program(kind[p])), s < pc'[p],
             Program(kind[p])[s] = "send"
      PROVE  Announced(p, s)
  <2>1. s < pc[p]
    BY <1>1, <1>3
  <2>. QED
    BY <1>3, <2>1 DEF Progress
<1>4. ASSUME NEW p \in Ops, out'[p] = "ok"
      PROVE  pc'[p] > Len(Program(kind[p]))
  BY <1>1, <1>4 DEF Progress
<1>5. Progress'
  BY <1>2, <1>3, <1>4 DEF Progress
<1>6. ASSUME NEW p \in Ops, kind[p] # "connect", pc'[p] > 1, Len(Program(kind[p])) > 0
      PROVE  p \in committed'
  BY <1>1, <1>6 DEF Durable
<1>7. Durable'
  BY <1>6 DEF Durable
<1>. QED
  BY <1>5, <1>7

\* An event that is accepted is announced, and its operation is durable.
LEMMA AnnounceStep ==
  ASSUME TypeOK, Progress, Durable, NEW o \in Ops, NotifyEvent(o), task = "running"
  PROVE  Progress' /\ Durable'
<1> DEFINE e == [op |-> o, step |-> pc[o]]
<1>1. /\ pc[o] \in Nat /\ pc[o] > 0 /\ pc[o] <= Len(Program(kind[o]))
      /\ Program(kind[o])[pc[o]] \in {"send", "ack"} /\ out[o] = "none"
  BY DEF NotifyEvent, AtStep, Working, Called, TypeOK
<1>2. /\ sent' = Append(sent, e) /\ pc' = [pc EXCEPT ![o] = @ + 1]
      /\ UNCHANGED <<kind, out, committed>>
  BY DEF NotifyEvent, Advance
<1>3. e \in Events /\ sent \in Seq(Events)
  BY EventType DEF NotifyEvent, TypeOK
<1>4. /\ Len(sent') = Len(sent) + 1 /\ Len(sent) \in Nat
      /\ sent'[Len(sent) + 1] = e /\ \A i \in 1 .. Len(sent) : sent'[i] = sent[i]
  BY <1>2, <1>3
<1>6. ASSUME NEW p \in Ops, NEW s, Announced(p, s) PROVE Announced(p, s)'
  BY <1>4, <1>6 DEF Announced
<1>7. Progress'
  <2>1. ASSUME NEW p \in Ops, NEW s \in 1 .. Len(Program(kind[p])), s < pc'[p],
               Program(kind[p])[s] = "send"
        PROVE  Announced(p, s)'
    <3>1. CASE p = o /\ s = pc[o]
      <4>1. \E i \in 1 .. Len(sent') : sent'[i] = [op |-> o, step |-> pc[o]]
        BY <1>4
      <4>. QED
        BY <3>1, <4>1 DEF Announced
    <3>2. CASE ~(p = o /\ s = pc[o])
      <4>1. s < pc[p]
        BY <1>1, <1>2, <2>1, <3>2 DEF TypeOK
      <4>. QED
        BY <1>6, <2>1, <4>1 DEF Progress
    <3>. QED
      BY <3>1, <3>2
  <2>2. ASSUME NEW p \in Ops, out'[p] = "ok" PROVE pc'[p] > Len(Program(kind[p]))
    BY <1>1, <1>2, <2>2 DEF Progress, TypeOK
  <2>. QED
    BY <1>2, <2>1, <2>2 DEF Progress
<1>8. kind[o] # "connect" => o \in committed
  <2> SUFFICES ASSUME kind[o] # "connect" PROVE o \in committed
    OBVIOUS
  <2>1. Program(kind[o])[1] = "commit"
    BY <1>1, ProgramShape, BusAssumption DEF WellFormed, TypeOK
  <2>2. pc[o] > 1
    BY <1>1, <2>1
  <2>. QED
    BY <1>1, <2>2 DEF Durable
<1>9. Durable'
  <2>1. ASSUME NEW i \in 1 .. Len(sent'), kind[sent'[i].op] # "connect"
        PROVE  sent'[i].op \in committed
    <3>1. CASE i = Len(sent) + 1
      BY <1>4, <1>8, <2>1, <3>1
    <3>2. CASE i # Len(sent) + 1
      BY <1>4, <2>1, <3>2 DEF Durable
    <3>. QED
      BY <3>1, <3>2
  <2>2. ASSUME NEW p \in Ops, kind[p] # "connect", pc'[p] > 1, Len(Program(kind[p])) > 0
        PROVE  p \in committed
    BY <1>2, <1>8, <2>2 DEF Durable, TypeOK
  <2>. QED
    BY <1>2, <2>1, <2>2 DEF Durable
<1>. QED
  BY <1>7, <1>9

\* Operations announce what they have done, and only that.
THEOREM AnnouncementInvariant == Spec => [](Progress /\ Durable)
<1>1. Init => Progress /\ Durable
  BY DEF Init, Progress, Durable
<1>2. TypeOK /\ Progress /\ Durable /\ [Next]_vars => Progress' /\ Durable'
  <2> SUFFICES ASSUME TypeOK, Progress, Durable, [Next]_vars
               PROVE  Progress' /\ Durable'
    OBVIOUS
  <2>0. pc \in [Ops -> Nat] /\ out \in [Ops -> {"none", "ok", "err"}]
    BY DEF TypeOK
  <2>1. ASSUME NEW o \in Ops, Call(o) PROVE Progress' /\ Durable'
    <3>1. /\ UNCHANGED <<kind, sent, out, committed>> /\ pc[o] = 0
          /\ pc' = [pc EXCEPT ![o] = @ + 1]
      BY <2>0, <2>1 DEF Call, Called, Advance
    <3>2. pc'[o] = 1 /\ out[o] # "ok"
      <4>1. pc'[o] = 1
        BY <2>0, <3>1
      <4>2. Len(Program(kind[o])) \in Nat
        BY ProgramShape, BusAssumption DEF WellFormed, TypeOK
      <4>3. out[o] # "ok"
        BY <3>1, <4>2 DEF Progress
      <4>. QED
        BY <4>1, <4>3
    <3>3. ~(pc'[o] > 1) /\ ~(out[o] = "ok") /\ committed \subseteq committed'
      BY <3>1, <3>2
    <3>4. UNCHANGED <<kind, sent>> /\ out' = out
      BY <3>1
    <3>. QED
      BY <3>1, <3>3, <3>4, SilentStep
  <2>2. ASSUME NEW o \in Ops, Commit(o) PROVE Progress' /\ Durable'
    <3>1. /\ UNCHANGED <<kind, sent, out>> /\ committed' = committed \cup {o}
          /\ pc' = [pc EXCEPT ![o] = @ + 1] /\ out[o] = "none"
          /\ Program(kind[o])[pc[o]] = "commit"
      BY <2>2 DEF Commit, Advance, AtStep, Working
    <3>. QED
      BY <3>1, SilentStep
  <2>3. ASSUME NEW o \in Ops, Record(o) \/ Acknowledge(o) PROVE Progress' /\ Durable'
    <3>1. /\ UNCHANGED <<kind, sent, out, committed>>
          /\ pc' = [pc EXCEPT ![o] = @ + 1] /\ out[o] = "none"
          /\ pc[o] > 0 /\ pc[o] \in Nat /\ Program(kind[o])[pc[o]] \in {"record", "ack"}
      BY <2>0, <2>3 DEF Record, Acknowledge, Advance, AtStep, Working, Called
    <3>2. kind[o] # "connect" /\ pc'[o] > 1 /\ Len(Program(kind[o])) > 0 => o \in committed
      <4> SUFFICES ASSUME kind[o] # "connect", Len(Program(kind[o])) > 0
                   PROVE  o \in committed
        OBVIOUS
      <4>1. Program(kind[o])[1] = "commit"
        BY ProgramShape, BusAssumption DEF WellFormed, TypeOK
      <4>2. pc[o] > 1
        BY <3>1, <4>1
      <4>. QED
        BY <4>2 DEF Durable
    <3>. QED
      BY <3>1, <3>2, SilentStep
  <2>4. ASSUME NEW o \in Ops, NotifyEvent(o) PROVE Progress' /\ Durable'
    <3>1. CASE task = "running"
      BY <2>4, <3>1, AnnounceStep
    <3>2. CASE task # "running"
      <4>1. /\ UNCHANGED <<kind, sent, pc, committed>>
            /\ out' = [out EXCEPT ![o] = "err"] /\ out[o] = "none"
        BY <2>4, <3>2 DEF NotifyEvent, Return, AtStep, Working
      <4>. QED
        BY <2>0, <4>1, SilentStep DEF Durable
    <3>. QED
      BY <3>1, <3>2
  <2>5. ASSUME NEW o \in Ops, OperationFails(o) \/ ReturnOk(o)
        PROVE  Progress' /\ Durable'
    <3>1. /\ UNCHANGED <<kind, sent, pc, committed>> /\ out[o] = "none"
          /\ \/ out' = [out EXCEPT ![o] = "err"]
             \/ out' = [out EXCEPT ![o] = "ok"] /\ pc[o] > Len(Program(kind[o]))
      BY <2>5 DEF OperationFails, ReturnOk, Return, Working
    <3>. QED
      BY <2>0, <3>1, SilentStep DEF Durable
  <2>6. CASE TaskStep
    BY <2>6 DEF TaskStep, Receive, HandleEvent, HandlerFails, TaskEnds, opVars,
                Progress, Durable, Announced
  <2>7. CASE ProcessStep \/ Stop
    BY <2>7 DEF ProcessStep, CommandFails, CommandEnds, Stop, Exit, opVars,
                Progress, Durable, Announced
  <2>8. CASE UNCHANGED vars
    BY <2>8 DEF vars, opVars, Progress, Durable, Announced
  <2>. QED
    BY <2>1, <2>2, <2>3, <2>4, <2>5, <2>6, <2>7, <2>8 DEF Next, OpStep, Terminated
<1>. QED
  BY <1>1, <1>2, TypeCorrect, PTL DEF Spec

\* An operation returns Ok only when all of its events have been accepted.
THEOREM OkIsAnnouncedAlways == Spec => []OkIsAnnounced
<1>1. TypeOK /\ Progress => OkIsAnnounced
  <2> SUFFICES ASSUME TypeOK, Progress, NEW o \in Ops, out[o] = "ok",
                      NEW s \in 1 .. Len(Program(kind[o])), Program(kind[o])[s] = "send"
               PROVE  Announced(o, s)
    BY DEF OkIsAnnounced, Announced
  <2>1. pc[o] \in Nat /\ Program(kind[o]) \in Seq(Steps)
    BY ProgramShape, BusAssumption DEF WellFormed, TypeOK
  <2>2. s < pc[o]
    BY <2>1 DEF Progress
  <2>. QED
    BY <2>2 DEF Progress
<1>. QED
  BY <1>1, TypeCorrect, AnnouncementInvariant, PTL

\* Handlers are told of mints, burns, keys and chains that are durable.
THEOREM TellsTheTruthAlways == Spec => []TellsTheTruth
<1>1. TypeOK /\ BusInv /\ Durable => TellsTheTruth
  <2> SUFFICES ASSUME TypeOK, BusInv, Durable, NEW h \in Handlers,
                      NEW i \in 1 .. Len(seen[h]), kind[seen[h][i].op] # "connect"
               PROVE  seen[h][i].op \in committed
    BY DEF TellsTheTruth
  <2>1. Len(seen[h]) \in Nat /\ Len(sent) \in Nat /\ Len(seen[h]) <= Len(sent)
    BY DEF TypeOK, BusInv, InOrder
  <2>2. i \in 1 .. Len(sent) /\ seen[h][i] = sent[i]
    BY <2>1 DEF BusInv, InOrder
  <2>. QED
    BY <2>2 DEF Durable
<1>. QED
  BY <1>1, TypeCorrect, BusInvariant, AnnouncementInvariant, PTL
=============================================================================
