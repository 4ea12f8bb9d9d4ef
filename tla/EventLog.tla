------------------------------ MODULE EventLog ------------------------------
(***************************************************************************)
(* What the event bus promises to event handlers: a log of events that     *)
(* every handler reads from the beginning, in order, without gaps and      *)
(* without repetitions, each event going through all the handlers before   *)
(* the next one is looked at, until the bus closes for good.               *)
(***************************************************************************)
EXTENDS Naturals, Sequences

CONSTANTS
  Events,   \* what may be published
  Handlers  \* the number of handlers

VARIABLES
  log,  \* events that were accepted
  seen, \* events each handler has handled
  open  \* FALSE once the bus is gone

vars == <<log, seen, open>>

Init ==
  /\ log = <<>> /\ open = TRUE
  /\ seen = [h \in 1 .. Handlers |-> <<>>]

Publish(e) ==
  /\ open
  /\ log' = Append(log, e)
  /\ UNCHANGED <<seen, open>>

\* The next event goes to handler h once the handlers before h are done with
\* it and those after h are done with the one before.
Handle(h) ==
  /\ open /\ Len(seen[h]) < Len(log)
  /\ \A g \in 1 .. Handlers :
       Len(seen[g]) = IF g < h THEN Len(seen[h]) + 1 ELSE Len(seen[h])
  /\ seen' = [seen EXCEPT ![h] = Append(@, log[Len(@) + 1])]
  /\ UNCHANGED <<log, open>>

Close ==
  /\ open /\ open' = FALSE
  /\ UNCHANGED <<log, seen>>

Next ==
  \/ \E e \in Events : Publish(e)
  \/ \E h \in 1 .. Handlers : Handle(h)
  \/ Close

Spec == Init /\ [][Next]_vars
=============================================================================
