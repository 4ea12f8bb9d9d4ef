----------------------------- MODULE OneAtATime -----------------------------
(***************************************************************************)
(* IbcService with a history variable that remembers whether two requests  *)
(* were ever handled at the same time, to say what a client that sends one *)
(* request at a time may rely on, whatever the service could have done.    *)
(***************************************************************************)
EXTENDS IbcService

VARIABLE overlapped \* two handlers have run at the same time

allVars == <<vars, overlapped>>

Remember == overlapped' = (overlapped \/ Cardinality(Active') > 1)

SerialSpec == Init /\ overlapped = FALSE /\ [][Next /\ Remember]_allVars

\* The same fairness as that of IbcService.
SerialFairSpec ==
  /\ SerialSpec
  /\ \A r \in Requests :
       /\ WF_allVars(Handle(r) /\ Remember)
       /\ WF_allVars(Deliver(r) /\ Remember)

\* As long as one request is handled at a time, with the registered key, burns
\* leave the row and the light client at the same sequence too.
SerialSync == ~overlapped /\ cKey = InitKey => SequenceSync

\* As long as one request is handled at a time, requests succeed.
AloneSucceeds == ~overlapped => SerialService
=============================================================================
