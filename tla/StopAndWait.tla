---------------------------- MODULE StopAndWait ----------------------------
(***************************************************************************)
(* What the sequence discipline of the solo machine promises.  One party   *)
(* accepts proofs, each at the next sequence; the other party signs them   *)
(* at the last sequence it knows of and learns of an acceptance some time  *)
(* later, or never.  No proof is accepted before the previous acceptance   *)
(* is known, so the two never differ by more than one.                     *)
(***************************************************************************)
EXTENDS Naturals

CONSTANTS First

VARIABLES
  known,    \* the sequence the signing party would sign at
  accepted  \* the sequence the accepting party waits for

Init == known = First /\ accepted = First

\* A proof signed at the known sequence is accepted.
Accept ==
  /\ accepted = known
  /\ accepted' = accepted + 1
  /\ known' = known

\* The signing party learns that its proof was accepted.
Learn ==
  /\ known < accepted
  /\ known' = known + 1
  /\ accepted' = accepted

Next == Accept \/ Learn

Spec == Init /\ [][Next]_<<known, accepted>>
=============================================================================
