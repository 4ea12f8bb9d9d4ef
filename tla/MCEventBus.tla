----------------------------- MODULE MCEventBus -----------------------------
(***************************************************************************)
(* Instances of EventBus for TLC.                                          *)
(***************************************************************************)
EXTENDS EventBus, TLC

\* Operations are interchangeable: only equality on them is used.
Symmetry == Permutations(Ops)
=============================================================================
