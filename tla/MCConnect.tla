----------------------------- MODULE MCConnect -----------------------------
(***************************************************************************)
(* Instances of Connect for TLC.                                           *)
(***************************************************************************)
EXTENDS Connect, TLC

\* Calls are interchangeable: only equality on them is used.
Symmetry == Permutations(Calls)
=============================================================================
