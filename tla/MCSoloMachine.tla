--------------------------- MODULE MCSoloMachine ---------------------------
(***************************************************************************)
(* Instances of SoloMachine for TLC.                                       *)
(***************************************************************************)
EXTENDS SoloMachine, TLC

\* Only equality on requests and on calls of add is used.
Symmetry == Permutations(Requests) \cup Permutations(Adds)
=============================================================================
