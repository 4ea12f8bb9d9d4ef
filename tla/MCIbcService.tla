--------------------------- MODULE MCIbcService ---------------------------
(***************************************************************************)
(* Instances of IbcService for TLC.  The configurations choose the build   *)
(* (Backend), the handlers that run together (Kinds, MaxActive) and what   *)
(* the environment may do (MayFail, MayFailAck, Refusable, Shared).        *)
(***************************************************************************)
EXTENDS IbcService, TLC

\* Requests are interchangeable: only equality on them is used.
Symmetry == Permutations(Requests)
=============================================================================
