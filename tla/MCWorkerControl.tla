-------------------------- MODULE MCWorkerControl --------------------------
(***************************************************************************)
(* Instances of WorkerControl for TLC.                                     *)
(***************************************************************************)
EXTENDS WorkerControl, TLC

TwoConns == 1 .. 2

\* Calls are interchangeable.
CallSymmetry == Permutations(Calls)
=============================================================================
