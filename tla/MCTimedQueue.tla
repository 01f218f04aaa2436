----------------------------- MODULE MCTimedQueue ---------------------------
(***************************************************************************)
(* Instances of TimedQueue for TLC.  Which node malloc gives out makes no  *)
(* difference, nor which object is which.                                  *)
(***************************************************************************)
EXTENDS TimedQueue, TLC

Interchangeable == Permutations(Nodes) \union Permutations(Data)
=============================================================================
