---------------------------- MODULE MCQueueOrder ----------------------------
(***************************************************************************)
(* QueueOrder on small instances.                                          *)
(***************************************************************************)
EXTENDS QueueOrder, TLC

(* Positions count from the end, too.                                      *)
BothEnds   == {-2, -1, 0, 1}

Symmetry == Permutations(Clients)
=============================================================================
