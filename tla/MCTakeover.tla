----------------------------- MODULE MCTakeover -----------------------------
(***************************************************************************)
(* Takeover on small instances.                                            *)
(***************************************************************************)
EXTENDS Takeover, TLC

Symmetry == Permutations(Instances) \cup Permutations(Bots)
=============================================================================
