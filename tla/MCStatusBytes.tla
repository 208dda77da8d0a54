---------------------------- MODULE MCStatusBytes ----------------------------
(***************************************************************************)
(* Instances of StatusBytes for TLC.                                       *)
(***************************************************************************)
EXTENDS StatusBytes, TLC

Symmetry == Permutations(Refreshers) \cup Permutations(Readers)
=============================================================================
