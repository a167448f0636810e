----------------------------- MODULE MCEnvironments -----------------------------
(* Environments for TLC.                                                       *)
EXTENDS Environments, TLC

Symmetry == Permutations(Processes) \cup Permutations(Values)
=================================================================================
