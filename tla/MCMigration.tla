------------------------------- MODULE MCMigration -------------------------------
(* Migration for TLC.                                                         *)
EXTENDS Migration, TLC

Symmetry == Permutations(Processes)
==================================================================================
