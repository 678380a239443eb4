----------------------------- MODULE MCDBDataSet -----------------------------
(* Instances of DBDataSet for TLC.                                         *)
EXTENDS DBDataSet, TLC

Symmetry == Permutations(Key) \cup Permutations(Field)
=============================================================================
