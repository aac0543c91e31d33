--------------------------- MODULE MCTaskActions ---------------------------
(* Small instances of TaskActions for TLC.                                 *)
EXTENDS TaskActions, TLC

Symmetry == Permutations(Runs) \cup Permutations(Actions)
=============================================================================
