------------------------------ MODULE MCSends ------------------------------
(* Instance of Sends for TLC.                                              *)
EXTENDS Sends, TLC

Symmetry == Permutations(Nonces) \cup Permutations(Inputs)
              \cup Permutations(Members) \cup Permutations(Handlers)
=============================================================================
