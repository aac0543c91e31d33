-------------------------- MODULE MCTurnLifecycle --------------------------
(* Small instances of TurnLifecycle for TLC.                               *)
EXTENDS TurnLifecycle, TLC

Symmetry == Permutations(Chats)

\* Bound: two restarts, or one and two abandoned runs.
FewStops == 2 * restarts + escapes <= 4

\* Bound: two of the messages arrive.
TwoArrive == Cardinality(arrived) <= 2
=============================================================================
