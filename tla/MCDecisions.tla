---------------------------- MODULE MCDecisions ----------------------------
(* Instance of Decisions for TLC.                                          *)
EXTENDS Decisions, TLC

\* What comes after the first.
Later(n) == IF n = 0 THEN 0 ELSE n - 1

\* Bound: one stop, failed batch, second task or revision in a behaviour.
OneEvent == crashes + faults + Later(task.id) + Later(task.rev) <= 1
=============================================================================
