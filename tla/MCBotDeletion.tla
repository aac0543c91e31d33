---------------------------- MODULE MCBotDeletion ----------------------------
(* Instance of BotDeletion for TLC.                                        *)
EXTENDS BotDeletion, TLC

\* Bounds: one restart, stop, fault or backfill; the bookkeeping goes wrong in
\* one way, and strangers stay away then.
OnTrack ==
    /\ count.restarts + count.faults + count.seeds <= 1
    /\ astray # {} => met = {} /\ Cardinality(astray) = 1
=============================================================================
