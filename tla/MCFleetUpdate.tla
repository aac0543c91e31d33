--------------------------- MODULE MCFleetUpdate ---------------------------
(* Instance of FleetUpdate for TLC.                                        *)
EXTENDS FleetUpdate, TLC
=============================================================================
