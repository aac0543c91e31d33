----------------------------- MODULE MCRoutines -----------------------------
(* Instance of Routines for TLC.                                           *)
EXTENDS Routines, TLC

\* One tick that fails, one crash, one edit or one run that hangs at a time.
OneEvent ==
    LET Revs == {r \in Routs : file[r].rev > 0 \/ ~file[r].live}
    IN  faults + crashes + Cardinality(Revs) + Cardinality(zombies) <= 1
=============================================================================
