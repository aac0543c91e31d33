---------------------------- MODULE MCPushOutbox ----------------------------
(* Instance of PushOutbox for TLC.                                         *)
EXTENDS PushOutbox

CONSTANT Hit     \* the capability that is renewed and whose rows meet mishaps

\* Bound: one row meets an unseen arrival, a restart or old age.
OneMishap ==
    LET met == excuse \cup {k \in Keys : age[k] # "fresh"}
    IN  Cardinality(met) <= 1 /\ \A k \in met : k[1] = Hit

\* Bound: the others have one secret and no prompt, which nobody renews.
Others ==
    /\ \A s \in Subs \ {Hit} : relay[s] <= 1
    /\ \A k \in Keys : k[1] # Hit /\ k[2] \in Urgent => outbox[k] = "absent"
=============================================================================
