---------------------------- MODULE TaskPromise ----------------------------
(***************************************************************************)
(* What the delivery ledger promises about the actions of a task: an       *)
(* action is carried out at most once for as long as its receipt is kept,  *)
(* a task has at most one action whose outcome is not known, and while it  *)
(* has one it starts no other.                                             *)
(***************************************************************************)
CONSTANTS Tasks, Actions

VARIABLES
    open,  \* actions of each task whose outcome is not known
    done   \* actions carried out, as long as they are remembered

Keys == Tasks \X Actions

Init == open = [t \in Tasks |-> {}] /\ done = {}

Start(t, a) ==
    /\ open[t] = {}
    /\ <<t, a>> \notin done
    /\ open' = [open EXCEPT ![t] = {a}]
    /\ UNCHANGED done

CarryOut(t, a) ==
    /\ a \in open[t]
    /\ <<t, a>> \notin done
    /\ done' = done \cup {<<t, a>>}
    /\ UNCHANGED open

\* The outcome is known: done, or proven not to have happened.
Settle(t) ==
    /\ open' = [open EXCEPT ![t] = {}]
    /\ UNCHANGED done

\* Receipts expire; an action in doubt does not.
Forget(S) ==
    /\ \A t \in Tasks : \A a \in open[t] : <<t, a>> \notin S
    /\ done' = done \ S
    /\ UNCHANGED open

Next == \/ \E t \in Tasks, a \in Actions : Start(t, a) \/ CarryOut(t, a)
        \/ \E t \in Tasks : Settle(t)
        \/ \E S \in SUBSET Keys : Forget(S)

Spec == Init /\ [][Next]_<<open, done>>
=============================================================================
