---------------------------- MODULE TaskActions ----------------------------
(***************************************************************************)
(* The delivery ledger's task actions: the sends and connector writes a    *)
(* model asks for inside a task, each with a durable row, and the runs     *)
(* that ask for them.  A run the watchdog abandoned goes on beside its     *)
(* successor, an approval can come late, storage can fail, the process can *)
(* die between any two writes, and old receipts are swept.                 *)
(***************************************************************************)
EXTENDS Naturals

CONSTANTS
    Tasks,       \* task identities, assigned by the harness
    Actions,     \* a send target with the digest of its arguments
    Runs,        \* executions of the process, abandoned ones included
    NoTask,      \* the task of no run
    NoAction,    \* the action of no call
    MaxRestarts  \* bound: crashes

Keys == Tasks \X Actions

ASSUME ActionsAssumption ==
    /\ NoTask \notin Tasks
    /\ NoAction \notin Actions
    /\ MaxRestarts \in Nat

VARIABLES
    \* durable
    row,      \* delivery_intents: status of each action
    old,      \* rows past the retention time
    status,   \* agent_tasks: active (or waiting, unknown), idle (or failed),
              \* stopped, or superseded by a newer task of its conversation
    \* the runs
    pc,       \* where each run is with its current call
    task,     \* the task it works for
    act,      \* the action of the call
    seen,     \* the row's status when the call was prepared
    outcome,  \* what the handler's result says about the send
    tripped,  \* asked to stop by the watchdog, a takeover or a newer chat
    \* the sweep of old receipts, in some bot's process
    sweeping, \* it has read the active tasks
    kept,     \* those it read
    \* what happened
    effects,  \* times the action reached the world, per receipt lifetime
    restarts

ledger == <<row, old>>
calls  == <<pc, task, act, seen, outcome>>
sweep  == <<sweeping, kept>>
vars   == <<ledger, status, calls, tripped, sweep, effects, restarts>>

RowStates == {"none", "pending", "inflight", "sent", "uncertain"}
Statuses  == {"active", "idle", "stopped", "superseded"}
Places    == {"off", "ready", "prepared", "valid", "clear", "executing",
              "returned"}
Outcomes  == {"none", "sent", "unsent", "uncertain"}

Key(r) == <<task[r], act[r]>>

\* unresolved_actions: an unknown outcome holds the whole task.
Unresolved(t) == \E a \in Actions : row[<<t, a>>] \in {"inflight", "uncertain"}

Init ==
    /\ row = [k \in Keys |-> "none"]
    /\ old = {}
    /\ status = [t \in Tasks |-> "active"]
    /\ pc = [r \in Runs |-> "off"]
    /\ task = [r \in Runs |-> NoTask]
    /\ act = [r \in Runs |-> NoAction]
    /\ seen = [r \in Runs |-> "none"]
    /\ outcome = [r \in Runs |-> "none"]
    /\ tripped = [r \in Runs |-> FALSE]
    /\ sweeping = FALSE /\ kept = {}
    /\ effects = [k \in Keys |-> 0]
    /\ restarts = 0

Goto(r, p) == pc' = [pc EXCEPT ![r] = p]

-----------------------------------------------------------------------------
(* Runs and tasks.                                                         *)

\* A run starts on a task: a new message continues it, which makes it active
\* again or tells it to stop, or the replay of an old message finds it as it
\* is.  The process has one run at a time besides those asked to stop.
Begin(r, t) ==
    /\ pc[r] = "off"
    /\ \A s \in Runs : pc[s] = "off" \/ tripped[s]
    /\ Goto(r, "ready")
    /\ task' = [task EXCEPT ![r] = t]
    /\ \/ /\ status[t] \notin {"stopped", "superseded"}
          /\ \E s \in {"active", "stopped"} : status' = [status EXCEPT ![t] = s]
       \/ UNCHANGED status
    /\ UNCHANGED <<ledger, act, seen, outcome, tripped, sweep, effects,
                   restarts>>

Trip(r) ==
    /\ pc[r] # "off" /\ ~tripped[r]
    /\ tripped' = [tripped EXCEPT ![r] = TRUE]
    /\ UNCHANGED <<ledger, status, calls, sweep, effects, restarts>>

\* The run ends and mark_task writes its status, unless the task was
\* superseded meanwhile.  A task with an unknown outcome stays active.
End(r) ==
    /\ pc[r] = "ready"
    /\ Goto(r, "off")
    /\ task' = [task EXCEPT ![r] = NoTask]
    /\ tripped' = [tripped EXCEPT ![r] = FALSE]
    /\ \/ \E s \in {"active", "idle", "stopped"} :
            /\ status[task[r]] # "superseded"
            /\ status' = [status EXCEPT ![task[r]] = s]
       \/ UNCHANGED status
    /\ UNCHANGED <<ledger, act, seen, outcome, sweep, effects, restarts>>

\* A follow-up steered into a run, abandoned or not, continues its task or
\* takes the run to the task its conversation is now about.
Follow(r, t) ==
    /\ pc[r] = "ready"
    /\ status[t] \notin {"stopped", "superseded"}
    /\ task' = [task EXCEPT ![r] = t]
    /\ \E s \in {"active", "stopped"} : status' = [status EXCEPT ![t] = s]
    /\ UNCHANGED <<ledger, pc, act, seen, outcome, tripped, sweep, effects,
                   restarts>>

\* A message starts another task in the conversation, or a scheduled message
\* came too late and its task is stopped.
Retire(t, s) ==
    /\ status[t] # "superseded"
    /\ status' = [status EXCEPT ![t] = s]
    /\ UNCHANGED <<ledger, calls, tripped, sweep, effects, restarts>>

-----------------------------------------------------------------------------
(* A call: prepare, gate, claim, execute, finish.                          *)

\* prepare_action: reuse the action's row or insert a pending one.
Prepare(r, a) ==
    /\ pc[r] = "ready"
    /\ Goto(r, "prepared")
    /\ act' = [act EXCEPT ![r] = a]
    /\ LET k == <<task[r], a>>
           s == IF row[k] = "none" THEN "pending" ELSE row[k]
       IN /\ row' = [row EXCEPT ![k] = s]
          /\ seen' = [seen EXCEPT ![r] = s]
    /\ UNCHANGED <<old, status, task, outcome, tripped, sweep, effects,
                   restarts>>

\* Policy, the approver, a changed task, failed storage: the call is refused
\* anywhere before its claim.
Refuse(r) ==
    /\ pc[r] \in {"prepared", "valid", "clear"}
    /\ Goto(r, "ready")
    /\ act' = [act EXCEPT ![r] = NoAction]
    /\ UNCHANGED <<ledger, status, task, seen, outcome, tripped, sweep,
                   effects, restarts>>

\* validate_current_action, after the approval: not interrupted, and the task
\* is still the conversation's.
Validate(r) ==
    /\ pc[r] = "prepared"
    /\ ~tripped[r]
    /\ status[task[r]] \notin {"stopped", "superseded"}
    /\ Goto(r, "valid")
    /\ UNCHANGED <<ledger, status, task, act, seen, outcome, tripped, sweep,
                   effects, restarts>>

\* claim_action looks for unknown outcomes and at the row it prepared.
Consult(r) ==
    /\ pc[r] = "valid"
    /\ ~Unresolved(task[r])
    /\ seen[r] = "pending"
    /\ Goto(r, "clear")
    /\ UNCHANGED <<ledger, status, task, act, seen, outcome, tripped, sweep,
                   effects, restarts>>

\* Mutant: the claim trusts what the call saw when it was prepared.
ClaimableAsSeen(r) == ~Unresolved(task[r]) /\ seen[r] = "pending"

\* Mutant: the claim does not look at the task's other actions.
ClaimableAlone(r) == row[Key(r)] = "pending"

\* What start_action asks, in the transaction that claims.
Claimable(r) == ~Unresolved(task[r]) /\ row[Key(r)] = "pending"

StartAction(r) ==
    /\ pc[r] = "clear"
    /\ Claimable(r)
    /\ row' = [row EXCEPT ![Key(r)] = "inflight"]
    /\ Goto(r, "executing")
    /\ UNCHANGED <<old, status, task, act, seen, outcome, tripped, sweep,
                   effects, restarts>>

\* The handler: the send happened or not, and its result says that it did,
\* proves that it did not, or leaves it open.
Handle(r) ==
    /\ pc[r] = "executing"
    /\ \E o \in {"sent", "unsent", "uncertain"}, happened \in BOOLEAN :
        /\ o = "sent" => happened
        /\ o = "unsent" => ~happened
        /\ outcome' = [outcome EXCEPT ![r] = o]
        /\ effects' = [effects EXCEPT ![Key(r)] =
                         IF happened THEN @ + 1 ELSE @]
    /\ Goto(r, "returned")
    /\ UNCHANGED <<ledger, status, task, act, seen, tripped, sweep, restarts>>

\* Mutant: the outcome is stored as it came.
ResolvedRaw(o) == o

\* Mutant: what cannot be settled is retried.
ResolvedHopeful(o) == IF o = "sent" THEN "sent" ELSE "pending"

\* finish_action: proof that nothing was sent makes the action retryable.
Resolved(o) == IF o = "unsent" THEN "pending" ELSE o

\* finish_action, or storage fails and the row stays in flight.
FinishAction(r) ==
    /\ pc[r] = "returned"
    /\ \/ /\ row[Key(r)] = "inflight"
          /\ row' = [row EXCEPT ![Key(r)] = Resolved(outcome[r])]
          /\ old' = IF outcome[r] = "sent" THEN old \ {Key(r)} ELSE old
       \/ UNCHANGED ledger
    /\ Goto(r, "ready")
    /\ act' = [act EXCEPT ![r] = NoAction]
    /\ outcome' = [outcome EXCEPT ![r] = "none"]
    /\ UNCHANGED <<status, task, seen, tripped, sweep, effects, restarts>>

-----------------------------------------------------------------------------
(* Old receipts.                                                           *)

\* A receipt ages from its resolution, an intent from its creation, over
\* weeks: a sweep takes no time against that.
Age(k) ==
    /\ row[k] # "none" /\ k \notin old
    /\ ~sweeping
    /\ old' = old \cup {k}
    /\ UNCHANGED <<row, status, calls, tripped, sweep, effects, restarts>>

\* active_tasks, read by some bot as it begins its first task since boot.
SweepRead ==
    /\ ~sweeping
    /\ sweeping' = TRUE
    /\ kept' = {t \in Tasks : status[t] = "active"}
    /\ UNCHANGED <<ledger, status, calls, tripped, effects, restarts>>

\* Mutant: unknown outcomes expire too.
ExpiredAny == {k \in old : k[1] \notin kept}

Expired == {k \in old : row[k] \in {"sent", "pending"} /\ k[1] \notin kept}

\* prune_expired: one transaction, after the read.
SweepDelete ==
    /\ sweeping
    /\ sweeping' = FALSE /\ kept' = {}
    /\ row' = [k \in Keys |-> IF k \in Expired THEN "none" ELSE row[k]]
    /\ effects' = [k \in Keys |-> IF k \in Expired THEN 0 ELSE effects[k]]
    /\ old' = old \ Expired
    /\ UNCHANGED <<status, calls, tripped, restarts>>

-----------------------------------------------------------------------------
\* The process dies: runs and their claims on calls are gone, rows stay.
Crash ==
    /\ restarts < MaxRestarts
    /\ restarts' = restarts + 1
    /\ pc' = [r \in Runs |-> "off"]
    /\ task' = [r \in Runs |-> NoTask]
    /\ act' = [r \in Runs |-> NoAction]
    /\ outcome' = [r \in Runs |-> "none"]
    /\ tripped' = [r \in Runs |-> FALSE]
    /\ UNCHANGED <<ledger, status, seen, sweep, effects>>

Next ==
    \/ \E r \in Runs : \/ Trip(r) \/ End(r) \/ Refuse(r) \/ Validate(r)
                       \/ Consult(r) \/ StartAction(r) \/ Handle(r)
                       \/ FinishAction(r)
                       \/ \E t \in Tasks : Begin(r, t) \/ Follow(r, t)
                       \/ \E a \in Actions : Prepare(r, a)
    \/ \E t \in Tasks, s \in {"stopped", "superseded"} : Retire(t, s)
    \/ \E k \in Keys : Age(k)
    \/ SweepRead \/ SweepDelete \/ Crash

Spec == Init /\ [][Next]_vars

-----------------------------------------------------------------------------
(* Type correctness of the ledger, the task states and the runs.           *)
TypeOK ==
    /\ row \in [Keys -> RowStates] /\ old \subseteq Keys
    /\ status \in [Tasks -> Statuses]
    /\ pc \in [Runs -> Places]
    /\ task \in [Runs -> Tasks \cup {NoTask}]
    /\ act \in [Runs -> Actions \cup {NoAction}]
    /\ seen \in [Runs -> RowStates]
    /\ outcome \in [Runs -> Outcomes]
    /\ tripped \in [Runs -> BOOLEAN]
    /\ sweeping \in BOOLEAN /\ kept \subseteq Tasks
    /\ effects \in [Keys -> Nat]
    /\ restarts \in Nat

Busy(r) == pc[r] \in {"executing", "returned"}

(* A run between its claim and its receipt owns the task: its row is in    *)
(* flight, and no other run is in there with an action of the same task.   *)
OwnsTask ==
    \A r \in Runs : Busy(r) =>
        /\ row[Key(r)] = "inflight"
        /\ \A s \in Runs : Busy(s) /\ task[s] = task[r] => s = r

(* The ledger never loses an effect: an action that reached the world has  *)
(* a receipt or is in doubt until its receipt expires, and a receipt is    *)
(* never there without the effect.                                         *)
LedgerIsTrue ==
    \A k \in Keys :
        /\ effects[k] > 0 => row[k] \in {"inflight", "uncertain", "sent"}
        /\ row[k] = "sent" => effects[k] > 0

(* No action reaches the world twice in the lifetime of its receipt, by    *)
(* whichever runs, retries, late approvals and crashes.                    *)
NeverTwice == \A k \in Keys : effects[k] <= 1

\* The promise's state, as the ledger implements it.
InDoubt == [t \in Tasks |->
              {a \in Actions : row[<<t, a>>] \in {"inflight", "uncertain"}}]
Effected == {k \in Keys : effects[k] > 0}

Promise == INSTANCE TaskPromise WITH open <- InDoubt, done <- Effected

(* The runs and the ledger together implement the promise.                 *)
KeepsPromise == Promise!Spec

(* The sweep that is about to delete takes no receipt of an active task.   *)
ActiveReceiptsSurvive ==
    sweeping => \A k \in Expired : row[k] = "sent" => status[k[1]] # "active"
=============================================================================
