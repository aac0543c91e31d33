------------------------- MODULE TaskActions_proofs -------------------------
(***************************************************************************)
(* Proofs about TaskActions, for any tasks, actions, runs and restarts:    *)
(* type correctness, the ownership of a task by the run that acts in it,   *)
(* that no action happens twice, and that the whole implements TaskPromise.*)
(***************************************************************************)
EXTENDS TaskActions, TLAPS

\* A run has a task, and a call has an action.
CallsAreBound ==
    \A r \in Runs :
        /\ pc[r] # "off" => task[r] \in Tasks
        /\ pc[r] \notin {"off", "ready"} => act[r] \in Actions

\* At most one outcome of a task is unknown.
OneInDoubt ==
    \A t \in Tasks : \A a, b \in Actions :
        /\ row[<<t, a>>] \in {"inflight", "uncertain"}
        /\ row[<<t, b>>] \in {"inflight", "uncertain"}
        => a = b

\* What a row says of the effects of its action.
RowsTell ==
    \A k \in Keys :
        /\ effects[k] \in {0, 1}
        /\ row[k] \in {"none", "pending"} => effects[k] = 0
        /\ row[k] = "sent" => effects[k] = 1

\* What a call in progress says of them.
CallsTell ==
    \A r \in Runs :
        /\ pc[r] = "executing" => effects[Key(r)] = 0
        /\ pc[r] = "returned" =>
            /\ outcome[r] \in {"sent", "unsent", "uncertain"}
            /\ outcome[r] = "sent" => effects[Key(r)] = 1
            /\ outcome[r] = "unsent" => effects[Key(r)] = 0

\* What rows, effects and calls under way have to do with each other.
Agreement == OwnsTask /\ OneInDoubt /\ RowsTell /\ CallsTell

\* The inductive invariant.
IInv == TypeOK /\ CallsAreBound /\ Agreement

-----------------------------------------------------------------------------
(* The key of a call in progress.                                          *)
LEMMA KeyOfCall ==
    ASSUME TypeOK, CallsAreBound, NEW r \in Runs, pc[r] \notin {"off", "ready"}
    PROVE  /\ task[r] \in Tasks /\ act[r] \in Actions
           /\ Key(r) \in Keys
           /\ \A t \in Tasks, a \in Actions :
                Key(r) = <<t, a>> <=> task[r] = t /\ act[r] = a
BY DEF TypeOK, CallsAreBound, Key, Keys

(* The inductive invariant holds initially.                                *)
LEMMA InitInv == Init => IInv
<1> SUFFICES ASSUME Init PROVE IInv
  OBVIOUS
<1>1. TypeOK
  BY DEF Init, TypeOK, RowStates, Statuses, Places, Outcomes
<1>2. CallsAreBound /\ OwnsTask /\ CallsTell
  BY DEF Init, CallsAreBound, OwnsTask, CallsTell, Busy
<1>3. OneInDoubt
  BY DEF Init, OneInDoubt, Keys
<1>4. RowsTell
  BY DEF Init, RowsTell
<1> QED BY <1>1, <1>2, <1>3, <1>4 DEF IInv, Agreement

-----------------------------------------------------------------------------
(* Each action keeps the types.                                            *)
LEMMA TypeStep == TypeOK /\ CallsAreBound /\ [Next]_vars => TypeOK'
<1> SUFFICES ASSUME TypeOK, CallsAreBound, [Next]_vars PROVE TypeOK'
  OBVIOUS
<1> USE DEF TypeOK, Goto, ledger, calls, sweep
<1>1. ASSUME NEW r \in Runs, Trip(r) PROVE TypeOK'
  BY <1>1 DEF Trip
<1>2. ASSUME NEW r \in Runs, End(r) PROVE TypeOK'
  BY <1>2 DEF End, Places, Statuses, CallsAreBound
<1>3. ASSUME NEW r \in Runs, Refuse(r) PROVE TypeOK'
  BY <1>3 DEF Refuse, Places
<1>4. ASSUME NEW r \in Runs, Validate(r) PROVE TypeOK'
  BY <1>4 DEF Validate, Places
<1>5. ASSUME NEW r \in Runs, Consult(r) PROVE TypeOK'
  BY <1>5 DEF Consult, Places
<1>6. ASSUME NEW r \in Runs, StartAction(r) PROVE TypeOK'
  BY <1>6 DEF StartAction, Places, RowStates
<1>7. ASSUME NEW r \in Runs, Handle(r) PROVE TypeOK'
  <2>1. Key(r) \in Keys
    BY <1>7, KeyOfCall DEF Handle
  <2> QED BY <1>7, <2>1 DEF Handle, Places, Outcomes
<1>8. ASSUME NEW r \in Runs, FinishAction(r) PROVE TypeOK'
  <2>1. Resolved(outcome[r]) \in RowStates
    BY DEF Resolved, Outcomes, RowStates
  <2> QED BY <1>8, <2>1 DEF FinishAction, Places, Outcomes
<1>9. ASSUME NEW r \in Runs, NEW t \in Tasks, Begin(r, t) PROVE TypeOK'
  BY <1>9 DEF Begin, Places, Statuses
<1>10. ASSUME NEW r \in Runs, NEW t \in Tasks, Follow(r, t) PROVE TypeOK'
  BY <1>10 DEF Follow, Statuses
<1>11. ASSUME NEW r \in Runs, NEW a \in Actions, Prepare(r, a) PROVE TypeOK'
  <2>1. <<task[r], a>> \in Keys
    BY <1>11 DEF Prepare, CallsAreBound, Keys
  <2> QED BY <1>11, <2>1 DEF Prepare, Places, RowStates
<1>12. ASSUME NEW t \in Tasks, NEW s \in {"stopped", "superseded"}, Retire(t, s)
       PROVE  TypeOK'
  BY <1>12 DEF Retire, Statuses
<1>13. ASSUME NEW k \in Keys, Age(k) PROVE TypeOK'
  BY <1>13 DEF Age
<1>14. CASE SweepRead
  BY <1>14 DEF SweepRead
<1>15. CASE SweepDelete
  BY <1>15 DEF SweepDelete, RowStates
<1>16. CASE Crash
  BY <1>16 DEF Crash, Places, Outcomes
<1>17. CASE UNCHANGED vars
  BY <1>17 DEF vars
<1> QED
  BY <1>1, <1>2, <1>3, <1>4, <1>5, <1>6, <1>7, <1>8, <1>9, <1>10, <1>11,
     <1>12, <1>13, <1>14, <1>15, <1>16, <1>17 DEF Next

-----------------------------------------------------------------------------
(* Each action keeps calls bound to their tasks.                           *)
LEMMA BoundStep == TypeOK /\ CallsAreBound /\ [Next]_vars => CallsAreBound'
<1> SUFFICES ASSUME TypeOK, CallsAreBound, [Next]_vars PROVE CallsAreBound'
  OBVIOUS
<1> USE DEF TypeOK, CallsAreBound, Goto, ledger, calls, sweep
<1>1. ASSUME NEW r \in Runs, Trip(r) PROVE CallsAreBound'
  BY <1>1 DEF Trip
<1>2. ASSUME NEW r \in Runs, End(r) PROVE CallsAreBound'
  BY <1>2 DEF End
<1>3. ASSUME NEW r \in Runs, Refuse(r) PROVE CallsAreBound'
  BY <1>3 DEF Refuse
<1>4. ASSUME NEW r \in Runs, Validate(r) PROVE CallsAreBound'
  BY <1>4 DEF Validate
<1>5. ASSUME NEW r \in Runs, Consult(r) PROVE CallsAreBound'
  BY <1>5 DEF Consult
<1>6. ASSUME NEW r \in Runs, StartAction(r) PROVE CallsAreBound'
  BY <1>6 DEF StartAction
<1>7. ASSUME NEW r \in Runs, Handle(r) PROVE CallsAreBound'
  BY <1>7 DEF Handle
<1>8. ASSUME NEW r \in Runs, FinishAction(r) PROVE CallsAreBound'
  BY <1>8 DEF FinishAction
<1>9. ASSUME NEW r \in Runs, NEW t \in Tasks, Begin(r, t)
      PROVE  CallsAreBound'
  BY <1>9 DEF Begin
<1>10. ASSUME NEW r \in Runs, NEW t \in Tasks, Follow(r, t)
       PROVE  CallsAreBound'
  BY <1>10 DEF Follow
<1>11. ASSUME NEW r \in Runs, NEW a \in Actions, Prepare(r, a)
       PROVE  CallsAreBound'
  BY <1>11 DEF Prepare
<1>12. CASE Crash
  BY <1>12 DEF Crash
<1>13. CASE UNCHANGED <<pc, task, act>>
  BY <1>13
<1>14. ASSUME NEW t \in Tasks, NEW s \in {"stopped", "superseded"}, Retire(t, s)
       PROVE  CallsAreBound'
  BY <1>13, <1>14 DEF Retire
<1>15. ASSUME NEW k \in Keys, Age(k) PROVE CallsAreBound'
  BY <1>13, <1>15 DEF Age
<1>16. CASE SweepRead \/ SweepDelete
  BY <1>13, <1>16 DEF SweepRead, SweepDelete
<1>17. CASE UNCHANGED vars
  BY <1>13, <1>17 DEF vars
<1> QED
  BY <1>1, <1>2, <1>3, <1>4, <1>5, <1>6, <1>7, <1>8, <1>9, <1>10, <1>11,
     <1>12, <1>14, <1>15, <1>16, <1>17 DEF Next

-----------------------------------------------------------------------------
(* A step that leaves rows and effects alone and takes no call past its    *)
(* claim keeps them in agreement.                                          *)
LEMMA QuietStep ==
    ASSUME Agreement, UNCHANGED <<row, effects>>,
           \A r \in Runs : \/ pc'[r] \notin {"executing", "returned"}
                           \/ /\ pc'[r] = pc[r] /\ task'[r] = task[r]
                              /\ act'[r] = act[r] /\ outcome'[r] = outcome[r]
    PROVE  Agreement'
<1>1. OwnsTask'
  BY DEF Agreement, OwnsTask, Busy, Key
<1>2. OneInDoubt' /\ RowsTell'
  BY DEF Agreement, OneInDoubt, RowsTell
<1>3. CallsTell'
  BY DEF Agreement, CallsTell, Key
<1> QED BY <1>1, <1>2, <1>3 DEF Agreement

(* A new row is pending and its action has no effect yet.                  *)
LEMMA PrepareStep ==
    ASSUME IInv, NEW r \in Runs, NEW a \in Actions, Prepare(r, a)
    PROVE  Agreement'
<1> USE DEF IInv, Agreement, TypeOK, CallsAreBound, Prepare, Goto
<1> DEFINE k == <<task[r], a>>
<1>1. k \in Keys /\ UNCHANGED <<effects, task, outcome>>
  BY DEF Keys
<1>2. \A j \in Keys : row'[j] = row[j] \/ (j = k /\ row[k] = "none" /\ row'[k] = "pending")
  BY <1>1
<1>3. \A s \in Runs : pc'[s] \in {"executing", "returned"} =>
        s # r /\ pc'[s] = pc[s] /\ act'[s] = act[s] /\ Key(s) \in Keys
  BY KeyOfCall
<1>4. OwnsTask'
  BY <1>1, <1>2, <1>3 DEF OwnsTask, Busy, Key
<1>5. OneInDoubt'
  BY <1>1, <1>2 DEF OneInDoubt, Keys
<1>6. RowsTell'
  BY <1>1, <1>2 DEF RowsTell
<1>7. CallsTell'
  BY <1>1, <1>3 DEF CallsTell, Key
<1> QED BY <1>4, <1>5, <1>6, <1>7

(* A claim finds no other action of the task in doubt, so no other run is  *)
(* between its claim and its receipt.                                      *)
LEMMA StartStep ==
    ASSUME IInv, NEW r \in Runs, StartAction(r)
    PROVE  Agreement'
<1> USE DEF IInv, Agreement, TypeOK, StartAction, Goto
<1>1. /\ Key(r) \in Keys /\ task[r] \in Tasks /\ act[r] \in Actions
      /\ row[Key(r)] = "pending"
      /\ row' = [row EXCEPT ![Key(r)] = "inflight"]
      /\ pc' = [pc EXCEPT ![r] = "executing"]
      /\ UNCHANGED <<task, act, outcome, effects>>
  BY KeyOfCall DEF Claimable
<1>2. \A b \in Actions : row[<<task[r], b>>] \notin {"inflight", "uncertain"}
  BY DEF Claimable, Unresolved
<1>3. \A s \in Runs : Busy(s) => /\ task[s] # task[r]
                               /\ Key(s) \in Keys /\ Key(s) # Key(r)
  BY <1>2, KeyOfCall DEF OwnsTask, Busy, Key
<1>4. OwnsTask'
  <2>1. \A s \in Runs : Busy(s)' => s = r \/ Busy(s)
    BY <1>1 DEF Busy
  <2>2. \A s \in Runs : Busy(s)' => row'[Key(s)'] = "inflight"
    <3> SUFFICES ASSUME NEW s \in Runs, Busy(s)'
                 PROVE  row'[Key(s)'] = "inflight"
      OBVIOUS
    <3>1. Key(s)' = Key(s)
      BY <1>1 DEF Key
    <3>2. CASE s = r
      BY <1>1, <3>1, <3>2
    <3>3. CASE s # r
      BY <1>1, <1>3, <2>1, <3>1, <3>3 DEF OwnsTask
    <3> QED BY <3>2, <3>3
  <2> QED BY <1>1, <1>3, <2>1, <2>2 DEF OwnsTask
<1>5. OneInDoubt'
  BY <1>1, <1>2 DEF OneInDoubt, Keys, Key
<1>6. RowsTell'
  BY <1>1 DEF RowsTell
<1>7. CallsTell'
  BY <1>1 DEF CallsTell, RowsTell, Key
<1> QED BY <1>4, <1>5, <1>6, <1>7

(* The handler runs once for a claim, on a row that stays in flight.       *)
LEMMA HandleStep ==
    ASSUME IInv, NEW r \in Runs, Handle(r)
    PROVE  Agreement'
<1> USE DEF IInv, Agreement, TypeOK, Handle, Goto
<1>1. /\ Key(r) \in Keys /\ Busy(r) /\ effects[Key(r)] = 0
      /\ row[Key(r)] = "inflight"
      /\ pc' = [pc EXCEPT ![r] = "returned"]
      /\ UNCHANGED <<row, task, act>>
  BY KeyOfCall DEF OwnsTask, CallsTell, Busy, ledger
<1>2. PICK o \in {"sent", "unsent", "uncertain"}, happened \in BOOLEAN :
        /\ o = "sent" => happened
        /\ o = "unsent" => ~happened
        /\ outcome' = [outcome EXCEPT ![r] = o]
        /\ effects' = [effects EXCEPT ![Key(r)] = IF happened THEN @ + 1 ELSE @]
  OBVIOUS
<1>3. \A s \in Runs : Busy(s) /\ s # r => Key(s) \in Keys /\ Key(s) # Key(r)
  BY <1>1, KeyOfCall DEF OwnsTask, Busy, Key
<1>4. OwnsTask'
  BY <1>1 DEF OwnsTask, Busy, Key
<1>5. OneInDoubt'
  BY <1>1 DEF OneInDoubt
<1>6. /\ effects'[Key(r)] \in {0, 1}
      /\ o = "sent" => effects'[Key(r)] = 1
      /\ o = "unsent" => effects'[Key(r)] = 0
      /\ \A j \in Keys : j # Key(r) => effects'[j] = effects[j]
  BY <1>1, <1>2
<1>7. RowsTell'
  BY <1>1, <1>6 DEF RowsTell
<1>8. CallsTell'
  <2> SUFFICES ASSUME NEW s \in Runs
               PROVE  /\ pc'[s] = "executing" => effects'[Key(s)'] = 0
                      /\ pc'[s] = "returned" =>
                          /\ outcome'[s] \in {"sent", "unsent", "uncertain"}
                          /\ outcome'[s] = "sent" => effects'[Key(s)'] = 1
                          /\ outcome'[s] = "unsent" => effects'[Key(s)'] = 0
    BY DEF CallsTell
  <2>1. Key(s)' = Key(s)
    BY <1>1 DEF Key
  <2>2. CASE s = r
    BY <1>1, <1>2, <1>6, <2>1, <2>2
  <2>3. CASE s # r
    BY <1>1, <1>2, <1>3, <1>6, <2>1, <2>3 DEF CallsTell, Busy
  <2> QED BY <2>2, <2>3
<1> QED BY <1>4, <1>5, <1>7, <1>8

(* A receipt says what the handler's result says.                          *)
LEMMA FinishStep ==
    ASSUME IInv, NEW r \in Runs, FinishAction(r)
    PROVE  Agreement'
<1> USE DEF IInv, Agreement, TypeOK, FinishAction, Goto
<1>1. /\ Key(r) \in Keys /\ Busy(r) /\ row[Key(r)] = "inflight"
      /\ pc' = [pc EXCEPT ![r] = "ready"]
      /\ act' = [act EXCEPT ![r] = NoAction]
      /\ outcome' = [outcome EXCEPT ![r] = "none"]
      /\ UNCHANGED <<task, effects>>
  BY KeyOfCall DEF OwnsTask, Busy
<1>2. /\ row'[Key(r)] \in {"inflight", Resolved(outcome[r])}
      /\ \A j \in Keys : j # Key(r) => row'[j] = row[j]
  BY <1>1 DEF ledger
<1>3. \A s \in Runs : pc'[s] \in {"executing", "returned"} =>
        /\ s # r /\ pc'[s] = pc[s] /\ outcome'[s] = outcome[s]
        /\ Key(s)' = Key(s) /\ Key(s) \in Keys /\ Key(s) # Key(r)
  BY <1>1, KeyOfCall DEF OwnsTask, Busy, Key
<1>4. OwnsTask'
  BY <1>1, <1>2, <1>3 DEF OwnsTask, Busy
<1>5. OneInDoubt'
  <2>1. \A j \in Keys : row'[j] \in {"inflight", "uncertain"}
                       => row[j] \in {"inflight", "uncertain"}
    BY <1>1, <1>2
  <2> QED BY <2>1 DEF OneInDoubt, Keys
<1>6. RowsTell'
  BY <1>1, <1>2 DEF RowsTell, CallsTell, Busy, Resolved
<1>7. CallsTell'
  BY <1>1, <1>3 DEF CallsTell
<1> QED BY <1>4, <1>5, <1>6, <1>7

(* The sweep takes resolved and pending rows only, and what it takes is    *)
(* forgotten with its effects.                                             *)
LEMMA SweepStep ==
    ASSUME IInv, SweepDelete
    PROVE  Agreement'
<1> USE DEF IInv, Agreement, TypeOK, SweepDelete
<1>1. \A j \in Keys :
        \/ /\ row'[j] = "none" /\ effects'[j] = 0
           /\ row[j] \in {"sent", "pending"}
        \/ row'[j] = row[j] /\ effects'[j] = effects[j]
  <2> TAKE j \in Keys
  <2>1. /\ row'[j] = IF j \in Expired THEN "none" ELSE row[j]
        /\ effects'[j] = IF j \in Expired THEN 0 ELSE effects[j]
    OBVIOUS
  <2>2. j \in Expired => row[j] \in {"sent", "pending"}
    BY DEF Expired
  <2> QED BY <2>1, <2>2
<1>2. \A s \in Runs : Busy(s) => Key(s) \in Keys /\ row[Key(s)] = "inflight"
  BY KeyOfCall DEF OwnsTask, Busy
<1>3. UNCHANGED <<pc, task, act, outcome>>
  BY DEF calls
<1>4. OwnsTask'
  BY <1>1, <1>2, <1>3 DEF OwnsTask, Busy, Key
<1>5. OneInDoubt'
  BY <1>1 DEF OneInDoubt, Keys
<1>6. RowsTell'
  BY <1>1 DEF RowsTell
<1>7. CallsTell'
  BY <1>1, <1>2, <1>3 DEF CallsTell, Busy, Key
<1> QED BY <1>4, <1>5, <1>6, <1>7

-----------------------------------------------------------------------------
(* The invariant is inductive.                                             *)
LEMMA StepInv == IInv /\ [Next]_vars => IInv'
<1> SUFFICES ASSUME IInv, [Next]_vars PROVE IInv'
  OBVIOUS
<1> USE DEF Goto, ledger, calls, sweep
<1>1. TypeOK' /\ CallsAreBound' /\ TypeOK /\ CallsAreBound /\ Agreement
  BY TypeStep, BoundStep DEF IInv
<1>2. ASSUME NEW r \in Runs, Trip(r) PROVE Agreement'
  BY <1>1, <1>2, QuietStep DEF Trip
<1>3. ASSUME NEW r \in Runs, End(r) PROVE Agreement'
  BY <1>1, <1>3, QuietStep DEF End, TypeOK
<1>4. ASSUME NEW r \in Runs, Refuse(r) PROVE Agreement'
  BY <1>1, <1>4, QuietStep DEF Refuse, TypeOK
<1>5. ASSUME NEW r \in Runs, Validate(r) PROVE Agreement'
  BY <1>1, <1>5, QuietStep DEF Validate, TypeOK
<1>6. ASSUME NEW r \in Runs, Consult(r) PROVE Agreement'
  BY <1>1, <1>6, QuietStep DEF Consult, TypeOK
<1>7. ASSUME NEW r \in Runs, NEW t \in Tasks, Begin(r, t) PROVE Agreement'
  BY <1>1, <1>7, QuietStep DEF Begin, TypeOK
<1>8. ASSUME NEW r \in Runs, NEW t \in Tasks, Follow(r, t) PROVE Agreement'
  BY <1>1, <1>8, QuietStep DEF Follow, TypeOK
<1>9. ASSUME NEW t \in Tasks, NEW s \in {"stopped", "superseded"}, Retire(t, s)
      PROVE  Agreement'
  BY <1>1, <1>9, QuietStep DEF Retire
<1>10. ASSUME NEW k \in Keys, Age(k) PROVE Agreement'
  BY <1>1, <1>10, QuietStep DEF Age
<1>11. ASSUME SweepRead PROVE Agreement'
  BY <1>1, <1>11, QuietStep DEF SweepRead
<1>12. ASSUME Crash PROVE Agreement'
  BY <1>1, <1>12, QuietStep DEF Crash
<1>13. ASSUME UNCHANGED vars PROVE Agreement'
  BY <1>1, <1>13, QuietStep DEF vars
<1>14. Agreement'
  BY <1>2, <1>3, <1>4, <1>5, <1>6, <1>7, <1>8, <1>9, <1>10, <1>11, <1>12,
     <1>13, PrepareStep, StartStep, HandleStep, FinishStep, SweepStep DEF Next
<1> QED BY <1>1, <1>14 DEF IInv

(* The inductive invariant holds in every state of every behaviour.        *)
LEMMA Inductive == Spec => []IInv
BY InitInv, StepInv, PTL DEF Spec

(* The ledger, the tasks and the runs keep their types.                    *)
THEOREM TypeCorrect == Spec => []TypeOK
<1>1. IInv => TypeOK
  BY DEF IInv
<1> QED BY <1>1, Inductive, PTL

(* A run that has claimed an action and not yet stored its receipt is the  *)
(* only one doing so in its task, and its row says so.                     *)
THEOREM OneRunActs == Spec => []OwnsTask
<1>1. IInv => OwnsTask
  BY DEF IInv, Agreement
<1> QED BY <1>1, Inductive, PTL

(* Every effect is in the ledger and every receipt stands for an effect.   *)
THEOREM LedgerTellsTheTruth == Spec => []LedgerIsTrue
<1>1. IInv => LedgerIsTrue
  <2> SUFFICES ASSUME IInv, NEW k \in Keys
               PROVE  /\ effects[k] > 0 => row[k] \in {"inflight", "uncertain", "sent"}
                      /\ row[k] = "sent" => effects[k] > 0
    BY DEF LedgerIsTrue
  <2> QED BY DEF IInv, Agreement, RowsTell, TypeOK, RowStates
<1> QED BY <1>1, Inductive, PTL

(* No action is carried out twice while its receipt is kept, whatever runs *)
(* ask for it, retry it, approve it late or die over it.                   *)
THEOREM AtMostOneEffect == Spec => []NeverTwice
<1>1. IInv => NeverTwice
  BY DEF IInv, Agreement, RowsTell, NeverTwice
<1> QED BY <1>1, Inductive, PTL

-----------------------------------------------------------------------------
(* A claim is the promise's start.                                         *)
LEMMA StartKeeps ==
    ASSUME IInv, NEW r \in Runs, StartAction(r)
    PROVE  Promise!Start(task[r], act[r])
<1> USE DEF IInv, Agreement, TypeOK, StartAction, Goto
<1>1. /\ Key(r) = <<task[r], act[r]>> /\ Key(r) \in Keys
      /\ task[r] \in Tasks /\ act[r] \in Actions
      /\ row[Key(r)] = "pending"
      /\ row' = [row EXCEPT ![Key(r)] = "inflight"]
      /\ UNCHANGED effects
  BY KeyOfCall DEF Claimable, Key
<1>2. InDoubt[task[r]] = {}
  BY <1>1 DEF Claimable, Unresolved, InDoubt
<1>3. Key(r) \notin Effected
  BY <1>1 DEF RowsTell, Effected
<1>4. InDoubt' = [InDoubt EXCEPT ![task[r]] = {act[r]}]
  <2>1. \A t \in Tasks : InDoubt'[t] = IF t = task[r] THEN {act[r]} ELSE InDoubt[t]
    <3> TAKE t \in Tasks
    <3>1. \A a \in Actions : row'[<<t, a>>] =
             IF t = task[r] /\ a = act[r] THEN "inflight" ELSE row[<<t, a>>]
      BY <1>1 DEF Keys
    <3> QED BY <1>1, <1>2, <3>1 DEF InDoubt
  <2>2. InDoubt' = [t \in Tasks |-> InDoubt'[t]]
    BY DEF InDoubt
  <2>3. InDoubt \in [Tasks -> SUBSET Actions]
    BY DEF InDoubt
  <2> HIDE DEF InDoubt
  <2> QED BY <1>1, <2>1, <2>2, <2>3
<1>5. Effected' = Effected
  BY <1>1 DEF Effected
<1> QED BY <1>1, <1>2, <1>3, <1>4, <1>5 DEF Promise!Start, InDoubt, Effected

(* A handler carries the action out, or leaves no effect.                  *)
LEMMA HandleKeeps ==
    ASSUME IInv, NEW r \in Runs, Handle(r)
    PROVE  \/ Promise!CarryOut(task[r], act[r])
           \/ UNCHANGED <<InDoubt, Effected>>
<1> USE DEF IInv, Agreement, TypeOK, Handle, Goto
<1>1. /\ Key(r) = <<task[r], act[r]>> /\ Key(r) \in Keys
      /\ task[r] \in Tasks /\ act[r] \in Actions
      /\ row[Key(r)] = "inflight" /\ effects[Key(r)] = 0
      /\ UNCHANGED row
  BY KeyOfCall DEF OwnsTask, CallsTell, Busy, Key, ledger
<1>2. UNCHANGED InDoubt
  BY <1>1 DEF InDoubt
<1>3. act[r] \in InDoubt[task[r]] /\ Key(r) \notin Effected
  BY <1>1 DEF InDoubt, Effected
<1>4. Effected' \in {Effected, Effected \cup {Key(r)}}
  <2>1. \/ effects' = [effects EXCEPT ![Key(r)] = effects[Key(r)] + 1]
        \/ effects' = effects
    BY <1>1
  <2>2. CASE effects' = effects
    BY <2>2 DEF Effected
  <2>3. CASE effects' = [effects EXCEPT ![Key(r)] = effects[Key(r)] + 1]
    BY <1>1, <2>3 DEF Effected
  <2> QED BY <2>1, <2>2, <2>3
<1> QED BY <1>1, <1>2, <1>3, <1>4 DEF Promise!CarryOut, InDoubt, Effected

(* A receipt, or proof that nothing happened, settles the task.            *)
LEMMA FinishKeeps ==
    ASSUME IInv, NEW r \in Runs, FinishAction(r)
    PROVE  \/ Promise!Settle(task[r])
           \/ UNCHANGED <<InDoubt, Effected>>
<1> USE DEF IInv, Agreement, TypeOK, FinishAction, Goto
<1>1. /\ Key(r) = <<task[r], act[r]>> /\ Key(r) \in Keys
      /\ task[r] \in Tasks /\ act[r] \in Actions
      /\ row[Key(r)] = "inflight"
      /\ UNCHANGED effects
  BY KeyOfCall DEF OwnsTask, Busy, Key
<1>2. /\ \/ row'[Key(r)] \in {"inflight", "uncertain"}
         \/ row'[Key(r)] \in {"pending", "sent"}
      /\ \A j \in Keys : j # Key(r) => row'[j] = row[j]
  BY <1>1 DEF CallsTell, Resolved, ledger
<1>3. UNCHANGED Effected
  BY <1>1 DEF Effected
<1>4. CASE row'[Key(r)] \in {"inflight", "uncertain"}
  <2>1. \A j \in Keys : row'[j] \in {"inflight", "uncertain"}
                       <=> row[j] \in {"inflight", "uncertain"}
    BY <1>1, <1>2, <1>4
  <2>2. UNCHANGED InDoubt
    BY <2>1 DEF InDoubt, Keys
  <2> QED BY <1>3, <2>2
<1>5. CASE row'[Key(r)] \in {"pending", "sent"}
  <2>1. \A a \in Actions : row'[<<task[r], a>>] \notin {"inflight", "uncertain"}
    <3> SUFFICES ASSUME NEW a \in Actions,
                        row'[<<task[r], a>>] \in {"inflight", "uncertain"}
                 PROVE  FALSE
      OBVIOUS
    <3>1. <<task[r], a>> \in Keys
      BY <1>1 DEF Keys
    <3>2. a # act[r]
      BY <1>1, <1>5
    <3>3. row[<<task[r], a>>] \in {"inflight", "uncertain"}
      BY <1>1, <1>2, <3>1, <3>2
    <3> QED BY <1>1, <3>2, <3>3 DEF OneInDoubt
  <2>2. \A t \in Tasks : t # task[r] =>
          \A a \in Actions : row'[<<t, a>>] = row[<<t, a>>]
    BY <1>1, <1>2 DEF Keys
  <2>3. InDoubt' = [InDoubt EXCEPT ![task[r]] = {}]
    <3>1. \A t \in Tasks :
            InDoubt'[t] = IF t = task[r] THEN {} ELSE InDoubt[t]
      BY <2>1, <2>2 DEF InDoubt
    <3>2. /\ InDoubt = [t \in Tasks |-> InDoubt[t]]
          /\ InDoubt' = [t \in Tasks |-> InDoubt'[t]]
      BY DEF InDoubt
    <3> QED BY <3>1, <3>2
  <2> QED BY <1>3, <2>3 DEF Promise!Settle, InDoubt, Effected
<1> QED BY <1>2, <1>4, <1>5

(* The sweep forgets what it deletes, and deletes nothing in doubt.        *)
LEMMA SweepKeeps ==
    ASSUME IInv, SweepDelete
    PROVE  Promise!Forget(Expired)
<1> USE DEF IInv, Agreement, TypeOK, SweepDelete
<1>1. Expired \subseteq Keys
  BY DEF Expired
<1>2. \A j \in Keys :
        /\ row'[j] = IF j \in Expired THEN "none" ELSE row[j]
        /\ effects'[j] = IF j \in Expired THEN 0 ELSE effects[j]
  OBVIOUS
<1>3. \A j \in Expired : row[j] \in {"sent", "pending"}
  BY DEF Expired
<1>4. \A t \in Tasks : \A a \in InDoubt[t] : <<t, a>> \notin Expired
  BY <1>3 DEF InDoubt
<1>5. \A j \in Keys : row'[j] \in {"inflight", "uncertain"}
                     <=> row[j] \in {"inflight", "uncertain"}
  BY <1>2, <1>3
<1>6. InDoubt' = InDoubt
  BY <1>5 DEF InDoubt, Keys
<1>7. Effected' = Effected \ Expired
  BY <1>1, <1>2 DEF Effected
<1> QED BY <1>4, <1>6, <1>7 DEF Promise!Forget, InDoubt, Effected

(* A new pending row is neither in doubt nor done.                         *)
LEMMA PrepareKeeps ==
    ASSUME IInv, NEW r \in Runs, NEW a \in Actions, Prepare(r, a)
    PROVE  UNCHANGED <<InDoubt, Effected>>
<1> USE DEF IInv, Agreement, TypeOK, CallsAreBound, Prepare, Goto
<1>1. <<task[r], a>> \in Keys /\ UNCHANGED effects
  BY DEF Keys
<1>2. \A j \in Keys : row'[j] = row[j] \/ (row[j] = "none" /\ row'[j] = "pending")
  BY <1>1
<1>3. UNCHANGED InDoubt
  BY <1>2 DEF InDoubt, Keys
<1> QED BY <1>1, <1>3 DEF Effected

(* Every step of the runs and the ledger is a step of the promise, or      *)
(* changes nothing of it.                                                  *)
LEMMA StepKeeps ==
    IInv /\ [Next]_vars => [Promise!Next]_<<InDoubt, Effected>>
<1> SUFFICES ASSUME IInv, [Next]_vars
             PROVE  Promise!Next \/ UNCHANGED <<InDoubt, Effected>>
  OBVIOUS
<1> USE DEF ledger
<1>1. ASSUME UNCHANGED <<row, effects>> PROVE UNCHANGED <<InDoubt, Effected>>
  BY <1>1 DEF InDoubt, Effected
<1>2. ASSUME NEW r \in Runs,
             Trip(r) \/ End(r) \/ Refuse(r) \/ Validate(r) \/ Consult(r)
      PROVE  UNCHANGED <<row, effects>>
  BY <1>2 DEF Trip, End, Refuse, Validate, Consult
<1>3. ASSUME NEW r \in Runs, NEW t \in Tasks, Begin(r, t) \/ Follow(r, t)
      PROVE  UNCHANGED <<row, effects>>
  BY <1>3 DEF Begin, Follow
<1>4. ASSUME NEW t \in Tasks, NEW s \in {"stopped", "superseded"}, Retire(t, s)
      PROVE  UNCHANGED <<row, effects>>
  BY <1>4 DEF Retire
<1>5. ASSUME NEW k \in Keys, Age(k) PROVE UNCHANGED <<row, effects>>
  BY <1>5 DEF Age
<1>6. ASSUME SweepRead \/ Crash \/ UNCHANGED vars
      PROVE  UNCHANGED <<row, effects>>
  BY <1>6 DEF SweepRead, Crash, vars
<1>7. ASSUME NEW r \in Runs, StartAction(r) PROVE Promise!Next
  <2>1. task[r] \in Tasks /\ act[r] \in Actions
    BY <1>7, KeyOfCall DEF StartAction, IInv
  <2>2. Promise!Start(task[r], act[r])
    BY <1>7, StartKeeps
  <2> QED BY <2>1, <2>2 DEF Promise!Next, Promise!Start
<1>8. ASSUME NEW r \in Runs, Handle(r)
      PROVE  Promise!Next \/ UNCHANGED <<InDoubt, Effected>>
  <2>1. task[r] \in Tasks /\ act[r] \in Actions
    BY <1>8, KeyOfCall DEF Handle, IInv
  <2> QED BY <1>8, <2>1, HandleKeeps DEF Promise!Next, Promise!CarryOut
<1>9. ASSUME NEW r \in Runs, FinishAction(r)
      PROVE  Promise!Next \/ UNCHANGED <<InDoubt, Effected>>
  <2>1. task[r] \in Tasks
    BY <1>9, KeyOfCall DEF FinishAction, IInv
  <2> QED BY <1>9, <2>1, FinishKeeps DEF Promise!Next, Promise!Settle
<1>10. ASSUME SweepDelete PROVE Promise!Next
  <2>1. Expired \in SUBSET Promise!Keys
    BY DEF Expired, IInv, TypeOK, Keys, Promise!Keys
  <2> QED BY <1>10, <2>1, SweepKeeps DEF Promise!Next, Promise!Forget
<1> QED
  BY <1>1, <1>2, <1>3, <1>4, <1>5, <1>6, <1>7, <1>8, <1>9, <1>10,
     PrepareKeeps DEF Next

(* The ledger and the runs keep the promise of TaskPromise: one effect per *)
(* action as long as its receipt is kept, one outcome in doubt per task,   *)
(* and no new action while there is one.                                   *)
THEOREM ImplementsPromise == Spec => KeepsPromise
<1>1. Init => Promise!Init
  BY DEF Init, Promise!Init, Keys, InDoubt, Effected
<1>2. IInv /\ [Next]_vars => [Promise!Next]_<<InDoubt, Effected>>
  BY StepKeeps
<1> QED BY <1>1, <1>2, Inductive, PTL DEF Spec, KeepsPromise, Promise!Spec
=============================================================================
