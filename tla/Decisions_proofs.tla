-------------------------- MODULE Decisions_proofs --------------------------
(***************************************************************************)
(* Proofs about Decisions, for any chats, questions, runs and answers: type*)
(* correctness, that an answer is handed over once and an approval spent   *)
(* once, and that a decision never changes.                                *)
(***************************************************************************)
EXTENDS Decisions, FiniteSetTheorems, TLAPS

\* A run that waits for, settles or spends a question has one.
RunsAreBound ==
    \A r \in Runs :
        run[r].stage \in {"wait", "settle", "hide", "submit", "suspend"}
          => run[r].on \in Prompts

\* What a row says of the ways its answer was handed over.
RowsTell ==
    \A p \in Prompts :
        /\ prompt[p].consumed => prompt[p].state = "answered"
        /\ prompt[p].resume   => prompt[p].consumed /\ "tool" \notin taken[p]
        /\ "turn" \in taken[p] => prompt[p].resume
        /\ "tool" \in taken[p] => prompt[p].consumed

\* The open batch queues answers nobody has taken, and nobody can take them
\* while it holds the database.  No turn is under way then.
BatchWaits ==
    /\ loop = "tx" => \A p \in batch : Waits(p)
    /\ loop # "tx" => batch = {}
    /\ main # NoRun => loop = "turn"

\* An approval that was spent was given.
SpentIsGiven ==
    \A p \in Prompts :
        /\ prompt[p].started =>
             prompt[p].state = "answered" /\ prompt[p].value = Confirm
        /\ effects[p] \in {0, 1}
        /\ effects[p] = 1 => prompt[p].started

\* The run that spent an approval is the only one to post under it.
OnePoster ==
    \A r \in Runs : run[r].stage = "submit" =>
        /\ prompt[run[r].on].started
        /\ effects[run[r].on] = 0
        /\ \A s \in Runs \ {r} :
             run[s].stage = "submit" => run[s].on # run[r].on

\* What rows, hand-overs and posts have to do with each other.
Agreement == RowsTell /\ BatchWaits /\ SpentIsGiven /\ OnePoster

\* The inductive invariant.
IInv == TypeOK /\ RunsAreBound /\ Agreement

-----------------------------------------------------------------------------
(* The inductive invariant holds initially.                                *)
LEMMA InitInv == Init => IInv
<1> SUFFICES ASSUME Init PROVE IInv
  OBVIOUS
<1>1. TypeOK
  <2>1. NoPrompt \in Decision
    BY DecisionsAssumption DEF NoPrompt, Decision, States, NoScope, Scopes
  <2>2. Free \in Thread /\ NoScope \in Scopes
    BY DecisionsAssumption DEF Free, Thread, Stages, NoScope, Scopes
  <2>3. task \in Task
    BY DecisionsAssumption DEF Init, Task, Statuses
  <2>4. prompt \in [Prompts -> Decision] /\ run \in [Runs -> Thread]
        /\ seen \in [Chats -> Scopes]
    BY <2>1, <2>2 DEF Init
  <2>5. crashes \in 0..MaxCrashes /\ faults \in 0..MaxFaults
        /\ effects \in [Prompts -> Nat]
    BY DecisionsAssumption DEF Init
  <2> QED BY <2>3, <2>4, <2>5 DEF Init, TypeOK
<1>2. RunsAreBound /\ OnePoster
  BY DEF Init, RunsAreBound, OnePoster, Free
<1>3. RowsTell /\ BatchWaits /\ SpentIsGiven
  BY DEF Init, RowsTell, BatchWaits, SpentIsGiven, NoPrompt
<1> QED BY <1>1, <1>2, <1>3 DEF IInv, Agreement

-----------------------------------------------------------------------------
(* Rows and threads keep their types under the changes the code makes.     *)
LEMMA RowType ==
    ASSUME NEW row \in Decision
    PROVE  /\ [row EXCEPT !.state = "skipped"] \in Decision
           /\ [row EXCEPT !.state = "skipped", !.stale = TRUE] \in Decision
           /\ [row EXCEPT !.consumed = TRUE] \in Decision
           /\ [row EXCEPT !.consumed = TRUE, !.resume = TRUE] \in Decision
           /\ [row EXCEPT !.cleared = TRUE] \in Decision
           /\ [row EXCEPT !.started = TRUE] \in Decision
           /\ \A v \in Values :
                [row EXCEPT !.state = "answered", !.value = v] \in Decision
           /\ \A at \in Scopes, m \in Msgs \cup {NoMsg} :
                [row EXCEPT !.state = "open", !.at = at, !.asker = m] \in Decision
<1> USE DEF Decision, States
<1>1. [row EXCEPT !.state = "skipped"] \in Decision
  OBVIOUS
<1>2. [row EXCEPT !.state = "skipped", !.stale = TRUE] \in Decision
  OBVIOUS
<1>3. [row EXCEPT !.consumed = TRUE] \in Decision
  OBVIOUS
<1>4. [row EXCEPT !.consumed = TRUE, !.resume = TRUE] \in Decision
  OBVIOUS
<1>5. [row EXCEPT !.cleared = TRUE] \in Decision
  OBVIOUS
<1>6. [row EXCEPT !.started = TRUE] \in Decision
  OBVIOUS
<1>7. ASSUME NEW v \in Values
      PROVE  [row EXCEPT !.state = "answered", !.value = v] \in Decision
  OBVIOUS
<1>8. ASSUME NEW at \in Scopes, NEW m \in Msgs \cup {NoMsg}
      PROVE  [row EXCEPT !.state = "open", !.at = at, !.asker = m] \in Decision
  OBVIOUS
<1> HIDE DEF Decision, States
<1> QED BY <1>1, <1>2, <1>3, <1>4, <1>5, <1>6, <1>7, <1>8

LEMMA ThreadType ==
    /\ Free \in Thread
    /\ \A t \in Thread : [t EXCEPT !.stage = "end"] \in Thread
    /\ \A t \in Thread, s \in Stages, p \in Prompts \cup {NoMsg} :
         [t EXCEPT !.stage = s, !.on = p] \in Thread
    /\ \A t \in Thread, c \in Msgs, at \in Scopes :
         [t EXCEPT !.msgs = t.msgs \cup {c}, !.at = at] \in Thread
    /\ \A m \in Msgs, at \in Scopes :
         [Free EXCEPT !.stage = "work", !.msgs = {m}, !.turn = m, !.at = at]
           \in Thread
<1> USE DEF Thread, Stages
<1>1. Free \in Thread
  BY DecisionsAssumption DEF Free, NoScope, Scopes
<1>2. ASSUME NEW t \in Thread PROVE [t EXCEPT !.stage = "end"] \in Thread
  OBVIOUS
<1>3. ASSUME NEW t \in Thread, NEW s \in Stages, NEW p \in Prompts \cup {NoMsg}
      PROVE  [t EXCEPT !.stage = s, !.on = p] \in Thread
  OBVIOUS
<1>4. ASSUME NEW t \in Thread, NEW c \in Msgs, NEW at \in Scopes
      PROVE  [t EXCEPT !.msgs = t.msgs \cup {c}, !.at = at] \in Thread
  OBVIOUS
<1>5. ASSUME NEW m \in Msgs, NEW at \in Scopes
      PROVE  [Free EXCEPT !.stage = "work", !.msgs = {m}, !.turn = m, !.at = at]
               \in Thread
  BY DEF Free
<1> HIDE DEF Thread, Stages
<1> QED BY <1>1, <1>2, <1>3, <1>4, <1>5

(* What a settlement does to a row: it decides an open one, or nothing.    *)
LEMMA SettleRow ==
    ASSUME NEW row \in Decision, NEW v \in Values, NEW b \in BOOLEAN
    PROVE  /\ Settle(row, v, b) \in Decision
           /\ Settle(row, v, b).consumed = row.consumed
           /\ Settle(row, v, b).resume = row.resume
           /\ Settle(row, v, b).started = row.started
           /\ row.state # "open" => Settle(row, v, b) = row
<1>1. CASE row.state # "open" \/ row.cleared
  BY <1>1 DEF Settle
<1>2. CASE ~(row.state # "open" \/ row.cleared) /\ ~b
  <2>1. Settle(row, v, b) = [row EXCEPT !.state = "skipped", !.stale = TRUE]
    BY <1>2 DEF Settle
  <2>2. [row EXCEPT !.state = "skipped", !.stale = TRUE] \in Decision
    BY RowType
  <2>3. /\ [row EXCEPT !.state = "skipped", !.stale = TRUE].consumed = row.consumed
        /\ [row EXCEPT !.state = "skipped", !.stale = TRUE].resume = row.resume
        /\ [row EXCEPT !.state = "skipped", !.stale = TRUE].started = row.started
    BY DEF Decision
  <2> QED BY <1>2, <2>1, <2>2, <2>3
<1>3. CASE ~(row.state # "open" \/ row.cleared) /\ b
  <2>1. Settle(row, v, b) = [row EXCEPT !.state = "answered", !.value = v]
    BY <1>3 DEF Settle
  <2>2. [row EXCEPT !.state = "answered", !.value = v] \in Decision
    BY RowType
  <2>3. /\ [row EXCEPT !.state = "answered", !.value = v].consumed = row.consumed
        /\ [row EXCEPT !.state = "answered", !.value = v].resume = row.resume
        /\ [row EXCEPT !.state = "answered", !.value = v].started = row.started
    BY DEF Decision
  <2> QED BY <1>3, <2>1, <2>2, <2>3
<1> QED BY <1>1, <1>2, <1>3

(* Nor does a skip.                                                        *)
LEMMA SkipRow ==
    ASSUME NEW row \in Decision
    PROVE  /\ Skip(row) \in Decision
           /\ Skip(row).consumed = row.consumed
           /\ Skip(row).resume = row.resume
           /\ Skip(row).started = row.started
           /\ row.state # "open" => Skip(row) = row
<1>1. CASE row.state # "open" \/ row.cleared
  BY <1>1 DEF Skip
<1>2. CASE ~(row.state # "open" \/ row.cleared)
  <2>1. Skip(row) = [row EXCEPT !.state = "skipped"]
    BY <1>2 DEF Skip
  <2>2. [row EXCEPT !.state = "skipped"] \in Decision
    BY RowType
  <2>3. /\ [row EXCEPT !.state = "skipped"].consumed = row.consumed
        /\ [row EXCEPT !.state = "skipped"].resume = row.resume
        /\ [row EXCEPT !.state = "skipped"].started = row.started
    BY DEF Decision
  <2> QED BY <1>2, <2>1, <2>2, <2>3
<1> QED BY <1>1, <1>2

(* Nor does a supersession, of any of the rows.                            *)
LEMMA SupersededRow ==
    ASSUME NEW p \in Prompts, prompt[p] \in Decision
    PROVE  /\ Superseded[p] \in Decision
           /\ Superseded[p].consumed = prompt[p].consumed
           /\ Superseded[p].resume = prompt[p].resume
           /\ Superseded[p].started = prompt[p].started
           /\ prompt[p].state # "open" => Superseded[p] = prompt[p]
<1>1. CASE prompt[p].state = "open" /\ ~prompt[p].cleared /\ ~Current(p)
  <2>1. Superseded[p] = [prompt[p] EXCEPT !.state = "skipped", !.stale = TRUE]
    BY <1>1 DEF Superseded
  <2>2. [prompt[p] EXCEPT !.state = "skipped", !.stale = TRUE] \in Decision
    BY RowType
  <2>3. /\ [prompt[p] EXCEPT !.state = "skipped", !.stale = TRUE].consumed = prompt[p].consumed
        /\ [prompt[p] EXCEPT !.state = "skipped", !.stale = TRUE].resume = prompt[p].resume
        /\ [prompt[p] EXCEPT !.state = "skipped", !.stale = TRUE].started = prompt[p].started
    BY DEF Decision
  <2> QED BY <1>1, <2>1, <2>2, <2>3
<1>2. CASE ~(prompt[p].state = "open" /\ ~prompt[p].cleared /\ ~Current(p))
  BY <1>2 DEF Superseded
<1> QED BY <1>1, <1>2

(* A run that goes to another stage.                                       *)
LEMMA GoRun ==
    ASSUME run \in [Runs -> Thread], NEW r \in Runs, NEW s \in Stages,
           NEW p \in Prompts \cup {NoMsg}, Go(r, s, p)
    PROVE  /\ run' \in [Runs -> Thread]
           /\ run'[r].stage = s /\ run'[r].on = p
           /\ \A q \in Runs \ {r} : run'[q] = run[q]
<1>1. run' = [run EXCEPT ![r] = [run[r] EXCEPT !.stage = s, !.on = p]]
  BY DEF Go
<1>2. run[r] \in Thread
  OBVIOUS
<1>3. [run[r] EXCEPT !.stage = s, !.on = p] \in Thread
  BY <1>2, ThreadType
<1>4. /\ [run[r] EXCEPT !.stage = s, !.on = p].stage = s
      /\ [run[r] EXCEPT !.stage = s, !.on = p].on = p
  BY <1>2 DEF Thread
<1> QED BY <1>1, <1>3, <1>4

(* A run that begins a turn.                                               *)
LEMMA LaunchRun ==
    ASSUME run \in [Runs -> Thread], NEW r \in Runs, NEW m \in Msgs,
           NEW at \in Scopes, Launch(r, m, at)
    PROVE  /\ run' \in [Runs -> Thread]
           /\ run'[r].stage = "work"
           /\ \A q \in Runs \ {r} : run'[q] = run[q]
<1>1. /\ [Free EXCEPT !.stage = "work", !.msgs = {m}, !.turn = m, !.at = at]
           \in Thread
      /\ [Free EXCEPT !.stage = "work", !.msgs = {m}, !.turn = m, !.at = at].stage
           = "work"
  BY ThreadType DEF Free
<1> QED BY <1>1 DEF Launch

(* A message that is begun keeps the task within its types.                *)
LEMMA BegunTask ==
    ASSUME TypeOK, NEW kind \in {"continue", "revise", "stop", "new"},
           Begins(kind)
    PROVE  /\ Begun(kind) \in Task
           /\ <<Begun(kind).id, Begun(kind).rev>> \in Scopes
<1>1. /\ task.id \in 0..MaxTasks /\ task.rev \in 0..MaxRevisions
      /\ task.status \in Statuses /\ MaxTasks \in Nat /\ MaxRevisions \in Nat
      /\ MaxRevisions >= 1
  BY DecisionsAssumption DEF TypeOK, Task
<1>2. CASE kind = "continue"
  <2>1. Begun(kind) = [task EXCEPT !.status = "active"]
    BY <1>2 DEF Begun
  <2>2. [task EXCEPT !.status = "active"] \in Task
    BY DEF TypeOK, Task, Statuses
  <2> QED BY <2>1, <2>2 DEF Task, Scopes
<1>3. CASE kind \in {"revise", "stop"}
  <2>1. task.rev + 1 \in 0..MaxRevisions
    BY <1>1, <1>3 DEF Begins
  <2>2. \E s \in Statuses :
           Begun(kind) = [task EXCEPT !.rev = task.rev + 1, !.status = s]
    BY <1>3 DEF Begun, Statuses
  <2>3. \A s \in Statuses :
           [task EXCEPT !.rev = task.rev + 1, !.status = s] \in Task
    BY <2>1 DEF TypeOK, Task
  <2> QED BY <2>2, <2>3 DEF Task, Scopes
<1>4. CASE kind = "new"
  <2>1. task.id + 1 \in 0..MaxTasks /\ 1 \in 0..MaxRevisions
    BY <1>1, <1>4 DEF Begins
  <2>2. Begun(kind) = [id |-> task.id + 1, rev |-> 1, status |-> "active"]
    BY <1>4 DEF Begun
  <2> QED BY <2>1, <2>2 DEF Task, Statuses, Scopes
<1> QED BY <1>2, <1>3, <1>4

LEMMA ScopeType == TypeOK => Scope \in Scopes /\ Scope = <<task.id, task.rev>>
BY DEF TypeOK, Task, Scope, Scopes

-----------------------------------------------------------------------------
(* Each action keeps the types, and runs bound to their questions.         *)
LEMMA TypeStep ==
    TypeOK /\ RunsAreBound /\ [Next]_vars => TypeOK' /\ RunsAreBound'
<1> SUFFICES ASSUME TypeOK, RunsAreBound, [Next]_vars
             PROVE  TypeOK' /\ RunsAreBound'
  OBVIOUS
<1> DEFINE Goal == TypeOK' /\ RunsAreBound'
<1> USE DEF TypeOK, RunsAreBound, rows, files, world, proc, log, bounds
<1>1. ASSUME NEW c \in Chats, SendChat(c) PROVE Goal
  BY <1>1 DEF SendChat, Msgs
<1>2. ASSUME NEW p \in Prompts, NEW v \in Values, Answer(p, v) PROVE Goal
  <2>1. Current(p) \in BOOLEAN
    BY DEF Current
  <2>2. Settle(prompt[p], v, Current(p)) \in Decision
    BY <2>1, SettleRow
  <2> QED BY <1>2, <2>2 DEF Answer
<1>3. CASE Supersede
  <2>1. Superseded = [p \in Prompts |-> Superseded[p]]
    BY DEF Superseded
  <2> QED BY <1>3, <2>1, SupersededRow DEF Supersede
<1>4. CASE Boot
  BY <1>4 DEF Boot
<1>5. CASE Head
  BY <1>5 DEF Head
<1>6. CASE Commit
  <2>1. \A p \in Prompts : prompt[p] \in Decision
    OBVIOUS
  <2>2. prompt' \in [Prompts -> Decision]
    BY <1>6, <2>1, RowType DEF Commit
  <2> QED BY <1>6, <2>2 DEF Commit
<1>7. CASE Idle
  BY <1>7 DEF Idle
<1>8. ASSUME NEW p \in Prompts, QueueFile(p) PROVE Goal
  BY <1>8 DEF QueueFile, Msgs
<1>9. ASSUME NEW p \in Prompts, Discard(p) PROVE Goal
  BY <1>9 DEF Discard
<1>10. ASSUME NEW r \in Runs, NEW c \in Chats, StartChat(r, c) PROVE Goal
  <2>1. CASE seen[c] # NoScope
    <3>1. PICK at \in Scopes : Launch(r, c, at)
      BY <1>10, <2>1, ScopeType DEF StartChat
    <3>2. c \in Msgs
      BY DEF Msgs
    <3>3. run' \in [Runs -> Thread] /\ run'[r].stage = "work"
          /\ \A q \in Runs \ {r} : run'[q] = run[q]
      BY <3>1, <3>2, LaunchRun
    <3> QED BY <1>10, <2>1, <3>1, <3>3 DEF StartChat, Launch
  <2>2. CASE seen[c] = NoScope
    <3>1. PICK kind \in {"continue", "revise", "stop", "new"} :
             /\ Begins(kind)
             /\ task' = Begun(kind)
             /\ seen' = [seen EXCEPT ![c] = <<task'.id, task'.rev>>]
             /\ Launch(r, c, <<task'.id, task'.rev>>)
      BY <1>10, <2>2 DEF StartChat
    <3>2. task' \in Task /\ <<task'.id, task'.rev>> \in Scopes
      BY <3>1, BegunTask
    <3>3. c \in Msgs
      BY DEF Msgs
    <3>4. run' \in [Runs -> Thread] /\ run'[r].stage = "work"
          /\ \A q \in Runs \ {r} : run'[q] = run[q]
      BY <3>1, <3>2, <3>3, LaunchRun
    <3> QED BY <1>10, <2>2, <3>1, <3>2, <3>4 DEF StartChat, Launch
  <2> QED BY <2>1, <2>2
<1>11. ASSUME NEW r \in Runs, NEW p \in Prompts, StartContinuation(r, p) PROVE Goal
  <2>1. p \in Msgs /\ Scope \in Scopes
    BY ScopeType DEF Msgs
  <2>2. run' \in [Runs -> Thread] /\ run'[r].stage = "work"
        /\ \A q \in Runs \ {r} : run'[q] = run[q]
    BY <1>11, <2>1, LaunchRun DEF StartContinuation
  <2> QED BY <1>11, <2>2 DEF StartContinuation, Launch
<1>12. ASSUME NEW r \in Runs, Archive(r) PROVE Goal
  <2>1. run' \in [Runs -> Thread] /\ run'[r].stage = "free"
        /\ \A q \in Runs \ {r} : run'[q] = run[q]
    BY <1>12, ThreadType DEF Archive, Free
  <2> QED BY <1>12, <2>1 DEF Archive, ArchiveAll, Leave
<1>13. CASE CommitFails
  <2>1. faults' \in 0..MaxFaults
    <3>1. faults \in 0..MaxFaults /\ faults < MaxFaults
          /\ faults' = faults + 1 /\ MaxFaults \in Nat
      BY <1>13, DecisionsAssumption DEF CommitFails
    <3> HIDE DEF TypeOK
    <3> QED BY <3>1
  <2> QED BY <1>13, <2>1 DEF CommitFails
<1>14. CASE Crash
  <2>1. run' \in [Runs -> Thread] /\ \A q \in Runs : run'[q].stage = "free"
    BY <1>14, ThreadType DEF Crash, Free
  <2>2. crashes' \in 0..MaxCrashes
    <3>1. crashes \in 0..MaxCrashes /\ crashes < MaxCrashes
          /\ crashes' = crashes + 1 /\ MaxCrashes \in Nat
      BY <1>14, DecisionsAssumption DEF Crash
    <3> HIDE DEF TypeOK
    <3> QED BY <3>1
  <2> QED BY <1>14, <2>1, <2>2 DEF Crash
<1>15. ASSUME NEW r \in Runs, NEW p \in Prompts, Ask(r, p) PROVE Goal
  <2>1. \/ UNCHANGED run
        \/ \E s \in {"wait", "suspend"} : Go(r, s, p)
    BY <1>15 DEF Ask
  <2>2. \A s \in {"wait", "suspend"} : Go(r, s, p) =>
          /\ run' \in [Runs -> Thread] /\ run'[r].on = p
          /\ \A q \in Runs \ {r} : run'[q] = run[q]
    BY GoRun DEF Stages
  <2>3. run' \in [Runs -> Thread] /\ RunsAreBound'
    BY <2>1, <2>2
  <2>4. run[r].at \in Scopes /\ run[r].turn \in Msgs \cup {NoMsg}
        /\ prompt[p] \in Decision
    BY DEF Thread
  <2>5. /\ [prompt[p] EXCEPT !.state = "open", !.at = run[r].at,
                             !.asker = run[r].turn] \in Decision
        /\ [prompt[p] EXCEPT !.consumed = TRUE] \in Decision
    BY <2>4, RowType
  <2>6. prompt' \in [Prompts -> Decision]
    BY <1>15, <2>5 DEF Ask, Hand
  <2>7. taken' \in [Prompts -> SUBSET {"tool", "turn"}]
    BY <1>15 DEF Ask, Hand
  <2> QED BY <1>15, <2>3, <2>6, <2>7 DEF Ask
<1>16. ASSUME NEW r \in Runs, NEW p \in Prompts, ClaimExecution(r, p) PROVE Goal
  <2>1. run' \in [Runs -> Thread] /\ run'[r].stage = "submit"
        /\ run'[r].on = p /\ \A q \in Runs \ {r} : run'[q] = run[q]
    BY <1>16, GoRun DEF ClaimExecution, Stages
  <2>2. [prompt[p] EXCEPT !.started = TRUE] \in Decision
    BY RowType
  <2> QED BY <1>16, <2>1, <2>2 DEF ClaimExecution
<1>17. ASSUME NEW r \in Runs, NEW c \in Chats, Steer(r, c) PROVE Goal
  <2>1. PICK kind \in {"continue", "revise", "stop"} :
           Begins(kind) /\ task' = Begun(kind)
    BY <1>17 DEF Steer
  <2>2. task' \in Task /\ <<task'.id, task'.rev>> \in Scopes
    BY <2>1, BegunTask
  <2>3. run' = [run EXCEPT ![r] = [run[r] EXCEPT
                  !.msgs = run[r].msgs \cup {c}, !.at = <<task'.id, task'.rev>>]]
    BY <1>17 DEF Steer
  <2>4. run[r] \in Thread /\ c \in Msgs
    BY DEF Msgs
  <2>5. /\ [run[r] EXCEPT !.msgs = run[r].msgs \cup {c},
                          !.at = <<task'.id, task'.rev>>] \in Thread
        /\ [run[r] EXCEPT !.msgs = run[r].msgs \cup {c},
                          !.at = <<task'.id, task'.rev>>].stage = run[r].stage
    <3>1. [run[r] EXCEPT !.msgs = run[r].msgs \cup {c},
                         !.at = <<task'.id, task'.rev>>] \in Thread
      BY <2>2, <2>4, ThreadType
    <3> QED BY <2>4, <3>1 DEF Thread
  <2>6. run[r].stage = "work"
    BY <1>17 DEF Steer
  <2>7. run' \in [Runs -> Thread] /\ RunsAreBound'
    BY <2>3, <2>5, <2>6
  <2> QED BY <1>17, <2>2, <2>7 DEF Steer
<1>18. ASSUME NEW r \in Runs, Submit(r) PROVE Goal
  <2>1. run' \in [Runs -> Thread] /\ run'[r].stage = "work"
        /\ run'[r].on = NoMsg /\ \A q \in Runs \ {r} : run'[q] = run[q]
    BY <1>18, GoRun DEF Submit, Stages
  <2>2. effects' \in [Prompts -> Nat]
    BY <1>18 DEF Submit
  <2> QED BY <1>18, <2>1, <2>2 DEF Submit
<1>19. ASSUME NEW r \in Runs, Poll(r) PROVE Goal
  <2>1. run' \in [Runs -> Thread] /\ run'[r].stage = "work"
        /\ run'[r].on = NoMsg /\ \A q \in Runs \ {r} : run'[q] = run[q]
    BY <1>19, GoRun DEF Poll, Stages
  <2>2. run[r].on \in Prompts
    BY <1>19 DEF Poll
  <2>3. [prompt[run[r].on] EXCEPT !.consumed = TRUE] \in Decision
    BY <2>2, RowType
  <2>4. prompt' \in [Prompts -> Decision]
        /\ taken' \in [Prompts -> SUBSET {"tool", "turn"}]
    BY <1>19, <2>2, <2>3 DEF Poll, Hand
  <2> QED BY <1>19, <2>1, <2>4 DEF Poll
<1>20. ASSUME NEW r \in Runs, Timeout(r) PROVE Goal
  <2>1. Superseded = [p \in Prompts |-> Superseded[p]]
    BY DEF Superseded
  <2>2. run[r].on \in Prompts
    BY <1>20 DEF Timeout
  <2>3. prompt' \in [Prompts -> Decision]
    BY <1>20, <2>1, SupersededRow DEF Timeout
  <2>4. \E s \in {"settle", "work"}, p \in {run[r].on, NoMsg} :
           Go(r, s, p) /\ (s = "settle" => p = run[r].on)
    BY <1>20 DEF Timeout
  <2>5. run' \in [Runs -> Thread] /\ RunsAreBound'
    <3>1. PICK s \in {"settle", "work"}, p \in {run[r].on, NoMsg} :
             Go(r, s, p) /\ (s = "settle" => p = run[r].on)
      BY <2>4
    <3>2. run' \in [Runs -> Thread] /\ run'[r].stage = s
          /\ run'[r].on = p /\ \A q \in Runs \ {r} : run'[q] = run[q]
      BY <2>2, <3>1, GoRun DEF Stages
    <3> QED BY <2>2, <3>1, <3>2
  <2> QED BY <1>20, <2>3, <2>5 DEF Timeout
<1>21. ASSUME NEW r \in Runs, SettleSkipped(r) PROVE Goal
  <2>1. run[r].on \in Prompts
    BY <1>21 DEF SettleSkipped
  <2>2. run' \in [Runs -> Thread] /\ run'[r].stage = "hide"
        /\ run'[r].on = run[r].on /\ \A q \in Runs \ {r} : run'[q] = run[q]
    BY <1>21, <2>1, GoRun DEF SettleSkipped, Stages
  <2>3. Skip(prompt[run[r].on]) \in Decision
    BY <2>1, SkipRow
  <2> QED BY <1>21, <2>1, <2>2, <2>3 DEF SettleSkipped
<1>22. ASSUME NEW r \in Runs, Hide(r) PROVE Goal
  <2>1. run' \in [Runs -> Thread] /\ run'[r].stage = "work"
        /\ run'[r].on = NoMsg /\ \A q \in Runs \ {r} : run'[q] = run[q]
    BY <1>22, GoRun DEF Hide, Stages
  <2>2. run[r].on \in Prompts
    BY <1>22 DEF Hide
  <2>3. [prompt[run[r].on] EXCEPT !.cleared = TRUE] \in Decision
    BY <2>2, RowType
  <2> QED BY <1>22, <2>1, <2>2, <2>3 DEF Hide
<1>23. ASSUME NEW r \in Runs, NEW s \in Statuses, Finish(r, s) PROVE Goal
  <2>1. [task EXCEPT !.status = s] \in Task
    BY DEF Task
  <2>2. task' \in Task
    BY <1>23, <2>1 DEF Finish, Mark
  <2>3. /\ [run[r] EXCEPT !.stage = "end"] \in Thread
        /\ [run[r] EXCEPT !.stage = "end"].stage = "end"
        /\ Free \in Thread /\ Free.stage = "free"
    BY ThreadType DEF Thread, Free
  <2>4. /\ run' \in [Runs -> Thread] /\ run'[r].stage \in {"end", "free"}
        /\ \A q \in Runs \ {r} : run'[q] = run[q]
    BY <1>23, <2>3 DEF Finish
  <2> QED BY <1>23, <2>2, <2>4 DEF Finish
<1>24. ASSUME NEW r \in Runs, Preempt(r) PROVE Goal
  <2>1. run' \in [Runs -> Thread] /\ run'[r].stage = "work"
        /\ run'[r].on = NoMsg /\ \A q \in Runs \ {r} : run'[q] = run[q]
    BY <1>24, GoRun DEF Preempt, Stages
  <2> QED BY <1>24, <2>1 DEF Preempt
<1>25. ASSUME NEW r \in Runs, Defer(r) PROVE Goal
  <2>1. run' \in [Runs -> Thread] /\ run'[r].stage = "free"
        /\ \A q \in Runs \ {r} : run'[q] = run[q]
    BY <1>25, ThreadType DEF Defer, Free
  <2> QED BY <1>25, <2>1 DEF Defer, Leave
<1>26. ASSUME NEW r \in Runs, Escape(r) PROVE Goal
  BY <1>26 DEF Escape, ArchiveAll, Leave
<1>27. CASE UNCHANGED vars
  BY <1>27 DEF vars
<1> QED
  BY <1>1, <1>2, <1>3, <1>4, <1>5, <1>6, <1>7, <1>8, <1>9, <1>10, <1>11,
     <1>12, <1>13, <1>14, <1>15, <1>16, <1>17, <1>18, <1>19, <1>20, <1>21,
     <1>22, <1>23, <1>24, <1>25, <1>26, <1>27
     DEF Next, User, Loop, Work, Return

-----------------------------------------------------------------------------
(* A step that hands over and spends nothing keeps the agreement.          *)
LEMMA QuietStep ==
    ASSUME TypeOK, RunsAreBound, Agreement, TypeOK', RunsAreBound',
           \A p \in Prompts :
             /\ prompt'[p].consumed = prompt[p].consumed
             /\ prompt'[p].resume = prompt[p].resume
             /\ prompt'[p].started = prompt[p].started
             /\ prompt[p].state = "answered" =>
                  /\ prompt'[p].state = "answered"
                  /\ prompt'[p].value = prompt[p].value,
           UNCHANGED <<taken, effects>>,
           loop' = "tx" => loop = "tx" /\ batch' = batch,
           loop' # "tx" => batch' = {},
           main' # NoRun => loop' = "turn",
           \A r \in Runs : run'[r].stage = "submit" =>
             run[r].stage = "submit" /\ run'[r].on = run[r].on
    PROVE  Agreement'
<1>1. RowsTell'
  BY DEF Agreement, RowsTell
<1>2. BatchWaits'
  <2>1. ASSUME loop' = "tx", NEW p \in batch' PROVE Waits(p)'
    <3>1. p \in Prompts /\ Waits(p)
      BY <2>1 DEF Agreement, BatchWaits, TypeOK
    <3> QED BY <3>1 DEF Waits
  <2> QED BY <2>1 DEF BatchWaits
<1>3. SpentIsGiven'
  BY DEF Agreement, SpentIsGiven
<1>4. OnePoster'
  <2> SUFFICES ASSUME NEW r \in Runs, run'[r].stage = "submit"
               PROVE  /\ prompt'[run'[r].on].started
                      /\ effects'[run'[r].on] = 0
                      /\ \A s \in Runs \ {r} :
                           run'[s].stage = "submit" => run'[s].on # run'[r].on
    BY DEF OnePoster
  <2>1. run[r].stage = "submit" /\ run'[r].on = run[r].on /\ run[r].on \in Prompts
    BY DEF RunsAreBound
  <2> QED BY <2>1 DEF Agreement, OnePoster
<1> QED BY <1>1, <1>2, <1>3, <1>4 DEF Agreement

(* An answer nobody has taken is taken by a tool.                          *)
LEMMA HandStep ==
    ASSUME TypeOK, RunsAreBound, Agreement, TypeOK', RunsAreBound',
           NEW p \in Prompts, Waits(p), Hand(p, "tool"),
           UNCHANGED <<effects, loop, batch, main>>, Unlocked,
           \A r \in Runs : run'[r].stage = "submit" =>
             run[r].stage = "submit" /\ run'[r].on = run[r].on
    PROVE  Agreement'
<1>1. /\ prompt' = [prompt EXCEPT ![p] = [prompt[p] EXCEPT !.consumed = TRUE]]
      /\ prompt[p] \in Decision
      /\ taken' = [taken EXCEPT ![p] = taken[p] \cup {"tool"}]
  BY DEF Hand, TypeOK
<1>2. /\ prompt'[p].consumed = TRUE
      /\ prompt'[p].resume = prompt[p].resume
      /\ prompt'[p].started = prompt[p].started
      /\ prompt'[p].state = prompt[p].state
      /\ prompt'[p].value = prompt[p].value
      /\ \A q \in Prompts \ {p} : prompt'[q] = prompt[q]
  BY <1>1 DEF TypeOK, Decision
<1>3. /\ taken'[p] = taken[p] \cup {"tool"}
      /\ \A q \in Prompts \ {p} : taken'[q] = taken[q]
  BY <1>1 DEF TypeOK
<1>4. prompt[p].state = "answered" /\ ~prompt[p].consumed
  BY DEF Waits
<1>5. RowsTell'
  BY <1>2, <1>3, <1>4 DEF Agreement, RowsTell
<1>6. BatchWaits'
  BY DEF Agreement, BatchWaits, Unlocked
<1>7. SpentIsGiven'
  BY <1>2 DEF Agreement, SpentIsGiven
<1>8. OnePoster'
  <2> SUFFICES ASSUME NEW r \in Runs, run'[r].stage = "submit"
               PROVE  /\ prompt'[run'[r].on].started
                      /\ effects'[run'[r].on] = 0
                      /\ \A s \in Runs \ {r} :
                           run'[s].stage = "submit" => run'[s].on # run'[r].on
    BY DEF OnePoster
  <2>1. run[r].stage = "submit" /\ run'[r].on = run[r].on /\ run[r].on \in Prompts
    BY DEF RunsAreBound
  <2> QED BY <1>2, <2>1 DEF Agreement, OnePoster
<1> QED BY <1>5, <1>6, <1>7, <1>8 DEF Agreement

(* The batch commits: its answers are taken by their continuations.        *)
LEMMA CommitStep ==
    ASSUME TypeOK, RunsAreBound, Agreement, Commit
    PROVE  Agreement'
<1>1. /\ \A p \in Prompts : prompt[p] \in Decision
      /\ prompt' = [p \in Prompts |->
                      IF p \in batch
                        THEN [prompt[p] EXCEPT !.consumed = TRUE, !.resume = TRUE]
                        ELSE prompt[p]]
      /\ batch \subseteq Prompts
      /\ loop' = "pick" /\ batch' = {}
      /\ main' = NoRun
      /\ UNCHANGED <<run, taken, effects>>
  BY DEF Commit, TypeOK, log, Agreement, BatchWaits
<1>2. \A p \in Prompts :
        /\ prompt'[p].consumed = (prompt[p].consumed \/ p \in batch)
        /\ prompt'[p].resume = (prompt[p].resume \/ p \in batch)
        /\ prompt'[p].started = prompt[p].started
        /\ prompt'[p].state = prompt[p].state
        /\ prompt'[p].value = prompt[p].value
  <2> TAKE p \in Prompts
  <2>1. CASE p \in batch
    <3>1. prompt'[p] = [prompt[p] EXCEPT !.consumed = TRUE, !.resume = TRUE]
      BY <1>1, <2>1
    <3> QED BY <1>1, <2>1, <3>1 DEF Decision
  <2>2. CASE p \notin batch
    <3>1. prompt'[p] = prompt[p]
      BY <1>1, <2>2
    <3>2. prompt[p].consumed \in BOOLEAN /\ prompt[p].resume \in BOOLEAN
      BY <1>1 DEF Decision
    <3> QED BY <2>2, <3>1, <3>2
  <2> QED BY <2>1, <2>2
<1>3. \A p \in batch : prompt[p].state = "answered" /\ ~prompt[p].consumed
  BY DEF Agreement, BatchWaits, Commit, Waits
<1>a. UNCHANGED <<run, taken, effects>>
  BY <1>1
<1>b. \A p \in batch : "tool" \notin taken[p]
  <2>1. batch \subseteq Prompts
    BY <1>1
  <2> QED BY <1>3, <2>1 DEF Agreement, RowsTell
<1>4. RowsTell'
  <2> SUFFICES ASSUME NEW p \in Prompts
               PROVE  /\ prompt'[p].consumed => prompt'[p].state = "answered"
                      /\ prompt'[p].resume =>
                           prompt'[p].consumed /\ "tool" \notin taken[p]
                      /\ "turn" \in taken[p] => prompt'[p].resume
                      /\ "tool" \in taken[p] => prompt'[p].consumed
    BY <1>a DEF RowsTell
  <2> QED BY <1>2, <1>3, <1>b DEF Agreement, RowsTell
<1>5. BatchWaits'
  BY <1>1 DEF BatchWaits
<1>6. SpentIsGiven'
  BY <1>1, <1>2 DEF Agreement, SpentIsGiven
<1>7. OnePoster'
  BY <1>a, <1>2 DEF Agreement, OnePoster, RunsAreBound
<1> QED BY <1>4, <1>5, <1>6, <1>7 DEF Agreement

(* A continuation starts only once its answer was marked as its own.       *)
LEMMA ContinueStep ==
    ASSUME TypeOK, RunsAreBound, Agreement, NEW r \in Runs, NEW p \in Prompts,
           StartContinuation(r, p)
    PROVE  Agreement'
<1>1. /\ prompt[p].resume
      /\ taken' = [taken EXCEPT ![p] = taken[p] \cup {"turn"}]
      /\ loop = "pick" /\ loop' = "turn"
      /\ UNCHANGED <<prompt, effects, batch>>
  BY DEF StartContinuation, Ready, InScope, Launch, rows
<1>2. /\ run'[r].stage = "work"
      /\ \A q \in Runs \ {r} : run'[q] = run[q]
  BY LaunchRun, ScopeType DEF StartContinuation, TypeOK, Msgs
<1>3. RowsTell'
  BY <1>1 DEF Agreement, RowsTell, TypeOK
<1>4. BatchWaits'
  BY <1>1 DEF Agreement, BatchWaits
<1>5. SpentIsGiven'
  BY <1>1 DEF Agreement, SpentIsGiven
<1>6. OnePoster'
  BY <1>1, <1>2 DEF Agreement, OnePoster
<1> QED BY <1>3, <1>4, <1>5, <1>6 DEF Agreement

(* An approval is spent by one run.                                        *)
LEMMA ClaimStep ==
    ASSUME TypeOK, RunsAreBound, Agreement, NEW r \in Runs, NEW p \in Prompts,
           ClaimExecution(r, p)
    PROVE  Agreement'
<1>1. /\ prompt' = [prompt EXCEPT ![p] = [prompt[p] EXCEPT !.started = TRUE]]
      /\ prompt[p] \in Decision
      /\ ~prompt[p].started
      /\ prompt[p].state = "answered" /\ prompt[p].value = Confirm
      /\ UNCHANGED <<taken, effects, loop, batch, main>> /\ loop # "tx"
  BY DEF ClaimExecution, Claimable, TypeOK, log, Unlocked
<1>2. /\ prompt'[p].started = TRUE
      /\ prompt'[p].resume = prompt[p].resume
      /\ prompt'[p].consumed = prompt[p].consumed
      /\ prompt'[p].state = prompt[p].state
      /\ prompt'[p].value = prompt[p].value
      /\ \A q \in Prompts \ {p} : prompt'[q] = prompt[q]
  BY <1>1 DEF TypeOK, Decision
<1>3. /\ run'[r].stage = "submit" /\ run'[r].on = p
      /\ \A q \in Runs \ {r} : run'[q] = run[q]
  BY GoRun DEF ClaimExecution, TypeOK, Stages
<1>4. \A q \in Runs \ {r} : run[q].stage = "submit" =>
        run[q].on # p /\ run[q].on \in Prompts
  BY <1>1 DEF Agreement, OnePoster, RunsAreBound
<1>5. effects[p] = 0
  BY <1>1 DEF Agreement, SpentIsGiven
<1>6. RowsTell'
  BY <1>1, <1>2 DEF Agreement, RowsTell
<1>7. BatchWaits'
  BY <1>1 DEF Agreement, BatchWaits
<1>8. SpentIsGiven'
  BY <1>1, <1>2 DEF Agreement, SpentIsGiven
<1>9. OnePoster'
  <2> SUFFICES ASSUME NEW q \in Runs, run'[q].stage = "submit"
               PROVE  /\ prompt'[run'[q].on].started
                      /\ effects'[run'[q].on] = 0
                      /\ \A s \in Runs \ {q} :
                           run'[s].stage = "submit" => run'[s].on # run'[q].on
    BY DEF OnePoster
  <2>1. CASE q = r
    BY <1>1, <1>2, <1>3, <1>4, <1>5, <2>1
  <2>2. CASE q # r
    BY <1>1, <1>2, <1>3, <1>4, <2>2 DEF Agreement, OnePoster
  <2> QED BY <2>1, <2>2
<1> QED BY <1>6, <1>7, <1>8, <1>9 DEF Agreement

(* The run that spent the approval posts, and leaves.                      *)
LEMMA SubmitStep ==
    ASSUME TypeOK, RunsAreBound, Agreement, NEW r \in Runs, Submit(r)
    PROVE  Agreement'
<1> DEFINE p == run[r].on
<1>1. /\ p \in Prompts /\ prompt[p].started /\ effects[p] = 0
      /\ UNCHANGED <<prompt, taken, loop, batch, main>>
  BY DEF Submit, RunsAreBound, Agreement, OnePoster, rows
<1>2. /\ effects'[p] \in {0, 1}
      /\ \A q \in Prompts \ {p} : effects'[q] = effects[q]
  <2>1. PICK n \in {0, 1} : effects' = [effects EXCEPT ![p] = effects[p] + n]
    BY DEF Submit
  <2> QED BY <1>1, <2>1 DEF TypeOK
<1>3. /\ run'[r].stage = "work"
      /\ \A q \in Runs \ {r} : run'[q] = run[q]
  BY GoRun DEF Submit, TypeOK, Stages
<1>4. \A q \in Runs \ {r} : run[q].stage = "submit" =>
        run[q].on # p /\ run[q].on \in Prompts
  BY DEF Submit, Agreement, OnePoster, RunsAreBound
<1> HIDE DEF p
<1>5. RowsTell' /\ BatchWaits'
  BY <1>1 DEF Agreement, RowsTell, BatchWaits, Waits
<1>6. SpentIsGiven'
  BY <1>1, <1>2 DEF Agreement, SpentIsGiven
<1>7. OnePoster'
  BY <1>1, <1>2, <1>3, <1>4 DEF Agreement, OnePoster
<1> QED BY <1>5, <1>6, <1>7 DEF Agreement

-----------------------------------------------------------------------------
(* The invariant is inductive.                                             *)
LEMMA StepInv == IInv /\ [Next]_vars => IInv'
<1> SUFFICES ASSUME IInv, [Next]_vars PROVE IInv'
  OBVIOUS
<1>0. /\ TypeOK /\ RunsAreBound /\ Agreement /\ BatchWaits
      /\ TypeOK' /\ RunsAreBound'
      /\ prompt \in [Prompts -> Decision] /\ run \in [Runs -> Thread]
  BY TypeStep DEF IInv, TypeOK, Agreement
<1> USE <1>0 DEF rows, files, world, proc, log, bounds
<1> DEFINE SameRuns == \A q \in Runs : run'[q].stage = "submit" =>
                         run[q].stage = "submit" /\ run'[q].on = run[q].on
           SameRows == \A q \in Prompts :
                         /\ prompt'[q].consumed = prompt[q].consumed
                         /\ prompt'[q].resume = prompt[q].resume
                         /\ prompt'[q].started = prompt[q].started
                         /\ prompt[q].state = "answered" =>
                              /\ prompt'[q].state = "answered"
                              /\ prompt'[q].value = prompt[q].value
           SameBatch == /\ loop' = "tx" => loop = "tx" /\ batch' = batch
                        /\ loop' # "tx" => batch' = {}
                        /\ main' # NoRun => loop' = "turn"
<1>q. SameRuns /\ SameRows /\ SameBatch /\ UNCHANGED <<taken, effects>>
        => Agreement'
  BY QuietStep
<1>a. UNCHANGED run => SameRuns
  OBVIOUS
<1>b. UNCHANGED prompt => SameRows
  OBVIOUS
<1>c. UNCHANGED <<loop, batch, main>> => SameBatch
  BY DEF BatchWaits
<1>d. /\ loop' # "tx" /\ loop # "tx" /\ UNCHANGED batch
      /\ main' # NoRun => loop' = "turn"
      => SameBatch
  BY DEF BatchWaits
<1>e. \A r \in Runs : /\ run'[r].stage # "submit"
                      /\ \A q \in Runs \ {r} : run'[q] = run[q]
                      => SameRuns
  OBVIOUS
<1>f. \A p \in Prompts : /\ prompt'[p].consumed = prompt[p].consumed
                         /\ prompt'[p].resume = prompt[p].resume
                         /\ prompt'[p].started = prompt[p].started
                         /\ prompt[p].state = "answered" =>
                              /\ prompt'[p].state = "answered"
                              /\ prompt'[p].value = prompt[p].value
                         /\ \A q \in Prompts \ {p} : prompt'[q] = prompt[q]
                         => SameRows
  OBVIOUS
<1> HIDE DEF SameRuns, SameRows, SameBatch
<1>1. ASSUME NEW c \in Chats, SendChat(c) PROVE Agreement'
  BY <1>1, <1>q, <1>a, <1>b, <1>c DEF SendChat
<1>2. ASSUME NEW p \in Prompts, NEW v \in Values, Answer(p, v) PROVE Agreement'
  <2>1. prompt' = [prompt EXCEPT ![p] = Settle(prompt[p], v, Current(p))]
    BY <1>2 DEF Answer
  <2>2. Current(p) \in BOOLEAN
    BY DEF Current
  <2>3. /\ Settle(prompt[p], v, Current(p)).consumed = prompt[p].consumed
        /\ Settle(prompt[p], v, Current(p)).resume = prompt[p].resume
        /\ Settle(prompt[p], v, Current(p)).started = prompt[p].started
        /\ prompt[p].state # "open" =>
             Settle(prompt[p], v, Current(p)) = prompt[p]
    BY <2>2, SettleRow
  <2>4. SameRows
    BY <2>1, <2>3, <1>f
  <2> QED BY <1>2, <2>4, <1>q, <1>a, <1>c DEF Answer
<1>3. ASSUME Supersede PROVE Agreement'
  <2>1. prompt' = Superseded
    BY <1>3 DEF Supersede
  <2>2. SameRows
    BY <2>1, SupersededRow DEF SameRows
  <2> QED BY <1>3, <2>2, <1>q, <1>a, <1>c DEF Supersede
<1>4. ASSUME Boot PROVE Agreement'
  BY <1>4, <1>q, <1>a, <1>b, <1>d DEF Boot, BatchWaits
<1>5. ASSUME Head PROVE Agreement'
  <2>1. RowsTell' /\ SpentIsGiven' /\ OnePoster'
    BY <1>5 DEF Head, Agreement, RowsTell, SpentIsGiven, OnePoster
  <2>2. BatchWaits'
    BY <1>5 DEF Head, BatchWaits
  <2> QED BY <2>1, <2>2 DEF Agreement
<1>6. ASSUME Commit PROVE Agreement'
  BY <1>6, CommitStep
<1>7. ASSUME Idle PROVE Agreement'
  BY <1>7, <1>q, <1>a, <1>b, <1>d DEF Idle, BatchWaits
<1>8. ASSUME NEW p \in Prompts, QueueFile(p) PROVE Agreement'
  <2>1. RowsTell' /\ SpentIsGiven' /\ OnePoster'
    BY <1>8 DEF QueueFile, Agreement, RowsTell, SpentIsGiven, OnePoster
  <2>2. BatchWaits'
    BY <1>8 DEF QueueFile, BatchWaits, Eligible, Waits
  <2> QED BY <2>1, <2>2 DEF Agreement
<1>9. ASSUME NEW p \in Prompts, Discard(p) PROVE Agreement'
  BY <1>9, <1>q, <1>a, <1>b, <1>c DEF Discard
<1>10. ASSUME NEW r \in Runs, NEW c \in Chats, StartChat(r, c) PROVE Agreement'
  <2>1. \E at : Launch(r, c, at) /\ UNCHANGED <<prompt, taken, effects>>
    BY <1>10 DEF StartChat
  <2>2. /\ run'[r] # run[r] => run'[r].stage = "work"
        /\ \A q \in Runs \ {r} : run'[q] = run[q]
    BY <2>1 DEF Launch, Free
  <2>3. run'[r].stage = "work"
    BY <2>1 DEF Launch, Free
  <2>4. loop = "pick" /\ loop' = "turn" /\ UNCHANGED batch
    BY <1>10, <2>1 DEF StartChat, Launch
  <2> QED BY <2>1, <2>2, <2>3, <2>4, <1>q, <1>b, <1>d, <1>e
<1>11. ASSUME NEW r \in Runs, NEW p \in Prompts, StartContinuation(r, p)
       PROVE  Agreement'
  BY <1>11, ContinueStep
<1>12. ASSUME NEW r \in Runs, Archive(r) PROVE Agreement'
  <2>1. run'[r].stage = "free" /\ \A q \in Runs \ {r} : run'[q] = run[q]
    BY <1>12 DEF Archive, Free
  <2>2. /\ loop' = "head" /\ main' = NoRun /\ loop = "turn"
        /\ UNCHANGED <<batch, prompt, taken, effects>>
    BY <1>12, DecisionsAssumption DEF Archive, Leave, BatchWaits
  <2> QED BY <2>1, <2>2, <1>q, <1>b, <1>d, <1>e
<1>13. ASSUME CommitFails PROVE Agreement'
  <2>1. SameBatch
    BY <1>13 DEF CommitFails, SameBatch, BatchWaits
  <2> QED BY <1>13, <2>1, <1>q, <1>a, <1>b DEF CommitFails
<1>14. ASSUME Crash PROVE Agreement'
  <2>1. SameBatch /\ SameRuns
    BY <1>14 DEF Crash, SameBatch, SameRuns, Free
  <2> QED BY <1>14, <2>1, <1>q, <1>b DEF Crash
<1>15. ASSUME NEW r \in Runs, NEW p \in Prompts, Ask(r, p) PROVE Agreement'
  <2>1. /\ UNCHANGED <<loop, batch, main, effects>> /\ Unlocked
        /\ run[r].stage = "work"
    BY <1>15 DEF Ask
  <2>2. SameRuns
    <3>1. \/ UNCHANGED run
          \/ \E s \in {"wait", "suspend"} : Go(r, s, p)
      BY <1>15 DEF Ask
    <3>2. \A s \in {"wait", "suspend"} : Go(r, s, p) => SameRuns
      BY <1>e, GoRun DEF Stages
    <3> QED BY <3>1, <3>2, <1>a
  <2>3. CASE /\ prompt[p].state = "none" /\ UNCHANGED taken
             /\ prompt' = [prompt EXCEPT ![p].state = "open",
                             ![p].at = run[r].at, ![p].asker = run[r].turn]
    <3>1. prompt' = [prompt EXCEPT ![p] =
             [prompt[p] EXCEPT !.state = "open", !.at = run[r].at,
                               !.asker = run[r].turn]]
      BY <2>3
    <3>2. /\ prompt'[p].consumed = prompt[p].consumed
          /\ prompt'[p].resume = prompt[p].resume
          /\ prompt'[p].started = prompt[p].started
          /\ \A q \in Prompts \ {p} : prompt'[q] = prompt[q]
      BY <3>1 DEF Decision
    <3>3. SameRows
      BY <2>3, <3>2, <1>f
    <3> QED BY <2>1, <2>2, <2>3, <3>3, <1>q, <1>c
  <2>4. CASE UNCHANGED <<prompt, taken>>
    BY <2>1, <2>2, <2>4, <1>q, <1>b, <1>c
  <2>5. CASE Waits(p) /\ Hand(p, "tool")
    BY <2>1, <2>2, <2>5, HandStep DEF SameRuns
  <2> QED BY <1>15, <2>3, <2>4, <2>5 DEF Ask
<1>16. ASSUME NEW r \in Runs, NEW p \in Prompts, ClaimExecution(r, p)
       PROVE  Agreement'
  BY <1>16, ClaimStep
<1>17. ASSUME NEW r \in Runs, NEW c \in Chats, Steer(r, c) PROVE Agreement'
  <2>1. \E m, at : run' = [run EXCEPT ![r] =
                             [run[r] EXCEPT !.msgs = m, !.at = at]]
    BY <1>17 DEF Steer
  <2>2. run'[r].stage = run[r].stage /\ \A q \in Runs \ {r} : run'[q] = run[q]
    BY <2>1 DEF Thread
  <2>3. run[r].stage = "work"
    BY <1>17 DEF Steer
  <2> QED BY <1>17, <2>2, <2>3, <1>q, <1>b, <1>c, <1>e DEF Steer
<1>18. ASSUME NEW r \in Runs, Submit(r) PROVE Agreement'
  BY <1>18, SubmitStep
<1>19. ASSUME NEW r \in Runs, Poll(r) PROVE Agreement'
  <2>1. run'[r].stage = "work" /\ \A q \in Runs \ {r} : run'[q] = run[q]
    BY <1>19, GoRun DEF Poll, Stages
  <2>2. run[r].on \in Prompts
    BY <1>19 DEF Poll, RunsAreBound
  <2> QED BY <1>19, <2>1, <2>2, <1>e, HandStep DEF Poll, SameRuns
<1>20. ASSUME NEW r \in Runs, Timeout(r) PROVE Agreement'
  <2>1. prompt' = Superseded
    BY <1>20 DEF Timeout
  <2>2. SameRows
    BY <2>1, SupersededRow DEF SameRows
  <2>3. \E s \in {"settle", "work"}, p \in {run[r].on, NoMsg} : Go(r, s, p)
    BY <1>20 DEF Timeout
  <2>4. run[r].on \in Prompts
    BY <1>20 DEF Timeout, RunsAreBound
  <2>5. run'[r].stage # "submit" /\ \A q \in Runs \ {r} : run'[q] = run[q]
    BY <2>3, <2>4, GoRun DEF Stages
  <2> QED BY <1>20, <2>2, <2>5, <1>q, <1>c, <1>e DEF Timeout
<1>21. ASSUME NEW r \in Runs, SettleSkipped(r) PROVE Agreement'
  <2>1. run[r].on \in Prompts
    BY <1>21 DEF SettleSkipped, RunsAreBound
  <2>2. run'[r].stage = "hide" /\ \A q \in Runs \ {r} : run'[q] = run[q]
    BY <1>21, <2>1, GoRun DEF SettleSkipped, Stages
  <2>3. prompt' = [prompt EXCEPT ![run[r].on] = Skip(prompt[run[r].on])]
    BY <1>21 DEF SettleSkipped
  <2>4. SameRows
    BY <2>1, <2>3, SkipRow, <1>f
  <2> QED BY <1>21, <2>2, <2>4, <1>q, <1>c, <1>e DEF SettleSkipped
<1>22. ASSUME NEW r \in Runs, Hide(r) PROVE Agreement'
  <2>1. run[r].on \in Prompts
    BY <1>22 DEF Hide, RunsAreBound
  <2>2. run'[r].stage = "work" /\ \A q \in Runs \ {r} : run'[q] = run[q]
    BY <1>22, GoRun DEF Hide, Stages
  <2>3. prompt' = [prompt EXCEPT ![run[r].on] =
                     [prompt[run[r].on] EXCEPT !.cleared = TRUE]]
    BY <1>22 DEF Hide
  <2>4. SameRows
    BY <2>1, <2>3, <1>f DEF Decision
  <2> QED BY <1>22, <2>2, <2>4, <1>q, <1>c, <1>e DEF Hide
<1>23. ASSUME NEW r \in Runs, NEW s \in Statuses, Finish(r, s) PROVE Agreement'
  <2>1. /\ [run[r] EXCEPT !.stage = "end"].stage = "end"
        /\ Free.stage = "free"
    BY DEF Thread, Free
  <2>2. run'[r].stage \in {"end", "free"}
        /\ \A q \in Runs \ {r} : run'[q] = run[q]
    BY <1>23, <2>1 DEF Finish
  <2> QED BY <1>23, <2>2, <1>q, <1>b, <1>c, <1>e DEF Finish
<1>24. ASSUME NEW r \in Runs, Preempt(r) PROVE Agreement'
  <2>1. run'[r].stage = "work" /\ \A q \in Runs \ {r} : run'[q] = run[q]
    BY <1>24, GoRun DEF Preempt, Stages
  <2> QED BY <1>24, <2>1, <1>q, <1>b, <1>c, <1>e DEF Preempt
<1>25. ASSUME NEW r \in Runs, Defer(r) PROVE Agreement'
  <2>1. run'[r].stage = "free" /\ \A q \in Runs \ {r} : run'[q] = run[q]
    BY <1>25 DEF Defer, Free
  <2>2. /\ loop' = "head" /\ main' = NoRun /\ loop = "turn"
        /\ UNCHANGED <<batch, prompt, taken, effects>>
    BY <1>25, DecisionsAssumption DEF Defer, Leave, BatchWaits
  <2> QED BY <2>1, <2>2, <1>q, <1>b, <1>d, <1>e
<1>26. ASSUME NEW r \in Runs, Escape(r) PROVE Agreement'
  BY <1>26, <1>q, <1>a, <1>b, <1>d, DecisionsAssumption
     DEF Escape, Leave, BatchWaits
<1>27. ASSUME UNCHANGED vars PROVE Agreement'
  BY <1>27, <1>q, <1>a, <1>b, <1>c DEF vars
<1>28. Agreement'
  BY <1>1, <1>2, <1>3, <1>4, <1>5, <1>6, <1>7, <1>8, <1>9, <1>10, <1>11,
     <1>12, <1>13, <1>14, <1>15, <1>16, <1>17, <1>18, <1>19, <1>20, <1>21,
     <1>22, <1>23, <1>24, <1>25, <1>26, <1>27
     DEF Next, User, Loop, Work, Return
<1> QED BY <1>28 DEF IInv

(* The inductive invariant holds in every state of every behaviour.        *)
LEMMA Inductive == Spec => []IInv
BY InitInv, StepInv, PTL DEF Spec

(* The rows of agent_prompts, the task and the threads keep their types.   *)
THEOREM TypeCorrect == Spec => []TypeOK
<1>1. IInv => TypeOK
  BY DEF IInv
<1> QED BY <1>1, Inductive, PTL

(* An answer is consumed by the tool that waits for it or a continuation,  *)
(* never both and never twice, whatever batches fail and threads are       *)
(* abandoned.                                                              *)
THEOREM AnswerIsHandedOnce == Spec => []HandedOnce
<1>1. IInv => HandedOnce
  <2> SUFFICES ASSUME IInv, NEW p \in Prompts
               PROVE  /\ Cardinality(taken[p]) <= 1
                      /\ taken[p] # {} => prompt[p].state = "answered"
    BY DEF HandedOnce
  <2>1. /\ taken[p] \subseteq {"tool", "turn"}
        /\ ~("tool" \in taken[p] /\ "turn" \in taken[p])
        /\ taken[p] # {} => prompt[p].state = "answered"
    BY DEF IInv, TypeOK, Agreement, RowsTell
  <2>2. taken[p] = {} \/ taken[p] = {"tool"} \/ taken[p] = {"turn"}
    BY <2>1
  <2>3. /\ Cardinality({}) = 0
        /\ Cardinality({"tool"}) = 1 /\ Cardinality({"turn"}) = 1
    BY FS_EmptySet, FS_Singleton
  <2> QED BY <2>1, <2>2, <2>3
<1> QED BY <1>1, Inductive, PTL

(* An approved message is posted at most once, and never unapproved.       *)
THEOREM ApprovalIsSpentOnce == Spec => []PostedOnce
<1>1. IInv => PostedOnce
  BY DEF IInv, Agreement, SpentIsGiven, PostedOnce
<1> QED BY <1>1, Inductive, PTL

(* settle_prompt preserves the winner: answers, repeats, skips and         *)
(* supersessions in any order never change a decision that was made.       *)
THEOREM DecisionsAreFinal == Spec => DecisionIsFinal
<1> DEFINE Kept == \A p \in Prompts :
                     prompt[p].state \in Decided =>
                       /\ prompt'[p].state = prompt[p].state
                       /\ prompt'[p].value = prompt[p].value
<1>1. IInv /\ [Next]_vars => Kept
  <2> SUFFICES ASSUME IInv, [Next]_vars PROVE Kept
    OBVIOUS
  <2>0. /\ TypeOK /\ RunsAreBound
        /\ prompt \in [Prompts -> Decision]
    BY DEF IInv, TypeOK
  <2> USE <2>0 DEF rows, files, world, proc, log, bounds, Decided
  <2>a. UNCHANGED prompt => Kept
    OBVIOUS
  <2>1. ASSUME User PROVE Kept
    <3>1. ASSUME NEW c \in Chats, SendChat(c) PROVE Kept
      BY <3>1, <2>a DEF SendChat
    <3>2. ASSUME NEW p \in Prompts, NEW v \in Values, Answer(p, v) PROVE Kept
      <4>1. prompt' = [prompt EXCEPT ![p] = Settle(prompt[p], v, Current(p))]
        BY <3>2 DEF Answer
      <4>2. Current(p) \in BOOLEAN
        BY DEF Current
      <4>3. prompt[p].state # "open" =>
              Settle(prompt[p], v, Current(p)) = prompt[p]
        BY <4>2, SettleRow
      <4> QED BY <4>1, <4>3
    <3>3. ASSUME Supersede PROVE Kept
      BY <3>3, SupersededRow DEF Supersede
    <3> QED BY <2>1, <3>1, <3>2, <3>3 DEF User
  <2>2. ASSUME Loop \/ CommitFails \/ Crash PROVE Kept
    <3>1. ASSUME Commit PROVE Kept
      <4>1. \A p \in Prompts :
              /\ [prompt[p] EXCEPT !.consumed = TRUE, !.resume = TRUE].state
                   = prompt[p].state
              /\ [prompt[p] EXCEPT !.consumed = TRUE, !.resume = TRUE].value
                   = prompt[p].value
        BY DEF Decision
      <4> QED BY <3>1, <4>1 DEF Commit
    <3>2. ASSUME Boot \/ Head \/ Idle \/ CommitFails \/ Crash PROVE Kept
      BY <3>2, <2>a DEF Boot, Head, Idle, CommitFails, Crash
    <3>3. ASSUME NEW p \in Prompts, QueueFile(p) \/ Discard(p) PROVE Kept
      BY <3>3, <2>a DEF QueueFile, Discard
    <3>4. ASSUME NEW r \in Runs, NEW c \in Chats, StartChat(r, c) PROVE Kept
      BY <3>4, <2>a DEF StartChat
    <3>5. ASSUME NEW r \in Runs, NEW p \in Prompts, StartContinuation(r, p)
          PROVE  Kept
      BY <3>5, <2>a DEF StartContinuation
    <3>6. ASSUME NEW r \in Runs, Archive(r) PROVE Kept
      BY <3>6, <2>a DEF Archive
    <3> QED BY <2>2, <3>1, <3>2, <3>3, <3>4, <3>5, <3>6 DEF Loop
  <2>3. ASSUME NEW r \in Runs, Work(r) PROVE Kept
    <3>1. ASSUME NEW p \in Prompts, Ask(r, p) PROVE Kept
      <4>1. /\ [prompt[p] EXCEPT !.consumed = TRUE].state = prompt[p].state
            /\ [prompt[p] EXCEPT !.consumed = TRUE].value = prompt[p].value
        BY DEF Decision
      <4> QED BY <3>1, <4>1 DEF Ask, Hand
    <3>2. ASSUME NEW p \in Prompts, ClaimExecution(r, p) PROVE Kept
      <4>1. /\ [prompt[p] EXCEPT !.started = TRUE].state = prompt[p].state
            /\ [prompt[p] EXCEPT !.started = TRUE].value = prompt[p].value
        BY DEF Decision
      <4> QED BY <3>2, <4>1 DEF ClaimExecution
    <3>3. ASSUME NEW c \in Chats, Steer(r, c) PROVE Kept
      BY <3>3, <2>a DEF Steer
    <3>4. ASSUME Submit(r) PROVE Kept
      BY <3>4, <2>a DEF Submit
    <3> QED BY <2>3, <3>1, <3>2, <3>3, <3>4 DEF Work
  <2>4. ASSUME NEW r \in Runs, Return(r) PROVE Kept
    <3>1. ASSUME Poll(r) PROVE Kept
      <4>1. run[r].on \in Prompts
        BY <3>1 DEF Poll, RunsAreBound
      <4>2. LET row == prompt[run[r].on]
            IN  /\ [row EXCEPT !.consumed = TRUE].state = row.state
                /\ [row EXCEPT !.consumed = TRUE].value = row.value
        BY <4>1 DEF Decision
      <4> QED BY <3>1, <4>1, <4>2 DEF Poll, Hand
    <3>2. ASSUME Timeout(r) PROVE Kept
      BY <3>2, SupersededRow DEF Timeout
    <3>3. ASSUME SettleSkipped(r) PROVE Kept
      <4>1. run[r].on \in Prompts
        BY <3>3 DEF SettleSkipped, RunsAreBound
      <4> QED BY <3>3, <4>1, SkipRow DEF SettleSkipped
    <3>4. ASSUME Hide(r) PROVE Kept
      <4>1. run[r].on \in Prompts
        BY <3>4 DEF Hide, RunsAreBound
      <4>2. LET row == prompt[run[r].on]
            IN  /\ [row EXCEPT !.cleared = TRUE].state = row.state
                /\ [row EXCEPT !.cleared = TRUE].value = row.value
        BY <4>1 DEF Decision
      <4> QED BY <3>4, <4>1, <4>2 DEF Hide
    <3>5. ASSUME NEW s \in Statuses, Finish(r, s) PROVE Kept
      BY <3>5, <2>a DEF Finish
    <3> QED BY <2>4, <3>1, <3>2, <3>3, <3>4, <3>5 DEF Return
  <2>5. ASSUME NEW r \in Runs, Preempt(r) \/ Defer(r) \/ Escape(r) PROVE Kept
    BY <2>5, <2>a DEF Preempt, Defer, Escape
  <2>6. ASSUME UNCHANGED vars PROVE Kept
    BY <2>6, <2>a DEF vars
  <2> QED BY <2>1, <2>2, <2>3, <2>4, <2>5, <2>6 DEF Next
<1>2. IInv /\ [Next]_vars => [Kept]_vars
  BY <1>1
<1> QED BY <1>2, Inductive, PTL DEF Spec, DecisionIsFinal
=============================================================================
