----------------------------- MODULE Decisions -----------------------------
(***************************************************************************)
(* The questions a bot asks its user within one conversation, and the ways *)
(* an answer reaches the bot: the tool that waits for it, a later call of   *)
(* the same tool, or a continuation queued between turns.                  *)
(*                                                                         *)
(* A decision is a row of agent_prompts.  Every transaction on that table  *)
(* is one step; the batch that turns answers into inbox files is several,  *)
(* as a file written inside it survives a batch that fails.                *)
(***************************************************************************)
EXTENDS Integers, FiniteSets

CONSTANTS
    Chats,         \* messages of the user in this conversation
    Prompts,       \* decision ids, each also the id of its continuation
    Runs,          \* worker threads, live or abandoned
    NoRun,         \* no run is the current one
    NoMsg,         \* no message
    Values,        \* answers a user can pick
    Confirm,       \* the answer that approves an outgoing message
    NoValue,       \* not answered
    MaxTasks,      \* bound: tasks begun in the conversation
    MaxRevisions,  \* bound: revisions of one task
    MaxCrashes,    \* bound: crashes of the bot's process
    MaxFaults      \* bound: batches that fail to commit

Msgs == Chats \cup Prompts

ASSUME DecisionsAssumption ==
    /\ Chats \cap Prompts = {}
    /\ NoMsg \notin Msgs
    /\ NoRun \notin Runs
    /\ Confirm \in Values
    /\ NoValue \notin Values
    /\ MaxTasks \in Nat \ {0}
    /\ MaxRevisions \in Nat \ {0}
    /\ MaxCrashes \in Nat
    /\ MaxFaults \in Nat

VARIABLES
    prompt,     \* the rows of agent_prompts
    task,       \* the conversation's row of agent_tasks
    seen,       \* agent_task_inputs: the scope a message began or joined
    inbox,      \* message files waiting
    processed,  \* archived continuations
    routine,    \* the conversation is one occurrence of a routine
    sent,       \* messages the user ever sent
    loop,       \* where process_inbox_once stands
    batch,      \* answers queued by the open transaction
    settled,    \* answers_queued: the last batch committed
    main,       \* the run the loop waits for
    run,        \* per thread: what it does, for which messages and scope
    taken,      \* how an answer was handed over
    effects,    \* approved messages posted
    noted,      \* questions the bot was told went unanswered
    crashes, faults

rows   == <<prompt, task, seen>>
files  == <<inbox, processed>>
world  == <<routine, sent>>
proc   == <<loop, batch, settled, main, run>>
log    == <<taken, effects, noted>>
bounds == <<crashes, faults>>
vars   == <<rows, files, world, proc, log, bounds>>

-----------------------------------------------------------------------------
(* Records.                                                                *)

Scopes  == (0..MaxTasks) \X (0..MaxRevisions)
NoScope == <<0, 0>>

States == {"none", "open", "answered", "skipped"}
Decided == {"answered", "skipped"}

Decision == [state : States, at : Scopes, asker : Msgs \cup {NoMsg},
             value : Values \cup {NoValue}, stale : BOOLEAN,
             cleared : BOOLEAN, consumed : BOOLEAN, resume : BOOLEAN,
             started : BOOLEAN]
NoPrompt == [state |-> "none", at |-> NoScope, asker |-> NoMsg,
             value |-> NoValue, stale |-> FALSE, cleared |-> FALSE,
             consumed |-> FALSE, resume |-> FALSE, started |-> FALSE]

\* active, waiting and idle are one status here, as are failed and unknown.
Statuses == {"active", "failed", "stopped"}

Task     == [id : 0..MaxTasks, rev : 0..MaxRevisions, status : Statuses]

Stages == {"free", "work", "wait", "settle", "hide", "submit", "suspend",
           "end"}
Thread == [stage : Stages, msgs : SUBSET Msgs, turn : Msgs \cup {NoMsg},
           at : Scopes, on : Prompts \cup {NoMsg}]
Free   == [stage |-> "free", msgs |-> {}, turn |-> NoMsg, at |-> NoScope,
           on |-> NoMsg]

Scope == <<task.id, task.rev>>

\* _prompt_current: the task the question belongs to goes on.
Current(p) == prompt[p].at = Scope /\ task.status # "stopped"

\* The queue and continuation_scope ask for more than that.
Resumable(p) == prompt[p].at = Scope /\ task.status = "active"

\* The batch holds the database's write lock.
Unlocked == loop # "tx"

\* Mutant: an answer overwrites whatever was decided before.
SettleLastWins(row, v, current) ==
    IF current THEN [row EXCEPT !.state = "answered", !.value = v] ELSE row

\* settle_prompt, the answer of a user.
Settle(row, v, current) ==
    IF row.state # "open" \/ row.cleared THEN row
    ELSE IF current THEN [row EXCEPT !.state = "answered", !.value = v]
    ELSE [row EXCEPT !.state = "skipped", !.stale = TRUE]

\* Mutant: a skip leaves the row without a state.
SkipBlank(row) ==
    IF row.state # "open" \/ row.cleared THEN row
    ELSE [row EXCEPT !.state = ""]

\* settle_prompt, the skip of a sweep.
Skip(row) ==
    IF row.state # "open" \/ row.cleared THEN row
    ELSE [row EXCEPT !.state = "skipped"]

\* supersede_prompts: questions of a task that moved on are closed.
Superseded ==
    [p \in Prompts |->
        IF prompt[p].state = "open" /\ ~prompt[p].cleared /\ ~Current(p)
          THEN [prompt[p] EXCEPT !.state = "skipped", !.stale = TRUE]
          ELSE prompt[p]]

\* read_prompt_answer would hand the answer over.
Waits(p) == prompt[p].state = "answered" /\ ~prompt[p].consumed

Hand(p, how) ==
    /\ prompt' = [prompt EXCEPT ![p].consumed = TRUE]
    /\ taken'  = [taken EXCEPT ![p] = @ \cup {how}]

-----------------------------------------------------------------------------
(* The user and the server.                                                *)

\* A routine's conversation begins with the occurrence and has no other input.
SendChat(c) ==
    /\ c \notin sent
    /\ routine => sent = {}
    /\ sent'  = sent \cup {c}
    /\ inbox' = inbox \cup {c}
    /\ UNCHANGED <<rows, processed, routine, proc, log, bounds>>

\* _provide_answer: applied, replayed, refused as a conflict, or stale.
Answer(p, v) ==
    /\ Unlocked
    /\ prompt[p].state # "none"
    /\ prompt' = [prompt EXCEPT ![p] = Settle(@, v, Current(p))]
    /\ UNCHANGED <<task, seen, files, world, proc, log, bounds>>

\* A client lists the open questions.
Supersede ==
    /\ Unlocked
    /\ prompt' = Superseded
    /\ UNCHANGED <<task, seen, files, world, proc, log, bounds>>

-----------------------------------------------------------------------------
(* Between turns: queue_prompt_answers and the pick of a message.          *)

Boot ==
    /\ loop = "down"
    /\ loop' = "head"
    /\ UNCHANGED <<rows, files, world, batch, settled, main, run, log, bounds>>

\* Mutant: an answer whose file was archived is left for good.
EligibleNew == {p \in Prompts : /\ Waits(p)
                                /\ prompt[p].asker \notin inbox
                                /\ Resumable(p)
                                /\ p \notin processed}

\* The rows the batch queues: the turn that asked is not queued any more.
Eligible == {p \in Prompts : /\ Waits(p)
                             /\ prompt[p].asker \notin inbox
                             /\ Resumable(p)}

\* Idle polling takes no lock.
Head ==
    /\ loop = "head"
    /\ IF \E p \in Prompts : Waits(p)
         THEN loop' = "tx" /\ UNCHANGED settled
         ELSE loop' = "pick" /\ settled' = TRUE
    /\ batch' = {}
    /\ UNCHANGED <<rows, files, world, main, run, log, bounds>>

\* The file comes first; one already archived is not written again.
QueueFile(p) ==
    /\ loop = "tx"
    /\ p \in Eligible \ batch
    /\ batch' = batch \cup {p}
    /\ inbox' = IF p \in processed THEN inbox ELSE inbox \cup {p}
    /\ UNCHANGED <<rows, processed, world, loop, settled, main, run, log, bounds>>

Commit ==
    /\ loop = "tx"
    /\ Eligible \subseteq batch
    /\ prompt' = [p \in Prompts |->
                    IF p \in batch
                      THEN [prompt[p] EXCEPT !.consumed = TRUE, !.resume = TRUE]
                      ELSE prompt[p]]
    /\ loop' = "pick" /\ settled' = TRUE /\ batch' = {}
    /\ UNCHANGED <<task, seen, files, world, main, run, log, bounds>>

\* The batch is rolled back; its files stay.
CommitFails ==
    /\ loop = "tx"
    /\ faults < MaxFaults
    /\ faults' = faults + 1
    /\ loop' = "pick" /\ settled' = FALSE /\ batch' = {}
    /\ UNCHANGED <<rows, files, world, main, run, log, crashes>>

\* Mutant: the continuation's decision is not looked at.
InScopeUnchecked(p) == Resumable(p)

\* continuation_scope accepts the continuation of p.
InScope(p) == prompt[p].resume /\ Resumable(p)

Obsolete == {p \in Prompts \cap inbox : settled /\ ~InScope(p)}

Discard(p) ==
    /\ loop = "pick"
    /\ p \in Obsolete
    /\ inbox' = inbox \ {p}
    /\ processed' = processed \cup {p}
    /\ UNCHANGED <<rows, world, proc, log, bounds>>

\* Continuations wait for a batch that commits.
Ready == {m \in inbox : m \in Prompts => settled /\ InScope(m)}

\* begin_task: "continue", a follow-up with substance, a new subject, "stop".
Begun(kind) ==
    CASE kind = "continue" -> [task EXCEPT !.status = "active"]
      [] kind = "revise"   -> [task EXCEPT !.rev = @ + 1, !.status = "active"]
      [] kind = "stop"     -> [task EXCEPT !.rev = @ + 1, !.status = "stopped"]
      [] kind = "new"      -> [id |-> task.id + 1, rev |-> 1, status |-> "active"]

Begins(kind) ==
    IF kind = "new" THEN task.id < MaxTasks
    ELSE /\ task.id > 0 /\ task.status # "stopped"
         /\ kind # "continue" => task.rev < MaxRevisions

Launch(r, m, at) ==
    /\ run[r] = Free
    /\ run' = [run EXCEPT ![r] = [Free EXCEPT !.stage = "work", !.msgs = {m},
                                              !.turn = m, !.at = at]]
    /\ main' = r
    /\ loop' = "turn"
    /\ UNCHANGED <<batch, settled>>

\* A message seen before does not begin its task again.
StartChat(r, c) ==
    /\ loop = "pick" /\ Obsolete = {} /\ c \in Ready \cap Chats
    /\ IF seen[c] # NoScope
         THEN /\ Launch(r, c, IF seen[c][1] = task.id THEN Scope ELSE seen[c])
              /\ UNCHANGED <<task, seen>>
         ELSE \E kind \in {"continue", "revise", "stop", "new"} :
                /\ Begins(kind)
                /\ task' = Begun(kind)
                /\ seen' = [seen EXCEPT ![c] = <<task'.id, task'.rev>>]
                /\ Launch(r, c, <<task'.id, task'.rev>>)
    /\ UNCHANGED <<prompt, files, world, log, bounds>>

StartContinuation(r, p) ==
    /\ loop = "pick" /\ Obsolete = {} /\ p \in Ready \cap Prompts
    /\ Launch(r, p, Scope)
    /\ taken' = [taken EXCEPT ![p] = @ \cup {"turn"}]
    /\ UNCHANGED <<rows, files, world, effects, noted, bounds>>

\* Nothing to run: the loop polls again.
Idle ==
    /\ loop = "pick" /\ Obsolete = {} /\ Ready = {}
    /\ loop' = "head"
    /\ UNCHANGED <<rows, files, world, batch, settled, main, run, log, bounds>>

-----------------------------------------------------------------------------
(* Within a run.                                                           *)

Go(r, stage, p) == run' = [run EXCEPT ![r].stage = stage, ![r].on = p]

\* _decision_prompt: the id of a decision is bound to its task and revision.  A
\* question that was answered and taken, or skipped, and is asked again gives its
\* run what is stored, and nothing changes.
Ask(r, p) ==
    /\ Unlocked
    /\ run[r].stage = "work"
    /\ \/ /\ prompt[p].state = "none"
          /\ prompt' = [prompt EXCEPT ![p].state = "open", ![p].at = run[r].at,
                                      ![p].asker = run[r].turn]
          /\ Go(r, IF routine THEN "suspend" ELSE "wait", p)
          /\ UNCHANGED taken
       \/ /\ prompt[p].state = "open" /\ prompt[p].at = run[r].at
          /\ Go(r, IF routine /\ Current(p) THEN "suspend" ELSE "wait", p)
          /\ UNCHANGED <<prompt, taken>>
       \/ /\ Waits(p) /\ prompt[p].at = run[r].at
          /\ Hand(p, "tool")
          /\ UNCHANGED run
    /\ UNCHANGED <<task, seen, files, world, loop, batch, settled, main,
                   effects, noted, bounds>>

\* _wait_for_human finds the answer.
Poll(r) ==
    /\ Unlocked
    /\ run[r].stage = "wait" /\ Waits(run[r].on)
    /\ Hand(run[r].on, "tool")
    /\ Go(r, "work", NoMsg)
    /\ UNCHANGED <<task, seen, files, world, loop, batch, settled, main,
                   effects, noted, bounds>>

\* A newer chat or a stop: the question outlives the wait.
Preempt(r) ==
    /\ run[r].stage = "wait"
    /\ Go(r, "work", NoMsg)
    /\ UNCHANGED <<rows, files, world, loop, batch, settled, main, log, bounds>>

\* The wait is over: sweep_skipped_prompts lists the open questions.
Timeout(r) ==
    /\ Unlocked
    /\ run[r].stage = "wait"
    /\ prompt' = Superseded
    /\ LET p == run[r].on
       IN  IF prompt'[p].state = "open" /\ ~prompt'[p].cleared /\ Current(p)
             THEN Go(r, "settle", p)
             ELSE Go(r, "work", NoMsg)
    /\ UNCHANGED <<task, seen, files, world, loop, batch, settled, main, log,
                   bounds>>

SettleSkipped(r) ==
    /\ Unlocked
    /\ run[r].stage = "settle"
    /\ prompt' = [prompt EXCEPT ![run[r].on] = Skip(@)]
    /\ Go(r, "hide", run[r].on)
    /\ UNCHANGED <<task, seen, files, world, loop, batch, settled, main, log,
                   bounds>>

\* The record is hidden and a note queued, whoever settled it.
Hide(r) ==
    /\ Unlocked
    /\ run[r].stage = "hide"
    /\ prompt' = [prompt EXCEPT ![run[r].on].cleared = TRUE]
    /\ noted'  = noted \cup {run[r].on}
    /\ Go(r, "work", NoMsg)
    /\ UNCHANGED <<task, seen, files, world, loop, batch, settled, main,
                   taken, effects, bounds>>

\* Mutant: the approval is not spent by its first use.
ClaimableAgain(r, p) ==
    /\ prompt[p].at = run[r].at /\ Current(p)
    /\ prompt[p].state = "answered" /\ prompt[p].value = Confirm

\* claim_prompt_execution.
Claimable(r, p) ==
    /\ ~prompt[p].started
    /\ prompt[p].at = run[r].at /\ Current(p)
    /\ prompt[p].state = "answered" /\ prompt[p].value = Confirm

ClaimExecution(r, p) ==
    /\ Unlocked
    /\ run[r].stage = "work" /\ Claimable(r, p)
    /\ prompt' = [prompt EXCEPT ![p].started = TRUE]
    /\ Go(r, "submit", p)
    /\ UNCHANGED <<task, seen, files, world, loop, batch, settled, main, log,
                   bounds>>

\* submit_outgoing: the message leaves, or the page changed and it does not.
Submit(r) ==
    /\ run[r].stage = "submit"
    /\ \E n \in {0, 1} :
         effects' = [effects EXCEPT ![run[r].on] = @ + n]
    /\ Go(r, "work", NoMsg)
    /\ UNCHANGED <<rows, files, world, loop, batch, settled, main, taken,
                   noted, bounds>>

\* A follow-up joins the live turn and may change its task.
Steer(r, c) ==
    /\ Unlocked
    /\ main = r /\ run[r].stage = "work"
    /\ c \in (inbox \cap Chats) \ run[r].msgs
    /\ \E kind \in {"continue", "revise", "stop"} :
         /\ Begins(kind)
         /\ task' = Begun(kind)
    /\ run' = [run EXCEPT ![r].msgs = @ \cup {c},
                          ![r].at = <<task'.id, task'.rev>>]
    /\ UNCHANGED <<prompt, seen, files, world, loop, batch, settled, main, log,
                   bounds>>

\* mark_task: only the exact current task changes its status.
Mark(r, status) ==
    task' = IF run[r].at = Scope THEN [task EXCEPT !.status = status] ELSE task

\* A suspended routine leaves its task waiting; other turns end either way.
Finish(r, status) ==
    /\ Unlocked
    /\ \/ run[r].stage = "work"
       \/ run[r].stage = "suspend" /\ status = "active"
    /\ Mark(r, status)
    /\ run' = [run EXCEPT ![r] = IF main = r THEN [@ EXCEPT !.stage = "end"]
                                 ELSE Free]
    /\ UNCHANGED <<prompt, seen, files, world, loop, batch, settled, main, log,
                   bounds>>

Leave == main' = NoRun /\ loop' = "head" /\ UNCHANGED <<batch, settled>>

\* mark_processed, of the message and what was steered into its turn.
ArchiveAll(r) ==
    /\ inbox' = inbox \ run[r].msgs
    /\ processed' = processed \cup (run[r].msgs \cap Prompts)

Archive(r) ==
    /\ main = r /\ run[r].stage = "end"
    /\ ArchiveAll(r)
    /\ Leave
    /\ run' = [run EXCEPT ![r] = Free]
    /\ UNCHANGED <<rows, world, log, bounds>>

\* An interrupted turn stays queued.
Defer(r) ==
    /\ main = r /\ run[r].stage = "end"
    /\ Leave
    /\ run' = [run EXCEPT ![r] = Free]
    /\ UNCHANGED <<rows, files, world, log, bounds>>

\* The watchdog answers for a run that hangs; its thread goes on.
Escape(r) ==
    /\ main = r /\ run[r].stage \notin {"free", "end"}
    /\ ArchiveAll(r)
    /\ Leave
    /\ UNCHANGED <<rows, world, run, log, bounds>>

\* An open transaction is rolled back; its files stay.
Crash ==
    /\ crashes < MaxCrashes
    /\ crashes' = crashes + 1
    /\ loop # "down"
    /\ loop' = "down" /\ batch' = {} /\ settled' = FALSE
    /\ main' = NoRun
    /\ run'  = [r \in Runs |-> Free]
    /\ UNCHANGED <<rows, files, world, log, faults>>

-----------------------------------------------------------------------------

Init ==
    /\ prompt = [p \in Prompts |-> NoPrompt]
    /\ task = [id |-> 0, rev |-> 0, status |-> "stopped"]
    /\ seen = [c \in Chats |-> NoScope]
    /\ inbox = {} /\ processed = {}
    /\ routine \in BOOLEAN
    /\ sent = {}
    /\ loop = "down" /\ batch = {} /\ settled = FALSE
    /\ main = NoRun
    /\ run = [r \in Runs |-> Free]
    /\ taken = [p \in Prompts |-> {}]
    /\ effects = [p \in Prompts |-> 0]
    /\ noted = {}
    /\ crashes = 0 /\ faults = 0

User == \/ \E c \in Chats : SendChat(c)
        \/ \E p \in Prompts, v \in Values : Answer(p, v)
        \/ Supersede

Loop == \/ Boot \/ Head \/ Commit \/ Idle
        \/ \E p \in Prompts : QueueFile(p) \/ Discard(p)
        \/ \E r \in Runs, c \in Chats : StartChat(r, c)
        \/ \E r \in Runs, p \in Prompts : StartContinuation(r, p)
        \/ \E r \in Runs : Archive(r)

\* What a run does on its own, and what ends it.
Work(r) == \/ \E p \in Prompts : Ask(r, p) \/ ClaimExecution(r, p)
           \/ \E c \in Chats : Steer(r, c)
           \/ Submit(r)
Return(r) == \/ Poll(r) \/ Timeout(r) \/ SettleSkipped(r) \/ Hide(r)
             \/ \E s \in Statuses : Finish(r, s)

Next == \/ User \/ Loop
        \/ CommitFails \/ Crash
        \/ \E r \in Runs : \/ Work(r) \/ Return(r)
                           \/ Preempt(r) \/ Defer(r) \/ Escape(r)

Spec == Init /\ [][Next]_vars

\* The loop polls for ever, a wait ends by its deadline, a turn ends, and the
\* cap on interrupts lets a deferred turn be archived in the end.  Users,
\* faults, crashes, preemptions and the watchdog owe nothing.
Fairness == /\ WF_vars(Loop)
            /\ \A r \in Runs : WF_vars(Return(r)) /\ WF_vars(Submit(r))
            /\ \A r \in Runs : SF_vars(Archive(r))

FairSpec == Spec /\ Fairness

-----------------------------------------------------------------------------
(* Properties.                                                             *)

TypeOK ==
    /\ prompt \in [Prompts -> Decision]
    /\ task \in Task
    /\ seen \in [Chats -> Scopes]
    /\ inbox \subseteq Msgs
    /\ processed \subseteq Prompts
    /\ routine \in BOOLEAN
    /\ sent \subseteq Chats
    /\ loop \in {"down", "head", "tx", "pick", "turn"}
    /\ batch \subseteq Prompts
    /\ settled \in BOOLEAN
    /\ main \in Runs \cup {NoRun}
    /\ run \in [Runs -> Thread]
    /\ taken \in [Prompts -> SUBSET {"tool", "turn"}]
    /\ effects \in [Prompts -> Nat]
    /\ noted \subseteq Prompts
    /\ crashes \in 0..MaxCrashes
    /\ faults \in 0..MaxFaults

\* An answer is consumed by the tool that waits for it or by a continuation of
\* its own, never both, although the continuation's file is written before the
\* answer is taken from the mailbox, and an abandoned tool goes on waiting.
\* Nothing is consumed of a question that was skipped or superseded.
HandedOnce ==
    \A p \in Prompts :
        /\ Cardinality(taken[p]) <= 1
        /\ taken[p] # {} => prompt[p].state = "answered"

\* An approved message is posted at most once, on a recorded approval, across
\* live and abandoned runs, restarts and repeated answers.
PostedOnce ==
    \A p \in Prompts :
        /\ effects[p] <= 1
        /\ effects[p] = 1 => /\ prompt[p].state = "answered"
                             /\ prompt[p].value = Confirm

\* settle_prompt preserves the winner: a decision never changes again.
DecisionIsFinal ==
    [][\A p \in Prompts :
         prompt[p].state \in Decided =>
           /\ prompt'[p].state = prompt[p].state
           /\ prompt'[p].value = prompt[p].value]_vars

\* The note "was not answered" is about a question nobody answered.
NotesAreTrue == \A p \in noted : prompt[p].state # "answered"

\* An accepted answer reaches the bot, unless its task moved on or failed.
EveryAnswerIsTaken ==
    \A p \in Prompts :
        Waits(p) ~> (prompt[p].consumed \/ ~Resumable(p))
=============================================================================
