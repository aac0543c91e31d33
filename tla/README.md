# Verification of the dotobot harness

TLA+ models of the concurrent and crash-prone core of this repository, the TLC
configurations that check them on small instances, and proofs about them that
TLAPS checks for every instance. Paths below are relative to the repository.

Contents: [the system](#the-system), [what is modelled](#what-is-modelled),
[the runs](#the-runs), [what the code does otherwise than it
says](#what-the-code-does-otherwise-than-it-says), [the proofs](#the-proofs),
[what is not modelled](#what-is-not-modelled), [the plan](#the-plan).

## The system

A *harness* process (HTTP server and orchestrator) runs bots, each an *agent*
process of its own. They share one home directory: an inbox directory per bot,
stream files, and one SQLite database (`state.sqlite`, WAL) with turn claims,
task rows, prompts and the delivery ledger. Nothing else connects them: a
message is a file, an answer is a file, and a restarted process knows what these
tell it.

| Component | State | Operations | Talks to | What is hard | Correct when |
|---|---|---|---|---|---|
| Inbox and turn loop (`agent/runtime.py`, `agent/messaging.py`) | message files, the attempt file, lanes, deferred set | send, pick, admit, run, answer, defer, drop, archive | everything below | five durable records per turn, a crash between any two; follow-ups popped by a running turn | a message is answered once, and one that is not answered is remembered somewhere |
| Turn claims and recovery (`harness/statestore.py`, `agent/recovery.py`) | `turn_claims`: state, inputs, budget | admit, record_steer, stamp, charge, refund, requeue, tombstone, settle | turn loop, inbox | the sweep is itself interruptible; budgets across boots | crash loops are bounded, no claim is lost before its turn is closed |
| Acknowledgment obligations (`agent/obligations.py`) | one coalesced record per bot | record_send (harness), settle, maybe_redrive (agent) | inbox, turn loop | read-modify-write from two processes | cleared only when nothing it names is still unanswered |
| Delivery ledger, terminal replies (`harness/delivery.py`) | one row per reply | begin, inflight, receipt, prune | turn loop, recovery | the receipt cannot be atomic with the reply | no reply twice |
| Delivery ledger, task actions (`harness/delivery.py`, `agent/govern.py`) | one row per action of a task | prepare, start, finish, expire | tasks, approvals, tools | an abandoned run beside its successor, approvals that come late | no effect twice, none forgotten |
| Turn scheduler (`agent/scheduler.py`) | active run, zombies, generation | begin, trip, escape, settle, note_interrupt | turn loop, stream writer | worker thread against watchdog | one owner per request; nothing starves |
| Task scopes (`harness/taskscope.py`) | current task of a conversation | begin_task, mark_task, active_tasks | actions, prompts | three writers in two processes | a late result never alters a successor |
| Durable decisions (`agent/messaging.py`, `harness/statestore.py`) | prompts and answers | open, settle, claim, supersede, replay | tasks, inbox | an answer's file and its consumption are two writes | one answer, taken once |
| Send admission (`harness/sends.py`) | nonces of accepted sends | lookup, dispatch, record | server | three steps without a lock | a retry does not dispatch again |
| Routines (`harness/routines.py`) | schedules, occurrences | due, enqueue, save, expire | inbox, tasks | enqueue and save are two writes | one run per occurrence |
| Update hold (`harness/update_state.py`, ...) | hold file, acknowledgments | hold, ack, ready, restart | agents | stale acknowledgments | no restart under a run |
| Push outbox (`harness/push.py`) | rows to relay | enqueue, relay, mark, retain | external relay | post and mark are two steps | at least once, bounded |
| Bot deletion (`harness/bot_cleanup.py`, `harness/orchestrator.py`, `isolation/process.py`) | roster, cleanup job, run file, process numbers | register, start, restart, delete, shut down, purge, take back | agents, update hold | a day between the deletion and the purge; requests that wait for the lock; numbers that are taken again | no purge under a live bot, one agent per bot |
| Human control (`harness/control.py`), rooms (`harness/rooms.py`), approvals (`harness/approvals.py`, `agent/gate.py`) | takeover and stop flags, room membership, pending approvals | request, clear; hand off; ask, answer | turn loop | flags read by running turns | a stop stops |
| Streams (`agent/streaming.py`, `harness/logstream.py`), machines (`isolation/`), deployment (`deploy/`) | append-only files, containers, releases | write, tail; start, sync; update, roll back | harness | readers beside a writer; newest-wins merges | no output lost or shown after the end |

The hard behaviours found while reading, each with its line, are the `hazards` of
PROJECT.json; those without a property say why and where the plan has them.

## What is modelled

Nine modules, each of one component or of the part of several that meets in one
table or file. They are composed where components share state, and a module that
only needs another's effect on it has that effect as an action of its own
(TurnLifecycle has the trip of a takeover, Decisions has the pick of a chat).

| Module | Component | Actors |
|---|---|---|
| `TurnLifecycle` | inbox, turn loop, claims, obligations, terminal replies, scheduler | the bot's process, its runs, the harness |
| `TaskActions`, `TaskPromise` | ledger of task actions, task states | runs of one bot, live and abandoned; expiry in any bot |
| `Decisions` | prompt cards, continuations, approvals of messages | the user, the waiting tool, abandoned runs, the loop |
| `Routines` | schedules and their occurrences | scheduler, HTTP threads, the bot's process |
| `FleetUpdate` | update operation, holds, acknowledgements, host's worker | controller, host, bots, the owner |
| `Sends` | acceptance ledger | handler threads of the server, clients |
| `PushOutbox` | capabilities and rows to relay | clients, frames, the delivery thread, the relay |
| `BotDeletion` | roster, cleanup jobs, agent processes of one bot | requests, worker threads, the sweep, strangers |

### TurnLifecycle

One bot process and its messages. Variables come in five groups: the files and
tables that survive (`inbox`, `claim`, `row`, `attempt`, `owed`), the agent
process (`phase`, `sweep`, `path`/`step`/`cur`, `deferred`, `interrupts`,
`zombies`, `taken`, ...), the harness process (`unrecorded`: chats accepted
whose obligation is not written yet), what an observer would log (`answers`,
`outcome`, `joined`, ...), and counters of the bounds.

A turn ends in one of eight ways, and on each the code performs its durable
writes in a fixed order. `Route` gives that order per way; the process walks it
one write per step (`path`, `step`), and `Crash` and `BeginDrain` (SIGTERM) may come
before any of them. The correspondence:

| Code | Model |
|---|---|
| `Orchestrator.chat_stream`, `messaging.send`, `obligations.record_send` | `SendChat`, then `RecordSend`; `SendWork` for colleagues and routines |
| `Agent.run_forever`, `check_obligations`, `maybe_redrive` | `Boot`, `CheckObligations`; `CountRedrive` then `SendPrompt`, or `DropObligation` |
| `recovery.startup_sweep`, `_ensure_queued`, `_tombstone` | `SweepClaim`, `Requeue`, `MarkQueued`, `Refund`, `Tombstone`, `Bury`, `SweepDone` |
| `_next_task`, the head of `process_inbox_once` | `Pick` with `Before`, `NextTask`, `Verdict`, `NoteAttempt` |
| `StateStore.admit` and the start of the run | `Admit` |
| `_supervise`, `TurnScheduler.trip/escape/settle` | `Trip`, `Escape`, `LateSettle` |
| `take_steer`, `record_steered` | `TakeSteer`, `RecordSteer` |
| the tail of `process_inbox_once` | the routes `answer`, `escape`, `defer`, `giveup`, `drop`, `recovered`, with the actions `LedgerWrite`, `Reply`, `Notice`, `Archive`, `SetAttempt`, `Release`, `SettleRead`, `SettleWrite` |
| `begin_drain`, `reject_drain_arrivals`, `drain_shutdown` | `BeginDrain`, `RejectArrival` with the route `reject`, `EndDrain` |

What the model abstracts:

- What a turn computes. A run ends with an answer (or an error text: the same
  writes), with an interrupt, or is abandoned.
- `record_send` and `maybe_redrive` read and write the obligation in one step;
  `obligations.settle` does it in two (`SettleRead`, `SettleWrite`).
- `record_steer` and the addition to the transcript are one step.
- The final event of a stream is merged with the notice of the turn, so
  `answers` counts the messages `Agent._reply` sends.
- Best-effort store writes (begin, inflight, receipt, admit) are assumed to
  succeed. A claim always has a readable input, and the cap of twenty
  obligation ids is left out.
- Every claim found at boot is an orphan; a sweep takes them in any order. The idle
  window before a redrive, and which of its ids a recovery prompt names, are
  nondeterministic.
- Order within a lane is not first-in-first-out but any order; `UserOrder` lets the
  user reorder the queue (or use Send-now) at any moment.
- The directory cache of `read_inbox` is left out: the model reads the directory.

### TaskActions and TaskPromise

The sends and connector writes a model asks for in a task (`delivery.SEND_INTENTS`).
Each has a row keyed by task, target and a digest of its arguments. A call goes
through `Prepare` (prepare_action), `Validate` (validate_current_action, after the
approval), `Consult` (the reads of claim_action), `StartAction` (start_action),
`Handle` (the tool), `FinishAction` (finish_action, which may fail), and can be
refused before its claim. `Begin`, `Trip`, `End` and `Follow` are the run around it:
the process has one run that counts and any number it has asked to stop and that
go on (`tripped`). `SweepRead` and `SweepDelete` are the two halves of the expiry
of old receipts, in whichever bot's process does it; `Crash` is that of this bot's
process, in which runs die and rows stay.

The model counts `effects`, what reached the world, which no program variable holds.
A handler that says "sent" has sent, one whose error text proves nothing left
(`classify_failure`) has not; any other outcome may be either.

`TaskPromise` is what all this is for, in two variables: the actions of a task whose
outcome is not known, and those carried out. An action is carried out at most
once as long as it is remembered; a task has at most one action in doubt; while it
has one it starts no other; what is in doubt is never forgotten. TaskActions
implements it under the mapping `open <- InDoubt`, `done <- Effected`.

Abstractions: one row per action (the rows of older versions and
`legacy_action`, which bridges them, are left out); only calls that get a row (an
agent without task identity is refused or unprotected elsewhere); a revision
mismatch is a refusal; statuses `active`, `waiting` and `unknown` are one, and so
are `idle`, `completed` and `failed`, as `active_tasks` tells only these apart; a failed
write of a claim is a refusal; what decides whether a message continues a task is
left open. A receipt grows old over a week, so none does between the two halves
of a sweep.

### Decisions

The questions of one conversation: rows of `agent_prompts`, the task whose revision
they belong to, the inbox, and up to any number of worker threads of which one is
the turn in progress. Every SQLite transaction is one step. The one exception is
the batch between turns (`queue_prompt_answers`): it writes inbox files inside its
transaction, and they outlive a batch that fails, so it is a step per answer.

| Code | Model |
|---|---|
| `open_prompt` in the tool, then `_wait_for_human` | `Ask`; `Poll` (an answer has come), `Preempt` (the run is interrupted) |
| the tool's timeout, `sweep_skipped_prompts` | `Timeout`; `SettleSkipped`, `Hide` |
| `_provide_answer`, `settle_prompt`, `sync_stale_prompts` | `Answer` with `Settle`, `Skip`; `Supersede` |
| `queue_prompt_answers` | `Head`, `QueueFile`, `Commit`, `CommitFails` |
| `process_inbox_once` around a continuation | `Discard`, `StartChat`, `StartContinuation`, `Idle`, `Archive`, `Defer`, `Escape` |
| `outgoing.submit`, `claim_prompt_execution` | `ClaimExecution`, `Submit` |
| steering, the end of a run, the death of the process | `Steer`, `Finish`, `Crash` |

The model counts what the rows only imply: `taken`, the ways an answer was consumed
from its row, and `effects`, the messages posted for an approval. A run that asks again what was answered
and taken is told the stored answer (`agent/tools.py:299`, `878`), which consumes and changes nothing. Left out: secret requests
and cards that return control, cards without a task, the JSON mirror of a row. The
rules that decide from the text of a chat whether it continues the task are left
open: it may, or may begin another.

### Routines

One bot's routines file, which three parties rewrite under its lock: the scheduler
thread, HTTP threads, and the bot's process that records how a run went. A tick is a
read, a check and a send per due row, and one save (`FireDue`, `Check`, `Send`,
`Save`); `Tear` is the tick that raises between two of them or dies with the server.
An occurrence is a pair of routine and slot, which is what its message id and file
name are computed from.

| Code | Model |
|---|---|
| `fire_due`, `run_now`, `_enqueue` | `FireDue`, `RunNow`, then `Check`, `Send`, `Save`, `Tear` |
| `update_routine`, `remove_routine` | `Edit` |
| `occurrence_stop_reason` and its use by the loop | `StopReason`, `RecordStop` |
| `process_inbox_once` for an occurrence | `Pick`, `RecordStart`, `RecordEnd`, `Reply`, `Archive`, `Escape` |
| `record_run_state` of an abandoned run | `ZombieEnds`, `RecordLate` |
| `remove_queued`, the death of the bot's process | `RemoveQueued`, `AgentCrash` |

Left out: the text of schedules and time zones (`CronMinutes` is the set of minutes
a schedule matches), the history's cap of twenty, the row's `last_run_status` (which `_enqueue`
sets to `queued` over what the bot recorded; the model has the history, where both records stay), the rebinding of a conversation's
scope, and edits that turn a one-shot into a recurring routine.

### FleetUpdate

An update to one target release: the operation's journal, the host's worker
that installs the release, the controller that restarts bot after bot, and the bots, which
acknowledge a hold at the place where they would take the next message. Each save of the
journal, each write of a hold and each act on a process is a step.

| Code | Model |
|---|---|
| `agent_updater._loop`, `start`, `retry` | `Begin`, `Retry` |
| `updates.tick`, the branches in the order of the code | `TickStopped`, `TickVerify`, `TickConfirmed`, `TickTimeout`, `TickRestored`, `TickHold`, `TickDecide`, `TickRestart`, `TickEnd` |
| what keeps it waiting: a turn, a missing proof, a human, an approval | `TickWait` |
| its restart and its save | `TickKill`, `TickSpawn`, `TickRaises`, `TickSave` |
| `restore_agent`: its checks, its stop and its start, without the queue's lock | `TickFail`, `TickRestore`, `TickRespawn` |
| `update_host.apply` | `HostPrepare`, `HostInstall`, `HostFlip`, `HostRestart`, `HostRaises`, `HostHealthy`, `HostUnhealthy`, `HostRecover`, `HostRefuse`, `HostPins` |
| `update_state.acknowledge`, `ready` | `Acked` in every action of a bot, `Ready`, `Stale` (an acknowledgement older than ten seconds) |
| the loop of a bot, its scheduler | `Admit`, `TurnEnds`, `Escape`, `ZombieEnds` |
| the controller's supervisor | `CtlBoot`, `Reload` (it reads its mailbox) |
| the owner; deaths | `StopBot`, `StartBot`; `CtlCrash`, `HostCrash`, `BotCrash` |

The controller is a service, which the host's worker restarts, or runs in a container
(`Container`) under a supervisor, which the worker asks by a mailbox: then the controller that
is there goes on until the mailbox is read. A flip, the tag of the machine's image or a restart may raise
(`HostRaises`) and leave any of it half done, also in the worker's own rollback.

Left out: signatures and archives, container images, the bridge for agents of
version 0.2.110, bots removed from the roster during an update, a run file that cannot be written after
an agent was started. Time is a choice: a confirmation may time out whenever it is awaited. `loose`
records that a roll was begun while `current` linked to the old release; how that comes about, and what it leads
to, is a finding, below.

### Sends

A send with a nonce: a handler thread looks the nonce up and admits it (`Admit`: replay,
refuse or go on), dispatches the chat to each recipient (`Dispatch`), and records
the acceptance (`RecordAccept`); no lock spans the three. `Refuse` is a recipient that
does not take the chat, `ServerCrash` loses the threads and keeps the ledger. The ledger is the
sequence of the code with its cap; `newer` has the nonces recorded since a nonce was. `excuse` names why a nonce may have been
dispatched twice: another request of it was in flight, its request was cut short
between its first chat and its record, or LEDGER_CAP newer ones pushed its record out.

### PushOutbox

Capabilities (`Register`, `Expire`, and `Issue` at the relay, which revokes the older
secret), rows (`Enqueue` with its purge and cap, `Age`) and the delivery thread, which
selects, posts with the database unlocked, and marks (`Select`, `Post`, `Finish`). The row
selected is the first of those that are due (`Sendable`) by priority and then by creation (`Before`, with
`older` for the time of creation); one whose post failed is not due until its next attempt (`Due`). `Post` has the answers
`deliver_one` tells apart: taken, revoked, refused although the secret is valid (a 403 or 404), rejected, and
none or busy, with the notification delivered or not; and the answer that is no HTTP, an
exception which neither `deliver_one` nor `run` catches, so that the thread ends (`Breaks`) until
a server starts again. A mark may fail (`MarkFails`); `Restart` drops the delivery in flight. Two of the priorities the
code may give are modelled, `Urgent` and the rest. The relay is external and modelled from what `deliver_one`
makes of it.

### BotDeletion

One bot's name: the roster on disk and in memory, the cleanup job, the run file, the
processes under the process numbers, and the bot's files. All operations of weight hold the
lifecycle lock of the name; `op` is the one that does and the step it is at, `pending` are
threads that wait for it and decided to before.

| Code | Model |
|---|---|
| `add_bot`, `_register_bot`, `import_bundle`, `_backfill_seed_bots` | `Register`, `RegisterFails`, `Import`, `Backfill`, `SaveRoster`, `CancelJob` |
| `start_created_bot`, `_start_bot`, `_bring_up`, `restart`, `harness down` | `CreateWorker`, `StartBot`, `BringUp`, `AskRestart`, `RestartWorker`, `Down`, `EndStart` |
| `ProcessBackend.spawn`, `stop`, `_record` | `Adopt`, `Spawn`, `SpawnRefused`, `Record`, `RecordFails`, `StopAgent`, `ForgetPid` |
| `remove_bot`, `schedule`, `schedule_shutdown` | `Remove`, `NoteStopping`, `Unlist`, `UnlistFails` |
| `shutdown` and the first half of `sweep` | `ShutdownThread`, `Sweep`, `CheckIdentity`, `Kill`, `ForgetDeletedPid`, `VerifyStopped`, `ClearStopping` |
| the purge | `MarkPurging`, `PurgeSome`, `PurgeRest`, `ForgetJob` |
| the operating system, the clock, the server | `Exit`, `Come` (a stranger takes a number), `Day`, `Crash`, `StepFails` (a step of any operation raises, or a command dies) |

`astray` records the situations in which the code's bookkeeping is known to be wrong, and
the properties say what holds outside of them. Six are ways to lose an agent (`Lost`), one that runs and that neither
the run file nor the job of its deletion names: a deletion that found the job of one cut short
(`reused`), the bring-up of a bot that was deleted while it waited (`revived`), a server that died between
the start of an agent and the write of its run file (`orphaned`), a run file that could not be written after that start
(`untracked`: `_record` raises after `Popen`, and the next start finds no run file), an import that a running server
does not know and overwrites (`dropped`), and a registration whose save failed and that stays in memory
(`unsaved`). Each of the six by itself breaks OneAgent, which TLC shows with three registrations and two faults. The first two are findings,
below. The seventh (`seeded`) is a bot of the seed roster that is put back while its job is there, without the
lock and without taking the job back; it loses no agent, but the purge may run with the name in the file.

Left out: containers and machines, the `.stopped` marker, the files the purge deletes one
by one (half gone and gone are told apart), a process whose identity cannot be read (which the
code takes for the agent and waits for), a fork that fails for another reason than the want of numbers, and the update's
`restore_agent`, which stops and starts an agent without asking the roster
(`harness/update_rollback.py:32-72`; in FleetUpdate no bot is removed).

## The runs

Each is one question to the system. All but `twice` pass.

| Run | Checks | Instance | Distinct states | Shows |
|---|---|---|---|---|
| `crash` | TypeOK, AnsweredOnce, OpenIsCarried, StartsWithinBudget | two chats, one recovery prompt, two restarts (crash or SIGTERM), two abandoned runs, budget 1, two attempts, two interrupts; `FewStops` | 2.2 million | the record keeping of a turn survives a stop at any write |
| `steer` | OpenIsCarried | two chats and a colleague's message of which two arrive (`TwoArrive`), follow-ups, three crashes | 1.7 million | a follow-up moved from the inbox into a live turn is carried to its end, also in a turn that settles no obligation |
| `live` | EveryChatCloses, EveryMessageLeaves | a chat and a background message, user reordering, two restarts, one abandoned run | 261 thousand | neither lane starves and every chat is closed |
| `twice` | AnsweredOnceAll, violated | two chats, a background message, follow-ups, crashes | 800 thousand | see the next section |
| `actions` | TypeOK, OwnsTask, LedgerIsTrue, NeverTwice, KeepsPromise | one task, two actions, two runs, one crash | 581 thousand | a live and an abandoned run of a task share the ledger safely |
| `decisions` | TypeOK, HandedOnce, PostedOnce, DecisionIsFinal, EveryAnswerIsTaken | two chats, one question with two answers, two runs, two tasks or revisions; `OneEvent` | 560 thousand | the tool, an abandoned run and the batch compete for an answer, and one gets it |
| `routines` | TypeOK, OnceUnlessRaced, RecordedIsSent, SaveKeepsRecords, EveryOneShotFires, EveryOccurrenceLeaves | one routine, two minutes and a test run, one edit, two attempts; `OneEvent` | 226 thousand | an occurrence is queued, run, recorded and archived once, through a torn tick or crash |
| `updates` | TypeOK, CompleteReleases, OneAtATime, WorkSurvivesRestart, CompleteIsUpdated | two bots, a controller in a container, one operation and its retries, one crash of any process, a worker that raises anywhere | 2.9 million | an update is rolled bot by bot and undone without taking work down |
| `rolls` | RollEnds | one bot, a controller that is a service, two operations, two crashes | 23 thousand | a roll ends or comes to its owner |
| `sends` | TypeOK, OneDispatch, AcceptedIsSent | three nonces, two inputs, two recipients, two threads, five requests, a ledger of two | 235 thousand | a retry does not dispatch again, but for three named cases |
| `push` | TypeOK, NotifiedOnce, RenewalSurvives, EveryRowIsSettled | two capabilities, one with two secrets; a final message and a prompt, caps of two; `OneMishap`, `Others` | 213 thousand | a notification arrives once per device unless its arrival went unseen, and one that is not overtaken is settled |
| `deletion` | TypeOK, PurgeIsSafe, OneAgent, DeletionEnds | two process numbers, one stranger, two registrations and deletions, one restart, fault or seeded bot; `OnTrack` | 619 thousand | a deletion ends in a purge or a registration, and never under a live bot |

The properties of the turn:

- *AnsweredOnce*: a message never folded into another turn gets one terminal reply.
- *OpenIsCarried*: as long as a chat has no outcome, its file, a claim, the run
  that popped it or the way out being walked brings it back, unless it is `exposed`: the
  process died between the removal of its file and the next record, where only
  the obligation is left.
- *StartsWithinBudget*: runs so far and charges left never exceed the budget plus one.
- *EveryChatCloses*, *EveryMessageLeaves*: no message waits for ever.

Of task actions:

- *OwnsTask*: between claim and receipt a run is alone in its task.
- *LedgerIsTrue*: no effect without a row, no receipt without an effect.
- *NeverTwice*: no second effect while the receipt is kept.
- *KeepsPromise*: TaskActions implements TaskPromise.

Of decisions:

- *HandedOnce*: an answer is consumed by the tool that waits or a continuation, not both, although the
  continuation's file is written before the answer is taken from its row.
- *PostedOnce*: an approved message is posted once, on a recorded approval.
- *DecisionIsFinal*: the first outcome of a question stands.
- *EveryAnswerIsTaken*: an accepted answer reaches the bot unless its task moved on or failed.

Of routines:

- *OnceUnlessRaced*: an occurrence ends once, but for the race of `_enqueue`, which looks at
  the archive first and writes the file after, with the bot that archives in between.
- *RecordedIsSent*: the file tells of no occurrence that was not enqueued.
- *SaveKeepsRecords*: no save undoes what the bot recorded.
- *EveryOneShotFires*, *EveryOccurrenceLeaves*: what is due is sent, what is queued ends.

Of updates:

- *WorkSurvivesRestart*: the updater takes no bot down under a turn or an abandoned run, though it
  goes by a file written up to ten seconds ago; of a rollback this is said only while the hold stands, without it see
  RollbackIsQuiet, below.
- *OneAtATime*: one bot at a time is out of service.
- *CompleteReleases*: a completed operation holds none of its bots.
- *CompleteIsUpdated*: when an operation completes, every bot that runs is of the target,
  unless a roll was begun while `current` linked to the old release (`loose`).
- *RollEnds*: if its owner stops interfering and humans let go of the bots, a roll ends or waits for something named.

Of sends, push and deletion:

- *OneDispatch*: one chat per recipient and nonce, unless excused.
- *AcceptedIsSent*: what a client is told was accepted reached every recipient.
- *NotifiedOnce*: one arrival per notification and device, unless its answer was lost, ended the thread or was not
  marked, or the row was purged.
- *RenewalSurvives*: a capability renewed while the older one was refused stays, unless the relay refuses that one too.
- *EveryRowIsSettled*: a row is settled, grows old or loses its capability, unless the thread ends for good or
  urgent rows pass it over again and again (`Overtaken`). Both excuses are of the code: `harness/push.py:175` takes
  prompts first, and nothing starts a thread that ended.
- *PurgeIsSafe*: files are purged of a bot the server's roster does not have, whose shutdown is complete and whose
  agent is gone (unless one was lost), a day after its deletion (unless it took another's job); neither it nor a bot
  half purged is in a roster, unless the seed roster put it back.
- *OneAgent*: one agent of the bot at a time, unless one was lost.
- *DeletionEnds*: a deletion ends in a purge or a registration, unless a process has the number of the
  bot's agent for good and the job cannot tell the two apart: it has no identity, or that very one (`Withheld`). A
  stranger with another identity defers nothing.

Why the bounds are enough. Two restarts let the second boot sweep what the first one
left half done; a third repeats the second, and comes into play only with follow-ups,
whose claims can outlive two boots. A budget of one, two attempts and two
interrupts make every counter pass through its first, middle and last value.
Two chats are needed for the coalesced obligation to name one that is answered
and one that is not; a recovery prompt is a third message with its own record.
In `actions` a run acts on one task, tasks share no rows, and a third run would be one
more abandoned one. In `decisions` questions share no rows either, and two runs are a
live and an abandoned one. In `updates` two bots are the least that have an order. In
`sends` three nonces overflow a ledger of two (`LEDGER_CAP` stands for 256), and in `push` three rows
overflow an outbox of two (the cap of subscriptions is not reached by two). A prompt and a final
message are the least that have a priority, and the first of them need not be the older. In `deletion` two registrations and two deletions let a second deletion find what the first one left.

A CONSTRAINT limits how much goes wrong in one behaviour, so that TLC ends: `FewStops` (two
restarts, or one and two abandoned runs), `OneEvent` (one crash, failed write,
edit or hung run), `OneMishap` (one row meets an unseen arrival, a failed mark, a restart or old age) with
`Others` (only the capability whose rows meet them, `Hit`, is renewed or has prompts), `OnTrack` (one restart, fault or seeded bot; the
bookkeeping goes astray in one way, and then no stranger comes). For the invariants the proofs below cover the combinations that these
exclude; the liveness properties are checked within them only.

`steer` has no abandoned run (`MaxEscapes = 0`): an abandoned run pops any chat that
arrived after it started, the one the active run is busy with included, and
then OpenIsCarried fails. The next section has that case.

Deadlock is checked where the system cannot stop. It is not in `crash`, `live`, `twice`,
`routines`, `sends` and `deletion`: there a behaviour ends when every message is handled and the bounds on
restarts, requests or minutes are spent.

Symmetry is over interchangeable messages, actions, runs, nonces and threads, in runs that check
safety only.

Fairness, each `FairSpec` with what the scheduling of the code gives, and nothing for
users, crashes, failed writes and other faults:

- *TurnLifecycle*: the main thread keeps stepping (`Recover \/ WayOut \/ MainLoop`), as
  `run_forever` is a loop without blocking waits; a run returns (`Finish`) or is abandoned by the
  watchdog; a follow-up popped is recorded; the harness finishes an accept it began. Restarts are
  bounded: a bot that is restarted for ever need not answer.
- *Decisions*: the loop keeps stepping, every thread's calls return; a continuation that is
  picked again and again is archived in the end, as the cap on interrupts lets a
  deferred turn be archived (SF on `Archive`).
- *Routines*: the scheduler's thread ticks and finishes a tick; the loop is fair although the lock of the
  file may disable it at times (SF); a run that is put off again and again ends, by the cap on interrupts (SF).
- *FleetUpdate*: the controller ticks (SF, as it may be restarted), the host's worker steps, a supervisor starts a
  controller that is down, a bot's turns end and its messages are admitted. RollEnds itself states what it asks of people.
- *PushOutbox*: the thread, while it runs, selects some row, posts and finishes it (WF; which row is the
  order's choice, not the fairness's), a next attempt is due some day (WF), and a row that is posted again and again is answered and
  marked some day (`Answered`). Nobody has to start the server again.
- *BotDeletion*: an operation that holds the lock goes on, threads that wait for it get it, the
  server's sweep runs, a day passes.

Each property of a passing run has a mutant: a variant of a definition with the kind of
mistake its code could have (a swapped order of writes, a dropped guard, a counter
that is not charged), for which TLC finds the property violated.

## What the code does otherwise than it says

Quotations and lines are in the `findings` of PROJECT.json. `twice` has a run of its own. To see
one of the others, check the definition named here under the configuration named, in place of its properties.

- `twice`: a follow-up listed in the claim of the turn it was steered into and
  answered in a turn of its own after a crash is answered again after a second crash,
  as the ledger row that would tell was pruned and the older claim requeues it.
- *ClearedMeansClosed* (`steer.cfg`): a chat taken as a follow-up, a crash before the claim lists it, and
  then the answer of the turn it was meant for: `settle` clears the whole coalesced
  obligation, with the follow-up in it, and nothing brings it back.
- *SteeredIsCarried* (`steer.cfg` with `MaxEscapes = 1`): an abandoned run takes a follow-up after its claim is gone. No crash needed.
- *TombstoneIsFinal* (`crash.cfg`): a crash between the tombstone and the removal of the inputs revives the
  turn; each such crash runs it again.
- *ActiveReceiptsSurvive* (`actions.cfg`): a task that becomes active between the read of the active tasks and
  the delete loses old receipts. The window is short and the task must have been
  inactive; the docstring promises it cannot happen.
- *NotesAreTrue* (`decisions.cfg`): the user's answer is accepted between the timeout of a question and its
  settlement; the answer stands, and the bot is told that there was none.
- *RunningIsQueued* (`routines.cfg`): an occurrence dropped after its second crash, or removed from the queue
  after its first, is shown as running for ever.
- *CheckedIsHeld* (`updates.cfg`): a controller that dies between the release of a confirmed bot and the save of
  its row waits for a proof that names a hold which is gone; the healthy bot times out, and so does every retry.
- *RollbackIsQuiet* (`updates.cfg`): a bot found unhealthy after a controller died between the release of its hold and
  the save of its row is rolled back without the queue's lock, and may have admitted a message since it was looked at.
- *CompleteMeansUpdated* (`updates.cfg`, also with `MaxCrashes = 0`): a host's worker that dies or raises in its rollback, or gives
  up before the supervisor has read its mailbox, leaves the old release linked under a target that answers late; a retry or
  a recovery rolls all the same, a controller and a bot restarted under the old release follow, and
  the operation completes with that bot on it.
- *PausedIsPaused* (`updates.cfg`): an update that says it is paused goes on to the next bot once the owner stops the one that failed.
- *DayOfGrace*, *DeletedStaysDown*, *StrangersAreSpared* (`deletion.cfg` without its CONSTRAINT): a deletion that
  finds an old job is purged at once; a bring-up that waited for the lock starts a bot
  that was deleted meanwhile; a process that took the number of an agent before its deletion can be signalled.

Seen while modelling, in no finding because nothing in the repository says otherwise:

- Turns. With follow-ups on, the refund of a claim whose
  steered input the inbox refused breaks StartsWithinBudget (the primary is still queued
  and does run; `agent/recovery.py:175`). The abandoned way out never settles the
  obligation, which costs a spurious recovery prompt. The attempt limit is looked
  at before the ledger, so a message answered just before its second crash gets the
  "crashed the bot twice" notice after its answer. A message given up after its last
  interrupt gets the pause notice only. Crashes before admission count as attempts.
- Decisions. A batch whose commit failed leaves a continuation's file; the loop discards it, and the answer is
  queued anew by the next batch.
- Routines. `run_now` stamps `last_run`, so a test run suppresses an occurrence due in the same minute. A
  tick that raises sends its rows again. A row edited and edited back has the revision it had.
- Updates. The host's worker saves the journal it read at its start over what a controller saved meanwhile in other stages.
  A host that dies between the flip of the release and the restart is refused afterwards as already of that version.
- Sends. Two requests of one nonce in flight together both dispatch.
- Push. A row refused for a revoked secret is done, even if the capability was renewed while it was posted (`harness/push.py:200`).
- Push. A prompt that is due goes before every final message, and an answer that is no HTTP ends the delivery thread until the
  server is started again (`harness/push.py:192-195`, `213`).
- Deletion. A run file that cannot be written leaves an agent that nothing tracks, and the next start adds a second one
  (`isolation/process.py:97`). A failed save in `_register_bot` leaves the bot in memory, which keeps the purge from running and a
  new registration from succeeding until the server restarts. An import into a home whose server runs is lost with that server's
  next save. `spawn` adopts any live process under the recorded number as the bot's agent.

## The proofs

Eight modules of proofs hold for any sets of messages, tasks, questions, runs, routines, bots and process
numbers and for any bounds, under the one assumption each model names (`LifecycleAssumption`, `ActionsAssumption`,
`DecisionsAssumption`, `RoutinesAssumption`, `FleetAssumption`, `PushAssumption`, `DeletionAssumption`, `SendsAssumption`): constants that stand for
"none" are none of the things, kinds of messages are disjoint, bounds are numbers, and where rows are counted their number is finite. All
are about `Spec`, without fairness and without the CONSTRAINTs of the runs. Each has the same shape: an
invariant `IInv`, first checked by TLC, a lemma per action or per part that a step keeps it, and theorems that follow.

*TurnLifecycle.* TypeCorrect is inductive on its own. Most of it is about the way out: `Table`
says which place of which path performs which write, and from it no action walks
past an end; the rest is that no charge goes below zero and no redrive past the cap.
AnsweredAtMostOnce needs more: AnsweredOnce is not inductive, as a state with one answer and no
trace of it would answer again. `AnswerInv` adds, for messages never
popped as a follow-up:

- *AllArrived*: what has a file, claim, place in the sweep or answer has arrived,
  so a new message or prompt has none of these;
- *InputsAreOwn*: a claim lists only its own message and popped follow-ups, so
  releasing the claim of m is the end of m's claims;
- *AnsweredIsKnown*: an answered message has its row in flight or sent, or is gone
  (no file, no claim);
- *WayOutIsOrdered*: before the reply on its way out a message is unanswered, at the
  reply its row is in flight, past the archive its file is gone, past the
  release its claim is.

Then `Verdict` sends a message with a row in flight or sent to the `recovered` way
out, which does not answer, and the row is pruned only when file and claim are gone.

CrashLoopIsBounded is StartsWithinBudget as long as no follow-up was taken (`everTaken = {}`): with follow-ups the
refund for a refused steered input breaks it (see above). `StartsInv` adds to `AnswerInv`:

- *SweepIsOver*: no claim is left to sweep once the bot is up, and a tombstone is noted in `lapsed`;
- *StartsAreClaimed*: a message without a claim has no starts, so a new claim begins with a full budget;
- *StartsAreCharged*: starts so far and charges left do not exceed the budget plus one, and not even
  the budget where a start is due: the sweep charges a claim before it queues the message
  again, and gives the charge back only for a message the inbox does not have.

OpenChatsAreCarried is OpenIsCarried as long as no run was abandoned or no follow-up was taken (`Clear`);
`steer.cfg` with `MaxEscapes = 1` shows that both together break it. `CarryInv` adds to `AnswerInv`:

- *RunsKeep*, *ClaimsList*, *SteersAreFresh*, *JoinedOnce*: what was popped is with the active run or an abandoned one,
  a claim lists its own message and what joined its turn, and a follow-up that is taken
  has had no turn of its own;
- *BootIsOrdered*, *OnTheWay*: the sweep precedes the loop, and a turn that runs has its file and claim;
- *ToldIsClosed*: past the reply or the notice the chats of the turn are closed;
- *RowsKeep*: a message whose answer may be out keeps its claim until its chats are closed;
- *BuriedAreExposed*: a lost turn leaves the queue after its chats were given up;
- *AllCarried*: an open chat has its file or claim, was popped, joined what is kept, or is about to be announced.

The proof found OpenIsCarried, as it was first stated, false in a behaviour the bounds of the runs exclude: a message with an
answer in flight is dropped after too many crashes, its file is archived, and the process dies before the
notice. Its chats still have a claim that lists them, but as the row says that an answer may
be out, the next boot takes them for answered and may archive and release what is
left before they are told. `Unannounced` now counts such chats as `exposed`.

*TaskActions.* The invariant is TypeOK, `CallsAreBound` (a call has a task and an action),
OwnsTask, `OneInDoubt` (one row of a task in flight or uncertain), `RowsTell` (what a row says
of its effects) and `CallsTell` (what a call in progress says of them). The claim is the
crux: it finds no row of the task in doubt, so no other run is between claim and
receipt, hence the handler runs on a row whose action has no effect yet. OneRunActs,
LedgerTellsTheTruth and AtMostOneEffect follow; ImplementsPromise maps StartAction
to Start, Handle to CarryOut or a stutter, FinishAction to Settle or a
stutter, SweepDelete to Forget, and every other action to a stutter.

*Decisions.* To TypeOK and `RunsAreBound` come four facts: `RowsTell` (what a row says of how
its answer was handed over), `BatchWaits` (the open batch holds answers nobody took, and no turn is
under way while it is open), `SpentIsGiven` (an approval that is spent was given) and
`OnePoster` (one run is between the spending and the post). An answer is consumed by the transaction that
hands it over, and a file left by a failed batch is started only if its row says so; AnswerIsHandedOnce,
ApprovalIsSpentOnce and DecisionsAreFinal follow.

*Routines.* `RowsTell` (what a row of the file, or of the copy a thread holds, tells of was sent), `JobTells` (the occurrence
about to be sent is that of a row at hand), `CopyKeeps` (the copy has every record the file has, as
the lock is held from the read to the save), `StopIsGiven` and `EndsOnce`. EndsOnceUnlessRaced, RecordsAreSent
and SavesKeepRecords follow.

*FleetUpdate.* `Order` says that rows are worked off one by one, that a tick is in progress only under a
controller of the target and on the first open row, and that the host's worker is alone with the journal;
`Numbered` that holds and acknowledgements are of this or older operations; `CompleteIsOver`, `AckIsRest` (an
acknowledgement of a hold that stands is of a bot at rest) and `OverIsReleased`. OneBotAtATime, ReleasesWhenComplete and
WorkSurvives follow. NoBotIsLeftBehind needs three facts more, two of which hold unless `loose`: `TargetStands` (once an operation is
committed, `current` and the controller are of the target, so what starts is of the target
too), `StoppedIsDown` (a bot its owner stopped is down, and no tick starts it) and `OverIsNew` (a
bot whose row is over, or about to be saved as over, is down or of the target). Only `TickEnd` completes an
operation, and it does so with every row over and no other bot affected. Without `loose` the property is false (CompleteMeansUpdated,
a finding): a behaviour of some forty steps, with or without a crash.

*PushOutbox.* `PostIsBound` (a delivery in flight has its row), `ArrivalsTell` (an arrival that nobody excuses was answered and is marked or
about to be) and `SecretsAge` (a secret that was refused is older than the one that is valid) give ArrivesOnce and RenewalsSurvive.

*BotDeletion.* `Locks` is what the steps under the lock rely on (a shutdown has its job, a purge a name that is in no roster but by
the seed roster, and a shutdown that is complete), `Days` that a job is due only when its day is over, `Agency` that unless one was `Lost` the one agent there may be is the
one in the run file, or, between its start and the write of that file, the one its starter holds, and that the
job of a deleted bot names it. TypeCorrect, PurgesAreSafe and OneAgentAtATime follow.

*Sends.* `LedgerIsOrdered` (a nonce has one record, and those after it are newer), `ThreadsAreBound`, `RecordsAreTold` (a record is of an
input its client was told of), `SentBefore` (a recipient a thread has done with has its chat), `ForgottenIsOld` (a nonce whose client was told
is in the ledger or has LEDGER_CAP newer ones) and `OneDispatcher` (of a nonce nothing excuses, either one thread
is dispatching and all that was sent is its, or nothing was sent, or one input to everyone). The step that matters is the
cut of a full ledger: what it drops is older than the LEDGER_CAP records that stay, whose nonces
differ, so the dropped nonce has that many newer ones. DispatchedOnce and AcceptedWasSent follow. The
model first counted records from the start, which excused nonces never recorded as well; the proof showed that too
weak, and `newer` now counts from a nonce's first record.

Every safety and action property the runs check is proved, two of them under a condition, as said above:
StartsWithinBudget without follow-ups (as in `crash`, the run that checks it) and OpenIsCarried without abandoned runs or without follow-ups (as
in `steer` and `crash`). Only model-checked are the liveness properties (EveryChatCloses, EveryMessageLeaves, EveryAnswerIsTaken,
EveryOneShotFires, EveryOccurrenceLeaves, EveryRowIsSettled, RollEnds, DeletionEnds), which rest on fairness and are beyond the prover.

## What is not modelled

- Of the modelled components: what a section above lists as left out, and the notes of PROJECT.json. In
  TurnLifecycle, /stop and takeover are a trip, and room handoffs and joined room turns are missing, as are edits of
  queued messages other than a removal.
- Human control, rooms, streams: no model yet; see the plan.
- Memory, history, compaction: transformation of text by one thread.
- Connectors, providers, channels, recipes, browser and computer use: clients of external programs, pure
  input and output. They are most of the lines of this repository.
- The server's routing and the user interface. Machines: container commands and a merge of files by time.
- Dreaming: a timer that enqueues background messages, which TurnLifecycle has as Works.
- Fetching, verifying and unpacking of releases.

## The plan

Done: the modules above, with proofs about all of them. What would add most, in this order:

1. The scheduler's generations and the guarded stream writer as a check and a write: nothing of an abandoned
   run is visible after its error, or the run that shows it is.
2. Rooms: joined inputs share a reply and settle with it.
3. Human control: takeover, stop and return as flags that running turns read.
4. Obligations in isolation: `record_send` against `settle`, and the drain rejection that settles for another chat.
5. Proofs: an abstract specification of a message (sent, answered once or closed
   otherwise) that TurnLifecycle implements, first with TLC, then with TLAPS.
