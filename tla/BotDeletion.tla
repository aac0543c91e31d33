---------------------------- MODULE BotDeletion ----------------------------
(***************************************************************************)
(* The life of one bot's name under the process backend: it is registered, *)
(* started, restarted, deleted, and a day later its files are purged unless *)
(* it was registered again.                                                *)
(*                                                                         *)
(* Everything of weight is done under the lifecycle lock of the name, by   *)
(* one operation at a time (op); a step is one durable write or one signal, *)
(* and the server can die between two.  What waits for the lock (pending)  *)
(* has read the roster before, in another state of the world.  Process     *)
(* numbers are taken again: by this bot's next agent or by a stranger.     *)
(***************************************************************************)
EXTENDS Integers, FiniteSets

CONSTANTS
    Pids,          \* process numbers
    NoPid,
    NoJob,
    Strangers,     \* processes that are no agent of this bot
    MaxAdds,       \* bounds: registrations, deletions, restarts asked for,
    MaxRemoves,
    MaxRestarts,
    MaxFaults      \* deaths of the server and writes that fail

VARIABLES
    saved,        \* the bot is in roster.json
    job,          \* deleted-bots/<bot>.json
    run,          \* the process number in run/<bot>.json
    data,         \* the bot's files and rows
    listed,       \* the bot is in the server's roster
    starting,     \* the creation that may start it, 0 for none
    restarting,   \* the restart that may run, 0 for none
    pending,      \* threads that do not hold the lock yet
    op,           \* the operation that holds it
    occ,          \* what runs under a process number
    met,          \* strangers that have come
    recent,       \* the last deletion is less than a day ago
    astray,       \* what went wrong with the bookkeeping
    count         \* of what is bounded

files  == <<saved, job, run, data>>
memory == <<listed, starting, restarting, pending>>
procs  == <<occ, met>>
ghosts == <<recent, astray>>

vars == <<files, memory, op, procs, ghosts, count>>

-----------------------------------------------------------------------------
(* Records.                                                                *)

Occupants == {"free", "agent"} \cup Strangers

\* pid and ident: the process of the run file and who it was, when the bot
\* was deleted; handle: the process that is yet to be stopped.
Jobs == [pid : Pids \cup {NoPid}, ident : Occupants, due : BOOLEAN,
         stopping : BOOLEAN, handle : Pids \cup {NoPid}, purging : BOOLEAN]

ASSUME DeletionAssumption ==
    /\ NoPid \notin Pids /\ NoJob \notin Jobs
    /\ Strangers \cap {"free", "agent"} = {}
    /\ MaxAdds \in Nat /\ MaxRemoves \in Nat
    /\ MaxRestarts \in Nat /\ MaxFaults \in Nat

Counts == [adds : 0..MaxAdds, removes : 0..MaxRemoves,
           restarts : 0..MaxRestarts, faults : 0..MaxFaults, seeds : 0..1]

Threads == [kind : {"up", "answer", "create", "start", "restart", "shutdown"},
            tok : Nat]

\* What is done with the lock held, and in which steps.
ShutdownSteps == {"check", "kill", "forget_pid", "verify", "clear"}
Steps == [none |-> {"idle"}, register |-> {"cancel"}, import |-> {"cancel"},
          create |-> {"spawn", "record"}, start |-> {"spawn", "record"},
          restart |-> {"stop", "forget_pid", "spawn", "record"},
          down |-> {"stop", "forget_pid"},
          remove |-> {"stopping", "persist"},
          shutdown |-> ShutdownSteps,
          sweep |-> ShutdownSteps \cup {"due", "purge", "purge_rest", "forget_job"}]

Kinds == DOMAIN Steps

Operations == {o \in [kind : Kinds, step : UNION {Steps[k] : k \in Kinds},
                      tok : Nat, pid : Pids \cup {NoPid}] :
                 o.step \in Steps[o.kind]}

NoOp == [kind |-> "none", step |-> "idle", tok |-> 0, pid |-> NoPid]

Occupant(p) == IF p = NoPid THEN "free" ELSE occ[p]

Agents == {p \in Pids : occ[p] = "agent"}

Fresh(pid) == [pid |-> pid, ident |-> Occupant(pid), due |-> FALSE,
               stopping |-> FALSE, handle |-> NoPid, purging |-> FALSE]

Thread(kind, tok) == [kind |-> kind, tok |-> tok]

Take(kind, step, tok) ==
    op' = [kind |-> kind, step |-> step, tok |-> tok, pid |-> NoPid]
At(step) == op.step = step
Go(step) == op' = [op EXCEPT !.step = step]
Unlock == op' = NoOp

Counted(c) == count' = [count EXCEPT ![c] = @ + 1]

-----------------------------------------------------------------------------
(* Registration: _register_bot under the lock, then what its caller starts. *)

\* Mutant: registration looks at the shutdown only.
CleanupPastStop == job # NoJob /\ job.stopping

\* cancel(check_only): a name that is being shut down or purged is refused.
CleanupInProgress == job # NoJob /\ (job.stopping \/ job.purging)

Register ==
    /\ op = NoOp /\ ~listed /\ ~CleanupInProgress /\ count.adds < MaxAdds
    /\ Take("register", "cancel", count.adds + 1)
    /\ saved' = TRUE /\ listed' = TRUE
    /\ Counted("adds")
    /\ UNCHANGED <<job, run, data, starting, restarting, pending, procs, ghosts>>

\* The roster cannot be saved: the entry stays in memory, for the next save.
RegisterFails ==
    /\ op = NoOp /\ ~listed /\ ~CleanupInProgress
    /\ count.adds < MaxAdds /\ count.faults < MaxFaults
    /\ listed' = TRUE
    /\ astray' = astray \cup {"unsaved"}
    /\ count' = [count EXCEPT !.adds = @ + 1, !.faults = @ + 1]
    /\ UNCHANGED <<files, starting, restarting, pending, op, procs, recent>>

\* harness import registers in a process of its own, from the file: the
\* server's roster knows nothing of it.
Import ==
    /\ op = NoOp /\ ~saved /\ ~CleanupInProgress /\ count.adds < MaxAdds
    /\ Take("import", "cancel", count.adds + 1)
    /\ saved' = TRUE
    /\ Counted("adds")
    /\ UNCHANGED <<job, run, data, memory, procs, ghosts>>

\* _backfill_seed_bots: a server that boots or a command appends a bot of the
\* seed roster to the file, once, with neither the lock nor a look at its job.
Backfill ==
    /\ ~saved /\ count.seeds < 1
    /\ saved' = TRUE
    /\ astray' = IF job # NoJob THEN astray \cup {"seeded"} ELSE astray
    /\ Counted("seeds")
    /\ UNCHANGED <<job, run, data, memory, op, procs, recent>>

\* The server saves its roster for another bot, and what it does not know is
\* dropped from the file.
SaveRoster ==
    /\ saved # listed /\ saved' = listed
    /\ astray' = IF saved THEN astray \cup {"dropped"} ELSE astray
    /\ UNCHANGED <<job, run, data, memory, op, procs, recent, count>>

\* The caller starts the bot on a worker (the create request), by itself
\* (a copy, a recipe), or not at all.
CancelJob ==
    /\ At("cancel")
    /\ job' = NoJob /\ data' = "kept"
    /\ \E more \in {{}, {Thread("answer", op.tok)}, {Thread("start", op.tok)}} :
         /\ op.kind = "import" => more = {}
         /\ pending' = pending \cup more
    /\ Unlock
    /\ UNCHANGED <<saved, run, listed, starting, restarting, procs, ghosts, count>>

\* start_created_bot, before its worker has the lock.
StartCreated(t) ==
    /\ t \in pending /\ t.kind = "answer"
    /\ IF listed
         THEN /\ starting' = t.tok
              /\ pending' = (pending \ {t}) \cup {Thread("create", t.tok)}
         ELSE pending' = pending \ {t} /\ UNCHANGED starting
    /\ UNCHANGED <<files, listed, restarting, op, procs, ghosts, count>>

\* The worker's question: is this creation still wanted?
StillWanted(tok) == starting = tok /\ listed

CreateWorker(t) ==
    /\ t \in pending /\ t.kind = "create" /\ op = NoOp
    /\ pending' = pending \ {t}
    /\ IF StillWanted(t.tok)
         THEN Take("create", "spawn", t.tok) /\ UNCHANGED starting
         ELSE /\ starting' = IF starting = t.tok THEN 0 ELSE starting
              /\ UNCHANGED op
    /\ UNCHANGED <<files, listed, restarting, procs, ghosts, count>>

\* Bring-up reads the roster, and then waits for the lock.
BringUp(t) ==
    /\ t \in pending /\ t.kind = "up"
    /\ pending' = (pending \ {t}) \cup
                    (IF listed THEN {Thread("start", 0)} ELSE {})
    /\ UNCHANGED <<files, listed, starting, restarting, op, procs, ghosts, count>>

\* _start_bot: the roster is not asked again.
StartBot(t) ==
    /\ t \in pending /\ t.kind = "start" /\ op = NoOp
    /\ pending' = pending \ {t}
    /\ Take("start", "spawn", 0)
    /\ UNCHANGED <<files, listed, starting, restarting, procs, ghosts, count>>

-----------------------------------------------------------------------------
(* Restart, and harness down.                                              *)

\* One that is under way is joined.
AskRestart ==
    /\ listed /\ restarting = 0 /\ count.restarts < MaxRestarts
    /\ restarting' = count.restarts + 1
    /\ pending' = pending \cup {Thread("restart", count.restarts + 1)}
    /\ Counted("restarts")
    /\ UNCHANGED <<files, listed, starting, op, procs, ghosts>>

RestartWorker(t) ==
    /\ t \in pending /\ t.kind = "restart" /\ op = NoOp
    /\ pending' = pending \ {t}
    /\ IF restarting = t.tok /\ listed
         THEN /\ Take("restart", IF run = NoPid THEN "spawn" ELSE "stop", t.tok)
              /\ starting' = 0 /\ UNCHANGED restarting
         ELSE /\ restarting' = IF restarting = t.tok THEN 0 ELSE restarting
              /\ UNCHANGED <<op, starting>>
    /\ UNCHANGED <<files, listed, procs, ghosts, count>>

\* _stop_bot, in a process of its own that read the roster at some time.
Down ==
    /\ op = NoOp /\ run # NoPid /\ count.restarts < MaxRestarts
    /\ Take("down", "stop", 0)
    /\ Counted("restarts")
    /\ UNCHANGED <<files, memory, procs, ghosts>>

\* ProcessBackend.stop: the number in the run file is signalled, whoever has
\* it, until nobody does; then the run file goes.
StopAgent ==
    /\ At("stop")
    /\ occ' = [occ EXCEPT ![run] = "free"]
    /\ Go("forget_pid")
    /\ UNCHANGED <<files, memory, met, ghosts, count>>

\* Mutant: what is stopped is started again, harness down or not.
ForgetAndSpawn ==
    /\ op.kind \in {"restart", "down"} /\ At("forget_pid")
    /\ run' = NoPid
    /\ Go("spawn")
    /\ UNCHANGED <<saved, job, data, memory, procs, ghosts, count>>

ForgetPid ==
    /\ op.kind \in {"restart", "down"} /\ At("forget_pid")
    /\ run' = NoPid
    /\ IF op.kind = "restart" THEN Go("spawn") ELSE Unlock
    /\ UNCHANGED <<saved, job, data, memory, procs, ghosts, count>>

-----------------------------------------------------------------------------
(* ProcessBackend.spawn, which ends a start, a creation or a restart.      *)

EndStart ==
    /\ starting' = IF op.kind = "create" /\ starting = op.tok THEN 0 ELSE starting
    /\ restarting' = IF op.kind = "restart" /\ restarting = op.tok
                       THEN 0 ELSE restarting
    /\ Unlock
    /\ UNCHANGED <<listed, pending>>

\* Mutant: a start does not look for an agent that is running.
NobodyRuns == FALSE

\* Someone alive under the recorded number passes for the agent.
Runs == Occupant(run) # "free"

Adopt ==
    /\ At("spawn") /\ Runs
    /\ EndStart
    /\ UNCHANGED <<files, procs, ghosts, count>>

Spawn(p) ==
    /\ At("spawn") /\ ~Runs
    /\ occ[p] = "free"
    /\ occ' = [occ EXCEPT ![p] = "agent"]
    /\ op' = [op EXCEPT !.step = "record", !.pid = p]
    /\ astray' = IF op.kind = "start" /\ ~saved
                   THEN astray \cup {"revived"} ELSE astray
    /\ UNCHANGED <<files, memory, met, recent, count>>

\* There is no process number left for Popen.
SpawnRefused ==
    /\ At("spawn") /\ ~Runs /\ \A p \in Pids : occ[p] # "free"
    /\ EndStart
    /\ UNCHANGED <<files, procs, ghosts, count>>

Record ==
    /\ At("record")
    /\ run' = op.pid
    /\ EndStart
    /\ UNCHANGED <<saved, job, data, procs, ghosts, count>>

\* The run file cannot be written: the agent lives on without one.
RecordFails ==
    /\ At("record") /\ count.faults < MaxFaults
    /\ EndStart
    /\ astray' = astray \cup {"untracked"}
    /\ Counted("faults")
    /\ UNCHANGED <<files, procs, recent>>

-----------------------------------------------------------------------------
(* Deletion: remove_bot.                                                   *)

\* schedule: a job that is there is taken as it is.
Remove ==
    /\ op = NoOp /\ listed /\ count.removes < MaxRemoves
    /\ Take("remove", "stopping", count.removes + 1)
    /\ starting' = 0 /\ restarting' = 0
    /\ job' = IF job = NoJob THEN Fresh(run) ELSE job
    /\ astray' = IF job = NoJob THEN astray ELSE astray \cup {"reused"}
    /\ Counted("removes")
    /\ UNCHANGED <<saved, run, data, listed, pending, procs, recent>>

NoteStopping ==
    /\ op.kind = "remove" /\ At("stopping")
    /\ job' = [job EXCEPT !.stopping = TRUE, !.handle = run]
    /\ Go("persist")
    /\ UNCHANGED <<saved, run, data, memory, procs, ghosts, count>>

Unlist ==
    /\ op.kind = "remove" /\ At("persist")
    /\ saved' = FALSE /\ listed' = FALSE /\ recent' = TRUE
    /\ pending' = pending \cup {Thread("shutdown", op.tok)}
    /\ Unlock
    /\ UNCHANGED <<job, run, data, starting, restarting, procs, astray, count>>

\* The job or the roster cannot be saved: the roster is read again, the job is
\* taken back.
UnlistFails ==
    /\ op.kind = "remove" /\ count.faults < MaxFaults
    /\ listed' = saved
    /\ job' = IF saved THEN NoJob ELSE job
    /\ Unlock
    /\ Counted("faults")
    /\ UNCHANGED <<saved, run, data, starting, restarting, pending, procs, ghosts>>

-----------------------------------------------------------------------------
(* Shutdown and purge: the thread of the deletion, and the sweeper.        *)

ShutdownThread(t) ==
    /\ t \in pending /\ t.kind = "shutdown" /\ op = NoOp
    /\ pending' = pending \ {t}
    /\ IF job # NoJob /\ ~saved /\ job.stopping
         THEN Take("shutdown", "check", 0)
         ELSE UNCHANGED op
    /\ UNCHANGED <<files, listed, starting, restarting, procs, ghosts, count>>

\* Mutant: the sweeper leaves a shutdown that was cut short alone.
GoneAndStopped == job # NoJob /\ ~listed /\ ~saved /\ ~job.stopping

\* The sweeper's question: is the bot of this job really gone?
Gone == job # NoJob /\ ~listed /\ ~saved

Sweep ==
    /\ op = NoOp /\ Gone
    /\ Take("sweep", IF job.stopping THEN "check" ELSE "due", 0)
    /\ UNCHANGED <<files, memory, procs, ghosts, count>>

\* Who has the process number now?  One whose identity the job cannot tell
\* defers the shutdown, another's is left alone.
CheckIdentity ==
    /\ At("check")
    /\ LET who == Occupant(job.handle)
       IN IF job.handle = NoPid \/ (who # "free" /\ job.ident \notin {"free", who})
            THEN Go("clear")
          ELSE IF who # "free" /\ job.ident = "free" THEN Unlock
          ELSE Go("kill")
    /\ UNCHANGED <<files, memory, procs, ghosts, count>>

Kill ==
    /\ At("kill")
    /\ occ' = [occ EXCEPT ![job.handle] = "free"]
    /\ Go("forget_pid")
    /\ UNCHANGED <<files, memory, met, ghosts, count>>

ForgetDeletedPid ==
    /\ op.kind \in {"shutdown", "sweep"} /\ At("forget_pid")
    /\ run' = NoPid
    /\ Go("verify")
    /\ UNCHANGED <<saved, job, data, memory, procs, ghosts, count>>

VerifyStopped ==
    /\ At("verify")
    /\ IF occ[job.handle] = "free" THEN Go("clear") ELSE Unlock
    /\ UNCHANGED <<files, memory, procs, ghosts, count>>

ClearStopping ==
    /\ At("clear")
    /\ job' = [job EXCEPT !.stopping = FALSE, !.handle = NoPid]
    /\ IF op.kind = "sweep" THEN Go("due") ELSE Unlock
    /\ UNCHANGED <<saved, run, data, memory, procs, ghosts, count>>

\* Mutant: whoever has the number of the agent passes for it.
MayRunUnderNumber == Occupant(job.pid) # "free"

\* Does the agent of the deletion still run, as far as the job can tell?
MayStillRun == /\ Occupant(job.pid) # "free"
               /\ job.ident \in {"free", Occupant(job.pid)}

MarkPurging ==
    /\ At("due")
    /\ IF job.due /\ ~MayStillRun
         THEN job' = [job EXCEPT !.purging = TRUE] /\ Go("purge")
         ELSE Unlock /\ UNCHANGED job
    /\ UNCHANGED <<saved, run, data, memory, procs, ghosts, count>>

PurgeSome ==
    /\ At("purge")
    /\ data' = "partial"
    /\ Go("purge_rest")
    /\ UNCHANGED <<saved, job, run, memory, procs, ghosts, count>>

PurgeRest ==
    /\ At("purge_rest")
    /\ data' = "gone" /\ run' = NoPid
    /\ Go("forget_job")
    /\ UNCHANGED <<saved, job, memory, procs, ghosts, count>>

ForgetJob ==
    /\ At("forget_job")
    /\ job' = NoJob
    /\ Unlock
    /\ UNCHANGED <<saved, run, data, memory, procs, ghosts, count>>

-----------------------------------------------------------------------------
(* The server dies, processes come and go, a day passes.                   *)

\* The lock is held by a command in a process of its own.
Apart == op.kind \in {"import", "down"}

\* Agents live on; the next server reads the roster and brings bots up.
Crash ==
    /\ count.faults < MaxFaults
    /\ listed' = saved /\ starting' = 0 /\ restarting' = 0
    /\ pending' = {Thread("up", 0)}
    /\ IF Apart THEN UNCHANGED op ELSE Unlock
    /\ astray' = IF At("record") THEN astray \cup {"orphaned"} ELSE astray
    /\ Counted("faults")
    /\ UNCHANGED <<files, procs, recent>>

\* A step of an operation raises, or the command dies: the lock is free again
\* and what was written stays.
StepFails ==
    /\ op.kind \notin {"none", "remove"} /\ ~At("record") /\ count.faults < MaxFaults
    /\ EndStart
    /\ Counted("faults")
    /\ UNCHANGED <<files, procs, ghosts>>

Exit(p) ==
    /\ occ[p] # "free"
    /\ occ' = [occ EXCEPT ![p] = "free"]
    /\ UNCHANGED <<files, memory, op, met, ghosts, count>>

\* The system gives a stranger the number of a process that is gone.
Come(s, p) ==
    /\ s \notin met /\ occ[p] = "free"
    /\ met' = met \cup {s}
    /\ occ' = [occ EXCEPT ![p] = s]
    /\ UNCHANGED <<files, memory, op, ghosts, count>>

Day ==
    /\ op.kind # "remove"
    /\ recent \/ (job # NoJob /\ ~job.due)
    /\ recent' = FALSE
    /\ job' = IF job = NoJob THEN job ELSE [job EXCEPT !.due = TRUE]
    /\ UNCHANGED <<saved, run, data, memory, op, procs, astray, count>>

-----------------------------------------------------------------------------
(* Specification.                                                          *)

Init ==
    /\ saved = FALSE /\ job = NoJob /\ run = NoPid /\ data = "gone"
    /\ listed = FALSE /\ starting = 0 /\ restarting = 0 /\ pending = {}
    /\ op = NoOp
    /\ occ = [p \in Pids |-> "free"] /\ met = {}
    /\ recent = FALSE /\ astray = {}
    /\ count = [adds |-> 0, removes |-> 0, restarts |-> 0, faults |-> 0,
                seeds |-> 0]

\* A thread gets on: it takes the lock, or finds that it need not.
Threading == \E t \in pending :
    \/ StartCreated(t) \/ CreateWorker(t) \/ BringUp(t) \/ StartBot(t)
    \/ RestartWorker(t) \/ ShutdownThread(t)

Starting == \/ StopAgent \/ ForgetPid \/ Adopt \/ SpawnRefused \/ Record
            \/ \E p \in Pids : Spawn(p)

Deleting == \/ NoteStopping \/ Unlist
            \/ CheckIdentity \/ Kill \/ ForgetDeletedPid \/ VerifyStopped
            \/ ClearStopping \/ MarkPurging
            \/ PurgeSome \/ PurgeRest \/ ForgetJob

\* The holder of the lock gets on.
Holding == CancelJob \/ Starting \/ Deleting

Requests == Register \/ Import \/ Backfill \/ SaveRoster \/ AskRestart \/ Down \/ Remove

Faults == RegisterFails \/ RecordFails \/ UnlistFails \/ StepFails \/ Crash

World == \/ \E p \in Pids : Exit(p)
         \/ \E s \in Strangers, p \in Pids : Come(s, p)
         \/ Day

Next == Requests \/ Threading \/ Holding \/ Sweep \/ Faults \/ World

Spec == Init /\ [][Next]_vars

\* Threads of the server run, the sweeper comes every minute, time passes.
FairSpec == /\ Spec
            /\ WF_vars(Holding) /\ WF_vars(Threading)
            /\ WF_vars(Sweep) /\ WF_vars(Day)

-----------------------------------------------------------------------------
(* Properties.                                                             *)

TypeOK ==
    /\ saved \in BOOLEAN /\ listed \in BOOLEAN /\ recent \in BOOLEAN
    /\ job \in Jobs \cup {NoJob}
    /\ run \in Pids \cup {NoPid}
    /\ data \in {"kept", "partial", "gone"}
    /\ starting \in Nat /\ restarting \in Nat
    /\ pending \subseteq Threads
    /\ op \in Operations
    /\ occ \in [Pids -> Occupants] /\ met \subseteq Strangers
    /\ astray \subseteq {"reused", "revived", "orphaned", "untracked", "dropped", "unsaved", "seeded"}
    /\ count \in Counts

\* The ways in which an agent comes to run that neither the run file nor the job
\* of its deletion names: the server died, or the run file could not be written,
\* after Popen (orphaned, untracked); a start that had waited revived a deleted
\* bot; the roster lost a bot that was imported, or was not saved (dropped,
\* unsaved); a deletion took the job of one cut short (reused).
Lost == astray \ {"seeded"}

\* Files are purged only of a bot that the server's roster does not have and
\* whose shutdown is complete, a day after it was deleted, unless that deletion
\* took the job of another, whose day it was; and no agent of it runs, unless
\* one was lost in a way named above (bot_cleanup.sweep).  Neither during the
\* purge nor with the files half gone, the purge having been cut short, is the
\* name in a roster (bot_cleanup.cancel), unless the seed roster gave it back.
Purging == At("purge") \/ At("purge_rest") \/ At("forget_job")
PurgeIsSafe ==
    /\ Purging => /\ ~listed /\ job # NoJob /\ ~job.stopping
                  /\ recent => "reused" \in astray
                  /\ Agents # {} => Lost # {}
    /\ Purging \/ data = "partial" => (~listed /\ ~saved) \/ "seeded" \in astray

\* One agent at a time answers for the bot, whoever starts, restarts,
\* deletes and registers it at once, unless one was lost in a way named above.
OneAgent == Cardinality(Agents) <= 1 \/ Lost # {}

\* A deletion gets to its purge, or the name comes back to a roster, through
\* deaths of the server and steps that fail, unless a process has the number of
\* its agent for good and cannot be told from it: the job knows no identity, or
\* has that very one (bot_cleanup._shutdown_locked, sweep).
Withheld == \E p \in {job.pid, job.handle} :
                 Occupant(p) # "free" /\ job.ident \in {"free", Occupant(p)}
DeletionEnds ==
    \/ <>[](job # NoJob /\ Withheld)
    \/ job # NoJob /\ ~saved ~> (job = NoJob \/ saved \/ listed)

\* Promised and broken, see the README.  A thread that waited for the lock
\* starts no bot that was deleted meanwhile (_start_bot).
DeletedStaysDown == "revived" \notin astray

\* A deletion is followed by a day in which the files are kept.
DayOfGrace == At("purge") => ~recent

\* The shutdown of a deleted bot signals no process but the bot's agent.
StrangersAreSpared ==
    [][Kill => \A p \in Pids : occ[p] \in Strangers => occ'[p] = occ[p]]_vars
=============================================================================
