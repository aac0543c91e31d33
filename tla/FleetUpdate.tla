---------------------------- MODULE FleetUpdate ----------------------------
(***************************************************************************)
(* An update of the fleet to one target release: the operation journal, the *)
(* host's worker that installs the controller, the controller's tick that   *)
(* restarts one bot at a time, and the bots' processes, which acknowledge a *)
(* hold where they would take their next message.                          *)
(*                                                                         *)
(* Each save of the journal and each write of a hold is a step of its own,  *)
(* so that the controller, the host's worker or a bot can die in between.   *)
(* The rows of the journal keep the order of the bots' numbers.            *)
(***************************************************************************)
EXTENDS Integers, FiniteSets

CONSTANTS
    NumBots,     \* bots of the roster
    Declared,    \* the release declares its compatibility: it can be undone
    Container,   \* the controller runs in a container, under a supervisor that
                 \* is asked by a file to restart it
    MaxOps,      \* bound: operations begun
    MaxCrashes   \* bound: crashes of the controller, the host's worker, a bot

Bots == 1..NumBots

ASSUME FleetAssumption ==
    /\ NumBots \in Nat \ {0}
    /\ Declared \in BOOLEAN
    /\ Container \in BOOLEAN
    /\ MaxOps \in Nat \ {0}
    /\ MaxCrashes \in Nat

VARIABLES
    op,       \* update-operation.json
    cur,      \* the release that current links to
    ctl,      \* the controller's version, and where its tick stands
    host,     \* where the host's worker stands, and the journal it read
    hold,     \* per bot: the operation of its hold file, 0 for none
    ack,      \* per bot: the hold in a fresh acknowledgement of its process
    bot,      \* per bot: its process
    crashes,
    loose,    \* a roll was begun while current linked to the old release
    reload    \* controller-reload: written, and not read by the supervisor

vars == <<op, cur, ctl, host, hold, ack, bot, crashes, loose, reload>>

-----------------------------------------------------------------------------
(* Records.                                                                *)

Versions == {"old", "new"}
NoAck    == 0 - 1

OpStages  == {"idle", "preparing", "installing", "rolling", "recovering",
              "needs_attention", "complete"}
RowStages == {"none", "pending", "waiting", "saving_state", "restarting",
              "checking_health", "recovering", "complete", "stopped",
              "needs_attention"}
TERMINAL  == {"idle", "complete"}
Settled   == {"none", "complete", "stopped"}

OpRecords   == [id : 0..MaxOps, stage : OpStages,
                error : {"none", "paused", "host"}, row : [Bots -> RowStages]]
CtlRecords  == [ver : Versions \cup {"down"},
                pc : {"idle", "decide", "restart", "kill", "spawn", "fail",
                      "restore", "respawn", "save"},
                on : {0} \cup Bots, to : RowStages]
HostRecords == [pc : {"idle", "prepare", "flip", "restart", "wait", "back",
                      "back_restart", "back_wait", "pins"},
                op : OpRecords]
BotRecords  == [up : BOOLEAN, stopped : BOOLEAN, ver : Versions,
                phase : {"idle", "turn"}, zombie : BOOLEAN]

NoRows  == [b \in Bots |-> "none"]
NoOp    == [id |-> 0, stage |-> "idle", error |-> "none", row |-> NoRows]
NoHost  == [pc |-> "idle", op |-> NoOp]
Idle(v) == [ver |-> v, pc |-> "idle", on |-> 0, to |-> "none"]

Running(b) == bot[b].up

\* affected: the running bots the target does not cover already.
Affected == {b \in Bots : Running(b) /\ bot[b].ver # "new"}

\* ready: a fresh acknowledgement of this hold by this process.
Ready(b) == Running(b) /\ ack[b] = op.id

\* Mutant: a row that waits for its proof lets the next one go.
FirstUnstarted(b) ==
    /\ op.row[b] \notin Settled
    /\ \A c \in Bots :
         c < b => op.row[c] \in Settled \cup {"checking_health"}

\* The first row that is not settled.
First(b) == /\ op.row[b] \notin Settled
            /\ \A c \in Bots : c < b => op.row[c] \in Settled

\* tick: an operation in progress, under a controller of the target release.
Ticking == /\ ctl.ver = "new" /\ ctl.pc = "idle"
           /\ op.stage \in {"rolling", "recovering"}

-----------------------------------------------------------------------------
(* Operations begun and retried.                                           *)

\* A roll begins.
Rolled == loose' = (loose \/ cur = "old")

NewOp(stage, error) ==
    [id |-> op.id + 1, stage |-> stage, error |-> error,
     row |-> [b \in Bots |-> IF b \in Affected THEN "pending" ELSE "none"]]

\* update_api.start: the owner accepts a release the controller does not run.
Start ==
    /\ ctl.ver = "old" /\ op.stage \in TERMINAL /\ op.id < MaxOps
    /\ op' = NewOp("preparing", "none")
    /\ UNCHANGED <<cur, ctl, host, hold, ack, bot, crashes, loose, reload>>

\* updates.begin: the controller runs the release, bots are behind.
Begin ==
    /\ ctl.ver = "new" /\ ctl.pc = "idle"
    /\ op.stage \in TERMINAL /\ Affected # {} /\ op.id < MaxOps
    /\ op' = NewOp("rolling", "none")
    /\ Rolled
    /\ UNCHANGED <<cur, ctl, host, hold, ack, bot, crashes, reload>>

\* Mutant: a retried row is given a stage that the tick does not know.
RetriedBlank(b) ==
    IF op.row[b] # "needs_attention" THEN op.row[b] ELSE ""

\* What a retry makes of a row that failed.
Retried(b) ==
    IF op.row[b] # "needs_attention" THEN op.row[b]
    ELSE IF b \in Affected THEN "waiting" ELSE "checking_health"

Retry ==
    /\ ctl.pc = "idle" /\ op.stage = "needs_attention"
    /\ \/ /\ ctl.ver = "old"
          /\ op' = [op EXCEPT !.stage = "preparing", !.error = "none"]
          /\ UNCHANGED loose
       \/ /\ ctl.ver = "new"
          /\ op' = [op EXCEPT !.stage = "rolling", !.error = "none",
                             !.row = [b \in Bots |-> Retried(b)]]
          /\ Rolled
    /\ UNCHANGED <<cur, ctl, host, hold, ack, bot, crashes, reload>>

-----------------------------------------------------------------------------
(* The controller's tick, which holds the operation and lifecycle locks.   *)

At(pc, b, to) == ctl' = [ctl EXCEPT !.pc = pc, !.on = b, !.to = to]
Free == ctl' = Idle(ctl.ver)

SetRow(b, stage) == op' = [op EXCEPT !.row[b] = stage]

\* Mutant: the hold of a bot found stopped is kept.
ReleaseUpdated(b, to) ==
    /\ hold' = [hold EXCEPT ![b] = IF to = "complete" THEN 0 ELSE @]
    /\ At("save", b, to)

\* release_hold, of this operation's hold only; the row is saved after.
Release(b, to) ==
    /\ hold' = [hold EXCEPT ![b] = IF @ = op.id THEN 0 ELSE @]
    /\ At("save", b, to)

\* A bot the owner stopped, or that is found dead before its restart.
TickStopped(b) ==
    /\ Ticking /\ First(b)
    /\ \/ bot[b].stopped
       \/ ~Running(b) /\ op.row[b] \in {"pending", "waiting", "needs_attention"}
    /\ Release(b, "stopped")
    /\ UNCHANGED <<op, cur, host, ack, bot, crashes, loose, reload>>

\* Mutant: a tick that died before it killed anything is not taken up.
TickVerifyRestart(b) ==
    /\ Ticking /\ First(b) /\ ~bot[b].stopped
    /\ op.row[b] = "restarting"
    /\ SetRow(b, "checking_health")
    /\ UNCHANGED <<cur, ctl, host, hold, ack, bot, crashes, loose, reload>>

\* An interrupted step has an uncertain outcome: it is verified.
TickVerify(b) ==
    /\ Ticking /\ First(b) /\ ~bot[b].stopped
    /\ op.row[b] \in {"saving_state", "restarting"}
    /\ SetRow(b, "checking_health")
    /\ UNCHANGED <<cur, ctl, host, hold, ack, bot, crashes, loose, reload>>

TickConfirmed(b) ==
    /\ Ticking /\ First(b) /\ ~bot[b].stopped
    /\ op.row[b] = "checking_health"
    /\ Ready(b) /\ bot[b].ver = "new"
    /\ Release(b, "complete")
    /\ UNCHANGED <<op, cur, host, ack, bot, crashes, loose, reload>>

\* No proof in time, or the backend finds it unhealthy.
TickTimeout(b) ==
    /\ Ticking /\ First(b) /\ ~bot[b].stopped
    /\ op.row[b] = "checking_health"
    /\ At("fail", b, "needs_attention")
    /\ UNCHANGED <<op, cur, host, hold, ack, bot, crashes, loose, reload>>

TickRestored(b) ==
    /\ Ticking /\ First(b) /\ ~bot[b].stopped
    /\ op.row[b] = "recovering"
    /\ \/ /\ Ready(b) /\ bot[b].ver = "old"
          /\ Release(b, "needs_attention")
       \/ At("save", b, "needs_attention") /\ UNCHANGED hold
    /\ UNCHANGED <<op, cur, host, ack, bot, crashes, loose, reload>>

\* The hold is set under the queue's lock, which the tick keeps to its end.
TickHold(b) ==
    /\ Ticking /\ First(b) /\ ~bot[b].stopped /\ Running(b)
    /\ op.row[b] \in {"pending", "waiting", "needs_attention"}
    /\ hold' = [hold EXCEPT ![b] = op.id]
    /\ At("decide", b, "none")
    /\ UNCHANGED <<op, cur, host, ack, bot, crashes, loose, reload>>

\* Mutant: no acknowledgement is asked for.
QuietUnproved(b) == bot[b].phase # "turn"

\* Not busy, and a proof that the process has seen the hold.
Quiet(b) == bot[b].phase # "turn" /\ Ready(b)

TickDecide ==
    /\ ctl.pc = "decide"
    /\ Quiet(ctl.on)
    /\ SetRow(ctl.on, "saving_state")
    /\ At("restart", ctl.on, "none")
    /\ UNCHANGED <<cur, host, hold, ack, bot, crashes, loose, reload>>

\* For its turn, for its proof, or because a human has control of the bot or
\* teaches it, or an approval is open.
TickWait ==
    /\ ctl.pc = "decide"
    /\ SetRow(ctl.on, "waiting")
    /\ Free
    /\ UNCHANGED <<cur, host, hold, ack, bot, crashes, loose, reload>>

TickRestart ==
    /\ ctl.pc = "restart"
    /\ SetRow(ctl.on, "restarting")
    /\ At("kill", ctl.on, "none")
    /\ UNCHANGED <<cur, host, hold, ack, bot, crashes, loose, reload>>

Stop(b)     == [bot[b] EXCEPT !.up = FALSE, !.phase = "idle", !.zombie = FALSE]
Spawn(b, v) == [bot[b] EXCEPT !.up = TRUE, !.ver = v, !.phase = "idle",
                              !.zombie = FALSE]

TickKill ==
    /\ ctl.pc = "kill"
    /\ bot' = [bot EXCEPT ![ctl.on] = Stop(ctl.on)]
    /\ ack' = [ack EXCEPT ![ctl.on] = NoAck]
    /\ At("spawn", ctl.on, "none")
    /\ UNCHANGED <<op, cur, host, hold, crashes, loose, reload>>

TickSpawn ==
    /\ ctl.pc = "spawn"
    /\ bot' = [bot EXCEPT ![ctl.on] = Spawn(ctl.on, "new")]
    /\ At("save", ctl.on, "checking_health")
    /\ UNCHANGED <<op, cur, host, hold, ack, crashes, loose, reload>>

\* The snapshot, the stop or the start of the bot's machine raises.
TickRaises ==
    /\ ctl.pc \in {"kill", "spawn"}
    /\ At("fail", ctl.on, "needs_attention")
    /\ UNCHANGED <<op, cur, host, hold, ack, bot, crashes, loose, reload>>

\* restore_agent, after the tick has let go of the bot's locks: only for a bot
\* that acknowledged the hold and is not busy.  One that was not replaced is
\* restored as it is; a previous release that is missing, a human in control
\* or an error on the way leave the bot to its owner.
TickFail ==
    /\ ctl.pc = "fail"
    /\ LET b == ctl.on
       IN  \/ /\ Declared /\ Ready(b) /\ bot[b].phase # "turn"
              /\ IF bot[b].ver = "old" THEN At("save", b, "recovering")
                                       ELSE At("restore", b, "none")
           \/ At("save", b, "needs_attention")
    /\ UNCHANGED <<op, cur, host, hold, ack, bot, crashes, loose, reload>>

\* The stop of restore_agent, which does not take the queue's lock.
TickRestore ==
    /\ ctl.pc = "restore"
    /\ \/ /\ bot' = [bot EXCEPT ![ctl.on] = Stop(ctl.on)]
          /\ ack' = [ack EXCEPT ![ctl.on] = NoAck]
          /\ At("respawn", ctl.on, "none")
       \/ At("save", ctl.on, "needs_attention") /\ UNCHANGED <<bot, ack>>
    /\ UNCHANGED <<op, cur, host, hold, crashes, loose, reload>>

\* Its start of the previous release, which may leave the bot down.
TickRespawn ==
    /\ ctl.pc = "respawn"
    /\ \/ /\ bot' = [bot EXCEPT ![ctl.on] = Spawn(ctl.on, "old")]
          /\ At("save", ctl.on, "recovering")
       \/ At("save", ctl.on, "needs_attention") /\ UNCHANGED bot
    /\ UNCHANGED <<op, cur, host, hold, ack, crashes, loose, reload>>

\* _save at the end of a tick.
TickSave ==
    /\ ctl.pc = "save"
    /\ op' = [op EXCEPT
                !.row[ctl.on] = ctl.to,
                !.stage = IF ctl.to \in {"needs_attention", "recovering"}
                            THEN ctl.to ELSE @,
                !.error = IF ctl.to \in {"needs_attention", "recovering"}
                            THEN "paused" ELSE @]
    /\ Free
    /\ UNCHANGED <<cur, host, hold, ack, bot, crashes, loose, reload>>

\* Mutant: nobody looks for bots added since.
TickEndBlind ==
    /\ Ticking /\ \A b \in Bots : op.row[b] \in Settled
    /\ op' = [op EXCEPT !.stage = "complete"]
    /\ UNCHANGED <<cur, ctl, host, hold, ack, bot, crashes, loose, reload>>

\* All rows settled: bots added since join, or the operation is complete.
TickEnd ==
    /\ Ticking /\ \A b \in Bots : op.row[b] \in Settled
    /\ LET more == {b \in Affected : op.row[b] = "none"}
       IN  op' = IF more = {} THEN [op EXCEPT !.stage = "complete"]
                 ELSE [op EXCEPT !.row = [b \in Bots |->
                          IF b \in more THEN "pending" ELSE @[b]]]
    /\ UNCHANGED <<cur, ctl, host, hold, ack, bot, crashes, loose, reload>>

-----------------------------------------------------------------------------
(* The host's worker: apply.  It saves the journal it read when it began.  *)

HostAt(pc) == host' = [host EXCEPT !.pc = pc]
HostDone   == host' = NoHost
HostSave(stage, error) ==
    op' = [host.op EXCEPT !.stage = stage, !.error = error]

HostPrepare ==
    /\ host.pc = "idle" /\ op.stage = "preparing"
    /\ host' = [pc |-> "prepare", op |-> op]
    /\ UNCHANGED <<op, cur, ctl, hold, ack, bot, crashes, loose, reload>>

\* An activation that was interrupted counts if the controller answers.
HostRecover ==
    /\ host.pc = "idle" /\ op.stage = "installing"
    /\ \/ /\ ctl.ver = "new"
          /\ op' = [op EXCEPT !.stage = "rolling"]
          /\ Rolled
       \/ /\ op' = [op EXCEPT !.stage = "needs_attention", !.error = "host"]
          /\ UNCHANGED loose
    /\ UNCHANGED <<cur, ctl, host, hold, ack, bot, crashes, reload>>

\* The artifact is refused, or is the current release already.
HostRefuse ==
    /\ host.pc = "prepare"
    /\ HostSave("needs_attention", "host") /\ HostDone
    /\ UNCHANGED <<cur, ctl, hold, ack, bot, crashes, loose, reload>>

HostInstall ==
    /\ host.pc = "prepare" /\ cur = "old"
    /\ HostSave("installing", host.op.error) /\ HostAt("flip")
    /\ UNCHANGED <<cur, ctl, hold, ack, bot, crashes, loose, reload>>

HostFlip ==
    /\ \/ host.pc = "flip" /\ cur' = "new" /\ HostAt("restart")
       \/ host.pc = "back" /\ cur' = "old" /\ HostAt("back_restart")
    /\ UNCHANGED <<op, ctl, hold, ack, bot, crashes, loose, reload>>

\* The service is restarted, or its supervisor is asked to.
HostRestart ==
    /\ \/ host.pc = "restart" /\ HostAt("wait")
       \/ host.pc = "back_restart" /\ HostAt("back_wait")
    /\ \/ Container /\ reload' = TRUE /\ UNCHANGED ctl
       \/ ~Container /\ ctl' = Idle("down") /\ UNCHANGED reload
    /\ UNCHANGED <<op, cur, hold, ack, bot, crashes, loose>>

\* The link, the tag of the machine's image or the restart raises; a service
\* that does not restart may be down.
HostRaises ==
    /\ host.pc \in {"flip", "restart", "back", "back_restart"}
    /\ HostSave("needs_attention", "host") /\ HostDone
    /\ \/ UNCHANGED ctl
       \/ /\ ~Container /\ host.pc \in {"restart", "back_restart"}
          /\ ctl' = Idle("down")
    /\ UNCHANGED <<cur, hold, ack, bot, crashes, loose, reload>>

HostHealthy ==
    /\ host.pc = "wait" /\ ctl.ver = "new"
    /\ HostSave("rolling", host.op.error) /\ HostAt("pins")
    /\ UNCHANGED <<cur, ctl, hold, ack, bot, crashes, loose, reload>>

\* wait_healthy gives up, of the target or of the previous release, also of
\* one that comes up late or that the supervisor has not restarted yet.
HostUnhealthy ==
    /\ \/ /\ host.pc = "wait"
          /\ IF Declared THEN HostAt("back") /\ UNCHANGED op
             ELSE HostSave("needs_attention", "host") /\ HostDone
       \/ /\ host.pc = "back_wait"
          /\ HostSave("needs_attention", "host") /\ HostDone
    /\ UNCHANGED <<cur, ctl, hold, ack, bot, crashes, loose, reload>>

\* write_app_release; should it raise, the journal of long ago is saved.
HostPins ==
    /\ host.pc = "pins"
    /\ ctl.pc = "idle"
    /\ \/ UNCHANGED op
       \/ HostSave("needs_attention", "host")
    /\ HostDone
    /\ UNCHANGED <<cur, ctl, hold, ack, bot, crashes, loose, reload>>

-----------------------------------------------------------------------------
(* The bots, their owner, and what fails.                                  *)

\* Mutant: within two seconds of an acknowledgement none is written.
AckedRarely(b) == IF ack[b] = NoAck THEN hold[b] ELSE ack[b]

\* acknowledge: the file says which hold the process sees, none included.
Acked(b) == hold[b]

\* The admission boundary, under the queue's lock: a held process with an
\* abandoned run still working says nothing; one that is not held may admit.
Admit(b) ==
    /\ Running(b) /\ bot[b].phase = "idle"
    /\ ctl.on # b \/ ctl.pc \in {"idle", "fail", "restore", "respawn", "save"}
    /\ hold[b] # 0 => ~bot[b].zombie
    /\ ack' = [ack EXCEPT ![b] = Acked(b)]
    /\ \/ UNCHANGED bot
       \/ hold[b] = 0 /\ bot' = [bot EXCEPT ![b].phase = "turn"]
    /\ UNCHANGED <<op, cur, ctl, host, hold, crashes, loose, reload>>

TurnEnds(b) ==
    /\ bot[b].phase = "turn"
    /\ bot' = [bot EXCEPT ![b].phase = "idle"]
    /\ UNCHANGED <<op, cur, ctl, host, hold, ack, crashes, loose, reload>>

Escape(b) ==
    /\ bot[b].phase = "turn"
    /\ bot' = [bot EXCEPT ![b].phase = "idle", ![b].zombie = TRUE]
    /\ UNCHANGED <<op, cur, ctl, host, hold, ack, crashes, loose, reload>>

ZombieEnds(b) ==
    /\ bot[b].zombie
    /\ bot' = [bot EXCEPT ![b].zombie = FALSE]
    /\ UNCHANGED <<op, cur, ctl, host, hold, ack, crashes, loose, reload>>

\* A process that does not pass its admission boundary grows stale.
Stale(b) ==
    /\ ack[b] # NoAck
    /\ bot[b].phase = "turn" \/ (hold[b] # 0 /\ bot[b].zombie)
    /\ ack' = [ack EXCEPT ![b] = NoAck]
    /\ UNCHANGED <<op, cur, ctl, host, hold, bot, crashes, loose, reload>>

\* The owner's stop and start take the bot's lifecycle lock, which a tick that
\* failed lets go of before it takes it again.
Reach(b) == ctl.ver # "down" /\ (ctl.pc \in {"idle", "fail"} \/ ctl.on # b)

StopBot(b) ==
    /\ Reach(b) /\ Running(b)
    /\ bot' = [bot EXCEPT ![b] = [Stop(b) EXCEPT !.stopped = TRUE]]
    /\ ack' = [ack EXCEPT ![b] = NoAck]
    /\ UNCHANGED <<op, cur, ctl, host, hold, crashes, loose, reload>>

StartBot(b) ==
    /\ Reach(b) /\ ~Running(b)
    /\ bot' = [bot EXCEPT ![b] = [Spawn(b, ctl.ver) EXCEPT !.stopped = FALSE]]
    /\ UNCHANGED <<op, cur, ctl, host, hold, ack, crashes, loose, reload>>

Crashing == crashes < MaxCrashes /\ crashes' = crashes + 1

BotCrash(b) ==
    /\ Crashing /\ Running(b)
    /\ bot' = [bot EXCEPT ![b] = Stop(b)]
    /\ ack' = [ack EXCEPT ![b] = NoAck]
    /\ UNCHANGED <<op, cur, ctl, host, hold, loose, reload>>

CtlCrash ==
    /\ Crashing /\ ctl.ver # "down"
    /\ ctl' = Idle("down")
    /\ UNCHANGED <<op, cur, host, hold, ack, bot, loose, reload>>

CtlBoot ==
    /\ ctl.ver = "down"
    /\ ctl' = Idle(cur)
    /\ UNCHANGED <<op, cur, host, hold, ack, bot, crashes, loose, reload>>

\* The supervisor finds the mailbox written, and ends its controller.
Reload ==
    /\ reload
    /\ reload' = FALSE
    /\ ctl' = Idle("down")
    /\ UNCHANGED <<op, cur, host, hold, ack, bot, crashes, loose>>

HostCrash ==
    /\ Crashing /\ host.pc # "idle"
    /\ HostDone
    /\ UNCHANGED <<op, cur, ctl, hold, ack, bot, loose, reload>>

-----------------------------------------------------------------------------

\* The controller is on the previous release, or was moved by hand.
Init ==
    /\ op = NoOp
    /\ cur \in Versions
    /\ ctl = Idle(cur)
    /\ host = NoHost
    /\ hold = [b \in Bots |-> 0]
    /\ ack = [b \in Bots |-> NoAck]
    /\ bot \in [Bots -> {[up |-> u, stopped |-> ~u, ver |-> "old",
                          phase |-> "idle", zombie |-> FALSE] : u \in BOOLEAN}]
    /\ crashes = 0
    /\ loose = FALSE
    /\ reload = FALSE

TickRow(b) == \/ TickStopped(b) \/ TickVerify(b) \/ TickConfirmed(b)
              \/ TickTimeout(b) \/ TickRestored(b) \/ TickHold(b)

Tick == \/ \E b \in Bots : TickRow(b)
        \/ TickDecide \/ TickWait \/ TickRestart \/ TickKill \/ TickSpawn \/ TickRaises
        \/ TickFail \/ TickRestore \/ TickRespawn \/ TickSave \/ TickEnd

Worker == \/ HostPrepare \/ HostRecover \/ HostRefuse \/ HostInstall
          \/ HostFlip \/ HostRestart \/ HostRaises \/ HostHealthy
          \/ HostUnhealthy \/ HostPins

Owner(b) == StopBot(b) \/ StartBot(b)

Next == \/ Start \/ Begin \/ Retry \/ Tick \/ Worker
        \/ CtlCrash \/ CtlBoot \/ Reload \/ HostCrash
        \/ \E b \in Bots : \/ Admit(b) \/ TurnEnds(b) \/ Escape(b)
                           \/ ZombieEnds(b) \/ Stale(b) \/ Owner(b)
                           \/ BotCrash(b)

Spec == Init /\ [][Next]_vars

\* The updater's thread and the host's worker run for ever, as does the loop
\* of a bot; a turn ends or is abandoned, and a controller is started again.
Fairness == /\ SF_vars(Tick) /\ WF_vars(Worker) /\ WF_vars(CtlBoot)
            /\ \A b \in Bots : /\ SF_vars(Admit(b))
                               /\ WF_vars(TurnEnds(b))

FairSpec == Spec /\ Fairness

-----------------------------------------------------------------------------
(* Properties.                                                             *)

TypeOK ==
    /\ op \in OpRecords
    /\ cur \in Versions
    /\ ctl \in CtlRecords
    /\ host \in HostRecords
    /\ hold \in [Bots -> 0..MaxOps]
    /\ ack \in [Bots -> {NoAck} \cup (0..MaxOps)]
    /\ bot \in [Bots -> BotRecords]
    /\ crashes \in 0..MaxCrashes
    /\ loose \in BOOLEAN
    /\ reload \in BOOLEAN

\* The updater takes no bot's process down under a running turn or an
\* abandoned run.  What it relies on is the acknowledgement, a file that a
\* process wrote up to ten seconds ago, and on the hold: a rollback does not
\* keep the bot from a turn if the hold is gone that the file still names.
WorkSurvivesRestart ==
    [][\A b \in Bots :
         /\ ctl.on = b /\ bot[b].up /\ bot'[b] # bot[b] /\ ctl'.pc # ctl.pc
         /\ ctl.pc = "kill" \/ (ctl.pc = "restore" /\ hold[b] # 0)
         => bot[b].phase = "idle" /\ ~bot[b].zombie]_vars

\* Without that exception: only a quiescent agent is rolled back.
RollbackIsQuiet ==
    [][ctl.pc = "restore" /\ ctl'.pc = "respawn" /\ bot[ctl.on].up =>
         bot[ctl.on].phase = "idle" /\ ~bot[ctl.on].zombie]_vars

\* A completed operation leaves no bot of its rows held, so that none refuses
\* work for an update that is over.
CompleteReleases ==
    op.stage = "complete" =>
        \A b \in Bots : op.row[b] # "none" => hold[b] # op.id

\* One bot at a time is out of service for the update.
OneAtATime ==
    \A b, c \in Bots :
        /\ op.row[b] \in {"saving_state", "restarting", "checking_health", "recovering"}
        /\ op.row[c] \in {"saving_state", "restarting", "checking_health", "recovering"}
        => b = c

\* No success is inferred from the controller's own: when the operation
\* completes, every bot that runs is of the target release.
CompleteMeansUpdated ==
    [][op.stage # "complete" /\ op'.stage = "complete" => Affected = {}]_vars

\* That holds unless a roll was begun while current linked to the old release.
\* A target's controller is left running over such a link when the host's
\* worker dies, or raises, between its two steps back, or gives up before the
\* supervisor has read its mailbox; Retry and HostRecover ask for no more.
CompleteIsUpdated ==
    [][op.stage # "complete" /\ op'.stage = "complete" /\ ~loose =>
         Affected = {}]_vars

\* A row that waits for the proof of its new process has the hold in place
\* that the proof must name.
CheckedIsHeld ==
    \A b \in Bots : op.row[b] = "checking_health" =>
        hold[b] = op.id \/ (ctl.on = b /\ ctl.pc = "save")

\* An update that says it is paused restarts no other bot.
PausedIsPaused == [][TickKill => op.error # "paused"]_vars

\* The owner stops and starts bots only so many times.
OwnerSettles ==
    <>[][\A b \in Bots : ~StopBot(b) /\ ~StartBot(b)]_vars

\* A human lets go of the bots, and the approvals are answered, in the end.
HumansSettle ==
    <>[][~(TickWait /\ Quiet(ctl.on))]_vars

\* A roll comes to its end, or to the owner; it waits for ever only on an
\* abandoned run, a human, a controller of another release, or an owner who
\* never lets a bot be.
RollEnds ==
    OwnerSettles /\ HumansSettle =>
        (op.stage = "rolling" ~>
            \/ op.stage # "rolling" \/ ctl.ver # "new"
            \/ \E b \in Bots : bot[b].zombie)
=============================================================================
