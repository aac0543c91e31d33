------------------------------ MODULE Routines ------------------------------
(***************************************************************************)
(* One bot's scheduled routines: the scheduler thread and the HTTP threads *)
(* of the harness, which rewrite the bot's routines file under its lock,    *)
(* and the bot's process, which runs the occurrences they enqueue and       *)
(* records in the same file how each one went.                              *)
(*                                                                         *)
(* An occurrence is the pair of its routine and its slot: the minute it was *)
(* due, or the one test run.  Its message id and file name are functions of *)
(* that pair (uuid5), so enqueueing it twice writes one file.               *)
(***************************************************************************)
EXTENDS Integers, FiniteSets

CONSTANTS
    Routs,        \* ids of the bot's routines
    NoRout,       \* no routine
    MaxMinute,    \* bound: minutes that pass
    CronMinutes,  \* the minutes a recurring schedule matches
    Grace,        \* max_lateness_seconds, in minutes
    MaxRevisions, \* bound: edits of one routine
    MaxAttempts,  \* attempts of one message before it is dropped
    MaxFaults,    \* bound: ticks that fail, and crashes of the harness
    MaxCrashes    \* bound: crashes of the bot's process

Minutes == 0..MaxMinute
Test    == 0 - 1                 \* the slot of a test run
Never   == 0 - 2                 \* last_run of a routine that never ran
Slots   == Minutes \cup {Test}
Occs    == Routs \X Slots
NoOcc   == <<NoRout, Never>>

ASSUME RoutinesAssumption ==
    /\ NoRout \notin Routs
    /\ MaxMinute \in Nat
    /\ CronMinutes \subseteq Minutes
    /\ Grace \in Nat
    /\ MaxRevisions \in Nat
    /\ MaxAttempts \in Nat \ {0}
    /\ MaxFaults \in Nat
    /\ MaxCrashes \in Nat

VARIABLES
    now,       \* the clock, in minutes
    file,      \* the bot's routines file
    job,       \* the thread that holds the file's lock, and how far it is
    copy,      \* the rows that thread read and will save
    inbox,     \* occurrences queued for the bot
    processed, \* occurrences archived
    msg,       \* what the queued file of an occurrence says
    agent,     \* the bot's process: the occurrence it handles and the stage
    attempt,   \* the single-slot crash-retry file
    replied,   \* occurrences whose terminal reply is in the ledger
    zombies,   \* abandoned runs that go on
    ended,     \* times a run or a stop gave it a terminal reply (a drop's
               \* notice is not counted)
    raced,     \* occurrences sent again after they were archived
    faults, crashes

queue  == <<inbox, processed, msg>>
bot    == <<agent, attempt, replied, zombies, ended>>
bounds == <<faults, crashes>>
vars   == <<now, file, job, copy, queue, bot, raced, bounds>>

-----------------------------------------------------------------------------
(* Records.                                                                *)

\* What a turn records at its end; a failed or uncertain one reads completed.
Ends == {"completed", "interrupted"}
Stops == {"expired", "cancelled"}
Recorded == Ends \cup Stops \cup {"queued", "running", "unknown"}

Rows == [live : BOOLEAN, once : BOOLEAN, at : Minutes, enabled : BOOLEAN,
         fired : BOOLEAN, last : Minutes \cup {Never}, rev : 0..MaxRevisions,
         hist : [Slots -> Recorded \cup {"none"}]]

Jobs == [stage : {"none", "check", "send"}, kind : {"due", "test"},
         minute : Minutes, todo : SUBSET Routs, cur : Occs \cup {NoOcc},
         found : BOOLEAN]
Msgs == [rev : 0..MaxRevisions, due : Minutes]
Agents == [occ : Occs \cup {NoOcc},
           stage : {"idle", "stop", "start", "run", "reply", "archive",
                    "abandon", "late"},
           stop : Stops \cup {"go"}]
Attempts == [occ : Occs \cup {NoOcc}, count : 0..(MaxAttempts + 1)]

NewRow(once, at) ==
    [live |-> TRUE, once |-> once, at |-> at, enabled |-> TRUE,
     fired |-> FALSE, last |-> Never, rev |-> 0,
     hist |-> [s \in Slots |-> "none"]]

\* What a thread without the lock has read.
NoCopy == [r \in Routs |-> NewRow(FALSE, 0)]

NoJob   == [stage |-> "none", kind |-> "due", minute |-> 0, todo |-> {},
            cur |-> NoOcc, found |-> FALSE]
NoMsg   == [rev |-> 0, due |-> 0]
NoAttempt == [occ |-> NoOcc, count |-> 0]
NoAgent == [occ |-> NoOcc, stage |-> "idle", stop |-> "go"]

Unlocked == job.stage = "none"

\* Mutant: a one-shot, too, runs in its own minute only.
IsDueExact(row, m) ==
    /\ row.live /\ row.enabled
    /\ IF row.once THEN ~row.fired /\ m = row.at
       ELSE m \in CronMinutes /\ row.last # m

\* is_due: a one-shot runs late, a recurring row only in its own minute.
IsDue(row, m) ==
    /\ row.live /\ row.enabled
    /\ IF row.once THEN ~row.fired /\ m >= row.at
       ELSE m \in CronMinutes /\ row.last # m

SlotOf(row, kind, m) ==
    IF kind = "test" THEN Test ELSE IF row.once THEN row.at ELSE m

\* occurrence_stop_reason, from the file as it is and the message as queued.
StopReason(o) ==
    LET row == file[o[1]]
    IN  IF ~row.once /\ now > msg[o].due + Grace THEN "expired"
        ELSE IF \/ ~row.live \/ row.rev # msg[o].rev
                \/ ~row.enabled /\ ~row.once /\ o[2] # Test THEN "cancelled"
        ELSE "go"

-----------------------------------------------------------------------------
(* The harness: fire_due and run_now.                                      *)

Advance ==
    /\ now < MaxMinute
    /\ now' = now + 1
    /\ UNCHANGED <<file, job, copy, queue, bot, raced, bounds>>

\* The lock is taken and the rows are read.
Read(kind, todo) ==
    /\ Unlocked
    /\ job' = [NoJob EXCEPT !.stage = "check", !.kind = kind, !.minute = now,
                            !.todo = todo]
    /\ copy' = file
    /\ UNCHANGED <<now, file, queue, bot, raced, bounds>>

FireDue ==
    LET due == {r \in Routs : IsDue(file[r], now)}
    IN  due # {} /\ Read("due", due)

\* Bound: one test run of a routine.
RunNow(r) ==
    /\ file[r].live
    /\ <<r, Test>> \notin inbox \cup processed
    /\ Read("test", {r})

\* _enqueue looks for an archived copy of the occurrence ...
Check(r) ==
    /\ job.stage = "check" /\ r \in job.todo
    /\ LET o == <<r, SlotOf(copy[r], job.kind, job.minute)>>
       IN  job' = [job EXCEPT !.stage = "send", !.cur = o,
                              !.found = o \in processed]
    /\ UNCHANGED <<now, file, copy, queue, bot, raced, bounds>>

\* Mutant: an occurrence found archived gets no status.
StampedBlank(row, kind, slot, minute, found) ==
    [row EXCEPT !.last = minute,
                !.fired = @ \/ (row.once /\ kind = "due"),
                !.enabled = @ /\ ~(row.once /\ kind = "due"),
                !.hist[slot] = IF found THEN "" ELSE "queued"]

\* What the row says once its occurrence is enqueued.
Stamped(row, kind, slot, minute, found) ==
    [row EXCEPT !.last = minute,
                !.fired = @ \/ (row.once /\ kind = "due"),
                !.enabled = @ /\ ~(row.once /\ kind = "due"),
                !.hist[slot] = IF @ # "none" THEN @
                               ELSE IF found THEN "unknown" ELSE "queued"]

\* Mutant: a send that raises is taken for one that went out.
SendSwallowed ==
    /\ job.stage = "send"
    /\ LET o == job.cur
       IN  copy' = [copy EXCEPT ![o[1]] =
                      Stamped(@, job.kind, o[2], job.minute, job.found)]
    /\ job' = [job EXCEPT !.stage = "check", !.todo = @ \ {job.cur[1]}]
    /\ UNCHANGED <<now, file, queue, bot, raced, bounds>>

\* ... and sends it after, if there was none.
Send ==
    /\ job.stage = "send"
    /\ LET o == job.cur
           r == o[1]
       IN  /\ IF job.found THEN UNCHANGED <<inbox, msg, raced>>
              ELSE /\ inbox' = inbox \cup {o}
                   /\ raced' = raced \cup ({o} \cap processed)
                   /\ msg' = [msg EXCEPT ![o] = [rev |-> copy[r].rev,
                        due |-> IF o[2] = Test THEN job.minute ELSE o[2]]]
           /\ copy' = [copy EXCEPT ![r] =
                         Stamped(@, job.kind, o[2], job.minute, job.found)]
           /\ job' = [job EXCEPT !.stage = "check", !.todo = @ \ {r}]
    /\ UNCHANGED <<now, file, processed, bot, bounds>>

Save ==
    /\ job.stage = "check" /\ job.todo = {}
    /\ file' = copy
    /\ job' = NoJob /\ copy' = NoCopy
    /\ UNCHANGED <<now, queue, bot, raced, bounds>>

\* A send or the save raises, or the harness dies: nothing is saved.
Tear ==
    /\ ~Unlocked
    /\ faults < MaxFaults
    /\ faults' = faults + 1
    /\ job' = NoJob /\ copy' = NoCopy
    /\ UNCHANGED <<now, file, queue, bot, raced, crashes>>

-----------------------------------------------------------------------------
(* Edits, each a read and a save under the lock.                           *)

\* The one-shot is given a time; a new one lets it fire again.
Rescheduled(row, at, enabled) ==
    [row EXCEPT !.rev = @ + 1, !.at = at, !.enabled = enabled,
                !.fired = @ /\ at = row.at]

\* The effects an edit can have on a row.
Edited(row) ==
    {[row EXCEPT !.enabled = ~@], [row EXCEPT !.live = FALSE],
     [row EXCEPT !.rev = @ + 1]}
    \cup (IF row.once
            THEN {Rescheduled(row, m, row.enabled) : m \in Minutes}
                   \cup {Rescheduled(row, m, TRUE) : m \in Minutes}
            ELSE {[row EXCEPT !.rev = @ + 1, !.last = Never]})

\* Bound: MaxRevisions edits that change what runs.
Edit(r) ==
    /\ Unlocked
    /\ file[r].live
    /\ \E row \in Edited(file[r]) :
         /\ row.rev <= MaxRevisions
         /\ file[r].rev < MaxRevisions \/ ~row.live
         /\ file' = [file EXCEPT ![r] = row]
    /\ UNCHANGED <<now, job, copy, queue, bot, raced, bounds>>

-----------------------------------------------------------------------------
(* The bot's process.                                                      *)

\* record_run_state, under the lock; a deleted routine stays deleted.
Record(o, state) ==
    file' = IF file[o[1]].live THEN [file EXCEPT ![o[1]].hist[o[2]] = state]
            ELSE file

Turn(stage) == agent' = [agent EXCEPT !.stage = stage]

\* The attempt is counted first; then the drop, the ledger, the stop reason.
Pick(o) ==
    /\ agent.stage = "idle" /\ o \in inbox
    /\ attempt' = [occ |-> o,
                   count |-> IF attempt.occ # o THEN 1
                             ELSE IF attempt.count > MaxAttempts
                               THEN attempt.count ELSE attempt.count + 1]
    /\ agent' =
         [occ |-> o,
          stage |-> IF attempt'.count > MaxAttempts \/ o \in replied
                      THEN "archive"
                    ELSE IF StopReason(o) # "go" THEN "stop" ELSE "start",
          stop |-> StopReason(o)]
    /\ UNCHANGED <<now, file, job, copy, queue, replied, zombies, ended, raced,
                   bounds>>

\* Mutant: a stopped occurrence is recorded and left in the queue.
RecordStopStays ==
    /\ Unlocked /\ agent.stage = "stop"
    /\ Record(agent.occ, agent.stop)
    /\ agent' = NoAgent
    /\ UNCHANGED <<now, job, copy, queue, attempt, replied, zombies, ended,
                   raced, bounds>>

\* A stopped occurrence is recorded and answered without a run.
RecordStop ==
    /\ Unlocked /\ agent.stage = "stop"
    /\ Record(agent.occ, agent.stop)
    /\ Turn("reply")
    /\ UNCHANGED <<now, job, copy, queue, attempt, replied, zombies, ended,
                   raced, bounds>>

RecordStart ==
    /\ Unlocked /\ agent.stage = "start"
    /\ Record(agent.occ, "running")
    /\ Turn("run")
    /\ UNCHANGED <<now, job, copy, queue, attempt, replied, zombies, ended,
                   raced, bounds>>

\* How a run ends by itself, or at an action that finds it stopped.
PossibleEnds == (Ends \cup {StopReason(agent.occ)}) \ {"go"}

\* Mutant: the run's end is recorded whoever holds the file.
RecordEndUnlocked ==
    /\ agent.stage = "run"
    /\ \E end \in PossibleEnds :
         /\ Record(agent.occ, end)
         /\ IF end = "interrupted"
              THEN agent' = NoAgent /\ attempt' = [attempt EXCEPT !.count = 1]
              ELSE Turn("reply") /\ UNCHANGED attempt
    /\ UNCHANGED <<now, job, copy, queue, replied, zombies, ended, raced, bounds>>

\* The run's end is recorded in the history, which is all the model has of it
\* (the row's last_run_status is not); an interrupted occurrence stays queued.
RecordEnd ==
    /\ Unlocked
    /\ agent.stage = "run"
    /\ \E end \in PossibleEnds :
         /\ Record(agent.occ, end)
         /\ IF end = "interrupted"
              THEN agent' = NoAgent /\ attempt' = [attempt EXCEPT !.count = 1]
              ELSE Turn("reply") /\ UNCHANGED attempt
    /\ UNCHANGED <<now, job, copy, queue, replied, zombies, ended, raced, bounds>>

ReplyTerminal ==
    /\ replied' = replied \cup {agent.occ}
    /\ ended' = [ended EXCEPT ![agent.occ] = @ + 1]

Reply ==
    /\ agent.stage = "reply"
    /\ ReplyTerminal
    /\ Turn("archive")
    /\ UNCHANGED <<now, file, job, copy, queue, attempt, zombies, raced, bounds>>

\* The watchdog replies for a run that hangs; its record comes last.
Escape ==
    /\ agent.stage = "run"
    /\ ReplyTerminal
    /\ zombies' = zombies \cup {agent.occ}
    /\ Turn("abandon")
    /\ UNCHANGED <<now, file, job, copy, queue, attempt, raced, bounds>>

\* Mutant: a handled message is deleted, not archived.
ToArchiveDeletes(o) ==
    /\ inbox' = inbox \ {o}
    /\ processed' = processed

ToArchive(o) ==
    /\ inbox' = inbox \ {o}
    /\ processed' = IF o \in inbox THEN processed \cup {o} ELSE processed

\* mark_processed; settled rows of the ledger are pruned.
Archive ==
    /\ agent.stage \in {"archive", "abandon"}
    /\ ToArchive(agent.occ)
    /\ attempt' = IF attempt.occ = agent.occ THEN NoAttempt ELSE attempt
    /\ replied' = replied \ {agent.occ}
    /\ agent' = IF agent.stage = "abandon"
                  THEN [agent EXCEPT !.stage = "late"] ELSE NoAgent
    /\ UNCHANGED <<now, file, job, copy, msg, zombies, ended, raced, bounds>>

RecordLate ==
    /\ Unlocked /\ agent.stage = "late"
    /\ Record(agent.occ, "unknown")
    /\ agent' = NoAgent
    /\ UNCHANGED <<now, job, copy, queue, attempt, replied, zombies, ended,
                   raced, bounds>>

\* An abandoned run records its own end when it returns.
ZombieEnds(o) ==
    /\ Unlocked /\ o \in zombies
    /\ \E end \in Ends : Record(o, end)
    /\ zombies' = zombies \ {o}
    /\ UNCHANGED <<now, job, copy, queue, agent, attempt, replied, ended, raced,
                   bounds>>

\* The user takes a waiting occurrence out of the queue.
RemoveQueued(o) ==
    /\ o \in inbox /\ agent.occ # o
    /\ ToArchive(o)
    /\ UNCHANGED <<now, file, job, copy, msg, bot, raced, bounds>>

AgentCrash ==
    /\ crashes < MaxCrashes
    /\ crashes' = crashes + 1
    /\ agent.stage # "idle" \/ zombies # {}
    /\ agent' = NoAgent
    /\ zombies' = {}
    /\ UNCHANGED <<now, file, job, copy, queue, attempt, replied, ended, raced,
                   faults>>

-----------------------------------------------------------------------------

Init ==
    /\ now = 0
    /\ file \in [Routs -> {NewRow(TRUE, m) : m \in Minutes}
                            \cup {NewRow(FALSE, 0)}]
    /\ job = NoJob /\ copy = NoCopy
    /\ inbox = {} /\ processed = {}
    /\ msg = [o \in Occs |-> NoMsg]
    /\ agent = NoAgent
    /\ attempt = NoAttempt
    /\ replied = {} /\ zombies = {}
    /\ ended = [o \in Occs |-> 0]
    /\ raced = {}
    /\ faults = 0 /\ crashes = 0

Scheduler == \/ FireDue \/ Send \/ Save
             \/ \E r \in Routs : Check(r)

Loop == \/ \E o \in Occs : Pick(o)
        \/ RecordStop \/ RecordStart \/ RecordEnd \/ RecordLate
        \/ Reply \/ Archive

Next == \/ Advance \/ Scheduler \/ Tear
        \/ \E r \in Routs : RunNow(r) \/ Edit(r)
        \/ Loop \/ Escape \/ AgentCrash
        \/ \E o \in Occs : ZombieEnds(o) \/ RemoveQueued(o)

Spec == Init /\ [][Next]_vars

\* The end of a run that is not put off; the cap on interrupts forces it.
Finish == RecordEnd /\ agent'.stage = "reply"

\* The scheduler ticks for ever and finishes a tick, the loop polls for ever
\* and a run returns.  Users, faults and the watchdog owe nothing.
FairSpec == Spec /\ WF_vars(Scheduler) /\ SF_vars(Loop) /\ SF_vars(Finish)

-----------------------------------------------------------------------------
(* Properties.                                                             *)

TypeOK ==
    /\ now \in Minutes
    /\ file \in [Routs -> Rows] /\ copy \in [Routs -> Rows]
    /\ job \in Jobs
    /\ inbox \subseteq Occs /\ processed \subseteq Occs
    /\ msg \in [Occs -> Msgs]
    /\ agent \in Agents
    /\ attempt \in Attempts
    /\ ended \in [Occs -> Nat]
    /\ replied \subseteq Occs /\ zombies \subseteq Occs /\ raced \subseteq Occs
    /\ faults \in 0..MaxFaults /\ crashes \in 0..MaxCrashes

\* An occurrence ends once: the id and file name it always gets make every
\* enqueue of it after a failed tick, an edit or a crash the same file, and
\* the archive keeps it from coming back.  The exception is the race of
\* _enqueue with the bot: the archive is looked at first and the file written
\* after.
OnceUnlessRaced == \A o \in Occs : ended[o] > 1 => o \in raced

\* The file never records an occurrence, or marks a one-shot as fired, that
\* was not enqueued: the save comes after the sends of the tick.
RecordedIsSent ==
    \A r \in Routs, s \in Slots :
        (file[r].hist[s] # "none" \/ (file[r].fired /\ s = file[r].at)) =>
            <<r, s>> \in inbox \cup processed

\* What the bot records of a run in the history is never undone by a scheduler
\* thread that saves rows it read before.
SaveKeepsRecords ==
    [][Save => \A r \in Routs, s \in Slots :
                 file[r].hist[s] # "none" =>
                   file'[r].hist[s] = file[r].hist[s]]_vars

\* An occurrence shown as running is being run or still queued.
RunningIsQueued ==
    \A r \in Routs, s \in Slots :
        file[r].live /\ file[r].hist[s] = "running" =>
            \/ <<r, s>> \in inbox \cup zombies
            \/ agent.occ = <<r, s>>

\* A one-shot whose time has come.
Owed(r) == /\ file[r].live /\ file[r].enabled /\ file[r].once
           /\ ~file[r].fired /\ file[r].at <= now

\* A one-shot whose time has come fires however late, and whatever failed
\* before, unless an edit takes it back.
EveryOneShotFires == \A r \in Routs : Owed(r) ~> ~Owed(r)

\* An occurrence that is queued leaves the queue.
EveryOccurrenceLeaves ==
    \A o \in Occs : (o \in inbox) ~> (o \notin inbox)
=============================================================================
