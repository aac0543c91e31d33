--------------------------- MODULE TurnLifecycle ---------------------------
(***************************************************************************)
(* One bot process of the harness and the life of the messages it is sent: *)
(* the inbox directory, the turn it runs for each message, the durable     *)
(* records written around that turn, and what a crash or a restart between *)
(* any two of those writes leaves behind.                                  *)
(*                                                                         *)
(* Every durable write of a turn is a step of its own.  The code performs  *)
(* its writes in a fixed order on each way out of a turn; Route lists that *)
(* order, and the process walks along it.  Crash is enabled everywhere.    *)
(***************************************************************************)
EXTENDS Integers, Sequences, FiniteSets

CONSTANTS
    Chats,        \* messages a user sends to the bot
    Works,        \* messages of the other lanes: colleagues, routines
    Prompts,      \* bound: recovery prompts the process can still mint
    NoMsg,        \* no message
    Budget,       \* DEFAULT_BUDGET: redispatches of an interrupted turn
    MaxAttempts,  \* attempts of one message before it is dropped
    MaxInterrupts,\* interrupts of one message before it is dropped
    MaxRedrives,  \* MAX_REDRIVES: recovery prompts per obligation
    MaxRestarts,  \* bound: crashes and shutdowns in a behaviour
    MaxEscapes,   \* bound: turns that hang past the grace window
    Shutdowns,    \* bound: whether a restart may be a graceful one
    Steering,     \* follow-ups can join the live turn (same room and thread)
    UserOrder     \* the user reorders the queue, so any message may be next

Ids == Chats \cup Works \cup Prompts

ASSUME LifecycleAssumption ==
    /\ Chats \cap Works = {}
    /\ Chats \cap Prompts = {}
    /\ Works \cap Prompts = {}
    /\ NoMsg \notin Ids
    /\ Budget \in Nat
    /\ MaxAttempts \in Nat \ {0}
    /\ MaxInterrupts \in Nat \ {0}
    /\ MaxRedrives \in Nat
    /\ MaxRestarts \in Nat
    /\ MaxEscapes \in Nat
    /\ Shutdowns \in BOOLEAN
    /\ Steering \in BOOLEAN
    /\ UserOrder \in BOOLEAN

VARIABLES
    \* the files and tables that survive the process
    inbox,      \* message files waiting in the bot's inbox
    claim,      \* turn_claims: one recovery claim per message
    row,        \* delivery_intents: status of a message's terminal reply
    attempt,    \* the single-slot crash-retry file
    owed,       \* the bot's one ack obligation, coalesced over messages
    \* the agent process
    phase,      \* booting, sweeping its claims, or up
    draining,   \* SIGTERM was received
    late,       \* messages that arrived after it
    sweep,      \* claims the boot sweep has still to visit
    path, step, \* the way out of the turn being walked, and how far
    cur,        \* the message being handled
    view,       \* the obligation record about to be written back
    tripped,    \* the active run's interrupt flag
    deferred,   \* interrupted messages, which yield to fresher work
    interrupts, \* interrupts per message since this boot
    zombies,    \* runs abandoned by the watchdog, still alive
    since,      \* chats that arrived after a live run started
    taken,      \* follow-ups a run has popped and not yet recorded
    \* the harness process
    unrecorded, \* chats sent to the bot, obligation not yet written
    \* what happened, as an outside observer would log it
    arrived,    \* messages that ever existed
    answers,    \* terminal replies delivered, per message
    outcome,    \* how each chat was closed, if it was
    joined,     \* the turn whose transcript a follow-up was folded into
    everTaken,  \* chats that ever were popped as a follow-up
    about,      \* chats a recovery prompt speaks about
    source,     \* recovery_input_id: the chat a recovery prompt settles
    exposed,    \* chats left with no file and no claim, only the obligation
    lapsed,     \* messages whose claim was ever tombstoned
    starts,     \* runs since the message's claim was created
    restarts, escapes

files   == <<inbox, claim, row, attempt, owed>>
boot    == <<phase, draining, late, sweep>>
loop    == <<path, step, cur>>
runs    == <<tripped, deferred, interrupts, zombies, since, taken>>
prompts == <<about, source>>
log     == <<arrived, answers, outcome, joined, everTaken, exposed, lapsed,
             starts>>
bounds  == <<restarts, escapes>>
vars == <<files, boot, loop, view, runs, unrecorded, prompts, log, bounds>>

-----------------------------------------------------------------------------
(* The records.                                                            *)

ClaimStates == {"none", "running", "queued", "interrupted", "tombstone"}
RowStates   == {"none", "pending", "inflight", "sent"}
Claims == [state : ClaimStates, budget : 0..Budget, inputs : SUBSET Ids]
Debts  == [ids : SUBSET Chats, redrives : 0..MaxRedrives]

NoClaim == [state |-> "none", budget |-> 0, inputs |-> {}]
NoDebt  == [ids |-> {}, redrives |-> 0]

Live(m) == claim[m].state \in {"running", "queued", "interrupted"}

\* A file in the inbox or the input of a live claim: a restart brings c back.
Recoverable(c) ==
    \/ c \in inbox
    \/ \E m \in Ids : Live(m) /\ c \in claim[m].inputs

\* The chats that are m, or were folded into its turn.
Hosted(m) == {c \in Chats : c = m \/ joined[c] = m}

\* The chats a visible message about m speaks to.
Audience(m) == {c \in Chats : \/ c \in Hosted(m)
                              \/ m \in Prompts /\ c \in about[m]}

(* The order of the durable writes on each way out of a turn.              *)

\* Mutant: the turn is settled first and answered after.
AnswerRouteSettledFirst ==
    << "archive", "unattempt", "release", "begin", "inflight", "reply",
       "receipt", "prune", "settle", "write" >>

AnswerRoute ==
    << "begin", "inflight", "reply", "receipt", "archive", "unattempt",
       "release", "prune", "settle", "write" >>

\* Mutant: the turn is settled first and its user told after.
EscapeRouteSettledFirst ==
    << "archive", "unattempt", "release", "begin", "inflight", "reply",
       "receipt", "prune" >>

\* Mutant: the receipt goes before the message it guards.
EscapeRoutePrunedFirst ==
    << "begin", "inflight", "reply", "receipt", "prune", "archive",
       "unattempt", "release" >>

\* Abandoned by the watchdog: answered with an error text, nothing settled.
EscapeRoute ==
    << "begin", "inflight", "reply", "receipt", "archive", "unattempt",
       "release", "prune" >>

\* Interrupted: a pause notice, and the message stays queued.
DeferRoute == << "notice", "reattempt", "unclaim", "settle", "write" >>

\* Interrupted too often.
GiveUpRoute ==
    << "notice", "archive", "unattempt", "release", "prune", "settle",
       "write" >>

\* Attempted too often.
DropRoute ==
    << "archive", "unattempt", "release", "notice", "prune", "settle",
       "write" >>

\* Mutant: the claim goes before the notice is out.
RecoveredRouteReleasedFirst ==
    << "archive", "unattempt", "release", "notice", "settle", "write",
       "prune" >>

\* The ledger knows an answer went out, or may have.
RecoveredRoute ==
    << "archive", "unattempt", "notice", "settle", "write", "release",
       "prune" >>

\* Arrived after SIGTERM.
RejectRoute == << "archive", "notice", "settle", "write" >>

Route ==
  [ none      |-> << >>,
    turn      |-> << "admit", "run" >>,
    answer    |-> AnswerRoute,
    escape    |-> EscapeRoute,
    defer     |-> DeferRoute,
    giveup    |-> GiveUpRoute,
    drop      |-> DropRoute,
    recovered |-> RecoveredRoute,
    reject    |-> RejectRoute,
    redrive   |-> << "prompt" >>,
    requeue   |-> << "requeue" >>,
    tombstone |-> << "tombstone", "bury" >> ]

At(op) == step > 0 /\ Route[path][step] = op

Enter(p, m) == path' = p /\ step' = 1 /\ cur' = m
Leave       == path' = "none" /\ step' = 0 /\ cur' = NoMsg
Forward(n)  == IF step + n > Len(Route[path])
                 THEN Leave
                 ELSE step' = step + n /\ UNCHANGED <<path, cur>>

Idle == phase = "up" /\ step = 0

\* Admission holds the queue lock from the pick to the start of the run, and
\* all along the ways out that never start one.
LockHeld == At("admit") \/ (step > 0 /\ path \in {"drop", "recovered"})

\* Runs whose worker thread is alive: the active one and the zombies.
Running == zombies \cup (IF At("run") THEN {cur} ELSE {})

-----------------------------------------------------------------------------
Init ==
    /\ inbox = {}
    /\ claim = [m \in Ids |-> NoClaim]
    /\ row = [m \in Ids |-> "none"]
    /\ attempt = [id |-> NoMsg, count |-> 0]
    /\ owed = NoDebt
    /\ phase = "booting"
    /\ draining = FALSE
    /\ late = {}
    /\ sweep = {}
    /\ path = "none" /\ step = 0 /\ cur = NoMsg
    /\ view = NoDebt
    /\ tripped = FALSE
    /\ deferred = {}
    /\ interrupts = [m \in Ids |-> 0]
    /\ zombies = {}
    /\ since = [m \in Ids |-> {}]
    /\ taken = [m \in Ids |-> {}]
    /\ unrecorded = {}
    /\ arrived = {}
    /\ answers = [m \in Ids |-> 0]
    /\ outcome = [c \in Chats |-> "open"]
    /\ joined = [c \in Chats |-> NoMsg]
    /\ everTaken = {}
    /\ about = [p \in Prompts |-> {}]
    /\ source = [p \in Prompts |-> NoMsg]
    /\ exposed = {} /\ lapsed = {}
    /\ starts = [m \in Ids |-> 0]
    /\ restarts = 0 /\ escapes = 0

-----------------------------------------------------------------------------
(* The harness: dispatch_chat puts the file in the inbox first and writes  *)
(* the obligation after it.                                                *)

SendChat(c) ==
    /\ c \notin arrived
    /\ inbox' = inbox \cup {c}
    /\ arrived' = arrived \cup {c}
    /\ unrecorded' = unrecorded \cup {c}
    /\ since' = [m \in Ids |-> IF Steering /\ m \in Running
                                 THEN since[m] \cup {c} ELSE since[m]]
    /\ late' = IF draining THEN late \cup {c} ELSE late
    /\ UNCHANGED <<claim, row, attempt, owed, phase, draining, sweep, loop,
                   view, tripped, deferred, interrupts, zombies, taken,
                   prompts, answers, outcome, joined, everTaken, exposed,
                   lapsed, starts, bounds>>

RecordSend(c) ==
    /\ c \in unrecorded
    /\ unrecorded' = unrecorded \ {c}
    /\ owed' = [owed EXCEPT !.ids = @ \cup {c}]
    /\ UNCHANGED <<inbox, claim, row, attempt, boot, loop, view, runs, prompts,
                   log, bounds>>

\* A colleague's message or a routine's: no obligation comes with it.
SendWork(w) ==
    /\ w \notin arrived
    /\ inbox' = inbox \cup {w}
    /\ arrived' = arrived \cup {w}
    /\ late' = IF draining THEN late \cup {w} ELSE late
    /\ UNCHANGED <<claim, row, attempt, owed, phase, draining, sweep, loop,
                   view, runs, unrecorded, prompts, answers, outcome, joined,
                   everTaken, exposed, lapsed, starts, bounds>>

-----------------------------------------------------------------------------
(* Obligations.  A chat still queued keeps them quiet; recovery prompts    *)
(* are background work and do not count.                                   *)

UserPending == inbox \cap Chats # {}

\* The redrive counts itself before it sends, so a crash between the two
\* writes loses the prompt and keeps the count.
CountRedrive ==
    /\ \E p \in Prompts \ arrived, c \in owed.ids :
        /\ about' = [about EXCEPT ![p] = owed.ids]
        /\ source' = [source EXCEPT ![p] = c]
        /\ arrived' = arrived \cup {p}
        /\ Enter("redrive", p)
    /\ owed' = [owed EXCEPT !.redrives = @ + 1]
    /\ UNCHANGED outcome

\* MAX_REDRIVES prompts went unanswered: the obligation is dropped as lost.
DropObligation ==
    /\ outcome' = [c \in Chats |->
                     IF c \in owed.ids /\ outcome[c] = "open"
                       THEN "lost" ELSE outcome[c]]
    /\ owed' = NoDebt
    /\ UNCHANGED <<loop, prompts, arrived>>

\* maybe_redrive, once the idle window has passed.
Redrive ==
    /\ owed.ids # {}
    /\ ~UserPending
    /\ IF owed.redrives >= MaxRedrives THEN DropObligation ELSE CountRedrive

CheckObligations ==
    /\ Idle
    /\ Redrive
    /\ UNCHANGED <<inbox, claim, row, attempt, boot, view, runs, unrecorded,
                   answers, joined, everTaken, exposed, lapsed, starts,
                   bounds>>

SendPrompt ==
    /\ At("prompt")
    /\ inbox' = inbox \cup {cur}
    /\ late' = IF draining THEN late \cup {cur} ELSE late
    /\ Forward(1)
    /\ UNCHANGED <<claim, row, attempt, owed, phase, draining, sweep, view,
                   runs, unrecorded, prompts, log, bounds>>

-----------------------------------------------------------------------------
(* Boot: the obligation check comes first, the claim sweep second.  Every  *)
(* claim found belongs to a boot that is gone, so all of them are orphans. *)

Orphaned == {m \in Ids : Live(m)}

Boot ==
    /\ phase = "booting"
    /\ phase' = "sweeping"
    /\ sweep' = Orphaned
    /\ \/ Redrive
       \/ UNCHANGED <<owed, loop, prompts, arrived, outcome>>
    /\ UNCHANGED <<inbox, claim, row, attempt, draining, late, view, runs,
                   unrecorded, answers, joined, everTaken, exposed, lapsed,
                   starts, bounds>>

\* Mutant: one redispatch too many.
ExhaustedBelowZero(m) == claim[m].budget < 0

\* charge: a spent budget means tombstone, never another redispatch.
Exhausted(m) == claim[m].budget = 0

\* The redispatch is charged before anything is queued.
SweepClaim(m) ==
    /\ phase = "sweeping" /\ step = 0
    /\ m \in sweep
    /\ sweep' = sweep \ {m}
    /\ IF Exhausted(m)
         THEN Enter("tombstone", m) /\ UNCHANGED claim
         ELSE /\ Enter("requeue", m)
              /\ claim' = [claim EXCEPT ![m].budget = @ - 1]
    /\ UNCHANGED <<inbox, row, attempt, owed, phase, draining, late, view,
                   runs, unrecorded, prompts, log, bounds>>

\* Re-send one input of the claim that is no longer in the inbox.
Requeue ==
    /\ At("requeue")
    /\ \E m \in claim[cur].inputs \ inbox : inbox' = inbox \cup {m}
    /\ UNCHANGED <<claim, row, attempt, owed, boot, loop, view, runs,
                   unrecorded, prompts, log, bounds>>

MarkQueued ==
    /\ At("requeue")
    /\ claim[cur].inputs \subseteq inbox
    /\ claim' = [claim EXCEPT ![cur].state = "queued"]
    /\ Forward(1)
    /\ UNCHANGED <<inbox, row, attempt, owed, boot, view, runs, unrecorded,
                   prompts, log, bounds>>

\* The inbox did not take the file: nothing was dispatched, the charge is
\* given back, and the claim waits for the next boot.
Refund ==
    /\ At("requeue")
    /\ ~ claim[cur].inputs \subseteq inbox
    /\ claim' = [claim EXCEPT ![cur].budget = IF @ < Budget THEN @ + 1 ELSE @]
    /\ Forward(1)
    /\ UNCHANGED <<inbox, row, attempt, owed, boot, view, runs, unrecorded,
                   prompts, log, bounds>>

Tombstone ==
    /\ At("tombstone")
    /\ claim' = [claim EXCEPT ![cur].state = "tombstone"]
    /\ exposed' = exposed \cup
                  UNION {Audience(m) : m \in {cur} \cup claim[cur].inputs}
    /\ lapsed' = lapsed \cup {cur}
    /\ Forward(1)
    /\ UNCHANGED <<inbox, row, attempt, owed, boot, view, runs, unrecorded,
                   prompts, arrived, answers, outcome, joined, everTaken,
                   starts, bounds>>

\* The inputs of a lost turn leave the queue, one file at a time.
Bury ==
    /\ At("bury")
    /\ LET left == ({cur} \cup claim[cur].inputs) \cap inbox
       IN IF left = {}
            THEN Forward(1) /\ UNCHANGED inbox
            ELSE /\ \E m \in left : inbox' = inbox \ {m}
                 /\ UNCHANGED loop
    /\ UNCHANGED <<claim, row, attempt, owed, boot, view, runs, unrecorded,
                   prompts, log, bounds>>

SweepDone ==
    /\ phase = "sweeping" /\ step = 0 /\ sweep = {}
    /\ phase' = "up"
    /\ UNCHANGED <<files, draining, late, sweep, loop, view, runs, unrecorded,
                   prompts, log, bounds>>

-----------------------------------------------------------------------------
(* The pick.  Lanes first, and inside a lane fresh before deferred; a      *)
(* queue the user has reordered, or a Send-now, can put any message first. *)

Before(n, m) ==
    \/ n \in Chats /\ m \notin Chats
    \/ n \in Works /\ m \in Prompts
    \/ /\ \/ {n, m} \subseteq Chats
          \/ {n, m} \subseteq Works
          \/ {n, m} \subseteq Prompts
       /\ n \notin deferred /\ m \in deferred

\* Mutant: a deferred message is no candidate any more.
NextTaskFresh(m) == m \in inbox \ deferred

NextTask(m) == m \in inbox /\ (UserOrder \/ \A n \in inbox : ~Before(n, m))

NoteAttempt(m) ==
    [id |-> m, count |-> IF attempt.id = m THEN attempt.count + 1 ELSE 1]

\* Mutant: only a receipt counts, not an answer that may have gone out.
VerdictReceiptOnly(m) ==
    IF NoteAttempt(m).count > MaxAttempts THEN "drop"
    ELSE IF row[m] = "sent" THEN "recovered" ELSE "turn"

\* The drop comes before the ledger is asked.
Verdict(m) ==
    IF NoteAttempt(m).count > MaxAttempts THEN "drop"
    ELSE IF row[m] \in {"inflight", "sent"} THEN "recovered" ELSE "turn"

\* The attempt is written before anything is decided about the message.
Pick(m) ==
    /\ Idle /\ ~draining
    /\ NextTask(m)
    /\ attempt' = NoteAttempt(m)
    /\ Enter(Verdict(m), m)
    /\ UNCHANGED <<inbox, claim, row, owed, boot, view, runs, unrecorded,
                   prompts, log, bounds>>

\* Mutant: every admission starts with a full budget.
AdmittedClaimFresh(m) ==
    [state |-> "running", budget |-> Budget, inputs |-> {m}]

\* A known claim keeps its budget and takes this message as its only input.
AdmittedClaim(m) ==
    [state  |-> "running",
     budget |-> IF claim[m].state = "none" THEN Budget ELSE claim[m].budget,
     inputs |-> {m}]

\* Stale intents go, the claim is recorded, and the worker starts.
Admit ==
    /\ At("admit")
    /\ row' = [row EXCEPT ![cur] = IF @ = "pending" THEN "none" ELSE @]
    /\ claim' = [claim EXCEPT ![cur] = AdmittedClaim(cur)]
    /\ starts' = [starts EXCEPT ![cur] = @ + 1]
    /\ tripped' = FALSE
    /\ deferred' = deferred \ {cur}
    /\ Forward(1)
    /\ UNCHANGED <<inbox, attempt, owed, boot, view, interrupts, zombies,
                   since, taken, unrecorded, prompts, arrived, answers,
                   outcome, joined, everTaken, exposed, lapsed, bounds>>

-----------------------------------------------------------------------------
(* The run, in its worker thread, under the watchdog.                      *)

\* Silence, a starving Send-now, a takeover: ask the run to stop.
Trip ==
    /\ At("run") /\ ~tripped
    /\ tripped' = TRUE
    /\ UNCHANGED <<files, boot, loop, view, deferred, interrupts, zombies,
                   since, taken, unrecorded, prompts, log, bounds>>

\* A chat that arrived after the run started leaves the inbox to join it.
\* Nothing here asks whether the run was abandoned in the meantime, nor
\* whether the chat is the one the active run is busy with.
TakeSteer(r, c) ==
    /\ Steering
    /\ r \in Running /\ ~LockHeld
    /\ c \in since[r] \cap inbox
    /\ inbox' = inbox \ {c}
    /\ taken' = [taken EXCEPT ![r] = @ \cup {c}]
    /\ everTaken' = everTaken \cup {c}
    /\ UNCHANGED <<claim, row, attempt, owed, boot, loop, view, tripped,
                   deferred, interrupts, zombies, since, unrecorded, prompts,
                   arrived, answers, outcome, joined, exposed, lapsed, starts,
                   bounds>>

\* The popped follow-ups go into the turn's claim, if it still has one, and
\* into its transcript.
RecordSteer(r) ==
    /\ r \in Running
    /\ taken[r] # {}
    /\ IF claim[r].state # "none"
         THEN /\ claim' = [claim EXCEPT ![r].inputs = @ \cup taken[r]]
              /\ UNCHANGED exposed
         ELSE /\ exposed' = exposed \cup taken[r]
              /\ UNCHANGED claim
    /\ joined' = [c \in Chats |-> IF c \in taken[r] THEN r ELSE joined[c]]
    /\ taken' = [taken EXCEPT ![r] = {}]
    /\ UNCHANGED <<inbox, row, attempt, owed, boot, loop, view, tripped,
                   deferred, interrupts, zombies, since, unrecorded, prompts,
                   arrived, answers, outcome, everTaken, lapsed, starts,
                   bounds>>

\* Mutant: the interrupt is not counted.
InterruptedForgotten(m) == interrupts

\* note_interrupt: this boot's count of interrupts of the message.
Interrupted(m) == [interrupts EXCEPT ![m] = @ + 1]

\* The worker returns: an answer or an error text, or the interrupt notice
\* when it noticed the flag or a newer chat sent with Send-now.
Finish(interrupted) ==
    /\ At("run") /\ taken[cur] = {}
    /\ since' = [since EXCEPT ![cur] = {}]
    /\ IF interrupted
         THEN /\ tripped \/ (inbox \cap Chats) \ {cur} # {}
              /\ interrupts' = Interrupted(cur)
              /\ Enter(IF interrupts'[cur] >= MaxInterrupts
                         THEN "giveup" ELSE "defer", cur)
         ELSE Enter("answer", cur) /\ UNCHANGED interrupts
    /\ UNCHANGED <<files, boot, view, tripped, deferred, zombies, taken,
                   unrecorded, prompts, log, bounds>>

\* The grace window ran out: the run becomes a zombie and the request is
\* settled without it.
Escape ==
    /\ At("run") /\ tripped
    /\ escapes < MaxEscapes
    /\ escapes' = escapes + 1
    /\ zombies' = zombies \cup {cur}
    /\ Enter("escape", cur)
    /\ UNCHANGED <<files, boot, view, tripped, deferred, interrupts, since,
                   taken, unrecorded, prompts, log, restarts>>

LateSettle(z) ==
    /\ z \in zombies /\ taken[z] = {}
    /\ zombies' = zombies \ {z}
    /\ since' = [since EXCEPT ![z] = {}]
    /\ UNCHANGED <<files, boot, loop, view, tripped, deferred, interrupts,
                   taken, unrecorded, prompts, log, bounds>>

-----------------------------------------------------------------------------
(* The ways out of a turn: one durable write per step.                     *)

Source(m) == IF m \in Prompts THEN source[m] ELSE m

Close(how) == [c \in Chats |->
                 IF c \in Audience(cur) /\ outcome[c] = "open"
                   THEN how ELSE outcome[c]]

SetRow(s) == row' = [row EXCEPT ![cur] = s]

\* The terminal row of the delivery ledger: intent, in flight, receipt, and
\* gone once the turn is settled.
LedgerWrite ==
    /\ \/ At("begin")    /\ SetRow(IF row[cur] = "none"
                                     THEN "pending" ELSE row[cur])
       \/ At("inflight") /\ SetRow(IF row[cur] = "sent"
                                     THEN "sent" ELSE "inflight")
       \/ At("receipt")  /\ SetRow("sent")
       \/ At("prune")    /\ SetRow("none")
    /\ Forward(1)
    /\ UNCHANGED <<inbox, claim, attempt, owed, boot, view, runs, unrecorded,
                   prompts, log, bounds>>

\* The terminal reply reaches the recipient.
Reply ==
    /\ At("reply")
    /\ answers' = [answers EXCEPT ![cur] = @ + 1]
    /\ outcome' = Close("told")
    /\ Forward(1)
    /\ UNCHANGED <<files, boot, view, runs, unrecorded, prompts, arrived,
                   joined, everTaken, exposed, lapsed, starts, bounds>>

\* A visible text that is not the turn's answer: the pause notice of an
\* interrupted turn, a drop notice, a restart error, the final of a
\* recovered stream.  Only the pause leaves the message open.
Notice ==
    /\ At("notice")
    /\ outcome' = CASE path = "defer"  -> outcome
                    [] path = "giveup" -> Close("dropped")
                    [] OTHER           -> Close("told")
    /\ Forward(1)
    /\ UNCHANGED <<files, boot, view, runs, unrecorded, prompts, arrived,
                   answers, joined, everTaken, exposed, lapsed, starts,
                   bounds>>

\* mark_processed: the file moves to the archive, if it is still there.
Archive ==
    /\ At("archive")
    /\ inbox' = inbox \ {cur}
    /\ Forward(1)
    /\ UNCHANGED <<claim, row, attempt, owed, boot, view, runs, unrecorded,
                   prompts, log, bounds>>

\* Settled: the slot is cleared if it is this message's.  Deferred: the
\* slot is overwritten with a first attempt, and the message yields.
SetAttempt ==
    /\ \/ /\ At("unattempt")
          /\ attempt' = IF attempt.id = cur THEN [id |-> NoMsg, count |-> 0]
                                            ELSE attempt
          /\ UNCHANGED deferred
       \/ /\ At("reattempt")
          /\ attempt' = [id |-> cur, count |-> 1]
          /\ deferred' = deferred \cup {cur}
    /\ Forward(1)
    /\ UNCHANGED <<inbox, claim, row, owed, boot, view, tripped, interrupts,
                   zombies, since, taken, unrecorded, prompts, log, bounds>>

\* settle_turn deletes the claim; a turn deferred by a shutdown keeps it for
\* the next boot.
Release ==
    /\ At("release") \/ At("unclaim")
    /\ IF At("unclaim") /\ draining
         THEN UNCHANGED <<claim, starts>>
         ELSE /\ claim' = [claim EXCEPT ![cur] = NoClaim]
              /\ starts' = [starts EXCEPT ![cur] = 0]
    /\ Forward(1)
    /\ UNCHANGED <<inbox, row, attempt, owed, boot, view, runs, unrecorded,
                   prompts, arrived, answers, outcome, joined, everTaken,
                   exposed, lapsed, bounds>>

\* obligations.settle reads the record and the queue, then writes the record
\* it read, or removes it; a chat may be sent between the two.  A rejection
\* settles whatever is owed, be it that of a routine or a dream, whose messages
\* are in the user's name; a colleague's message settles nothing.
SettleRead ==
    /\ At("settle")
    /\ LET names == owed.ids # {} /\ (path = "reject" \/ Source(cur) \in owed.ids)
       IN  \/ /\ names
              /\ view' = (IF UserPending THEN owed ELSE NoDebt) /\ Forward(1)
           \/ /\ ~names \/ cur \in Works
              /\ UNCHANGED view /\ Forward(2)
    /\ UNCHANGED <<files, boot, runs, unrecorded, prompts, log, bounds>>

SettleWrite ==
    /\ At("write")
    /\ owed' = view
    /\ view' = NoDebt
    /\ Forward(1)
    /\ UNCHANGED <<inbox, claim, row, attempt, boot, runs, unrecorded,
                   prompts, log, bounds>>

-----------------------------------------------------------------------------
(* Stops.  SIGTERM stamps the claims and trips the run; the loop leaves    *)
(* after the pass it is in, and arrivals since then get a restart error.   *)

Stamped == [m \in Ids |->
              IF claim[m].state \in {"running", "queued"}
                THEN [claim[m] EXCEPT !.state = "interrupted"] ELSE claim[m]]

BeginDrain ==
    /\ Shutdowns /\ ~draining /\ restarts < MaxRestarts
    /\ draining' = TRUE
    /\ claim' = Stamped
    /\ tripped' = (tripped \/ At("run"))
    /\ UNCHANGED <<inbox, row, attempt, owed, phase, late, sweep, loop, view,
                   deferred, interrupts, zombies, since, taken, unrecorded,
                   prompts, log, bounds>>

RejectArrival ==
    /\ Idle /\ draining
    /\ \E m \in late \cap inbox : Enter("reject", m)
    /\ UNCHANGED <<files, boot, view, runs, unrecorded, prompts, log, bounds>>

\* Follow-ups that left the inbox and are in no record yet.
Popped == UNION {taken[m] : m \in Ids}

\* Chats whose file is archived and whose closing text is not out yet.  If
\* the row says that an answer may be out, what brings them back may be
\* archived before they are told.
Unannounced ==
    {c \in Audience(cur) :
        /\ path \in {"drop", "reject"}
        /\ cur \notin inbox
        /\ \/ ~Recoverable(c)
           \/ c \in Hosted(cur) /\ row[cur] \in {"inflight", "sent"}}

\* What dies with the process.
Die ==
    /\ phase' = "booting"
    /\ restarts' = restarts + 1
    /\ draining' = FALSE /\ late' = {} /\ sweep' = {}
    /\ Leave
    /\ view' = NoDebt /\ tripped' = FALSE
    /\ deferred' = {} /\ interrupts' = [m \in Ids |-> 0]
    /\ zombies' = {}
    /\ since' = [m \in Ids |-> {}]
    /\ taken' = [m \in Ids |-> {}]
    /\ exposed' = exposed \cup Popped \cup Unannounced
    /\ UNCHANGED <<inbox, row, attempt, owed, unrecorded, prompts, arrived,
                   answers, outcome, joined, everTaken, lapsed, starts,
                   escapes>>

EndDrain ==
    /\ Idle /\ draining
    /\ late \cap inbox = {}
    /\ claim' = Stamped
    /\ Die

Crash ==
    /\ restarts < MaxRestarts
    /\ phase # "booting"
    /\ UNCHANGED claim
    /\ Die

-----------------------------------------------------------------------------
Harness == \/ \E c \in Chats : SendChat(c) \/ RecordSend(c)
           \/ \E w \in Works : SendWork(w)

Recover == \/ Boot \/ Requeue \/ MarkQueued \/ Refund
           \/ Tombstone \/ Bury \/ SweepDone
           \/ \E m \in Ids : SweepClaim(m)

WayOut == \/ LedgerWrite \/ Reply \/ Notice \/ Archive \/ SetAttempt
          \/ Release \/ SettleRead \/ SettleWrite

MainLoop == \/ CheckObligations \/ SendPrompt \/ Admit
            \/ RejectArrival \/ EndDrain
            \/ \E m \in Ids : Pick(m)

Worker == \/ \E i \in BOOLEAN : Finish(i)
          \/ \E r \in Ids : RecordSteer(r) \/ LateSettle(r)
          \/ \E r \in Ids, c \in Chats : TakeSteer(r, c)

Next == \/ Harness \/ Recover \/ WayOut \/ MainLoop \/ Worker
        \/ Trip \/ Escape \/ BeginDrain \/ Crash

Spec == Init /\ [][Next]_vars

\* The main thread keeps stepping, and the harness finishes the accept it
\* began.  A run either returns or is abandoned by the watchdog; MaxEscapes
\* bounds the second, so the first is fair here.
Fairness ==
    /\ WF_vars(Recover \/ WayOut \/ MainLoop)
    /\ WF_vars(\E i \in BOOLEAN : Finish(i))
    /\ \A r \in Ids : WF_vars(RecordSteer(r))
    /\ \A c \in Chats : WF_vars(RecordSend(c))

FairSpec == Spec /\ Fairness

-----------------------------------------------------------------------------
(* Type correctness of every record, file and program variable.            *)
FilesOK ==
    /\ inbox \subseteq Ids
    /\ claim \in [Ids -> Claims]
    /\ row \in [Ids -> RowStates]
    /\ attempt \in [id : Ids \cup {NoMsg}, count : Nat]
    /\ owed \in Debts

LoopOK ==
    /\ path \in DOMAIN Route
    /\ step \in 0..Len(Route[path])
    /\ cur \in IF step = 0 THEN {NoMsg} ELSE Ids

ProcessOK ==
    /\ phase \in {"booting", "sweeping", "up"}
    /\ draining \in BOOLEAN /\ tripped \in BOOLEAN
    /\ late \subseteq Ids /\ sweep \subseteq Ids
    /\ view \in Debts
    /\ deferred \subseteq Ids /\ zombies \subseteq Ids
    /\ interrupts \in [Ids -> Nat]
    /\ since \in [Ids -> SUBSET Chats]
    /\ taken \in [Ids -> SUBSET Chats]
    /\ unrecorded \subseteq Chats
    /\ about \in [Prompts -> SUBSET Chats]
    /\ source \in [Prompts -> Chats \cup {NoMsg}]

LogOK ==
    /\ arrived \subseteq Ids
    /\ answers \in [Ids -> Nat]
    /\ outcome \in [Chats -> {"open", "told", "dropped", "lost"}]
    /\ joined \in [Chats -> Ids \cup {NoMsg}]
    /\ everTaken \subseteq Chats /\ exposed \subseteq Chats
    /\ lapsed \subseteq Ids
    /\ starts \in [Ids -> Nat]
    /\ restarts \in Nat /\ escapes \in Nat

\* No charge goes below zero, no refund past the budget, no redrive past its
\* cap, and the process never walks off the end of a way out.
TypeOK == FilesOK /\ LoopOK /\ ProcessOK /\ LogOK

-----------------------------------------------------------------------------
(* What must never go wrong.                                               *)

\* A message that was never folded into another turn gets at most one
\* terminal reply, whatever crashes between the writes around it.
AnsweredOnce ==
    \A m \in Ids \ everTaken : answers[m] <= 1

\* The same for every message, follow-ups included.
AnsweredOnceAll ==
    \A m \in Ids : answers[m] <= 1

\* Until a chat is closed something brings it to the user's attention again:
\* its file, a claim, the run that popped it, the way out being walked, or
\* the turn it was folded into.  Exposed chats are those the process died on
\* (or a zombie took) between a file's removal and the next record.
OpenIsCarried ==
    \A c \in Chats \cap (arrived \ exposed) :
        outcome[c] = "open" =>
            \/ Recoverable(c)
            \/ \E m \in Ids : c \in taken[m]
            \/ step > 0 /\ c \in Audience(cur)
            \/ joined[c] # NoMsg /\ Recoverable(joined[c])

\* The obligation is never cleared while it names a chat that is still open
\* and that nothing but the obligation remembers.
ClearedMeansClosed ==
    At("write") /\ view = NoDebt =>
        \A c \in exposed \cap owed.ids :
            \/ outcome[c] # "open"
            \/ Recoverable(c)
            \/ c \in Audience(cur)

\* A follow-up folded into a turn and not yet closed is carried by a claim,
\* by its own file, or by the turn it was folded into.
SteeredIsCarried ==
    \A c \in Chats :
        joined[c] # NoMsg /\ outcome[c] = "open" =>
            \/ Recoverable(c)
            \/ Recoverable(joined[c])
            \/ step > 0 /\ c \in Audience(cur)

\* A crash loop is bounded: between two settlements a message runs once, and
\* once more for every charge on its claim.
StartsWithinBudget ==
    \A m \in Ids \ lapsed :
        Live(m) => starts[m] + claim[m].budget <= Budget + 1

\* A turn whose budget ran out is lost for good: it never runs again.
TombstoneIsFinal ==
    \A m \in lapsed : ~Live(m)

\* A queued chat gets an outcome, however often its runs are tripped, deferred
\* behind fresher work or abandoned, and whatever crashes in between.
EveryChatCloses ==
    \A c \in Chats : c \in inbox ~> outcome[c] # "open" \/ c \in exposed

\* No queued message starves, of whatever lane.
EveryMessageLeaves ==
    \A m \in Ids : m \in inbox ~> m \notin inbox

=============================================================================
