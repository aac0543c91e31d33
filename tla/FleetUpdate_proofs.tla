------------------------- MODULE FleetUpdate_proofs -------------------------
(***************************************************************************)
(* Proofs about FleetUpdate, for any number of bots, operations and        *)
(* crashes: type correctness, that one bot at a time is out of service,    *)
(* that a restart takes no work down, that a completed operation holds no  *)
(* bot of its rows, and that it leaves none on another release.            *)
(***************************************************************************)
EXTENDS FleetUpdate, TLAPS

Out  == {"saving_state", "restarting", "checking_health", "recovering"}
Over == {"complete", "stopped"}

\* Rows are worked off in order: above one that is not settled none is out of
\* service, and none waits for its owner.
Orderly(row) ==
    \A b, c \in Bots : c < b /\ row[c] \notin Settled =>
        row[b] \notin Out \cup {"needs_attention"}

\* The tick is in progress under a controller of the target only, and works
\* on the first row that is not settled.
TickIsOrderly ==
    ctl.pc # "idle" =>
        /\ ctl.ver = "new" /\ op.stage \in {"rolling", "recovering"}
        /\ ctl.on \in Bots /\ First(ctl.on)

\* The host's worker saves its journal over no other's.
HostIsAlone ==
    /\ host.pc = "prepare" => op.stage = "preparing"
    /\ host.pc \in {"flip", "restart", "wait", "back", "back_restart",
                    "back_wait"} => op.stage = "installing"

RowsAreOrderly == Orderly(op.row) /\ Orderly(host.op.row)

\* An operation has a number, and so has the hold a bot acknowledges at rest.
Numbered ==
    /\ op.stage # "idle" => op.id > 0
    /\ host.pc # "idle" => host.op.id > 0

AckIsRest ==
    /\ \A b \in Bots : ack[b] > 0 => bot[b].phase = "idle" /\ ~bot[b].zombie
    /\ \/ ctl.pc \in {"restart", "kill"}
       \/ ctl.pc = "restore" /\ hold[ctl.on] # 0
       => bot[ctl.on].phase = "idle" /\ ~bot[ctl.on].zombie

\* The hold of a row that is over is released, also by the journal the
\* host's worker may yet save.
OverIsReleased ==
    /\ \A b \in Bots : op.row[b] \in Over => hold[b] # op.id
    /\ host.pc # "idle" =>
         /\ host.op.id <= op.id
         /\ \A b \in Bots : host.op.row[b] \in Over =>
              /\ hold[b] # host.op.id
              /\ host.op.id = op.id => op.row[b] \in Over
    /\ ctl.pc = "save" /\ ctl.to \in Over => hold[ctl.on] # op.id

Order == TickIsOrderly /\ HostIsAlone /\ RowsAreOrderly

CompleteIsOver == op.stage = "complete" => \A b \in Bots : op.row[b] \in Settled

\* The inductive invariant of the journal and its holds.
IInv == /\ TypeOK /\ Order /\ Numbered /\ CompleteIsOver
        /\ AckIsRest /\ OverIsReleased

-----------------------------------------------------------------------------
(* What the helpers do to the records they change.                         *)
LEMMA RowSet ==
    ASSUME op \in OpRecords, NEW b \in Bots, NEW s \in RowStages, SetRow(b, s)
    PROVE  /\ op' \in OpRecords
           /\ op'.row[b] = s
           /\ \A c \in Bots \ {b} : op'.row[c] = op.row[c]
           /\ op'.id = op.id /\ op'.stage = op.stage /\ op'.error = op.error
<1> DEFINE row == [op.row EXCEPT ![b] = s]
<1>1. op' = [op EXCEPT !.row = row]
  BY DEF SetRow
<1>2. /\ row \in [Bots -> RowStages] /\ row[b] = s
      /\ \A c \in Bots \ {b} : row[c] = op.row[c]
  BY DEF OpRecords
<1> HIDE DEF row
<1> QED BY <1>1, <1>2 DEF OpRecords

LEMMA AtSet ==
    ASSUME ctl \in CtlRecords, NEW b \in Bots, NEW to \in RowStages,
           NEW pc \in {"decide", "restart", "kill", "spawn", "fail", "restore",
                       "respawn", "save"},
           At(pc, b, to)
    PROVE  /\ ctl' \in CtlRecords
           /\ ctl'.ver = ctl.ver
           /\ ctl'.pc = pc /\ ctl'.on = b /\ ctl'.to = to
BY DEF At, CtlRecords

LEMMA IdleType ==
    ASSUME NEW v \in Versions \cup {"down"}
    PROVE  Idle(v) \in CtlRecords /\ Idle(v).pc = "idle" /\ Idle(v).ver = v
BY DEF Idle, CtlRecords, RowStages

LEMMA HostAtSet ==
    ASSUME host \in HostRecords, HostAt("flip") \/ HostAt("restart")
             \/ HostAt("wait") \/ HostAt("back") \/ HostAt("back_restart")
             \/ HostAt("back_wait") \/ HostAt("pins")
    PROVE  /\ host' \in HostRecords
           /\ host'.op = host.op
           /\ \A pc \in {"flip", "restart", "wait", "back", "back_restart",
                         "back_wait", "pins"} : HostAt(pc) => host'.pc = pc
BY DEF HostAt, HostRecords

LEMMA HostSaved ==
    ASSUME host \in HostRecords, NEW stage \in OpStages,
           NEW error \in {"none", "paused", "host"}, HostSave(stage, error)
    PROVE  /\ op' \in OpRecords
           /\ op'.id = host.op.id /\ op'.row = host.op.row
           /\ op'.stage = stage
BY DEF HostSave, HostRecords, OpRecords

LEMMA NoRecords ==
    /\ NoOp \in OpRecords /\ NoHost \in HostRecords
    /\ NoOp.id = 0 /\ NoOp.stage = "idle" /\ NoOp.row = NoRows
    /\ NoHost.pc = "idle" /\ NoHost.op = NoOp
<1>1. NoOp \in OpRecords
  BY FleetAssumption DEF NoOp, NoRows, OpRecords, OpStages, RowStages
<1>2. NoHost \in HostRecords
  BY <1>1 DEF NoHost, HostRecords
<1> QED BY <1>1, <1>2 DEF NoOp, NoHost

LEMMA BotSet ==
    ASSUME bot \in [Bots -> BotRecords], NEW b \in Bots
    PROVE  /\ Stop(b) \in BotRecords /\ ~Stop(b).zombie
           /\ Stop(b).phase = "idle"
           /\ [Stop(b) EXCEPT !.stopped = TRUE] \in BotRecords
           /\ [Stop(b) EXCEPT !.stopped = TRUE].phase = "idle"
           /\ ~[Stop(b) EXCEPT !.stopped = TRUE].zombie
           /\ \A v \in Versions :
                /\ Spawn(b, v) \in BotRecords /\ ~Spawn(b, v).zombie
                /\ Spawn(b, v).phase = "idle"
                /\ [Spawn(b, v) EXCEPT !.stopped = FALSE] \in BotRecords
                /\ [Spawn(b, v) EXCEPT !.stopped = FALSE].phase = "idle"
                /\ ~[Spawn(b, v) EXCEPT !.stopped = FALSE].zombie
           /\ [bot[b] EXCEPT !.phase = "turn"] \in BotRecords
           /\ [bot[b] EXCEPT !.phase = "idle"] \in BotRecords
           /\ [bot[b] EXCEPT !.phase = "idle", !.zombie = TRUE] \in BotRecords
           /\ [bot[b] EXCEPT !.zombie = FALSE] \in BotRecords
<1>1. bot[b] \in BotRecords
  OBVIOUS
<1>2. Stop(b) \in BotRecords /\ ~Stop(b).zombie /\ Stop(b).phase = "idle"
  BY <1>1 DEF Stop, BotRecords
<1>3. /\ [Stop(b) EXCEPT !.stopped = TRUE] \in BotRecords
      /\ [Stop(b) EXCEPT !.stopped = TRUE].phase = "idle"
      /\ ~[Stop(b) EXCEPT !.stopped = TRUE].zombie
  BY <1>2 DEF BotRecords
<1>4. ASSUME NEW v \in Versions
      PROVE  /\ Spawn(b, v) \in BotRecords /\ ~Spawn(b, v).zombie
             /\ Spawn(b, v).phase = "idle"
  BY <1>1 DEF Spawn, BotRecords
<1>5. ASSUME NEW v \in Versions
      PROVE  /\ [Spawn(b, v) EXCEPT !.stopped = FALSE] \in BotRecords
             /\ [Spawn(b, v) EXCEPT !.stopped = FALSE].phase = "idle"
             /\ ~[Spawn(b, v) EXCEPT !.stopped = FALSE].zombie
  BY <1>4 DEF BotRecords
<1>6. /\ [bot[b] EXCEPT !.phase = "turn"] \in BotRecords
      /\ [bot[b] EXCEPT !.phase = "idle"] \in BotRecords
  BY <1>1 DEF BotRecords
<1>7. /\ [bot[b] EXCEPT !.phase = "idle", !.zombie = TRUE] \in BotRecords
      /\ [bot[b] EXCEPT !.zombie = FALSE] \in BotRecords
  BY <1>1 DEF BotRecords
<1> QED BY <1>2, <1>3, <1>4, <1>5, <1>6, <1>7

(* A row set by the tick keeps the rows in order.                          *)
LEMMA OrderlySet ==
    ASSUME NEW row, NEW new, NEW b \in Bots, Orderly(row),
           row[b] \notin Settled,
           \A c \in Bots : c < b => row[c] \in Settled,
           \A c \in Bots \ {b} : new[c] = row[c]
    PROVE  Orderly(new)
<1> SUFFICES ASSUME NEW d \in Bots, NEW c \in Bots, c < d,
                    new[c] \notin Settled
             PROVE  new[d] \notin Out \cup {"needs_attention"}
  BY DEF Orderly
<1>1. c = b \/ b < c
  BY DEF Bots
<1>2. row[c] \notin Settled /\ d # b
  BY <1>1 DEF Bots
<1> QED BY <1>2 DEF Orderly

(* The row of a tick.                                                      *)
LEMMA SavedRow ==
    ASSUME TypeOK, TickSave, ctl.on \in Bots
    PROVE  /\ op' \in OpRecords /\ op'.id = op.id
           /\ op'.row[ctl.on] = ctl.to
           /\ \A c \in Bots \ {ctl.on} : op'.row[c] = op.row[c]
           /\ op'.stage \in {op.stage, "needs_attention", "recovering"}
<1> DEFINE row == [op.row EXCEPT ![ctl.on] = ctl.to]
           stage == IF ctl.to \in {"needs_attention", "recovering"}
                      THEN ctl.to ELSE op.stage
           error == IF ctl.to \in {"needs_attention", "recovering"}
                      THEN "paused" ELSE op.error
<1>1. op' = [op EXCEPT !.row = row, !.stage = stage, !.error = error]
  BY DEF TickSave
<1>2. op \in OpRecords /\ ctl.to \in RowStages
  BY DEF TypeOK, CtlRecords
<1>3. /\ row \in [Bots -> RowStages] /\ row[ctl.on] = ctl.to
      /\ \A c \in Bots \ {ctl.on} : row[c] = op.row[c]
  BY <1>2 DEF OpRecords
<1>4. /\ stage \in OpStages /\ error \in {"none", "paused", "host"}
      /\ stage \in {op.stage, "needs_attention", "recovering"}
  BY <1>2 DEF OpRecords, OpStages
<1> HIDE DEF row, stage, error
<1>5. op.id \in 0..MaxOps
  BY <1>2 DEF OpRecords
<1>6. op' \in OpRecords
  BY <1>1, <1>2, <1>3, <1>4, <1>5 DEF OpRecords
<1>7. op'.id = op.id /\ op'.row = row /\ op'.stage = stage
  BY <1>1, <1>2 DEF OpRecords
<1> QED BY <1>3, <1>4, <1>6, <1>7

(* An operation that begins: its rows are pending or absent.               *)
LEMMA NewOpType ==
    ASSUME TypeOK, op.id < MaxOps, NEW stage \in OpStages
    PROVE  LET new == NewOp(stage, "none")
           IN  /\ new \in OpRecords /\ new.id = op.id + 1 /\ new.id \in Int
               /\ new.stage = stage
               /\ \A b \in Bots : new.row[b] \in {"none", "pending"}
<1>1. op.id \in 0..MaxOps /\ MaxOps \in Nat
  BY FleetAssumption DEF TypeOK, OpRecords
<1>2. op.id + 1 \in 0..MaxOps
  BY <1>1
<1> QED BY <1>2 DEF NewOp, OpRecords, RowStages

(* What a retry does to the operation.                                     *)
LEMMA RetriedOp ==
    ASSUME TypeOK, Retry
    PROVE  /\ op' \in OpRecords /\ op'.id = op.id
           /\ op'.stage \in {"preparing", "rolling"}
           /\ \A b \in Bots :
                \/ op'.row[b] = op.row[b]
                \/ /\ op.row[b] = "needs_attention"
                   /\ op'.row[b] \in {"waiting", "checking_health"}
<1> DEFINE row == [b \in Bots |-> Retried(b)]
<1>1. op \in OpRecords
  BY DEF TypeOK
<1>2. /\ row \in [Bots -> RowStages]
      /\ \A b \in Bots :
           \/ row[b] = op.row[b]
           \/ /\ op.row[b] = "needs_attention"
              /\ row[b] \in {"waiting", "checking_health"}
  BY <1>1 DEF Retried, OpRecords, RowStages
<1> HIDE DEF row
<1>3. CASE op' = [op EXCEPT !.stage = "preparing", !.error = "none"]
  BY <1>1, <1>3 DEF OpRecords, OpStages
<1>4. CASE op' = [op EXCEPT !.stage = "rolling", !.error = "none", !.row = row]
  BY <1>1, <1>2, <1>4 DEF OpRecords, OpStages
<1> QED BY <1>3, <1>4 DEF Retry, row

(* What the last tick does to it.                                          *)
LEMMA EndedOp ==
    ASSUME TypeOK, TickEnd
    PROVE  /\ op' \in OpRecords /\ op'.id = op.id
           /\ op'.stage \in {op.stage, "complete"}
           /\ \A b \in Bots : /\ op.row[b] \in Settled
                              /\ \/ op'.row[b] = op.row[b]
                                 \/ op.row[b] = "none" /\ op'.row[b] = "pending"
<1> DEFINE more == {b \in Affected : op.row[b] = "none"}
           row == [b \in Bots |-> IF b \in more THEN "pending" ELSE op.row[b]]
<1>1. op \in OpRecords /\ \A b \in Bots : op.row[b] \in Settled
  BY DEF TypeOK, TickEnd
<1>2. /\ row \in [Bots -> RowStages]
      /\ \A b \in Bots : \/ row[b] = op.row[b]
                         \/ op.row[b] = "none" /\ row[b] = "pending"
  BY <1>1 DEF OpRecords, RowStages
<1>3. \/ op' = [op EXCEPT !.stage = "complete"]
      \/ op' = [op EXCEPT !.row = row]
  BY DEF TickEnd
<1> HIDE DEF row
<1>4. CASE op' = [op EXCEPT !.stage = "complete"]
  BY <1>1, <1>4 DEF OpRecords, OpStages
<1>5. CASE op' = [op EXCEPT !.row = row]
  BY <1>1, <1>2, <1>5 DEF OpRecords, OpStages
<1> QED BY <1>3, <1>4, <1>5

(* What is known of a tick that goes on.                                   *)
LEMMA TickOn ==
    ASSUME TypeOK, TickIsOrderly, ctl.pc # "idle"
    PROVE  /\ ctl.on \in Bots /\ op \in OpRecords /\ ctl \in CtlRecords
           /\ op.row[ctl.on] \notin Settled
           /\ \A c \in Bots : c < ctl.on => op.row[c] \in Settled
           /\ ctl.ver = "new" /\ op.stage \in {"rolling", "recovering"}
BY DEF TypeOK, TickIsOrderly, First

-----------------------------------------------------------------------------
(* Each action keeps the types.                                            *)
LEMMA TypeStep == TypeOK /\ TickIsOrderly /\ [Next]_vars => TypeOK'
<1> SUFFICES ASSUME TypeOK, TickIsOrderly, [Next]_vars PROVE TypeOK'
  OBVIOUS
<1>0. /\ op \in OpRecords /\ ctl \in CtlRecords /\ host \in HostRecords
      /\ bot \in [Bots -> BotRecords] /\ hold \in [Bots -> 0..MaxOps]
      /\ ack \in [Bots -> {NoAck} \cup (0..MaxOps)]
      /\ 0 \in 0..MaxOps /\ op.id \in 0..MaxOps
      /\ ctl.ver \in Versions \cup {"down"}
  BY FleetAssumption DEF TypeOK, OpRecords, CtlRecords
<1> USE DEF TypeOK
<1>1. CASE Start
  BY <1>1, NewOpType DEF Start, OpStages
<1>2. CASE Begin
  BY <1>2, NewOpType DEF Begin, Rolled, OpStages
<1>3. CASE Retry
  <2>1. op' \in OpRecords
    BY <1>3, RetriedOp
  <2>2. loose' \in BOOLEAN
    BY <1>3 DEF Retry, Rolled
  <2> QED BY <1>3, <2>1, <2>2 DEF Retry
<1>4. ASSUME NEW b \in Bots, TickStopped(b) PROVE TypeOK'
  BY <1>0, <1>4, AtSet DEF TickStopped, Release, RowStages
<1>5. ASSUME NEW b \in Bots, TickVerify(b) PROVE TypeOK'
  BY <1>0, <1>5, RowSet DEF TickVerify, RowStages
<1>6. ASSUME NEW b \in Bots, TickConfirmed(b) PROVE TypeOK'
  BY <1>0, <1>6, AtSet DEF TickConfirmed, Release, RowStages
<1>7. ASSUME NEW b \in Bots, TickTimeout(b) PROVE TypeOK'
  BY <1>0, <1>7, AtSet DEF TickTimeout, RowStages
<1>8. ASSUME NEW b \in Bots, TickRestored(b) PROVE TypeOK'
  BY <1>0, <1>8, AtSet DEF TickRestored, Release, RowStages
<1>9. ASSUME NEW b \in Bots, TickHold(b) PROVE TypeOK'
  BY <1>0, <1>9, AtSet DEF TickHold, RowStages
<1>10. CASE TickDecide \/ TickWait
  <2>1. ctl.on \in Bots
    BY <1>10, TickOn DEF TickDecide, TickWait
  <2>2. ctl' \in CtlRecords
    BY <1>0, <1>10, <2>1, AtSet, IdleType
    DEF TickDecide, TickWait, Free, RowStages
  <2>3. op' \in OpRecords
    BY <1>0, <1>10, <2>1, RowSet DEF TickDecide, TickWait, RowStages
  <2> QED BY <1>10, <2>2, <2>3 DEF TickDecide, TickWait
<1>11. CASE TickRestart
  <2>1. ctl.on \in Bots
    BY <1>11, TickOn DEF TickRestart
  <2> QED BY <1>0, <1>11, <2>1, AtSet, RowSet DEF TickRestart, RowStages
<1>12. CASE TickKill
  <2>1. ctl.on \in Bots
    BY <1>12, TickOn DEF TickKill
  <2> QED BY <1>0, <1>12, <2>1, AtSet, BotSet DEF TickKill, RowStages
<1>13. CASE TickSpawn
  <2>1. ctl.on \in Bots
    BY <1>13, TickOn DEF TickSpawn
  <2> QED BY <1>0, <1>13, <2>1, AtSet, BotSet DEF TickSpawn, RowStages, Versions
<1>14. CASE TickRaises
  <2>1. ctl.on \in Bots
    BY <1>14, TickOn DEF TickRaises
  <2> QED BY <1>0, <1>14, <2>1, AtSet DEF TickRaises, RowStages
<1>15. CASE TickFail \/ TickRestore \/ TickRespawn
  <2>1. ctl.on \in Bots
    BY <1>15, TickOn DEF TickFail, TickRestore, TickRespawn
  <2>2. ctl' \in CtlRecords
    BY <1>0, <1>15, <2>1, AtSet
    DEF TickFail, TickRestore, TickRespawn, RowStages
  <2>3. /\ \/ UNCHANGED <<bot, ack>>
           \/ /\ \/ bot' = [bot EXCEPT ![ctl.on] = Spawn(ctl.on, "old")]
                 \/ bot' = [bot EXCEPT ![ctl.on] = Stop(ctl.on)]
              /\ \/ ack' = [ack EXCEPT ![ctl.on] = NoAck]
                 \/ UNCHANGED ack
        /\ UNCHANGED <<op, cur, host, hold, crashes, loose, reload>>
    BY <1>15 DEF TickFail, TickRestore, TickRespawn
  <2>4. bot' \in [Bots -> BotRecords]
    BY <1>0, <2>1, <2>3, BotSet DEF Versions
  <2>5. ack' \in [Bots -> {NoAck} \cup (0..MaxOps)]
    BY <1>0, <2>1, <2>3
  <2> QED BY <1>15, <2>2, <2>3, <2>4, <2>5
<1>16. CASE TickSave
  <2>1. ctl.on \in Bots
    BY <1>16, TickOn DEF TickSave
  <2> QED BY <1>0, <1>16, <2>1, SavedRow, IdleType DEF TickSave, Free
<1>17. CASE TickEnd
  BY <1>17, EndedOp DEF TickEnd
<1>18. CASE HostPrepare
  BY <1>0, <1>18 DEF HostPrepare, HostRecords
<1>19. CASE HostRecover
  <2>1. op' \in OpRecords
    BY <1>0, <1>19 DEF HostRecover, OpRecords, OpStages
  <2>2. loose' \in BOOLEAN
    BY <1>19 DEF HostRecover, Rolled
  <2> QED BY <1>19, <2>1, <2>2 DEF HostRecover
<1>20. CASE HostRefuse
  BY <1>0, <1>20, HostSaved, NoRecords DEF HostRefuse, HostDone, OpStages
<1>21. CASE HostInstall
  <2>1. host.op.error \in {"none", "paused", "host"}
    BY <1>0 DEF HostRecords, OpRecords
  <2> QED BY <1>0, <1>21, <2>1, HostSaved, HostAtSet DEF HostInstall, OpStages
<1>22. CASE HostFlip
  BY <1>0, <1>22, HostAtSet DEF HostFlip, Versions
<1>23. CASE HostRestart \/ HostRaises \/ Reload
  <2>1. CASE HostRestart
    BY <1>0, <2>1, HostAtSet, IdleType DEF HostRestart
  <2>2. CASE HostRaises
    BY <1>0, <2>2, HostSaved, NoRecords, IdleType
    DEF HostRaises, HostDone, OpStages
  <2>3. CASE Reload
    BY <2>3, IdleType DEF Reload
  <2> QED BY <1>23, <2>1, <2>2, <2>3
<1>24. CASE HostHealthy
  <2>1. host.op.error \in {"none", "paused", "host"}
    BY <1>0 DEF HostRecords, OpRecords
  <2> QED BY <1>0, <1>24, <2>1, HostSaved, HostAtSet DEF HostHealthy, OpStages
<1>25. CASE HostUnhealthy
  BY <1>0, <1>25, HostSaved, HostAtSet, NoRecords
     DEF HostUnhealthy, HostDone, OpStages
<1>26. CASE HostPins
  BY <1>0, <1>26, HostSaved, NoRecords DEF HostPins, HostDone, OpStages
<1>27. CASE CtlCrash
  <2>1. crashes' \in 0..MaxCrashes
    BY <1>27, FleetAssumption DEF CtlCrash, Crashing
  <2> QED BY <1>27, <2>1, IdleType DEF CtlCrash
<1>28. CASE CtlBoot
  BY <1>28, IdleType DEF CtlBoot
<1>29. CASE HostCrash
  <2>1. crashes' \in 0..MaxCrashes
    BY <1>29, FleetAssumption DEF HostCrash, Crashing
  <2> QED BY <1>29, <2>1, NoRecords DEF HostCrash, HostDone
<1>30. ASSUME NEW b \in Bots, Admit(b) PROVE TypeOK'
  <2>1. [bot[b] EXCEPT !.phase = "turn"] \in BotRecords
    BY <1>0, BotSet
  <2> QED BY <1>0, <1>30, <2>1 DEF Admit, Acked
<1>31. ASSUME NEW b \in Bots, TurnEnds(b) PROVE TypeOK'
  BY <1>0, <1>31, BotSet DEF TurnEnds
<1>32. ASSUME NEW b \in Bots, Escape(b) PROVE TypeOK'
  BY <1>0, <1>32, BotSet DEF Escape
<1>33. ASSUME NEW b \in Bots, ZombieEnds(b) PROVE TypeOK'
  BY <1>0, <1>33, BotSet DEF ZombieEnds
<1>34. ASSUME NEW b \in Bots, Stale(b) PROVE TypeOK'
  BY <1>0, <1>34 DEF Stale
<1>35. ASSUME NEW b \in Bots, Owner(b) PROVE TypeOK'
  <2>2. CASE StopBot(b)
    BY <1>0, <2>2, BotSet DEF StopBot
  <2>3. CASE StartBot(b)
    <3>1. ctl.ver \in Versions
      BY <1>0, <2>3 DEF StartBot, Reach
    <3> QED BY <1>0, <2>3, <3>1, BotSet DEF StartBot
  <2> QED BY <1>35, <2>2, <2>3 DEF Owner
<1>36. ASSUME NEW b \in Bots, BotCrash(b) PROVE TypeOK'
  <2>1. crashes' \in 0..MaxCrashes
    BY <1>36, FleetAssumption DEF BotCrash, Crashing
  <2> QED BY <1>0, <1>36, <2>1, BotSet DEF BotCrash
<1>37. CASE UNCHANGED vars
  BY <1>37 DEF vars
<1> QED
  BY <1>1, <1>2, <1>3, <1>4, <1>5, <1>6, <1>7, <1>8, <1>9, <1>10, <1>11,
     <1>12, <1>13, <1>14, <1>15, <1>16, <1>17, <1>18, <1>19, <1>20, <1>21,
     <1>22, <1>23, <1>24, <1>25, <1>26, <1>27, <1>28, <1>29, <1>30, <1>31,
     <1>32, <1>33, <1>34, <1>35, <1>36, <1>37
     DEF Next, Tick, TickRow, Worker

-----------------------------------------------------------------------------
(* The order of the roll.                                                  *)
Roll == Order /\ Numbered /\ CompleteIsOver

InProgress == ctl.ver = "new" /\ op.stage \in {"rolling", "recovering"}

\* A tick that touches no row.
LEMMA TickGoesOn ==
    ASSUME TypeOK, Roll, InProgress, NEW b \in Bots, First(b),
           NEW to \in RowStages,
           NEW pc \in {"decide", "restart", "kill", "spawn", "fail", "restore",
                       "respawn", "save"},
           At(pc, b, to), UNCHANGED <<op, host>>
    PROVE  Roll'
<1>1. ctl'.ver = ctl.ver /\ ctl'.pc = pc /\ ctl'.on = b
  BY AtSet DEF TypeOK
<1>2. TickIsOrderly'
  BY <1>1 DEF TickIsOrderly, First, InProgress
<1> QED
  BY <1>2 DEF Roll, Order, HostIsAlone, RowsAreOrderly, Orderly, Numbered,
              CompleteIsOver

\* A tick that gives its row a stage in which it is not settled.
LEMMA TickSetsRow ==
    ASSUME TypeOK, Roll, InProgress, NEW b \in Bots, First(b),
           NEW s \in RowStages \ Settled, SetRow(b, s),
           \/ ctl'.pc = "idle"
           \/ ctl'.on = b /\ ctl'.ver = ctl.ver,
           UNCHANGED host
    PROVE  Roll'
<1>1. /\ op'.row[b] = s /\ \A c \in Bots \ {b} : op'.row[c] = op.row[c]
      /\ op'.id = op.id /\ op'.stage = op.stage
  BY RowSet DEF TypeOK
<1>2. /\ op.row[b] \notin Settled
      /\ \A c \in Bots : c < b => op.row[c] \in Settled
  BY DEF First
<1>3. Orderly(op'.row)
  BY <1>1, <1>2, OrderlySet DEF Roll, Order, RowsAreOrderly
<1>4. \A c \in Bots : c < b => c # b
  BY DEF Bots
<1>5. TickIsOrderly'
  BY <1>1, <1>2, <1>4 DEF TickIsOrderly, First, InProgress
<1>6. HostIsAlone' /\ Numbered' /\ CompleteIsOver'
  BY <1>1 DEF Roll, Order, HostIsAlone, Numbered, CompleteIsOver, InProgress
<1> QED
  BY <1>3, <1>5, <1>6 DEF Roll, Order, RowsAreOrderly, Orderly

\* What changes none of the journal, the tick and the worker.
LEMMA RollIsKept ==
    ASSUME Roll, UNCHANGED <<op, ctl, host>>
    PROVE  Roll'
BY DEF Roll, Order, TickIsOrderly, First, HostIsAlone, RowsAreOrderly, Orderly,
       Numbered, CompleteIsOver

\* The controller's tick is over, and nothing else has changed.
LEMMA TickIsOver ==
    ASSUME Roll, ctl'.pc = "idle", UNCHANGED <<op, host>>
    PROVE  Roll'
BY DEF Roll, Order, TickIsOrderly, HostIsAlone, RowsAreOrderly, Orderly,
       Numbered, CompleteIsOver

\* The host's worker is gone, and nothing else has changed.
LEMMA HostIsGone ==
    ASSUME Roll, host' = NoHost, UNCHANGED <<op, ctl>>
    PROVE  Roll'
<1>1. Orderly(NoRows)
  BY DEF Orderly, NoRows, Settled
<1> QED
  BY <1>1, NoRecords DEF Roll, Order, TickIsOrderly, First, HostIsAlone,
     RowsAreOrderly, Orderly, Numbered, CompleteIsOver

\* A save of the host's worker, which leaves the journal it read as it was.
LEMMA HostSaves ==
    ASSUME TypeOK, Roll, ctl.pc = "idle", UNCHANGED ctl, host.pc # "idle",
           NEW stage \in OpStages \ {"complete"},
           NEW error \in {"none", "paused", "host"}, HostSave(stage, error),
           \/ host' = NoHost
           \/ /\ host'.op = host.op /\ stage = "installing"
              /\ host'.pc # "prepare"
           \/ host'.op = host.op /\ host'.pc = "pins"
    PROVE  Roll'
<1>1. /\ op'.id = host.op.id /\ op'.row = host.op.row /\ op'.stage = stage
  BY HostSaved DEF TypeOK
<1>2. Orderly(NoRows)
  BY DEF Orderly, NoRows, Settled
<1>3. CASE host' = NoHost
  BY <1>1, <1>2, <1>3, NoRecords
     DEF Roll, Order, TickIsOrderly, HostIsAlone, RowsAreOrderly, Numbered,
         CompleteIsOver, Orderly
<1>4. CASE host'.op = host.op
  <2>1. HostIsAlone'
    BY <1>1, <1>2, NoRecords DEF HostIsAlone
  <2> QED
    BY <1>1, <1>4, <2>1
       DEF Roll, Order, TickIsOrderly, RowsAreOrderly, Numbered,
           CompleteIsOver, Orderly
<1> QED BY <1>3, <1>4

LEMMA RollStep == TypeOK /\ Roll /\ [Next]_vars => Roll'
<1> SUFFICES ASSUME TypeOK, Roll, [Next]_vars PROVE Roll'
  OBVIOUS
<1>0. /\ TickIsOrderly /\ HostIsAlone /\ RowsAreOrderly /\ Numbered
      /\ op \in OpRecords /\ ctl \in CtlRecords /\ host \in HostRecords
      /\ op.id \in 0..MaxOps
      /\ op.stage \notin {"rolling", "recovering"} => ctl.pc = "idle"
  BY DEF Roll, Order, TypeOK, TickIsOrderly, OpRecords
<1>a. /\ "none" \in RowStages /\ "stopped" \in RowStages
      /\ "complete" \in RowStages /\ "needs_attention" \in RowStages
      /\ "recovering" \in RowStages /\ "checking_health" \in RowStages
  BY DEF RowStages
<1>b. /\ "waiting" \in RowStages \ Settled /\ "restarting" \in RowStages \ Settled
      /\ "saving_state" \in RowStages \ Settled
      /\ "checking_health" \in RowStages \ Settled
  BY DEF RowStages, Settled
<1>c. Ticking => InProgress
  BY DEF Ticking, InProgress
<1>d. ctl.pc # "idle" => InProgress /\ ctl.on \in Bots /\ First(ctl.on)
  BY <1>0 DEF TickIsOrderly, InProgress
<1>1. CASE Start \/ Begin
  <2>1. PICK stage \in {"preparing", "rolling"} :
            op' = NewOp(stage, "none") /\ op.id < MaxOps
    BY <1>1 DEF Start, Begin
  <2>2. /\ op.stage \in TERMINAL /\ ctl.pc = "idle"
        /\ UNCHANGED <<ctl, host>>
    BY <1>0, <1>1 DEF Start, Begin, TERMINAL
  <2>3. stage \in OpStages
    BY DEF OpStages
  <2>4. /\ op'.id = op.id + 1 /\ op'.stage = stage
        /\ \A b \in Bots : op'.row[b] \in {"none", "pending"}
    BY <2>1, <2>3, NewOpType
  <2>5. op'.id > 0
    BY <1>0, <2>4
  <2>6. Orderly(op'.row)
    BY <2>4 DEF Orderly, Out
  <2>7. HostIsAlone'
    BY <1>0, <2>2, <2>4 DEF HostIsAlone, TERMINAL
  <2> QED
    BY <2>2, <2>4, <2>5, <2>6, <2>7
       DEF Roll, Order, TickIsOrderly, RowsAreOrderly, Numbered,
           CompleteIsOver, Orderly
<1>2. CASE Retry
  <2>1. /\ op'.id = op.id /\ op'.stage \in {"preparing", "rolling"}
        /\ \A b \in Bots :
             \/ op'.row[b] = op.row[b]
             \/ /\ op.row[b] = "needs_attention"
                /\ op'.row[b] \in {"waiting", "checking_health"}
    BY <1>2, RetriedOp
  <2>2. op.stage = "needs_attention" /\ ctl.pc = "idle" /\ UNCHANGED <<ctl, host>>
    BY <1>2 DEF Retry
  <2>3. Orderly(op'.row)
    <3> SUFFICES ASSUME NEW d \in Bots, NEW c \in Bots, c < d,
                        op'.row[c] \notin Settled
                 PROVE  op'.row[d] \notin Out \cup {"needs_attention"}
      BY DEF Orderly
    <3>1. op.row[c] \notin Settled
      BY <2>1 DEF Settled
    <3>2. op.row[d] \notin Out \cup {"needs_attention"}
      BY <1>0, <3>1 DEF RowsAreOrderly, Orderly
    <3> QED BY <2>1, <3>2
  <2> QED
    BY <1>0, <2>1, <2>2, <2>3
       DEF Roll, Order, TickIsOrderly, HostIsAlone, RowsAreOrderly, Orderly,
           Numbered, CompleteIsOver
<1>3. ASSUME NEW b \in Bots, TickRow(b) PROVE Roll'
  <2>1. Ticking /\ First(b) /\ UNCHANGED host
    BY <1>3 DEF TickRow, TickStopped, TickVerify, TickConfirmed, TickTimeout,
                TickRestored, TickHold
  <2>2. CASE TickVerify(b)
    BY <1>b, <1>c, <2>1, <2>2, TickSetsRow DEF TickVerify, Ticking
  <2>3. CASE TickHold(b)
    BY <1>a, <1>c, <2>1, <2>3, TickGoesOn DEF TickHold
  <2>4. CASE ~TickVerify(b) /\ ~TickHold(b)
    BY <1>3, <1>a, <1>c, <2>1, <2>4, TickGoesOn
       DEF TickRow, TickStopped, TickConfirmed, TickTimeout, TickRestored,
           Release
  <2> QED BY <2>2, <2>3, <2>4
<1>4. CASE TickDecide \/ TickWait
  <2>1. InProgress /\ ctl.on \in Bots /\ First(ctl.on) /\ UNCHANGED host
    BY <1>4, <1>d DEF TickDecide, TickWait
  <2>2. \/ SetRow(ctl.on, "saving_state") /\ At("restart", ctl.on, "none")
        \/ SetRow(ctl.on, "waiting") /\ Free
    BY <1>4 DEF TickDecide, TickWait
  <2>3. CASE SetRow(ctl.on, "saving_state") /\ At("restart", ctl.on, "none")
    BY <1>0, <1>a, <1>b, <2>1, <2>3, AtSet, TickSetsRow
  <2>4. CASE SetRow(ctl.on, "waiting") /\ Free
    <3>1. ctl'.pc = "idle"
      BY <2>4 DEF Free, Idle
    <3> QED BY <1>b, <2>1, <2>4, <3>1, TickSetsRow
  <2> QED BY <2>2, <2>3, <2>4
<1>5. CASE TickRestart
  <2>1. InProgress /\ ctl.on \in Bots /\ First(ctl.on) /\ UNCHANGED host
    BY <1>5, <1>d DEF TickRestart
  <2>2. ctl'.on = ctl.on /\ ctl'.ver = ctl.ver
    BY <1>0, <1>5, <1>a, <2>1, AtSet DEF TickRestart
  <2> QED BY <1>5, <1>b, <2>1, <2>2, TickSetsRow DEF TickRestart
<1>6. CASE \/ TickKill \/ TickSpawn \/ TickRaises
           \/ TickFail \/ TickRestore \/ TickRespawn
  <2>1. InProgress /\ ctl.on \in Bots /\ First(ctl.on) /\ UNCHANGED <<op, host>>
    BY <1>6, <1>d DEF TickKill, TickSpawn, TickRaises, TickFail,
       TickRestore, TickRespawn
  <2>2. \/ At("spawn", ctl.on, "none")
        \/ At("save", ctl.on, "checking_health")
        \/ At("fail", ctl.on, "needs_attention")
        \/ At("save", ctl.on, "recovering")
        \/ At("save", ctl.on, "needs_attention")
        \/ At("restore", ctl.on, "none") \/ At("respawn", ctl.on, "none")
    BY <1>6 DEF TickKill, TickSpawn, TickRaises, TickFail,
       TickRestore, TickRespawn
  <2> QED BY <1>a, <2>1, <2>2, TickGoesOn
<1>7. CASE TickSave
  <2>1. InProgress /\ ctl.on \in Bots /\ First(ctl.on) /\ UNCHANGED host
    BY <1>7, <1>d DEF TickSave
  <2>2. /\ op'.id = op.id
        /\ \A c \in Bots \ {ctl.on} : op'.row[c] = op.row[c]
        /\ op'.stage \in {op.stage, "needs_attention", "recovering"}
    BY <1>7, <2>1, SavedRow
  <2>3. ctl'.pc = "idle"
    BY <1>7 DEF TickSave, Free, Idle
  <2>4. Orderly(op'.row)
    BY <1>0, <2>1, <2>2, OrderlySet DEF First, RowsAreOrderly
  <2> QED
    BY <1>0, <2>1, <2>2, <2>3, <2>4
       DEF Roll, Order, TickIsOrderly, HostIsAlone, RowsAreOrderly, Orderly,
           Numbered, CompleteIsOver, InProgress
<1>8. CASE TickEnd
  <2>1. /\ op'.id = op.id /\ op'.stage \in {op.stage, "complete"}
        /\ \A b \in Bots : /\ op.row[b] \in Settled
                           /\ \/ op'.row[b] = op.row[b]
                              \/ op.row[b] = "none" /\ op'.row[b] = "pending"
    BY <1>8, EndedOp
  <2>2. /\ op.stage \in {"rolling", "recovering"} /\ ctl.pc = "idle"
        /\ UNCHANGED <<ctl, host>>
    BY <1>8 DEF TickEnd, Ticking
  <2>3. Orderly(op'.row)
    BY <2>1 DEF Orderly, Settled, Out
  <2>4. CompleteIsOver'
    <3>1. op'.stage = "complete" => op' = [op EXCEPT !.stage = "complete"]
      BY <1>0, <1>8, <2>2 DEF TickEnd, OpRecords
    <3>2. op'.stage = "complete" => op'.row = op.row
      BY <1>0, <3>1 DEF OpRecords
    <3> QED BY <2>1, <3>2 DEF CompleteIsOver
  <2> QED
    BY <1>0, <2>1, <2>2, <2>3, <2>4
       DEF Roll, Order, TickIsOrderly, HostIsAlone, RowsAreOrderly, Orderly,
           Numbered
<1>9. CASE HostPrepare
  <2>1. /\ op.stage = "preparing" /\ UNCHANGED <<op, ctl>>
        /\ host'.pc = "prepare" /\ host'.op = op
    BY <1>9 DEF HostPrepare
  <2> QED
    BY <1>0, <2>1
       DEF Roll, Order, TickIsOrderly, First, HostIsAlone, RowsAreOrderly,
           Orderly, Numbered, CompleteIsOver
<1>10. CASE HostRecover
  <2>1. /\ op'.id = op.id /\ op'.row = op.row
        /\ op'.stage \in {"rolling", "needs_attention"}
    BY <1>0, <1>10 DEF HostRecover, OpRecords
  <2>2. host.pc = "idle" /\ op.stage = "installing" /\ UNCHANGED <<ctl, host>>
    BY <1>10 DEF HostRecover
  <2> QED
    BY <1>0, <2>1, <2>2
       DEF Roll, Order, TickIsOrderly, HostIsAlone, RowsAreOrderly, Orderly,
           Numbered, CompleteIsOver
<1>11. CASE HostRefuse \/ HostInstall
  <2>1. host.pc = "prepare" /\ ctl.pc = "idle" /\ UNCHANGED ctl
    BY <1>0, <1>11 DEF HostRefuse, HostInstall, HostIsAlone
  <2>2. host.op.error \in {"none", "paused", "host"}
    BY <1>0 DEF HostRecords, OpRecords
  <2>3. CASE HostRefuse
    BY <2>1, <2>3, HostSaves DEF HostRefuse, HostDone, OpStages
  <2>4. CASE HostInstall
    <3>1. host'.op = host.op /\ host'.pc = "flip"
      BY <1>0, <2>4, HostAtSet DEF HostInstall
    <3> QED BY <2>1, <2>2, <2>4, <3>1, HostSaves DEF HostInstall, OpStages
  <2> QED BY <1>11, <2>3, <2>4
<1>12. CASE HostFlip \/ HostRestart
  <2>1. /\ host.pc \in {"flip", "back", "restart", "back_restart"}
        /\ host'.op = host.op /\ UNCHANGED op
        /\ host'.pc \in {"restart", "back_restart", "wait", "back_wait"}
        /\ UNCHANGED ctl \/ ctl'.pc = "idle"
    BY <1>0, <1>12, HostAtSet DEF HostFlip, HostRestart, Idle
  <2>2. op.stage = "installing" /\ ctl.pc = "idle"
    BY <1>0, <2>1 DEF HostIsAlone
  <2> QED
    BY <1>0, <2>1, <2>2
       DEF Roll, Order, TickIsOrderly, HostIsAlone, RowsAreOrderly, Orderly,
           Numbered, CompleteIsOver
<1>13. CASE HostHealthy
  <2>1. host.pc = "wait" /\ ctl.pc = "idle" /\ UNCHANGED ctl
    BY <1>0, <1>13 DEF HostHealthy, HostIsAlone
  <2>2. host.op.error \in {"none", "paused", "host"}
    BY <1>0 DEF HostRecords, OpRecords
  <2>3. host'.op = host.op /\ host'.pc = "pins"
    BY <1>0, <1>13, HostAtSet DEF HostHealthy
  <2> QED BY <1>13, <2>1, <2>2, <2>3, HostSaves DEF HostHealthy, OpStages
<1>14. CASE HostUnhealthy
  <2>1. /\ host.pc \in {"wait", "back_wait"} /\ op.stage = "installing"
        /\ ctl.pc = "idle" /\ UNCHANGED ctl
    BY <1>0, <1>14 DEF HostUnhealthy, HostIsAlone
  <2>2. \/ HostAt("back") /\ UNCHANGED op
        \/ HostSave("needs_attention", "host") /\ HostDone
    BY <1>14 DEF HostUnhealthy
  <2>3. CASE HostAt("back") /\ UNCHANGED op
    <3>1. host'.op = host.op /\ host'.pc = "back"
      BY <1>0, <2>3, HostAtSet
    <3> QED
      BY <1>0, <2>1, <2>3, <3>1
         DEF Roll, Order, TickIsOrderly, HostIsAlone, RowsAreOrderly, Orderly,
             Numbered, CompleteIsOver
  <2>4. CASE HostSave("needs_attention", "host") /\ HostDone
    BY <2>1, <2>4, HostSaves DEF HostDone, OpStages
  <2> QED BY <2>2, <2>3, <2>4
<1>20. CASE HostRaises
  <2>1. /\ host.pc \in {"flip", "restart", "back", "back_restart"}
        /\ op.stage = "installing" /\ ctl.pc = "idle" /\ ctl'.pc = "idle"
        /\ HostSave("needs_attention", "host") /\ host' = NoHost
    BY <1>0, <1>20 DEF HostRaises, HostIsAlone, HostDone, Idle
  <2>2. /\ op'.id = host.op.id /\ op'.row = host.op.row
        /\ op'.stage = "needs_attention"
    BY <1>0, <2>1, HostSaved DEF OpStages
  <2>3. Orderly(NoRows)
    BY DEF Orderly, NoRows, Settled
  <2> QED
    BY <1>0, <2>1, <2>2, <2>3, NoRecords
    DEF Roll, Order, TickIsOrderly, HostIsAlone, RowsAreOrderly, Orderly,
        Numbered, CompleteIsOver
<1>15. CASE HostPins
  <2>1. host.pc = "pins" /\ ctl.pc = "idle" /\ UNCHANGED ctl /\ host' = NoHost
    BY <1>15 DEF HostPins, HostDone
  <2>2. CASE HostSave("needs_attention", "host")
    BY <2>1, <2>2, HostSaves DEF OpStages
  <2>3. CASE UNCHANGED op
    BY <2>1, <2>3, HostIsGone
  <2> QED BY <1>15, <2>2, <2>3 DEF HostPins
<1>16. CASE HostCrash
  BY <1>16, HostIsGone DEF HostCrash, HostDone
<1>17. CASE CtlCrash \/ CtlBoot \/ Reload
  BY <1>17, TickIsOver DEF CtlCrash, CtlBoot, Reload, Idle
<1>18. ASSUME NEW b \in Bots,
              \/ Admit(b) \/ TurnEnds(b) \/ Escape(b) \/ ZombieEnds(b)
              \/ Stale(b) \/ Owner(b) \/ BotCrash(b)
       PROVE  Roll'
  <2>1. UNCHANGED <<op, ctl, host>>
    BY <1>18 DEF Admit, TurnEnds, Escape, ZombieEnds, Stale, Owner,
                 StopBot, StartBot, BotCrash
  <2> QED BY <2>1, RollIsKept
<1>19. CASE UNCHANGED vars
  BY <1>19, RollIsKept DEF vars
<1> QED
  BY <1>1, <1>2, <1>3, <1>4, <1>5, <1>6, <1>7, <1>8, <1>9, <1>10, <1>11,
     <1>12, <1>13, <1>14, <1>15, <1>16, <1>17, <1>18, <1>19, <1>20
     DEF Next, Tick, Worker

-----------------------------------------------------------------------------
(* An acknowledgement means rest.                                          *)
Rests(b) == bot[b].phase = "idle" /\ ~bot[b].zombie

\* A bot put down or started rests; the others are as they were.
LEMMA RestAfter ==
    ASSUME TypeOK, AckIsRest, NEW b \in Bots, NEW new,
           new.phase = "idle", ~new.zombie,
           bot' = [bot EXCEPT ![b] = new],
           ack' = [ack EXCEPT ![b] = NoAck] \/ UNCHANGED ack,
           \/ UNCHANGED <<ctl, hold>>
           \/ ctl'.pc \notin {"restart", "kill", "restore"}
    PROVE  AckIsRest'
<1>1. \A c \in Bots :
        \/ bot'[c] = bot[c]
        \/ bot'[c].phase = "idle" /\ ~bot'[c].zombie
  BY DEF TypeOK
<1>2. \A c \in Bots : ack'[c] > 0 => ack[c] > 0 \/ c = b
  BY DEF TypeOK
<1>3. bot'[b] = new
  BY DEF TypeOK
<1>4. \A c \in Bots : ack'[c] > 0 => bot'[c].phase = "idle" /\ ~bot'[c].zombie
  BY <1>1, <1>2, <1>3 DEF AckIsRest
<1>5. ASSUME UNCHANGED <<ctl, hold>>,
             \/ ctl.pc \in {"restart", "kill"}
             \/ ctl.pc = "restore" /\ hold[ctl.on] # 0
      PROVE  bot'[ctl.on].phase = "idle" /\ ~bot'[ctl.on].zombie
  BY <1>5, <1>3 DEF AckIsRest, TypeOK
<1> QED BY <1>4, <1>5 DEF AckIsRest

LEMMA RestIsKept ==
    ASSUME AckIsRest, UNCHANGED <<bot, ack>>,
           \/ UNCHANGED <<ctl, hold>>
           \/ ctl'.pc \notin {"restart", "kill", "restore"}
    PROVE  AckIsRest'
BY DEF AckIsRest

LEMMA RestStep == TypeOK /\ Roll /\ AckIsRest /\ [Next]_vars => AckIsRest'
<1> SUFFICES ASSUME TypeOK, Roll, AckIsRest, [Next]_vars PROVE AckIsRest'
  OBVIOUS
<1>0. /\ TickIsOrderly /\ Numbered /\ ctl \in CtlRecords
      /\ bot \in [Bots -> BotRecords]
      /\ ack \in [Bots -> {NoAck} \cup (0..MaxOps)]
      /\ hold \in [Bots -> 0..MaxOps]
      /\ \A c \in Bots : ack[c] \in Int
  BY FleetAssumption DEF Roll, Order, TypeOK, NoAck
<1>a. "none" \in RowStages
  BY DEF RowStages
<1>1. CASE Start \/ Begin \/ Retry \/ TickEnd
  BY <1>1, RestIsKept DEF Start, Begin, Retry, TickEnd
<1>2. ASSUME NEW b \in Bots, TickRow(b) PROVE AckIsRest'
  <2>1. /\ UNCHANGED <<bot, ack>>
        /\ UNCHANGED <<ctl, hold>> \/ ctl'.pc \in {"save", "fail", "decide"}
    BY <1>0, <1>2 DEF TickRow, TickStopped, TickVerify, TickConfirmed,
       TickTimeout, TickRestored, TickHold, Release, At, CtlRecords
  <2> QED BY <2>1, RestIsKept
<1>3. CASE TickDecide \/ TickWait
  <2>1. ctl.on \in Bots /\ op.id > 0 /\ UNCHANGED <<bot, ack>>
    BY <1>0, <1>3 DEF TickDecide, TickWait, TickIsOrderly, Numbered
  <2>2. CASE TickDecide
    <3>1. ctl'.on = ctl.on
      BY <1>0, <1>a, <2>1, <2>2, AtSet DEF TickDecide
    <3>2. Rests(ctl.on)
      BY <2>1, <2>2 DEF TickDecide, Quiet, Ready, AckIsRest, Rests
    <3> QED BY <2>1, <3>1, <3>2 DEF AckIsRest, Rests
  <2>3. CASE TickWait
    BY <2>1, <2>3, RestIsKept DEF TickWait, Free, Idle
  <2> QED BY <1>3, <2>2, <2>3
<1>4. CASE TickRestart
  <2>1. /\ UNCHANGED <<bot, ack>> /\ ctl'.on = ctl.on
        /\ ctl.pc = "restart" /\ ctl'.pc = "kill"
    BY <1>4 DEF TickRestart, At, TypeOK, CtlRecords
  <2> QED BY <2>1 DEF AckIsRest
<1>14. CASE TickFail
  <2>1. ctl.on \in Bots /\ op.id > 0 /\ UNCHANGED <<bot, ack>>
    BY <1>0, <1>14 DEF TickFail, TickIsOrderly, Numbered
  <2>2. CASE At("save", ctl.on, "recovering") \/ At("save", ctl.on, "needs_attention")
    <3>1. ctl'.pc = "save"
      BY <1>0, <2>2 DEF At, CtlRecords
    <3> QED BY <2>1, <3>1, RestIsKept
  <2>3. CASE At("restore", ctl.on, "none") /\ Ready(ctl.on)
    <3>1. ctl'.on = ctl.on /\ ctl'.pc = "restore"
      BY <1>0, <2>3 DEF At, CtlRecords
    <3>2. Rests(ctl.on)
      BY <2>1, <2>3 DEF Ready, AckIsRest, Rests
    <3> QED BY <2>1, <3>1, <3>2 DEF AckIsRest, Rests
  <2> QED BY <1>14, <2>2, <2>3 DEF TickFail
<1>5. CASE \/ TickKill \/ TickSpawn \/ TickRaises
           \/ TickRestore \/ TickRespawn
  <2>1. ctl.on \in Bots
    BY <1>0, <1>5
    DEF TickIsOrderly, TickKill, TickSpawn, TickRaises, TickRestore, TickRespawn
  <2>2. ctl'.pc \notin {"restart", "kill", "restore"}
    BY <1>0, <1>5
    DEF TickKill, TickSpawn, TickRaises, TickRestore, TickRespawn, At, CtlRecords
  <2>3. \/ UNCHANGED <<bot, ack>>
        \/ /\ \/ bot' = [bot EXCEPT ![ctl.on] = Spawn(ctl.on, "old")]
              \/ bot' = [bot EXCEPT ![ctl.on] = Spawn(ctl.on, "new")]
              \/ bot' = [bot EXCEPT ![ctl.on] = Stop(ctl.on)]
           /\ ack' = [ack EXCEPT ![ctl.on] = NoAck] \/ UNCHANGED ack
    BY <1>5 DEF TickKill, TickSpawn, TickRaises, TickRestore, TickRespawn
  <2>4. CASE UNCHANGED <<bot, ack>>
    BY <2>2, <2>4, RestIsKept
  <2>5. CASE bot' = [bot EXCEPT ![ctl.on] = Stop(ctl.on)]
             /\ (ack' = [ack EXCEPT ![ctl.on] = NoAck] \/ UNCHANGED ack)
    BY <1>0, <2>1, <2>2, <2>5, BotSet, RestAfter
  <2>6. ASSUME NEW v \in Versions,
               bot' = [bot EXCEPT ![ctl.on] = Spawn(ctl.on, v)],
               ack' = [ack EXCEPT ![ctl.on] = NoAck] \/ UNCHANGED ack
        PROVE  AckIsRest'
    BY <1>0, <2>1, <2>2, <2>6, BotSet, RestAfter
  <2> QED BY <2>3, <2>4, <2>5, <2>6 DEF Versions
<1>6. CASE TickSave \/ Worker \/ CtlCrash \/ CtlBoot \/ Reload \/ HostCrash
  <2>1. /\ UNCHANGED <<bot, ack>>
        /\ UNCHANGED <<ctl, hold>> \/ ctl'.pc = "idle"
    BY <1>6 DEF TickSave, Free, Idle, Worker, HostPrepare, HostRecover,
       HostRefuse, HostInstall, HostFlip, HostRestart, HostRaises, HostHealthy,
       HostUnhealthy, HostPins, CtlCrash, CtlBoot, Reload, HostCrash
  <2> QED BY <2>1, RestIsKept
<1>7. ASSUME NEW b \in Bots, Admit(b) PROVE AckIsRest'
  <2>1. /\ ack' = [ack EXCEPT ![b] = hold[b]] /\ bot[b].phase = "idle"
        /\ hold[b] # 0 => ~bot[b].zombie
        /\ UNCHANGED bot \/ (hold[b] = 0 /\ bot' = [bot EXCEPT ![b].phase = "turn"])
        /\ UNCHANGED <<ctl, hold>>
        /\ ctl.pc \in {"restart", "kill"} => ctl.on # b
    BY <1>7 DEF Admit, Acked
  <2>2. ASSUME NEW c \in Bots, ack'[c] > 0
        PROVE  bot'[c].phase = "idle" /\ ~bot'[c].zombie
    <3>1. CASE c = b
      <4>1. hold[b] > 0 /\ ~bot[b].zombie /\ bot[b].phase = "idle"
        BY <1>0, <2>1, <2>2, <3>1
      <4> QED BY <2>1, <3>1, <4>1
    <3>2. CASE c # b
      <4>1. ack[c] > 0 /\ bot'[c] = bot[c]
        BY <1>0, <2>1, <2>2, <3>2
      <4> QED BY <4>1 DEF AckIsRest
    <3> QED BY <3>1, <3>2
  <2>3. \/ ctl.pc \in {"restart", "kill"}
        \/ ctl.pc = "restore" /\ hold[ctl.on] # 0
        => bot'[ctl.on] = bot[ctl.on]
    <3>1. ctl.pc # "idle" => ctl.on \in Bots
      BY <1>0 DEF TickIsOrderly
    <3> QED BY <1>0, <2>1, <3>1
  <2> QED BY <2>1, <2>2, <2>3 DEF AckIsRest
<1>8. ASSUME NEW b \in Bots, TurnEnds(b) \/ Escape(b) PROVE AckIsRest'
  <2>1. /\ bot[b].phase = "turn" /\ UNCHANGED <<ack, ctl, hold>>
        /\ \A c \in Bots \ {b} : bot'[c] = bot[c]
    BY <1>0, <1>8 DEF TurnEnds, Escape
  <2>2. \/ ctl.pc \in {"restart", "kill"}
        \/ ctl.pc = "restore" /\ hold[ctl.on] # 0
        => ctl.on \in Bots /\ ctl.on # b
    BY <1>0, <2>1 DEF TickIsOrderly, AckIsRest
  <2> QED BY <2>1, <2>2 DEF AckIsRest
<1>9. ASSUME NEW b \in Bots, ZombieEnds(b) PROVE AckIsRest'
  <2>1. /\ UNCHANGED <<ack, ctl, hold>>
        /\ \A c \in Bots \ {b} : bot'[c] = bot[c]
        /\ bot'[b] = [bot[b] EXCEPT !.zombie = FALSE]
    BY <1>0, <1>9 DEF ZombieEnds
  <2>2. bot'[b].phase = bot[b].phase /\ ~bot'[b].zombie
    <3>1. bot[b] \in BotRecords
      BY <1>0
    <3> QED BY <2>1, <3>1 DEF BotRecords
  <2>3. ctl.pc # "idle" => ctl.on \in Bots
    BY <1>0 DEF TickIsOrderly
  <2> QED BY <2>1, <2>2, <2>3 DEF AckIsRest
<1>10. ASSUME NEW b \in Bots, Stale(b) PROVE AckIsRest'
  <2>1. /\ ack' = [ack EXCEPT ![b] = NoAck] /\ UNCHANGED <<bot, ctl, hold>>
    BY <1>10 DEF Stale
  <2>2. \A c \in Bots : ack'[c] > 0 => ack[c] > 0
    BY <1>0, <2>1 DEF NoAck
  <2> QED BY <2>1, <2>2 DEF AckIsRest
<1>11. ASSUME NEW b \in Bots, StopBot(b) \/ BotCrash(b) PROVE AckIsRest'
  <2>1. /\ UNCHANGED <<ctl, hold>> /\ ack' = [ack EXCEPT ![b] = NoAck]
        /\ \/ bot' = [bot EXCEPT ![b] = Stop(b)]
           \/ bot' = [bot EXCEPT ![b] = [Stop(b) EXCEPT !.stopped = TRUE]]
    BY <1>11 DEF StopBot, BotCrash
  <2> QED BY <1>0, <2>1, BotSet, RestAfter
<1>12. ASSUME NEW b \in Bots, StartBot(b) PROVE AckIsRest'
  <2>1. /\ UNCHANGED <<ctl, ack, hold>> /\ ctl.ver \in Versions
        /\ bot' = [bot EXCEPT ![b] =
                     [Spawn(b, ctl.ver) EXCEPT !.stopped = FALSE]]
    BY <1>0, <1>12 DEF StartBot, Reach, CtlRecords
  <2> QED BY <1>0, <2>1, BotSet, RestAfter
<1>13. CASE UNCHANGED vars
  BY <1>13, RestIsKept DEF vars
<1> QED
  BY <1>1, <1>2, <1>3, <1>4, <1>5, <1>6, <1>7, <1>8, <1>9, <1>10, <1>11,
     <1>12, <1>13, <1>14 DEF Next, Tick, Owner

-----------------------------------------------------------------------------
(* A hold whose row is over is released.                                   *)

\* The row of one bot changes, to a stage in which it is not over or after
\* its hold is released; holds stay.
LEMMA OverKept ==
    ASSUME TypeOK, OverIsReleased, UNCHANGED <<host, hold>>, op'.id = op.id,
           \A b \in Bots : /\ op.row[b] \in Over => op'.row[b] \in Over
                           /\ op'.row[b] \in Over =>
                                op.row[b] \in Over \/ hold[b] # op.id,
           \/ ctl'.pc # "save" \/ ctl'.to \notin Over
           \/ UNCHANGED ctl
    PROVE  OverIsReleased'
<1>1. \A b \in Bots : op'.row[b] \in Over => hold[b] # op.id
  BY DEF OverIsReleased
<1> QED BY <1>1 DEF OverIsReleased

\* The tick releases its hold, and will save that its row is over.
LEMMA OverReleased ==
    ASSUME TypeOK, Roll, OverIsReleased, InProgress, NEW b \in Bots,
           NEW to \in RowStages, Release(b, to), UNCHANGED <<op, host>>
    PROVE  OverIsReleased'
<1>1. /\ hold \in [Bots -> 0..MaxOps] /\ ctl'.pc = "save"
      /\ ctl'.on = b /\ ctl'.to = to
  BY AtSet DEF TypeOK, Release
<1>2. op.id > 0 /\ (host.pc # "idle" => host.op.id > 0)
  BY DEF Roll, Numbered, InProgress
<1>3. /\ hold'[b] \in {0, hold[b]} /\ hold'[b] # op.id
      /\ \A c \in Bots \ {b} : hold'[c] = hold[c]
  BY <1>1, <1>2 DEF Release
<1>4. \A c \in Bots : hold'[c] \in {0, hold[c]}
  BY <1>3
<1>5. ASSUME NEW c \in Bots, op.row[c] \in Over PROVE hold'[c] # op.id
  BY <1>2, <1>4, <1>5 DEF OverIsReleased
<1>6. ASSUME NEW c \in Bots, host.pc # "idle", host.op.row[c] \in Over
      PROVE  hold'[c] # host.op.id
  BY <1>2, <1>4, <1>6 DEF OverIsReleased
<1> QED BY <1>1, <1>3, <1>5, <1>6 DEF OverIsReleased

\* The journal that the host's worker saves tells of no hold that is in place.
LEMMA OverSaved ==
    ASSUME TypeOK, OverIsReleased, host.pc # "idle", ctl.pc = "idle",
           UNCHANGED <<ctl, hold>>, NEW stage \in OpStages,
           NEW error \in {"none", "paused", "host"}, HostSave(stage, error),
           host' = NoHost \/ host'.op = host.op
    PROVE  OverIsReleased'
<1>1. op'.id = host.op.id /\ op'.row = host.op.row /\ op'.id \in Int
  BY HostSaved, FleetAssumption DEF TypeOK, OpRecords
<1>2. \A b \in Bots : op'.row[b] \in Over => hold[b] # op'.id
  BY <1>1 DEF OverIsReleased
<1>3. host'.pc = "idle" \/ (host'.op.id = op'.id /\ host'.op.row = op'.row)
  BY <1>1, NoRecords
<1> QED BY <1>1, <1>2, <1>3 DEF OverIsReleased

LEMMA OverStep ==
    TypeOK /\ Roll /\ OverIsReleased /\ [Next]_vars => OverIsReleased'
<1> SUFFICES ASSUME TypeOK, Roll, OverIsReleased, [Next]_vars
             PROVE  OverIsReleased'
  OBVIOUS
<1>0. /\ TickIsOrderly /\ HostIsAlone /\ Numbered
      /\ op \in OpRecords /\ ctl \in CtlRecords /\ host \in HostRecords
      /\ hold \in [Bots -> 0..MaxOps] /\ op.id \in 0..MaxOps
      /\ host.op.id \in 0..MaxOps
      /\ op.stage \notin {"rolling", "recovering"} => ctl.pc = "idle"
  BY DEF Roll, Order, TypeOK, TickIsOrderly, OpRecords, HostRecords
<1>a. /\ "none" \in RowStages /\ "stopped" \in RowStages
      /\ "complete" \in RowStages /\ "needs_attention" \in RowStages
      /\ "recovering" \in RowStages /\ "checking_health" \in RowStages
  BY DEF RowStages
<1>b. /\ "waiting" \in RowStages /\ "restarting" \in RowStages
      /\ "saving_state" \in RowStages /\ "checking_health" \in RowStages
      /\ {"waiting", "restarting", "saving_state", "checking_health",
          "needs_attention", "pending", "recovering", "none"} \cap Over = {}
      /\ Over \subseteq Settled
  BY DEF RowStages, Over, Settled
<1>c. Ticking => InProgress
  BY DEF Ticking, InProgress
<1>d. ctl.pc # "idle" => InProgress /\ ctl.on \in Bots /\ First(ctl.on)
  BY <1>0 DEF TickIsOrderly, InProgress
<1>1. CASE Start \/ Begin
  <2>1. PICK stage \in {"preparing", "rolling"} :
            op' = NewOp(stage, "none") /\ op.id < MaxOps
    BY <1>1 DEF Start, Begin
  <2>2. ctl.pc = "idle" /\ UNCHANGED <<ctl, host, hold>>
    BY <1>0, <1>1 DEF Start, Begin, TERMINAL
  <2>3. stage \in OpStages
    BY DEF OpStages
  <2>4. /\ op'.id = op.id + 1
        /\ \A b \in Bots : op'.row[b] \in {"none", "pending"}
    BY <2>1, <2>3, NewOpType
  <2>5. \A b \in Bots : op'.row[b] \notin Over
    BY <2>4 DEF Over
  <2>6. host.op.id <= op.id => host.op.id <= op'.id /\ host.op.id # op'.id
    BY <1>0, <2>4
  <2> QED BY <2>2, <2>5, <2>6 DEF OverIsReleased
<1>2. CASE Retry
  <2>1. /\ op'.id = op.id
        /\ \A b \in Bots :
             \/ op'.row[b] = op.row[b]
             \/ /\ op.row[b] = "needs_attention"
                /\ op'.row[b] \in {"waiting", "checking_health"}
    BY <1>2, RetriedOp
  <2>2. \A b \in Bots : op'.row[b] \in Over <=> op.row[b] \in Over
    BY <2>1 DEF Over
  <2>3. UNCHANGED <<ctl, host, hold>>
    BY <1>2 DEF Retry
  <2> QED BY <2>1, <2>2, <2>3, OverKept
<1>3. ASSUME NEW b \in Bots,
             TickStopped(b) \/ TickConfirmed(b) \/ TickRestored(b)
      PROVE  OverIsReleased'
  <2>1. InProgress /\ UNCHANGED <<op, host>>
    BY <1>3, <1>c DEF TickStopped, TickConfirmed, TickRestored
  <2>2. \/ Release(b, "stopped") \/ Release(b, "complete")
        \/ Release(b, "needs_attention")
        \/ At("save", b, "needs_attention") /\ UNCHANGED hold
    BY <1>3 DEF TickStopped, TickConfirmed, TickRestored
  <2>3. CASE At("save", b, "needs_attention") /\ UNCHANGED hold
    <3>1. ctl'.to \notin Over
      BY <1>0, <1>a, <1>b, <2>3, AtSet
    <3> QED BY <2>1, <2>3, <3>1, OverKept
  <2> QED BY <1>a, <2>1, <2>2, <2>3, OverReleased
<1>4. ASSUME NEW b \in Bots, TickVerify(b) PROVE OverIsReleased'
  <2>1. /\ First(b) /\ UNCHANGED <<ctl, host, hold>>
        /\ SetRow(b, "checking_health")
    BY <1>4 DEF TickVerify
  <2>2. /\ op'.id = op.id /\ op'.row[b] \notin Over
        /\ \A c \in Bots \ {b} : op'.row[c] = op.row[c]
    BY <1>0, <1>a, <1>b, <2>1, RowSet
  <2> QED BY <1>b, <2>1, <2>2, OverKept DEF First
<1>5. ASSUME NEW b \in Bots, TickTimeout(b) PROVE OverIsReleased'
  <2>1. At("fail", b, "needs_attention") /\ UNCHANGED <<op, host, hold>>
    BY <1>5 DEF TickTimeout
  <2>2. ctl'.pc = "fail"
    BY <1>0, <1>a, <2>1, AtSet
  <2> QED BY <2>1, <2>2, OverKept
<1>6. ASSUME NEW b \in Bots, TickHold(b) PROVE OverIsReleased'
  <2>1. /\ First(b) /\ hold' = [hold EXCEPT ![b] = op.id]
        /\ At("decide", b, "none") /\ UNCHANGED <<op, host>>
    BY <1>6 DEF TickHold
  <2>2. ctl'.pc = "decide"
    BY <1>0, <1>a, <2>1, AtSet
  <2>3. op.row[b] \notin Over
    BY <1>b, <2>1 DEF First
  <2>4. /\ hold'[b] = op.id
        /\ \A c \in Bots \ {b} : hold'[c] = hold[c]
    BY <1>0, <2>1
  <2>5. ASSUME NEW c \in Bots, op.row[c] \in Over PROVE hold'[c] # op.id
    BY <2>3, <2>4, <2>5 DEF OverIsReleased
  <2>6. ASSUME NEW c \in Bots, host.pc # "idle", host.op.row[c] \in Over
        PROVE  hold'[c] # host.op.id
    BY <2>3, <2>4, <2>6 DEF OverIsReleased
  <2> QED BY <2>1, <2>2, <2>5, <2>6 DEF OverIsReleased
<1>7. CASE TickDecide \/ TickWait \/ TickRestart
  <2>1. ctl.on \in Bots /\ First(ctl.on) /\ UNCHANGED <<host, hold>>
    BY <1>7, <1>d DEF TickDecide, TickWait, TickRestart
  <2>2. PICK s \in {"saving_state", "waiting", "restarting"} :
            /\ SetRow(ctl.on, s)
            /\ \/ At("restart", ctl.on, "none") \/ At("kill", ctl.on, "none")
               \/ Free
    BY <1>7 DEF TickDecide, TickWait, TickRestart
  <2>3. ctl'.pc # "save"
    <3>1. Free => ctl'.pc = "idle"
      BY DEF Free, Idle
    <3> QED BY <1>0, <1>a, <2>1, <2>2, <3>1, AtSet
  <2>4. /\ op'.id = op.id /\ op'.row[ctl.on] \notin Over
        /\ \A c \in Bots \ {ctl.on} : op'.row[c] = op.row[c]
    BY <1>0, <1>b, <2>1, <2>2, RowSet
  <2> QED BY <1>b, <2>1, <2>3, <2>4, OverKept DEF First
<1>8. CASE \/ TickKill \/ TickSpawn \/ TickRaises
           \/ TickFail \/ TickRestore \/ TickRespawn
  <2>1. ctl.on \in Bots /\ UNCHANGED <<op, host, hold>>
    BY <1>8, <1>d DEF TickKill, TickSpawn, TickRaises, TickFail,
       TickRestore, TickRespawn
  <2>2. \/ At("spawn", ctl.on, "none")
        \/ At("save", ctl.on, "checking_health")
        \/ At("fail", ctl.on, "needs_attention")
        \/ At("save", ctl.on, "recovering")
        \/ At("save", ctl.on, "needs_attention")
        \/ At("restore", ctl.on, "none") \/ At("respawn", ctl.on, "none")
    BY <1>8 DEF TickKill, TickSpawn, TickRaises, TickFail,
       TickRestore, TickRespawn
  <2>3. ctl'.to \notin Over
    BY <1>0, <1>a, <1>b, <2>1, <2>2, AtSet
  <2> QED BY <2>1, <2>3, OverKept
<1>9. CASE TickSave
  <2>1. ctl.on \in Bots /\ First(ctl.on) /\ UNCHANGED <<host, hold>>
    BY <1>9, <1>d DEF TickSave
  <2>2. /\ op'.id = op.id /\ op'.row[ctl.on] = ctl.to
        /\ \A c \in Bots \ {ctl.on} : op'.row[c] = op.row[c]
    BY <1>9, <2>1, SavedRow
  <2>3. ctl.pc = "save" /\ ctl'.pc = "idle"
    BY <1>9 DEF TickSave, Free, Idle
  <2>4. ctl.to \in Over => hold[ctl.on] # op.id
    BY <2>3 DEF OverIsReleased
  <2>5. op.row[ctl.on] \notin Over
    BY <1>b, <2>1 DEF First
  <2> QED BY <2>1, <2>2, <2>3, <2>4, <2>5, OverKept
<1>10. CASE TickEnd
  <2>1. /\ op'.id = op.id
        /\ \A b \in Bots : \/ op'.row[b] = op.row[b]
                           \/ op.row[b] = "none" /\ op'.row[b] = "pending"
    BY <1>10, EndedOp
  <2>2. UNCHANGED <<ctl, host, hold>>
    BY <1>10 DEF TickEnd
  <2>3. \A b \in Bots : op'.row[b] \in Over <=> op.row[b] \in Over
    BY <2>1 DEF Over
  <2> QED BY <2>1, <2>2, <2>3, OverKept
<1>11. CASE HostPrepare
  <2>1. host'.op = op /\ UNCHANGED <<op, ctl, hold>>
    BY <1>11 DEF HostPrepare
  <2> QED BY <1>0, <2>1 DEF OverIsReleased
<1>12. CASE HostRecover
  <2>1. op'.id = op.id /\ op'.row = op.row /\ UNCHANGED <<ctl, host, hold>>
    BY <1>0, <1>12 DEF HostRecover, OpRecords
  <2> QED BY <2>1, OverKept
<1>13. CASE HostRefuse \/ HostInstall \/ HostHealthy
  <2>1. /\ host.pc \in {"prepare", "wait"} /\ ctl.pc = "idle"
        /\ UNCHANGED <<ctl, hold>>
    BY <1>0, <1>13 DEF HostRefuse, HostInstall, HostHealthy, HostIsAlone
  <2>2. host.op.error \in {"none", "paused", "host"}
    BY <1>0 DEF HostRecords, OpRecords
  <2>3. host' = NoHost \/ host'.op = host.op
    BY <1>0, <1>13, HostAtSet DEF HostRefuse, HostInstall, HostHealthy, HostDone
  <2>4. PICK stage \in {"needs_attention", "installing", "rolling"},
             error \in {"none", "paused", "host"} : HostSave(stage, error)
    BY <1>13, <2>2 DEF HostRefuse, HostInstall, HostHealthy
  <2> QED BY <2>1, <2>3, <2>4, OverSaved DEF OpStages
<1>14. CASE HostFlip \/ HostRestart
  <2>1. /\ host.pc # "idle" /\ host'.op = host.op /\ UNCHANGED <<op, hold>>
        /\ UNCHANGED ctl \/ ctl'.pc = "idle"
    BY <1>0, <1>14, HostAtSet DEF HostFlip, HostRestart, Idle
  <2> QED BY <2>1 DEF OverIsReleased
<1>20. CASE HostRaises
  <2>1. /\ host.pc # "idle" /\ ctl'.pc = "idle" /\ UNCHANGED hold
        /\ HostSave("needs_attention", "host") /\ host' = NoHost
    BY <1>0, <1>20 DEF HostRaises, HostIsAlone, HostDone, Idle
  <2>2. op'.id = host.op.id /\ op'.row = host.op.row
    BY <1>0, <2>1, HostSaved DEF OpStages
  <2>3. \A b \in Bots : op'.row[b] \in Over => hold[b] # op'.id
    BY <2>1, <2>2 DEF OverIsReleased
  <2> QED BY <2>1, <2>3, NoRecords DEF OverIsReleased
<1>15. CASE HostUnhealthy \/ HostPins
  <2>1. /\ host.pc # "idle" /\ ctl.pc = "idle" /\ UNCHANGED <<ctl, hold>>
    BY <1>0, <1>15 DEF HostUnhealthy, HostPins, HostIsAlone
  <2>2. \/ HostAt("back") /\ UNCHANGED op
        \/ HostDone /\ (UNCHANGED op \/ HostSave("needs_attention", "host"))
    BY <1>15 DEF HostUnhealthy, HostPins
  <2>3. CASE HostAt("back") /\ UNCHANGED op
    <3>1. host'.op = host.op
      BY <1>0, <2>3, HostAtSet
    <3> QED BY <2>1, <2>3, <3>1 DEF OverIsReleased
  <2>4. CASE HostDone /\ UNCHANGED op
    BY <2>1, <2>4, NoRecords DEF HostDone, OverIsReleased
  <2>5. CASE HostDone /\ HostSave("needs_attention", "host")
    BY <2>1, <2>5, OverSaved DEF HostDone, OpStages
  <2> QED BY <2>2, <2>3, <2>4, <2>5
<1>16. CASE HostCrash
  BY <1>16, NoRecords DEF HostCrash, HostDone, OverIsReleased
<1>17. CASE CtlCrash \/ CtlBoot \/ Reload
  <2>1. ctl'.pc = "idle" /\ UNCHANGED <<op, host, hold>>
    BY <1>17 DEF CtlCrash, CtlBoot, Reload, Idle
  <2> QED BY <2>1 DEF OverIsReleased
<1>18. ASSUME NEW b \in Bots,
              \/ Admit(b) \/ TurnEnds(b) \/ Escape(b) \/ ZombieEnds(b)
              \/ Stale(b) \/ Owner(b) \/ BotCrash(b)
       PROVE  OverIsReleased'
  <2>1. UNCHANGED <<op, ctl, host, hold>>
    BY <1>18 DEF Admit, TurnEnds, Escape, ZombieEnds, Stale, Owner,
                 StopBot, StartBot, BotCrash
  <2> QED BY <2>1, OverKept
<1>19. CASE UNCHANGED vars
  BY <1>19 DEF vars, OverIsReleased
<1> QED
  BY <1>1, <1>2, <1>3, <1>4, <1>5, <1>6, <1>7, <1>8, <1>9, <1>10, <1>11,
     <1>12, <1>13, <1>14, <1>15, <1>16, <1>17, <1>18, <1>19, <1>20
     DEF Next, Tick, TickRow, Worker

-----------------------------------------------------------------------------
(* What is over stays on the target release.                               *)

\* A roll, or a row that is over, binds the update to the target's controller.
Committed ==
    \/ op.stage \in {"rolling", "recovering", "complete"}
    \/ \E b \in Bots : op.row[b] \in Over

\* current links to the target once an update is committed, and no controller
\* of another release runs; the journal the host's worker may yet save knows of
\* nothing that is over.
TargetStands ==
    ~loose =>
        /\ Committed =>
             /\ cur = "new" /\ ctl.ver # "old"
             /\ op.stage \notin {"preparing", "installing"}
        /\ host.pc # "idle" => \A b \in Bots : host.op.row[b] \notin Over
        /\ host.pc \in {"restart", "wait", "back"} => cur = "new"
        /\ host.pc = "pins" => cur = "new" /\ ctl.ver # "old"

\* A bot its owner stopped is down, and no tick starts it.
StoppedIsDown ==
    /\ \A b \in Bots : bot[b].stopped => ~bot[b].up
    /\ ctl.pc \in {"decide", "restart", "kill", "spawn", "restore", "respawn"} =>
         ~bot[ctl.on].stopped

\* A bot whose row is over, or about to be, runs the target or does not run.
OverIsNew ==
    ~loose =>
        /\ \A b \in Bots : op.row[b] \in Over /\ bot[b].up => bot[b].ver = "new"
        /\ ctl.pc = "save" /\ ctl.to \in Over /\ bot[ctl.on].up =>
             bot[ctl.on].ver = "new"

\* What a tick does to the journal, and what it leaves alone.
LEMMA TickOfRoll ==
    ASSUME TypeOK, TickIsOrderly, Tick
    PROVE  /\ op.stage \in {"rolling", "recovering"} /\ ctl.ver = "new"
           /\ op'.stage \in {"rolling", "recovering", "needs_attention",
                             "complete"}
           /\ ctl'.ver = "new" /\ UNCHANGED <<cur, host, loose>>
<1>1. op \in OpRecords /\ ctl \in CtlRecords
  BY DEF TypeOK
<1>2. ASSUME NEW b \in Bots, TickRow(b)
      PROVE  /\ Ticking /\ ctl'.ver = ctl.ver /\ op'.stage = op.stage
             /\ UNCHANGED <<cur, host, loose>>
  <2>1. CASE TickVerify(b)
    BY <1>1, <2>1, RowSet DEF TickVerify, RowStages
  <2>2. CASE ~TickVerify(b)
    <3>1. /\ Ticking /\ UNCHANGED <<op, cur, host, loose>>
          /\ \E pc \in {"save", "fail", "decide"}, to \in RowStages :
               At(pc, b, to)
      BY <1>2, <2>2 DEF TickRow, TickStopped, TickConfirmed, TickTimeout,
         TickRestored, TickHold, Release, RowStages
    <3> QED BY <1>1, <3>1, AtSet
  <2> QED BY <2>1, <2>2
<1>3. CASE TickDecide \/ TickWait \/ TickRestart
  <2>1. /\ op.stage \in {"rolling", "recovering"} /\ ctl.ver = "new"
        /\ ctl.on \in Bots
    BY <1>3, TickOn DEF TickDecide, TickWait, TickRestart
  <2>2. op'.stage = op.stage
    BY <1>1, <1>3, <2>1, RowSet DEF TickDecide, TickWait, TickRestart, RowStages
  <2>3. ctl'.ver = ctl.ver
    BY <1>1, <1>3, <2>1, AtSet
    DEF TickDecide, TickWait, TickRestart, Free, Idle, RowStages
  <2> QED BY <1>3, <2>1, <2>2, <2>3 DEF TickDecide, TickWait, TickRestart
<1>4. CASE \/ TickKill \/ TickSpawn \/ TickRaises
           \/ TickFail \/ TickRestore \/ TickRespawn
  <2>1. /\ op.stage \in {"rolling", "recovering"} /\ ctl.ver = "new"
        /\ ctl.on \in Bots
    BY <1>4, TickOn DEF TickKill, TickSpawn, TickRaises, TickFail,
       TickRestore, TickRespawn
  <2>2. /\ UNCHANGED <<op, cur, host, loose>>
        /\ \E pc \in {"spawn", "save", "fail", "restore", "respawn"},
              to \in RowStages : At(pc, ctl.on, to)
    BY <1>4 DEF TickKill, TickSpawn, TickRaises, TickFail,
       TickRestore, TickRespawn, RowStages
  <2> QED BY <1>1, <2>1, <2>2, AtSet
<1>5. CASE TickSave
  <2>1. /\ op.stage \in {"rolling", "recovering"} /\ ctl.ver = "new"
        /\ ctl.on \in Bots
    BY <1>5, TickOn DEF TickSave
  <2>2. op'.stage \in {op.stage, "needs_attention", "recovering"}
    BY <1>5, <2>1, SavedRow
  <2> QED BY <1>5, <2>1, <2>2 DEF TickSave, Free, Idle
<1>6. CASE TickEnd
  <2>1. op'.stage \in {op.stage, "complete"}
    BY <1>6, EndedOp
  <2> QED BY <1>6, <2>1 DEF TickEnd, Ticking
<1> QED BY <1>2, <1>3, <1>4, <1>5, <1>6 DEF Tick, Ticking

\* What the host's worker saves has no row that is over.
LEMMA HostSavesOpen ==
    ASSUME TypeOK, TargetStands, ~loose, host.pc # "idle",
           NEW stage \in OpStages, NEW error \in {"none", "paused", "host"},
           HostSave(stage, error)
    PROVE  op'.stage = stage /\ \A b \in Bots : op'.row[b] \notin Over
BY HostSaved DEF TypeOK, TargetStands

LEMMA TargetStep ==
    ASSUME IInv, TargetStands, [Next]_vars
    PROVE  TargetStands'
<1>1. /\ TypeOK /\ TickIsOrderly /\ HostIsAlone
      /\ op \in OpRecords /\ host \in HostRecords
  BY DEF IInv, Order, TypeOK
<1>2. CASE Start
  <2>1. op.stage = "idle" \/ loose
    BY <1>2 DEF Start, TERMINAL, TargetStands, Committed
  <2>2. /\ op'.stage = "preparing"
        /\ \A b \in Bots : op'.row[b] \in {"none", "pending"}
    BY <1>1, <1>2, NewOpType DEF Start, OpStages
  <2> QED BY <1>2, <2>2 DEF Start, TargetStands, Committed, Over
<1>3. CASE Begin
  <2>1. /\ op'.stage = "rolling"
        /\ \A b \in Bots : op'.row[b] \in {"none", "pending"}
    BY <1>1, <1>3, NewOpType DEF Begin, OpStages
  <2>2. /\ ctl.ver = "new" /\ (~loose' => ~loose /\ cur = "new")
        /\ UNCHANGED <<cur, ctl, host>>
    BY <1>1, <1>3 DEF Begin, Rolled, TypeOK, Versions
  <2> QED BY <2>1, <2>2 DEF TargetStands, Committed, Versions
<1>4. CASE Retry
  <2>1. /\ op.stage = "needs_attention" /\ UNCHANGED <<cur, ctl, host>>
        /\ \/ ctl.ver = "old" /\ op'.stage = "preparing" /\ UNCHANGED loose
           \/ /\ ctl.ver = "new" /\ op'.stage = "rolling"
              /\ ~loose' => ~loose /\ cur = "new"
    BY <1>1, <1>4 DEF Retry, Rolled, OpRecords, TypeOK, Versions
  <2>2. \A b \in Bots : op'.row[b] \in Over => op.row[b] \in Over
    BY <1>1, <1>4, RetriedOp DEF Over
  <2> QED BY <2>1, <2>2 DEF TargetStands, Committed, Versions
<1>5. CASE Tick
  BY <1>1, <1>5, TickOfRoll DEF TargetStands, Committed
<1>6. CASE HostPrepare
  <2>1. /\ op.stage = "preparing" /\ UNCHANGED <<op, cur, ctl, loose>>
        /\ host'.pc = "prepare" /\ host'.op = op /\ host.pc = "idle"
    BY <1>6 DEF HostPrepare
  <2> QED BY <2>1 DEF TargetStands, Committed
<1>7. CASE HostRecover
  <2>1. /\ op.stage = "installing" /\ UNCHANGED <<cur, ctl, host>>
        /\ op'.row = op.row /\ host.pc = "idle"
        /\ \/ /\ ctl.ver = "new" /\ op'.stage = "rolling"
              /\ ~loose' => ~loose /\ cur = "new"
           \/ op'.stage = "needs_attention" /\ UNCHANGED loose
    BY <1>1, <1>7 DEF HostRecover, Rolled, OpRecords, TypeOK, Versions
  <2> QED BY <2>1 DEF TargetStands, Committed, Versions
<1>8. CASE HostRefuse
  <2>1. /\ host.pc = "prepare" /\ UNCHANGED <<cur, ctl, loose>>
        /\ host' = NoHost /\ HostSave("needs_attention", "host")
    BY <1>8 DEF HostRefuse, HostDone
  <2>2. ~loose => op'.stage = "needs_attention"
                 /\ \A b \in Bots : op'.row[b] \notin Over
    BY <1>1, <2>1, HostSavesOpen DEF OpStages
  <2> QED BY <2>1, <2>2, NoRecords DEF TargetStands, Committed
<1>9. CASE HostInstall
  <2>1. host.op.error \in {"none", "paused", "host"}
    BY <1>1 DEF HostRecords, OpRecords
  <2>2. /\ host.pc = "prepare" /\ UNCHANGED <<cur, ctl, loose>>
        /\ host'.pc = "flip" /\ host'.op = host.op
        /\ HostSave("installing", host.op.error)
    BY <1>1, <1>9, HostAtSet DEF HostInstall
  <2>3. ~loose => op'.stage = "installing"
                 /\ \A b \in Bots : op'.row[b] \notin Over
    BY <1>1, <2>1, <2>2, HostSavesOpen DEF OpStages
  <2> QED BY <2>2, <2>3 DEF TargetStands, Committed
<1>10. CASE HostFlip
  <2>1. /\ UNCHANGED <<op, ctl, loose>> /\ host'.op = host.op
        /\ \/ host.pc = "flip" /\ cur' = "new" /\ host'.pc = "restart"
           \/ host.pc = "back" /\ cur' = "old" /\ host'.pc = "back_restart"
    BY <1>1, <1>10, HostAtSet DEF HostFlip
  <2>2. op.stage = "installing"
    BY <1>1, <2>1 DEF HostIsAlone
  <2> QED BY <2>1, <2>2 DEF TargetStands, Committed
<1>11. CASE HostRestart
  <2>1. /\ UNCHANGED <<op, cur, loose>> /\ host'.op = host.op
        /\ \/ host.pc = "restart" /\ host'.pc = "wait"
           \/ host.pc = "back_restart" /\ host'.pc = "back_wait"
        /\ UNCHANGED ctl \/ ctl'.ver = "down"
    BY <1>1, <1>11, HostAtSet DEF HostRestart, Idle
  <2> QED BY <2>1 DEF TargetStands, Committed
<1>19. CASE HostRaises
  <2>1. /\ host.pc \in {"flip", "restart", "back", "back_restart"}
        /\ UNCHANGED <<cur, loose>> /\ (UNCHANGED ctl \/ ctl'.ver = "down")
        /\ host' = NoHost /\ HostSave("needs_attention", "host")
    BY <1>19 DEF HostRaises, HostDone, Idle
  <2>2. ~loose => op'.stage = "needs_attention"
                 /\ \A b \in Bots : op'.row[b] \notin Over
    BY <1>1, <2>1, HostSavesOpen DEF OpStages
  <2> QED BY <2>1, <2>2, NoRecords DEF TargetStands, Committed
<1>12. CASE HostHealthy
  <2>1. host.op.error \in {"none", "paused", "host"}
    BY <1>1 DEF HostRecords, OpRecords
  <2>2. /\ host.pc = "wait" /\ ctl.ver = "new" /\ UNCHANGED <<cur, ctl, loose>>
        /\ host'.pc = "pins" /\ host'.op = host.op
        /\ HostSave("rolling", host.op.error)
    BY <1>1, <1>12, HostAtSet DEF HostHealthy
  <2>3. ~loose => op'.stage = "rolling"
                 /\ \A b \in Bots : op'.row[b] \notin Over
    BY <1>1, <2>1, <2>2, HostSavesOpen DEF OpStages
  <2> QED BY <2>2, <2>3 DEF TargetStands, Committed
<1>13. CASE HostUnhealthy
  <2>1. CASE HostAt("back") /\ UNCHANGED op
    <3>1. host'.pc = "back" /\ host'.op = host.op
      BY <1>1, <2>1, HostAtSet
    <3>2. host.pc = "wait" /\ UNCHANGED <<op, cur, ctl, loose>>
      BY <1>13, <2>1, <3>1, NoRecords DEF HostUnhealthy, HostDone
    <3> QED BY <3>1, <3>2 DEF TargetStands, Committed
  <2>2. CASE HostSave("needs_attention", "host") /\ HostDone
    <3>1. /\ host.pc \in {"wait", "back_wait"} /\ host' = NoHost
          /\ UNCHANGED <<cur, ctl, loose>>
      BY <1>13, <2>2 DEF HostUnhealthy, HostDone
    <3>2. ~loose => op'.stage = "needs_attention"
                   /\ \A b \in Bots : op'.row[b] \notin Over
      BY <1>1, <2>2, <3>1, HostSavesOpen DEF OpStages
    <3> QED BY <3>1, <3>2, NoRecords DEF TargetStands, Committed
  <2> QED BY <1>13, <2>1, <2>2 DEF HostUnhealthy
<1>14. CASE HostPins
  <2>1. /\ host.pc = "pins" /\ host' = NoHost /\ UNCHANGED <<cur, ctl, loose>>
        /\ UNCHANGED op \/ HostSave("needs_attention", "host")
    BY <1>14 DEF HostPins, HostDone
  <2>2. ~loose => \/ UNCHANGED op
                 \/ /\ op'.stage = "needs_attention"
                    /\ \A b \in Bots : op'.row[b] \notin Over
    BY <1>1, <2>1, HostSavesOpen DEF OpStages
  <2> QED BY <2>1, <2>2, NoRecords DEF TargetStands, Committed
<1>15. CASE CtlCrash \/ Reload
  BY <1>15 DEF CtlCrash, Reload, Idle, TargetStands, Committed
<1>16. CASE CtlBoot
  BY <1>16 DEF CtlBoot, Idle, TargetStands, Committed
<1>17. CASE HostCrash
  BY <1>17, NoRecords DEF HostCrash, HostDone, TargetStands, Committed
<1>18. CASE \/ UNCHANGED vars
            \/ \E b \in Bots :
                 \/ Admit(b) \/ TurnEnds(b) \/ Escape(b) \/ ZombieEnds(b)
                 \/ Stale(b) \/ Owner(b) \/ BotCrash(b)
  <2>1. UNCHANGED <<op, cur, ctl, host, loose>>
    BY <1>18 DEF Admit, TurnEnds, Escape, ZombieEnds, Stale, Owner,
                 StopBot, StartBot, BotCrash, vars
  <2> QED BY <2>1 DEF TargetStands, Committed
<1> QED
  BY <1>2, <1>3, <1>4, <1>5, <1>6, <1>7, <1>8, <1>9, <1>10, <1>11, <1>12,
     <1>13, <1>14, <1>15, <1>16, <1>17, <1>18, <1>19 DEF Next, Worker

\* A row comes to its end by the save of a tick.
LEMMA OverBySave ==
    ASSUME IInv, TargetStands, [Next]_vars, ~loose, NEW b \in Bots,
           op'.row[b] \in Over
    PROVE  \/ op.row[b] \in Over
           \/ TickSave /\ b = ctl.on /\ ctl.to \in Over
<1>1. TypeOK /\ TickIsOrderly /\ op \in OpRecords /\ host \in HostRecords
  BY DEF IInv, Order, TypeOK
<1>2. CASE Start \/ Begin
  BY <1>1, <1>2, NewOpType DEF Start, Begin, OpStages, Over
<1>3. CASE Retry
  BY <1>1, <1>3, RetriedOp DEF Over
<1>4. ASSUME NEW c \in Bots, TickVerify(c) PROVE op.row[b] \in Over
  BY <1>1, <1>4, RowSet DEF TickVerify, RowStages, Over
<1>5. CASE TickDecide \/ TickWait \/ TickRestart
  <2>1. ctl.on \in Bots
    BY <1>1, <1>5, TickOn DEF TickDecide, TickWait, TickRestart
  <2> QED BY <1>1, <1>5, <2>1, RowSet
    DEF TickDecide, TickWait, TickRestart, RowStages, Over
<1>6. CASE TickSave
  <2>1. ctl.on \in Bots
    BY <1>1, <1>6, TickOn DEF TickSave
  <2> QED BY <1>1, <1>6, <2>1, SavedRow
<1>7. CASE TickEnd
  BY <1>1, <1>7, EndedOp DEF Over
<1>8. CASE HostRecover
  BY <1>1, <1>8 DEF HostRecover, OpRecords
<1>9. CASE \/ HostRefuse \/ HostInstall \/ HostRaises \/ HostHealthy
           \/ HostUnhealthy \/ HostPins
  <2>1. host.op.error \in {"none", "paused", "host"} /\ host.pc # "idle"
    BY <1>1, <1>9 DEF HostRecords, OpRecords, HostRefuse, HostInstall,
       HostRaises, HostHealthy, HostUnhealthy, HostPins
  <2>2. \/ UNCHANGED op
        \/ \E stage \in OpStages, error \in {"none", "paused", "host"} :
             HostSave(stage, error)
    BY <1>9, <2>1 DEF HostRefuse, HostInstall, HostRaises, HostHealthy,
       HostUnhealthy, HostPins, OpStages
  <2> QED BY <1>1, <2>1, <2>2, HostSavesOpen
<1>10. CASE UNCHANGED op
  BY <1>10
<1> QED
  BY <1>2, <1>3, <1>4, <1>5, <1>6, <1>7, <1>8, <1>9, <1>10
  DEF Next, Tick, TickRow, Worker, TickStopped, TickConfirmed, TickTimeout,
      TickRestored, TickHold, TickKill, TickSpawn, TickRaises, TickFail,
       TickRestore, TickRespawn,
      HostPrepare, HostFlip, HostRestart, CtlCrash, CtlBoot, Reload, HostCrash, Admit,
      TurnEnds, Escape, ZombieEnds, Stale, Owner, StopBot, StartBot,
      BotCrash, vars

\* What is left of a bot's record when its process is put down or started.
LEMMA ProcessFields ==
    ASSUME bot \in [Bots -> BotRecords], NEW b \in Bots
    PROVE  /\ Stop(b).stopped = bot[b].stopped /\ ~Stop(b).up
           /\ \A v \in Versions : /\ Spawn(b, v).stopped = bot[b].stopped
                                  /\ Spawn(b, v).ver = v
BY DEF Stop, Spawn, BotRecords

\* How a bot's process comes and goes.
LEMMA BotMoves ==
    ASSUME IInv, [Next]_vars, NEW b \in Bots
    PROVE  \/ /\ bot'[b].stopped = bot[b].stopped
              /\ bot'[b].up => bot[b].up /\ bot'[b].ver = bot[b].ver
           \/ /\ bot'[b].stopped = bot[b].stopped
              /\ b = ctl.on /\ ctl.pc \in {"spawn", "respawn"}
              /\ ctl'.pc = "save" /\ ctl'.to \notin Over
           \/ ~bot'[b].up /\ Reach(b) /\ UNCHANGED ctl
           \/ /\ bot'[b].ver = ctl.ver /\ ~bot'[b].stopped /\ ~Running(b)
              /\ Reach(b) /\ UNCHANGED ctl
<1>1. /\ TypeOK /\ TickIsOrderly /\ bot \in [Bots -> BotRecords]
      /\ ctl \in CtlRecords
  BY DEF IInv, Order, TypeOK
<1>2. CASE TickKill
  BY <1>1, <1>2, TickOn DEF TickKill, Stop, BotRecords
<1>3. CASE TickSpawn
  <2>1. ctl.on \in Bots /\ ctl.pc = "spawn"
    BY <1>1, <1>3, TickOn DEF TickSpawn
  <2>2. ctl'.pc = "save" /\ ctl'.to = "checking_health"
    BY <1>1, <1>3, <2>1, AtSet DEF TickSpawn, RowStages
  <2> QED BY <1>1, <1>3, <2>1, <2>2 DEF TickSpawn, Spawn, BotRecords, Over
<1>4. CASE TickRespawn
  <2>1. ctl.on \in Bots /\ ctl.pc = "respawn"
    BY <1>1, <1>4, TickOn DEF TickRespawn
  <2>2. ctl'.pc = "save" /\ ctl'.to \in {"recovering", "needs_attention"}
    BY <1>1, <1>4, <2>1, AtSet DEF TickRespawn, RowStages
  <2>3. \/ UNCHANGED bot
        \/ bot' = [bot EXCEPT ![ctl.on] = Spawn(ctl.on, "old")]
    BY <1>4 DEF TickRespawn
  <2>4. ctl'.to \notin Over
    BY <2>2 DEF Over
  <2>5. CASE b = ctl.on
    <3>1. bot'[b].stopped = bot[b].stopped
      BY <1>1, <2>3, <2>5, ProcessFields DEF Versions
    <3> QED BY <2>1, <2>2, <2>4, <2>5, <3>1
  <2>6. CASE b # ctl.on
    BY <1>1, <2>3, <2>6
  <2> QED BY <2>5, <2>6
<1>9. CASE TickRestore
  <2>1. ctl.on \in Bots
    BY <1>1, <1>9, TickOn DEF TickRestore
  <2>2. UNCHANGED bot \/ bot' = [bot EXCEPT ![ctl.on] = Stop(ctl.on)]
    BY <1>9 DEF TickRestore
  <2> QED BY <1>1, <2>1, <2>2, ProcessFields
<1>5. ASSUME NEW c \in Bots,
             \/ Admit(c) \/ TurnEnds(c) \/ Escape(c) \/ ZombieEnds(c)
             \/ BotCrash(c)
      PROVE  /\ bot'[b].stopped = bot[b].stopped
             /\ bot'[b].up => bot[b].up /\ bot'[b].ver = bot[b].ver
  <2>1. CASE BotCrash(c)
    <3>1. bot' = [bot EXCEPT ![c] = Stop(c)]
      BY <2>1 DEF BotCrash
    <3> QED BY <1>1, <3>1, ProcessFields
  <2>2. CASE Admit(c)
    BY <1>1, <2>2 DEF Admit, BotRecords
  <2>3. CASE TurnEnds(c) \/ Escape(c)
    BY <1>1, <2>3 DEF TurnEnds, Escape, BotRecords
  <2>4. CASE ZombieEnds(c)
    BY <1>1, <2>4 DEF ZombieEnds, BotRecords
  <2> QED BY <1>5, <2>1, <2>2, <2>3, <2>4
<1>6. ASSUME NEW c \in Bots, StopBot(c)
      PROVE  \/ bot'[b] = bot[b]
             \/ ~bot'[b].up /\ Reach(b) /\ UNCHANGED ctl
  BY <1>1, <1>6 DEF StopBot, Stop, BotRecords
<1>7. ASSUME NEW c \in Bots, StartBot(c)
      PROVE  \/ bot'[b] = bot[b]
             \/ /\ bot'[b].ver = ctl.ver /\ ~bot'[b].stopped /\ ~Running(b)
                /\ Reach(b) /\ UNCHANGED ctl
  BY <1>1, <1>7 DEF StartBot, Spawn, BotRecords
<1>8. CASE UNCHANGED bot
  BY <1>8
<1> QED
  BY <1>2, <1>3, <1>4, <1>5, <1>6, <1>7, <1>8, <1>9
  DEF Next, Tick, TickRow, Worker, Start, Begin, Retry, TickStopped,
      TickVerify, TickConfirmed, TickTimeout, TickRestored, TickHold,
      TickDecide, TickWait, TickRestart, TickRaises, TickFail, TickSave,
      TickEnd, HostPrepare, HostRecover, HostRefuse, HostInstall, HostFlip,
      HostRestart, HostRaises, HostHealthy, HostUnhealthy, HostPins, CtlCrash,
      CtlBoot, Reload, HostCrash, Stale, Owner, vars

\* How the tick goes on.
LEMMA TickMoves ==
    ASSUME IInv, [Next]_vars, ctl'.pc # "idle"
    PROVE  \/ UNCHANGED ctl
           \/ /\ ctl'.on = ctl.on /\ ctl'.to \notin Over
              /\ ctl.pc \in {"decide", "restart", "kill", "spawn", "restore",
                             "respawn"}
           \/ /\ ctl'.on = ctl.on /\ ctl'.to \notin Over
              /\ ctl.on \in Bots /\ UNCHANGED bot
              /\ ctl'.pc = "save" \/ bot[ctl.on].up
           \/ /\ ctl'.on \in Bots /\ UNCHANGED bot
              /\ \/ ~bot[ctl'.on].stopped /\ ctl'.to \notin Over
                 \/ /\ ctl'.pc = "save"
                    /\ \/ bot[ctl'.on].stopped \/ ~bot[ctl'.on].up
                       \/ bot[ctl'.on].ver = "new"
<1>1. TypeOK /\ TickIsOrderly /\ ctl \in CtlRecords
  BY DEF IInv, Order, TypeOK
<1>2. ASSUME NEW b \in Bots, TickStopped(b) \/ TickConfirmed(b)
      PROVE  /\ ctl'.on = b /\ ctl'.pc = "save" /\ UNCHANGED bot
             /\ bot[b].stopped \/ ~bot[b].up \/ bot[b].ver = "new"
  BY <1>1, <1>2, AtSet
  DEF TickStopped, TickConfirmed, Release, Running, RowStages
<1>3. ASSUME NEW b \in Bots,
             TickTimeout(b) \/ TickRestored(b) \/ TickHold(b)
      PROVE  /\ ctl'.on = b /\ UNCHANGED bot /\ ~bot[b].stopped
             /\ ctl'.to \notin Over
  BY <1>1, <1>3, AtSet
  DEF TickTimeout, TickRestored, TickHold, Release, RowStages, Over
<1>4. CASE \/ TickDecide \/ TickWait \/ TickRestart \/ TickKill \/ TickSpawn
           \/ TickRaises \/ TickRestore \/ TickRespawn
  <2>1. /\ ctl.on \in Bots
        /\ ctl.pc \in {"decide", "restart", "kill", "spawn", "restore",
                       "respawn"}
    BY <1>1, <1>4, TickOn DEF TickDecide, TickWait, TickRestart, TickKill,
       TickSpawn, TickRaises, TickRestore, TickRespawn
  <2>2. \/ Free
        \/ \E pc \in {"restart", "kill", "spawn", "fail", "respawn", "save"},
              to \in {"none", "checking_health", "needs_attention",
                      "recovering"} : At(pc, ctl.on, to)
    BY <1>4 DEF TickDecide, TickWait, TickRestart, TickKill, TickSpawn,
       TickRaises, TickRestore, TickRespawn
  <2>3. ~Free
    BY DEF Free, Idle
  <2> QED BY <1>1, <2>1, <2>2, <2>3, AtSet DEF RowStages, Over
<1>7. CASE TickFail
  <2>1. ctl.on \in Bots /\ UNCHANGED bot
    BY <1>1, <1>7, TickOn DEF TickFail
  <2>2. \/ At("save", ctl.on, "recovering")
        \/ At("save", ctl.on, "needs_attention")
        \/ At("restore", ctl.on, "none") /\ bot[ctl.on].up
    BY <1>7 DEF TickFail, Ready, Running
  <2> QED BY <1>1, <2>1, <2>2, AtSet DEF RowStages, Over
<1>5. CASE TickSave \/ HostRestart \/ HostRaises \/ CtlCrash \/ CtlBoot \/ Reload
  BY <1>5 DEF TickSave, Free, HostRestart, HostRaises, CtlCrash, CtlBoot,
     Reload, Idle
<1>6. CASE UNCHANGED ctl
  BY <1>6
<1> QED
  BY <1>2, <1>3, <1>4, <1>5, <1>6, <1>7
  DEF Next, Tick, TickRow, Worker, Start, Begin, Retry, TickVerify, TickEnd,
      HostPrepare, HostRecover, HostRefuse, HostInstall, HostFlip, HostHealthy,
      HostUnhealthy, HostPins, HostCrash, Admit, TurnEnds, Escape, ZombieEnds,
      Stale, Owner, StopBot, StartBot, BotCrash, vars

LEMMA StoppedStep ==
    ASSUME IInv, StoppedIsDown, [Next]_vars
    PROVE  StoppedIsDown'
<1>1. ASSUME NEW b \in Bots, bot'[b].stopped PROVE ~bot'[b].up
  BY <1>1, BotMoves DEF StoppedIsDown
<1>2. ASSUME ctl'.pc \in {"decide", "restart", "kill", "spawn", "restore",
                          "respawn"}
      PROVE  ~bot'[ctl'.on].stopped
  <2>3. CASE ctl'.on = ctl.on /\ ctl.on \in Bots /\ UNCHANGED bot /\ bot[ctl.on].up
    BY <2>3 DEF StoppedIsDown
  <2>1. CASE /\ ctl'.on = ctl.on
             /\ ctl.pc \in {"decide", "restart", "kill", "spawn", "restore",
                            "respawn"}
    <3>1. ctl.on \in Bots /\ ~bot[ctl.on].stopped
      BY <2>1 DEF StoppedIsDown, IInv, Order, TickIsOrderly
    <3>2. ~Reach(ctl.on)
      BY <2>1 DEF Reach
    <3> QED BY <2>1, <3>1, <3>2, BotMoves
  <2>2. CASE ctl'.on \in Bots /\ UNCHANGED bot /\ ~bot[ctl'.on].stopped
    BY <2>2
  <2> QED BY <1>2, <2>1, <2>2, <2>3, TickMoves
<1> QED BY <1>1, <1>2 DEF StoppedIsDown

LEMMA OverIsNewStep ==
    ASSUME IInv, TargetStands, StoppedIsDown, OverIsNew, [Next]_vars, ~loose'
    PROVE  OverIsNew'
<1>1. ~loose
  BY DEF Next, Tick, TickRow, Worker, Rolled, Start, Begin, Retry, TickStopped,
     TickVerify, TickConfirmed, TickTimeout, TickRestored, TickHold,
     TickDecide, TickWait, TickRestart, TickKill, TickSpawn, TickRaises,
     TickFail, TickRestore, TickRespawn, TickSave, TickEnd, HostPrepare,
     HostRecover, HostRefuse, HostInstall, HostFlip, HostRestart, HostRaises,
     HostHealthy, HostUnhealthy, HostPins, CtlCrash, CtlBoot, Reload, HostCrash,
     Admit, TurnEnds, Escape, ZombieEnds, Stale, Owner, StopBot, StartBot,
     BotCrash, vars
<1>2. ctl.ver \in Versions \cup {"down"}
  BY DEF IInv, TypeOK, CtlRecords
<1>3. ASSUME NEW b \in Bots, op'.row[b] \in Over, bot'[b].up
      PROVE  bot'[b].ver = "new"
  <2>1. CASE op.row[b] \in Over
    <3>1. ~(b = ctl.on /\ ctl.pc \in {"spawn", "respawn"})
      BY <2>1 DEF IInv, Order, TickIsOrderly, First, Over, Settled
    <3>2. ctl.ver # "old"
      BY <1>1, <2>1 DEF TargetStands, Committed
    <3>3. Reach(b) => ctl.ver = "new"
      BY <1>2, <3>2 DEF Reach, Versions
    <3> QED BY <1>1, <1>3, <2>1, <3>1, <3>3, BotMoves DEF OverIsNew
  <2>2. CASE TickSave /\ b = ctl.on /\ ctl.to \in Over
    <3>1. ctl.pc = "save" /\ UNCHANGED bot
      BY <2>2 DEF TickSave
    <3> QED BY <1>1, <1>3, <2>2, <3>1 DEF OverIsNew
  <2> QED BY <1>1, <1>3, <2>1, <2>2, OverBySave
<1>4. ASSUME ctl'.pc = "save", ctl'.to \in Over, bot'[ctl'.on].up
      PROVE  bot'[ctl'.on].ver = "new"
  <2>1. CASE UNCHANGED ctl
    <3>1. ctl.on \in Bots /\ ~Reach(ctl.on)
      BY <1>4, <2>1 DEF IInv, Order, TickIsOrderly, Reach
    <3> QED BY <1>1, <1>4, <2>1, <3>1, BotMoves DEF OverIsNew
  <2>2. CASE /\ ctl'.on \in Bots /\ UNCHANGED bot
             /\ \/ bot[ctl'.on].stopped \/ ~bot[ctl'.on].up
                \/ bot[ctl'.on].ver = "new"
    BY <1>4, <2>2 DEF StoppedIsDown
  <2> QED BY <1>4, <2>1, <2>2, TickMoves
<1> QED BY <1>3, <1>4 DEF OverIsNew

-----------------------------------------------------------------------------
(* The theorems.                                                           *)
LEMMA InitInv == Init => IInv
<1> SUFFICES ASSUME Init PROVE IInv
  OBVIOUS
<1>1. /\ op = NoOp /\ host = NoHost /\ ctl = Idle(cur) /\ cur \in Versions
      /\ \A b \in Bots : op.row[b] = "none" /\ host.op.row[b] = "none"
  BY NoRecords DEF Init, NoRows
<1>2. TypeOK
  <2>1. bot \in [Bots -> BotRecords]
    <3> DEFINE Fresh(u) == [up |-> u, stopped |-> ~u, ver |-> "old",
                            phase |-> "idle", zombie |-> FALSE]
    <3>1. \A u \in BOOLEAN : Fresh(u) \in BotRecords
      BY DEF BotRecords, Versions
    <3>2. bot \in [Bots -> {Fresh(u) : u \in BOOLEAN}]
      BY DEF Init
    <3> HIDE DEF Fresh
    <3> QED BY <3>1, <3>2
  <2>2. /\ hold \in [Bots -> 0..MaxOps] /\ crashes \in 0..MaxCrashes
        /\ ack \in [Bots -> {NoAck} \cup (0..MaxOps)]
    BY FleetAssumption DEF Init
  <2>3. loose \in BOOLEAN /\ reload \in BOOLEAN
    BY DEF Init
  <2> QED BY <1>1, <2>1, <2>2, <2>3, NoRecords, IdleType DEF TypeOK
<1>3. ctl.pc = "idle"
  BY <1>1, IdleType
<1>4. Order /\ Numbered /\ CompleteIsOver
  BY <1>1, <1>3, NoRecords
     DEF Order, TickIsOrderly, HostIsAlone, RowsAreOrderly, Orderly, Numbered,
         CompleteIsOver, Settled
<1>5. AckIsRest
  <2>1. \A b \in Bots : ~(ack[b] > 0)
    BY DEF Init, NoAck
  <2> QED BY <1>3, <2>1 DEF AckIsRest
<1>6. OverIsReleased
  BY <1>1, <1>3, NoRecords DEF OverIsReleased, Over
<1> QED BY <1>2, <1>4, <1>5, <1>6 DEF IInv

LEMMA StepInv == IInv /\ [Next]_vars => IInv'
<1> SUFFICES ASSUME IInv, [Next]_vars PROVE IInv'
  OBVIOUS
<1>1. TypeOK /\ Roll /\ AckIsRest /\ OverIsReleased /\ TickIsOrderly
  BY DEF IInv, Roll, Order
<1>2. TypeOK' /\ Roll' /\ AckIsRest' /\ OverIsReleased'
  BY <1>1, TypeStep, RollStep, RestStep, OverStep
<1> QED BY <1>2 DEF IInv, Roll

LEMMA Inductive == Spec => []IInv
BY InitInv, StepInv, PTL DEF Spec

(* Every reachable state has the types of the model.                       *)
THEOREM TypeCorrect == Spec => []TypeOK
<1>1. IInv => TypeOK
  BY DEF IInv
<1> QED BY <1>1, Inductive, PTL

(* One bot at a time is out of service for the update: a row is saved as   *)
(* being restarted or checked only while every row before it is settled,   *)
(* whatever the host's worker, a crash or a retry does to the journal.     *)
THEOREM OneBotAtATime == Spec => []OneAtATime
<1>1. IInv => OneAtATime
  <2> SUFFICES ASSUME IInv, NEW b \in Bots, NEW c \in Bots,
                      op.row[b] \in Out, op.row[c] \in Out
               PROVE  b = c
    BY DEF OneAtATime, Out
  <2>1. ~(b < c) /\ ~(c < b)
    BY DEF IInv, Order, RowsAreOrderly, Orderly, Out, Settled
  <2> QED BY <2>1 DEF Bots
<1> QED BY <1>1, Inductive, PTL

(* A completed operation holds no bot of its rows: the hold is released    *)
(* before the row says it is over, and a journal that the host's worker    *)
(* read earlier tells of no hold set since.                                *)
THEOREM ReleasesWhenComplete == Spec => []CompleteReleases
<1>1. IInv => CompleteReleases
  <2> SUFFICES ASSUME IInv, op.stage = "complete", NEW b \in Bots,
                      op.row[b] # "none"
               PROVE  hold[b] # op.id
    BY DEF CompleteReleases
  <2>1. op.row[b] \in Over
    BY DEF IInv, CompleteIsOver, Settled, Over
  <2> QED BY <2>1 DEF IInv, OverIsReleased
<1> QED BY <1>1, Inductive, PTL

(* No restart by the updater takes down a running turn or an abandoned run, *)
(* nor does a rollback of a bot that is still held: what the acknowledgement *)
(* said of the process when it was read is true until it is stopped.        *)
THEOREM WorkSurvives == Spec => WorkSurvivesRestart
<1> DEFINE Spared == \A b \in Bots :
             /\ ctl.on = b /\ bot[b].up /\ bot'[b] # bot[b] /\ ctl'.pc # ctl.pc
             /\ ctl.pc = "kill" \/ (ctl.pc = "restore" /\ hold[b] # 0)
             => bot[b].phase = "idle" /\ ~bot[b].zombie
<1>1. IInv => Spared
  BY DEF IInv, AckIsRest
<1> QED BY <1>1, Inductive, PTL DEF Spec, WorkSurvivesRestart

LEMMA ReleaseInit == Init => TargetStands /\ StoppedIsDown /\ OverIsNew
<1> SUFFICES ASSUME Init PROVE TargetStands /\ StoppedIsDown /\ OverIsNew
  OBVIOUS
<1>1. /\ op = NoOp /\ host = NoHost /\ ctl = Idle(cur)
      /\ op.stage = "idle" /\ host.pc = "idle" /\ ctl.pc = "idle"
      /\ ctl.ver = cur /\ \A b \in Bots : op.row[b] = "none"
  BY NoRecords DEF Init, NoRows, Idle
<1>2. \A b \in Bots : bot[b].stopped => ~bot[b].up
  <2> DEFINE Fresh(u) == [up |-> u, stopped |-> ~u, ver |-> "old",
                          phase |-> "idle", zombie |-> FALSE]
  <2>1. bot \in [Bots -> {Fresh(u) : u \in BOOLEAN}]
    BY DEF Init
  <2>2. \A u \in BOOLEAN : Fresh(u).stopped => ~Fresh(u).up
    OBVIOUS
  <2> HIDE DEF Fresh
  <2> QED BY <2>1, <2>2
<1> QED BY <1>1, <1>2
  DEF TargetStands, Committed, StoppedIsDown, OverIsNew, Over

\* Only the last tick completes an operation.
LEMMA OnlyTickEnds ==
    ASSUME IInv, [Next]_vars, op.stage # "complete", op'.stage = "complete"
    PROVE  TickEnd
<1>1. TypeOK /\ TickIsOrderly /\ op \in OpRecords /\ host \in HostRecords
  BY DEF IInv, Order, TypeOK
<1>2. ~(Start \/ Begin)
  BY <1>1, NewOpType DEF Start, Begin, OpStages
<1>3. ~Retry
  BY <1>1, RetriedOp
<1>4. ASSUME NEW c \in Bots PROVE ~TickVerify(c)
  BY <1>1, RowSet DEF TickVerify, RowStages
<1>5. ~(TickDecide \/ TickWait \/ TickRestart)
  <2>1. TickDecide \/ TickWait \/ TickRestart => ctl.on \in Bots
    BY <1>1, TickOn DEF TickDecide, TickWait, TickRestart
  <2> QED BY <1>1, <2>1, RowSet DEF TickDecide, TickWait, TickRestart, RowStages
<1>6. ~TickSave
  <2>1. TickSave => ctl.on \in Bots
    BY <1>1, TickOn DEF TickSave
  <2> QED BY <1>1, <2>1, SavedRow
<1>7. ~HostRecover
  BY <1>1 DEF HostRecover, OpRecords
<1>8. \A stage \in {"needs_attention", "installing", "rolling"},
        error \in {"none", "paused", "host"} : ~HostSave(stage, error)
  BY <1>1, HostSaved DEF OpStages
<1>9. host.op.error \in {"none", "paused", "host"}
  BY <1>1 DEF HostRecords, OpRecords
<1>10. ~(\/ HostRefuse \/ HostInstall \/ HostRaises \/ HostHealthy
        \/ HostUnhealthy \/ HostPins)
  BY <1>8, <1>9 DEF HostRefuse, HostInstall, HostRaises, HostHealthy,
     HostUnhealthy, HostPins
<1> QED
  BY <1>2, <1>3, <1>4, <1>5, <1>6, <1>7, <1>10
  DEF Next, Tick, TickRow, Worker, TickStopped, TickConfirmed, TickTimeout,
      TickRestored, TickHold, TickKill, TickSpawn, TickRaises, TickFail,
       TickRestore, TickRespawn,
      HostPrepare, HostFlip, HostRestart, CtlCrash, CtlBoot, Reload, HostCrash, Admit,
      TurnEnds, Escape, ZombieEnds, Stale, Owner, StopBot, StartBot,
      BotCrash, vars

(* An update that completes leaves no bot behind: every bot that runs is   *)
(* of the target release, whichever were added, stopped, started or undone *)
(* while it rolled, unless a roll began while current linked to the old    *)
(* release.                                                                *)
THEOREM NoBotIsLeftBehind == Spec => CompleteIsUpdated
<1> DEFINE Rel   == IInv /\ TargetStands /\ StoppedIsDown /\ OverIsNew
           Ended == op.stage # "complete" /\ op'.stage = "complete" /\ ~loose =>
                      Affected = {}
<1>1. Init => Rel
  BY InitInv, ReleaseInit
<1>2. Rel /\ [Next]_vars => Rel'
  <2> SUFFICES ASSUME Rel, [Next]_vars PROVE Rel'
    OBVIOUS
  <2>1. IInv' /\ TargetStands' /\ StoppedIsDown'
    BY StepInv, TargetStep, StoppedStep
  <2>2. OverIsNew'
    BY OverIsNewStep DEF OverIsNew
  <2> QED BY <2>1, <2>2
<1>3. Rel /\ [Next]_vars => [Ended]_vars
  <2> SUFFICES ASSUME Rel, [Next]_vars, op.stage # "complete",
                      op'.stage = "complete", ~loose
               PROVE  Affected = {}
    OBVIOUS
  <2>1. TypeOK /\ op \in OpRecords /\ host \in HostRecords
    BY DEF IInv, TypeOK
  <2>2. TickEnd
    BY OnlyTickEnds
  <2>3. {b \in Affected : op.row[b] = "none"} = {}
        /\ \A b \in Bots : op.row[b] \in Settled
    <3> DEFINE more == {b \in Affected : op.row[b] = "none"}
               row == [b \in Bots |-> IF b \in more THEN "pending" ELSE op.row[b]]
    <3>1. CASE more # {}
      <4>1. op' = [op EXCEPT !.row = row]
        BY <2>2, <3>1 DEF TickEnd
      <4> HIDE DEF row
      <4>2. op'.stage = op.stage
        BY <2>1, <4>1 DEF OpRecords
      <4> QED BY <4>2
    <3> QED BY <2>2, <3>1 DEF TickEnd
  <2>4. \A b \in Affected : op.row[b] \in Over
    BY <2>3 DEF Affected, Settled, Over
  <2> QED BY <2>4 DEF Affected, Running, OverIsNew
<1> QED BY <1>1, <1>2, <1>3, PTL DEF Spec, CompleteIsUpdated
=============================================================================
