------------------------- MODULE BotDeletion_proofs -------------------------
(***************************************************************************)
(* Proofs about BotDeletion, for any process numbers, strangers and bounds: *)
(* type correctness, that a purge is safe, and that one agent at a time    *)
(* answers for the bot.                                                    *)
(***************************************************************************)
EXTENDS BotDeletion, FiniteSetTheorems, TLAPS

\* What the steps under the lock rely on.
Locks ==
    /\ op.kind = "remove" =>
         /\ job # NoJob /\ listed
         /\ op.step = "persist" => job.stopping
    /\ op.kind \in {"shutdown", "sweep"} =>
         /\ job # NoJob
         /\ op.step \in ShutdownSteps => job.stopping
    /\ op.kind = "sweep" => ~listed /\ (~saved \/ "seeded" \in astray)
    /\ data = "partial" => \/ job # NoJob /\ job.purging /\ ~listed /\ ~saved
                           \/ "seeded" \in astray
    /\ op.step = "forget_job" => data = "gone"
    /\ Purging => job.due /\ job.purging
    /\ op.step = "due" \/ Purging => ~job.stopping

\* The day of a job is over only when a day has passed since the deletion.
Days ==
    /\ job # NoJob /\ job.due /\ recent => "reused" \in astray
    /\ op.kind = "remove" /\ job.due => "reused" \in astray

\* While no agent is lost, the one agent there may be is the one the run file
\* names, and the one the job of a deleted bot names.
Tracked == IF op.step = "record" THEN op.pid ELSE run
Doomed  == op.kind \in {"remove", "shutdown", "sweep"} \/ (job # NoJob /\ ~saved)
Books ==
    /\ listed => saved
    /\ op.kind \in {"create", "restart"} => saved
    /\ \A p \in Agents : p = Tracked
    /\ op.step = "forget_pid" \/ Purging => Agents = {}
    /\ op.kind = "remove" => run = job.pid
    /\ Doomed => /\ \A p \in Agents : p = job.pid /\ job.ident = "agent"
                 /\ job.stopping => job.handle = job.pid
Agency == Lost = {} => Books

\* The inductive invariant.
IInv == TypeOK /\ Locks /\ Days /\ Agency

-----------------------------------------------------------------------------
(* Type correctness.                                                       *)

LEMMA StepsOf ==
    /\ Kinds = {"none", "register", "import", "create", "start", "restart",
                       "down", "remove", "shutdown", "sweep"}
    /\ Steps["none"] = {"idle"}
    /\ Steps["register"] = {"cancel"} /\ Steps["import"] = {"cancel"}
    /\ Steps["create"] = {"spawn", "record"} /\ Steps["start"] = {"spawn", "record"}
    /\ Steps["restart"] = {"stop", "forget_pid", "spawn", "record"}
    /\ Steps["down"] = {"stop", "forget_pid"}
    /\ Steps["remove"] = {"stopping", "persist"}
    /\ Steps["shutdown"] = {"check", "kill", "forget_pid", "verify", "clear"}
    /\ Steps["sweep"] = {"check", "kill", "forget_pid", "verify", "clear",
                         "due", "purge", "purge_rest", "forget_job"}
BY DEF Kinds, Steps, ShutdownSteps

LEMMA OperationOf ==
    ASSUME NEW k \in Kinds, NEW s \in Steps[k], NEW t \in Nat,
           NEW p \in Pids \cup {NoPid}
    PROVE  [kind |-> k, step |-> s, tok |-> t, pid |-> p] \in Operations
BY DEF Operations

LEMMA OperationGoes ==
    ASSUME op \in Operations, NEW s \in Steps[op.kind]
    PROVE  /\ [op EXCEPT !.step = s] \in Operations
           /\ [op EXCEPT !.step = s].kind = op.kind
           /\ [op EXCEPT !.step = s].step = s
BY DEF Operations

LEMMA OperationSpawns ==
    ASSUME op \in Operations, NEW p \in Pids, "record" \in Steps[op.kind]
    PROVE  /\ [op EXCEPT !.step = "record", !.pid = p] \in Operations
           /\ [op EXCEPT !.step = "record", !.pid = p].kind = op.kind
           /\ [op EXCEPT !.step = "record", !.pid = p].step = "record"
           /\ [op EXCEPT !.step = "record", !.pid = p].pid = p
BY DEF Operations

LEMMA InitInv == Init => IInv
<1> SUFFICES ASSUME Init PROVE IInv
  OBVIOUS
<1>1. TypeOK
  <2>1. NoOp \in Operations
    BY StepsOf, OperationOf DEF NoOp
  <2>2. [adds |-> 0, removes |-> 0, restarts |-> 0, faults |-> 0, seeds |-> 0] \in Counts
    BY DeletionAssumption DEF Counts
  <2> QED BY <2>1, <2>2 DEF Init, TypeOK, Occupants
<1>2. Agents = {}
  BY DEF Init, Agents
<1>3. Locks /\ Days
  BY DEF Init, Locks, Days, NoOp, Purging, At, ShutdownSteps
<1>4. Agency
  BY <1>2 DEF Init, Agency, Books, Doomed, NoOp, Purging, At
<1> QED BY <1>1, <1>3, <1>4 DEF IInv

(* The bounds of what is counted.                                          *)
LEMMA CountType ==
    ASSUME TypeOK
    PROVE  /\ Counted("adds") /\ count.adds < MaxAdds => count' \in Counts
           /\ Counted("removes") /\ count.removes < MaxRemoves => count' \in Counts
           /\ Counted("restarts") /\ count.restarts < MaxRestarts => count' \in Counts
           /\ Counted("faults") /\ count.faults < MaxFaults => count' \in Counts
           /\ Counted("seeds") /\ count.seeds < 1 => count' \in Counts
BY DeletionAssumption DEF TypeOK, Counted, Counts

LEMMA NatCount ==
    TypeOK => /\ count.adds \in Nat /\ count.removes \in Nat
              /\ count.restarts \in Nat /\ count.faults \in Nat
              /\ count.seeds \in Nat
BY DeletionAssumption DEF TypeOK, Counts

(* The steps of an operation.                                              *)
LEMMA TakeType ==
    ASSUME NEW k \in Kinds, NEW s \in Steps[k], NEW t \in Nat, Take(k, s, t)
    PROVE  /\ op' \in Operations
           /\ op'.kind = k /\ op'.step = s
BY OperationOf DEF Take

LEMMA GoType ==
    ASSUME op \in Operations, NEW s \in Steps[op.kind], Go(s)
    PROVE  /\ op' \in Operations
           /\ op'.kind = op.kind /\ op'.step = s
BY OperationGoes DEF Go

LEMMA UnlockType ==
    Unlock => op' \in Operations /\ op'.kind = "none" /\ op'.step = "idle"
BY OperationOf, StepsOf DEF Unlock, NoOp

(* Which operation a step is of.                                           *)
LEMMA KindOf ==
    ASSUME op \in Operations
    PROVE  /\ op.step = "stop" => op.kind \in {"restart", "down"}
           /\ op.step \in {"spawn", "record"} => op.kind \in {"create", "start", "restart"}
           /\ op.step = "cancel" => op.kind \in {"register", "import"}
           /\ op.step \in {"stopping", "persist"} => op.kind = "remove"
           /\ op.step \in {"check", "kill", "verify", "clear"} =>
                op.kind \in {"shutdown", "sweep"}
           /\ op.step \in {"due", "purge", "purge_rest", "forget_job"} => op.kind = "sweep"
           /\ op.step \in Steps[op.kind] /\ op.kind \in Kinds
           /\ op.tok \in Nat /\ op.pid \in Pids \cup {NoPid}
<1>1. op.step \in Steps[op.kind] /\ op.kind \in Kinds
  BY DEF Operations
<1>2. op.tok \in Nat /\ op.pid \in Pids \cup {NoPid}
  BY DEF Operations
<1> QED BY <1>1, <1>2, StepsOf

LEMMA JobThere ==
    ASSUME TypeOK, Locks,
           op.step \in {"stopping", "persist", "check", "kill", "verify", "clear",
                        "due", "purge", "purge_rest", "forget_job"}
    PROVE  job # NoJob /\ job \in Jobs
<1>1. op.kind \in {"remove", "shutdown", "sweep"}
  BY KindOf DEF TypeOK
<1> QED BY <1>1 DEF Locks, TypeOK

(* What is written to a job, a process number and the list of threads.     *)
LEMMA JobType ==
    ASSUME TypeOK
    PROVE  /\ Fresh(run) \in Jobs
           /\ job # NoJob =>
                /\ [job EXCEPT !.stopping = TRUE, !.handle = run] \in Jobs
                /\ [job EXCEPT !.stopping = FALSE, !.handle = NoPid] \in Jobs
                /\ [job EXCEPT !.purging = TRUE] \in Jobs
                /\ [job EXCEPT !.due = TRUE] \in Jobs
<1>1. Occupant(run) \in Occupants
  BY DEF TypeOK, Occupant, Occupants
<1> QED BY <1>1 DEF TypeOK, Jobs, Fresh

LEMMA OccType ==
    ASSUME TypeOK, NEW p, NEW who \in {"free", "agent"} \cup Strangers
    PROVE  [occ EXCEPT ![p] = who] \in [Pids -> Occupants]
BY DEF TypeOK, Occupants

LEMMA ThreadType ==
    ASSUME NEW k \in {"up", "answer", "create", "start", "restart", "shutdown"},
           NEW t \in Nat
    PROVE  Thread(k, t) \in Threads
BY DEF Thread, Threads

LEMMA TokType == TypeOK => \A t \in pending : t.tok \in Nat
BY DEF TypeOK, Threads

LEMMA TypeOKStep ==
    ASSUME TypeOK, Locks, [Next]_vars
    PROVE  TypeOK'
<1>1. CASE Register
  <2>1. op' \in Operations
    BY <1>1, StepsOf, TakeType, NatCount DEF Register
  <2> QED
    BY <1>1, <2>1, CountType DEF Register, TypeOK, procs, ghosts
<1>2. CASE RegisterFails
  <2>1. count' = [count EXCEPT !.adds = @ + 1, !.faults = @ + 1]
    BY <1>2 DEF RegisterFails
  <2>2. count.adds + 1 \in 0..MaxAdds /\ count.faults + 1 \in 0..MaxFaults
    BY <1>2, NatCount, DeletionAssumption DEF RegisterFails
  <2>3. count' \in Counts
    BY <2>1, <2>2 DEF TypeOK, Counts
  <2> QED
    BY <1>2, <2>3 DEF RegisterFails, TypeOK, files, procs
<1>3. CASE Import
  <2>1. op' \in Operations
    BY <1>3, StepsOf, TakeType, NatCount DEF Import, TypeOK
  <2> QED
    BY <1>3, <2>1, CountType DEF Import, TypeOK, memory, procs, ghosts
<1>4. CASE SaveRoster
  BY <1>4 DEF SaveRoster, TypeOK, memory, procs
<1>5. CASE AskRestart
  <2>1. pending' \subseteq Threads
    BY <1>5, ThreadType, NatCount DEF AskRestart, TypeOK
  <2> QED
    BY <1>5, <2>1, CountType, NatCount
    DEF AskRestart, TypeOK, files, procs, ghosts
<1>6. CASE Down
  <2>1. op' \in Operations
    BY <1>6, StepsOf, TakeType DEF Down
  <2> QED
    BY <1>6, <2>1, CountType DEF Down, TypeOK, files, memory, procs, ghosts
<1>7. CASE Remove
  <2>1. op' \in Operations
    BY <1>7, StepsOf, TakeType, NatCount DEF Remove
  <2>2. job' \in Jobs \cup {NoJob}
    BY <1>7, JobType DEF Remove, TypeOK
  <2> QED
    BY <1>7, <2>1, <2>2, CountType DEF Remove, TypeOK, procs
<1>8. ASSUME NEW t \in pending, StartCreated(t) PROVE TypeOK'
  <2>1. pending' \subseteq Threads
    BY <1>8, ThreadType, TokType DEF StartCreated, TypeOK
  <2> QED
    BY <1>8, <2>1, TokType DEF StartCreated, TypeOK, files, procs, ghosts
<1>9. ASSUME NEW t \in pending, CreateWorker(t) PROVE TypeOK'
  <2>1. op' \in Operations
    BY <1>9, StepsOf, TakeType, TokType DEF CreateWorker, TypeOK
  <2> QED
    BY <1>9, <2>1 DEF CreateWorker, TypeOK, files, procs, ghosts
<1>10. ASSUME NEW t \in pending, BringUp(t) PROVE TypeOK'
  <2>1. pending' \subseteq Threads
    BY <1>10, ThreadType DEF BringUp, TypeOK
  <2> QED
    BY <1>10, <2>1 DEF BringUp, TypeOK, files, procs, ghosts
<1>11. ASSUME NEW t \in pending, StartBot(t) PROVE TypeOK'
  <2>1. op' \in Operations
    BY <1>11, StepsOf, TakeType DEF StartBot
  <2> QED
    BY <1>11, <2>1 DEF StartBot, TypeOK, files, procs, ghosts
<1>12. ASSUME NEW t \in pending, RestartWorker(t) PROVE TypeOK'
  <2>1. op' \in Operations
    BY <1>12, StepsOf, TakeType DEF RestartWorker, TypeOK
  <2> QED
    BY <1>12, <2>1 DEF RestartWorker, TypeOK, files, procs, ghosts
<1>13. ASSUME NEW t \in pending, ShutdownThread(t) PROVE TypeOK'
  <2>1. op' \in Operations
    BY <1>13, StepsOf, TakeType DEF ShutdownThread, TypeOK
  <2> QED
    BY <1>13, <2>1 DEF ShutdownThread, TypeOK, files, procs, ghosts
<1>14. CASE CancelJob
  <2>1. op' \in Operations
    BY <1>14, UnlockType DEF CancelJob
  <2>2. pending' \subseteq Threads
    BY <1>14, ThreadType, KindOf DEF CancelJob, TypeOK
  <2> QED
    BY <1>14, <2>1, <2>2 DEF CancelJob, TypeOK, procs, ghosts
<1>15. CASE StopAgent
  <2>1. op' \in Operations
    BY <1>15, StepsOf, GoType, KindOf DEF StopAgent, TypeOK, At
  <2>2. occ' \in [Pids -> Occupants]
    BY <1>15, OccType DEF StopAgent
  <2> QED
    BY <1>15, <2>1, <2>2 DEF StopAgent, TypeOK, files, memory, ghosts
<1>16. CASE ForgetPid
  <2>1. op' \in Operations
    BY <1>16, StepsOf, GoType, UnlockType DEF ForgetPid, TypeOK
  <2> QED
    BY <1>16, <2>1 DEF ForgetPid, TypeOK, memory, procs, ghosts
<1>17. CASE Adopt
  <2>1. op' \in Operations
    BY <1>17, UnlockType DEF Adopt, EndStart
  <2> QED
    BY <1>17, <2>1 DEF Adopt, EndStart, TypeOK, files, procs, ghosts
<1>18. ASSUME NEW p \in Pids, Spawn(p) PROVE TypeOK'
  <2>1. op' \in Operations
    <3>1. "record" \in Steps[op.kind]
      BY <1>18, KindOf, StepsOf DEF TypeOK, Spawn, At
    <3> QED BY <1>18, <3>1, OperationSpawns DEF TypeOK, Spawn
  <2>2. occ' \in [Pids -> Occupants]
    BY <1>18, OccType DEF Spawn
  <2> QED
    BY <1>18, <2>1, <2>2 DEF Spawn, TypeOK, files, memory
<1>19. CASE Record
  <2>1. op' \in Operations
    BY <1>19, UnlockType DEF Record, EndStart
  <2>2. run' \in Pids \cup {NoPid}
    BY <1>19, KindOf DEF Record, TypeOK
  <2> QED
    BY <1>19, <2>1, <2>2 DEF Record, EndStart, TypeOK, procs, ghosts
<1>20. CASE NoteStopping
  <2>1. op' \in Operations
    BY <1>20, StepsOf, GoType DEF NoteStopping, TypeOK
  <2>2. job' \in Jobs \cup {NoJob}
    BY <1>20, JobType, JobThere DEF NoteStopping, At
  <2> QED
    BY <1>20, <2>1, <2>2 DEF NoteStopping, TypeOK, memory, procs, ghosts
<1>21. CASE Unlist
  <2>1. op' \in Operations
    BY <1>21, UnlockType DEF Unlist
  <2>2. pending' \subseteq Threads
    BY <1>21, ThreadType, KindOf DEF Unlist, TypeOK
  <2> QED
    BY <1>21, <2>1, <2>2 DEF Unlist, TypeOK, procs
<1>22. CASE CheckIdentity
  <2>1. op' \in Operations
    <3>1. op.kind \in {"shutdown", "sweep"}
      BY <1>22, KindOf DEF TypeOK, CheckIdentity, At
    <3>2. "clear" \in Steps[op.kind] /\ "kill" \in Steps[op.kind]
      BY <3>1, StepsOf
    <3> QED BY <1>22, <3>2, GoType, UnlockType DEF TypeOK, CheckIdentity
  <2> QED
    BY <1>22, <2>1 DEF CheckIdentity, TypeOK, files, memory, procs, ghosts
<1>23. CASE Kill
  <2>1. op' \in Operations
    BY <1>23, StepsOf, GoType, KindOf DEF Kill, TypeOK, At
  <2>2. occ' \in [Pids -> Occupants]
    BY <1>23, OccType DEF Kill
  <2> QED
    BY <1>23, <2>1, <2>2 DEF Kill, TypeOK, files, memory, ghosts
<1>24. CASE ForgetDeletedPid
  <2>1. op' \in Operations
    BY <1>24, StepsOf, GoType DEF ForgetDeletedPid, TypeOK
  <2> QED
    BY <1>24, <2>1 DEF ForgetDeletedPid, TypeOK, memory, procs, ghosts
<1>25. CASE VerifyStopped
  <2>1. op' \in Operations
    BY <1>25, StepsOf, GoType, UnlockType, KindOf
    DEF VerifyStopped, TypeOK, At
  <2> QED
    BY <1>25, <2>1 DEF VerifyStopped, TypeOK, files, memory, procs, ghosts
<1>26. CASE ClearStopping
  <2>1. op' \in Operations
    BY <1>26, StepsOf, GoType, UnlockType DEF ClearStopping, TypeOK
  <2>2. job' \in Jobs \cup {NoJob}
    BY <1>26, JobType, JobThere DEF ClearStopping, At
  <2> QED
    BY <1>26, <2>1, <2>2 DEF ClearStopping, TypeOK, memory, procs, ghosts
<1>27. CASE MarkPurging
  <2>1. op' \in Operations
    BY <1>27, StepsOf, GoType, UnlockType, KindOf DEF MarkPurging, TypeOK, At
  <2>2. job' \in Jobs \cup {NoJob}
    BY <1>27, JobType, JobThere DEF MarkPurging, At
  <2> QED
    BY <1>27, <2>1, <2>2 DEF MarkPurging, TypeOK, memory, procs, ghosts
<1>28. CASE PurgeSome
  <2>1. op' \in Operations
    BY <1>28, StepsOf, GoType, KindOf DEF PurgeSome, TypeOK, At
  <2> QED
    BY <1>28, <2>1 DEF PurgeSome, TypeOK, memory, procs, ghosts
<1>29. CASE PurgeRest
  <2>1. op' \in Operations
    BY <1>29, StepsOf, GoType, KindOf DEF PurgeRest, TypeOK, At
  <2> QED
    BY <1>29, <2>1 DEF PurgeRest, TypeOK, memory, procs, ghosts
<1>30. CASE ForgetJob
  <2>1. op' \in Operations
    BY <1>30, UnlockType DEF ForgetJob
  <2> QED
    BY <1>30, <2>1 DEF ForgetJob, TypeOK, memory, procs, ghosts
<1>31. CASE Sweep
  <2>1. op' \in Operations
    BY <1>31, StepsOf, TakeType DEF Sweep
  <2> QED
    BY <1>31, <2>1 DEF Sweep, TypeOK, files, memory, procs, ghosts
<1>32. CASE SpawnRefused
  <2>1. op' \in Operations
    BY <1>32, UnlockType DEF SpawnRefused, EndStart
  <2> QED
    BY <1>32, <2>1 DEF SpawnRefused, EndStart, TypeOK, files, procs, ghosts
<1>33. CASE UnlistFails
  <2>1. op' \in Operations
    BY <1>33, UnlockType DEF UnlistFails
  <2> QED
    BY <1>33, <2>1, CountType DEF UnlistFails, TypeOK, procs, ghosts
<1>34. CASE StepFails
  <2>1. op' \in Operations
    BY <1>34, UnlockType DEF StepFails, EndStart
  <2> QED
    BY <1>34, <2>1, CountType
    DEF StepFails, EndStart, TypeOK, files, procs, ghosts
<1>35. CASE Crash
  <2>1. op' \in Operations
    BY <1>35, UnlockType DEF Crash, TypeOK
  <2>2. pending' \subseteq Threads
    BY <1>35, ThreadType DEF Crash
  <2> QED
    BY <1>35, <2>1, <2>2, CountType DEF Crash, TypeOK, files, procs
<1>36. CASE RecordFails
  <2>1. op' \in Operations
    BY <1>36, UnlockType DEF RecordFails, EndStart
  <2> QED
    BY <1>36, <2>1, CountType
    DEF RecordFails, EndStart, TypeOK, files, procs
<1>37. ASSUME NEW p \in Pids, Exit(p) PROVE TypeOK'
  <2>1. occ' \in [Pids -> Occupants]
    BY <1>37, OccType DEF Exit
  <2> QED
    BY <1>37, <2>1 DEF Exit, TypeOK, files, memory, ghosts
<1>38. ASSUME NEW s \in Strangers, NEW p \in Pids, Come(s, p) PROVE TypeOK'
  <2>1. occ' \in [Pids -> Occupants]
    BY <1>38, OccType DEF Come
  <2> QED
    BY <1>38, <2>1 DEF Come, TypeOK, files, memory, ghosts
<1>39. CASE Day
  <2>1. job' \in Jobs \cup {NoJob}
    BY <1>39, JobType DEF Day
  <2> QED
    BY <1>39, <2>1 DEF Day, TypeOK, memory, procs
<1>41. CASE Backfill
  BY <1>41, CountType DEF Backfill, TypeOK, memory, procs
<1>40. CASE UNCHANGED vars
  BY <1>40 DEF vars, files, memory, procs, ghosts, TypeOK
<1> QED
  BY
     <1>1, <1>2, <1>3, <1>4, <1>5, <1>6, <1>7, <1>8, <1>9, <1>10,
     <1>11, <1>12, <1>13, <1>14, <1>15, <1>16, <1>17, <1>18, <1>19,
     <1>20, <1>21, <1>22, <1>23, <1>24, <1>25, <1>26, <1>27, <1>28,
     <1>29, <1>30, <1>31, <1>32, <1>33, <1>34, <1>35, <1>36, <1>37,
     <1>38, <1>39, <1>40, <1>41
  DEF Next, Requests, Threading, Holding, Starting, Deleting, Faults, World

-----------------------------------------------------------------------------
(* What the steps under the lock rely on.                                  *)

(* The fields of a job that is written.                                    *)
LEMMA JobFields ==
    /\ job \in Jobs =>
         LET a == [job EXCEPT !.stopping = TRUE, !.handle = run]
             b == [job EXCEPT !.stopping = FALSE, !.handle = NoPid]
             c == [job EXCEPT !.purging = TRUE]
             d == [job EXCEPT !.due = TRUE]
         IN  /\ a \in Jobs => a # NoJob
             /\ a.stopping /\ a.handle = run
             /\ a.due = job.due /\ a.pid = job.pid /\ a.ident = job.ident
             /\ a.purging = job.purging
             /\ ~b.stopping
             /\ b.due = job.due /\ b.pid = job.pid /\ b.ident = job.ident
             /\ b.purging = job.purging
             /\ c.purging /\ c.stopping = job.stopping /\ c.handle = job.handle
             /\ c.due = job.due /\ c.pid = job.pid /\ c.ident = job.ident
             /\ d.due /\ d.stopping = job.stopping /\ d.handle = job.handle
             /\ d.pid = job.pid /\ d.ident = job.ident /\ d.purging = job.purging
    /\ LET f == Fresh(run)
       IN  /\ f.pid = run /\ f.ident = Occupant(run)
           /\ ~f.due /\ ~f.stopping /\ ~f.purging
BY DeletionAssumption DEF Fresh

LEMMA SomeJob == job \in Jobs => job # NoJob
BY DeletionAssumption

LEMMA LocksStep ==
    ASSUME TypeOK, Locks, [Next]_vars
    PROVE  Locks'
<1>1. CASE Register
  BY <1>1, TakeType, StepsOf, NatCount
  DEF Register, Locks, ghosts, Purging, At, CleanupInProgress, NoOp
<1>2. CASE RegisterFails
  BY <1>2
  DEF RegisterFails, Locks, ghosts, Purging, At, files, CleanupInProgress, NoOp
<1>3. CASE Import
  BY <1>3, TakeType, StepsOf, NatCount
  DEF Import, Locks, ghosts, Purging, At, memory, CleanupInProgress
<1>4. CASE SaveRoster
  BY <1>4 DEF SaveRoster, Locks, ghosts, Purging, At, memory
<1>5. CASE AskRestart
  BY <1>5 DEF AskRestart, Locks, ghosts, Purging, At, files
<1>6. CASE Down
  BY <1>6, TakeType, StepsOf DEF Down, Locks, ghosts, Purging, At, files, memory
<1>7. CASE Remove
  BY <1>7, TakeType, StepsOf, JobType, NatCount, DeletionAssumption
  DEF Remove, Locks, ghosts, Purging, At
<1>8. ASSUME NEW t \in pending, StartCreated(t) PROVE Locks'
  BY <1>8 DEF StartCreated, Locks, ghosts, Purging, At, files
<1>9. ASSUME NEW t \in pending, CreateWorker(t) PROVE Locks'
  BY <1>9, TakeType, StepsOf, TokType
  DEF CreateWorker, Locks, ghosts, Purging, At, files
<1>10. ASSUME NEW t \in pending, BringUp(t) PROVE Locks'
  BY <1>10 DEF BringUp, Locks, ghosts, Purging, At, files
<1>11. ASSUME NEW t \in pending, StartBot(t) PROVE Locks'
  BY <1>11, TakeType, StepsOf DEF StartBot, Locks, ghosts, Purging, At, files
<1>12. ASSUME NEW t \in pending, RestartWorker(t) PROVE Locks'
  BY <1>12, TakeType, StepsOf, TokType
  DEF RestartWorker, Locks, ghosts, Purging, At, files
<1>13. ASSUME NEW t \in pending, ShutdownThread(t) PROVE Locks'
  <2>1. CASE job # NoJob /\ ~saved /\ job.stopping
    <3>1. op'.kind = "shutdown" /\ op'.step = "check"
      BY <1>13, <2>1, TakeType, StepsOf DEF ShutdownThread
    <3> QED BY <1>13, <3>1 DEF ShutdownThread, Locks, ghosts, Purging, At, files
  <2>2. CASE ~(job # NoJob /\ ~saved /\ job.stopping)
    BY <1>13, <2>2 DEF ShutdownThread, Locks, ghosts, Purging, At, files
  <2> QED BY <2>1, <2>2
<1>14. CASE CancelJob
  BY <1>14, UnlockType DEF CancelJob, Locks, ghosts, Purging, At
<1>15. CASE StopAgent
  BY <1>15, GoType, StepsOf, KindOf
  DEF StopAgent, TypeOK, Locks, ghosts, Purging, At, files, memory
<1>16. CASE ForgetPid
  BY <1>16, GoType, UnlockType, StepsOf
  DEF ForgetPid, TypeOK, Locks, ghosts, Purging, At, memory
<1>17. CASE Adopt
  BY <1>17, UnlockType DEF Adopt, EndStart, Locks, ghosts, Purging, At, files
<1>18. ASSUME NEW p \in Pids, Spawn(p) PROVE Locks'
  BY <1>18, KindOf DEF Spawn, TypeOK, Locks, ghosts, Purging, At, files, memory
<1>19. CASE Record
  BY <1>19, UnlockType DEF Record, EndStart, Locks, ghosts, Purging, At
<1>20. CASE NoteStopping
  BY <1>20, GoType, StepsOf, JobFields, JobType
  DEF NoteStopping, TypeOK, Locks, ghosts, Purging, At, memory
<1>21. CASE Unlist
  BY <1>21, UnlockType DEF Unlist, Locks, ghosts, Purging, At
<1>22. CASE CheckIdentity
  BY <1>22, GoType, UnlockType, StepsOf, KindOf
  DEF CheckIdentity, TypeOK, Locks, ghosts, Purging, At, files, memory, ShutdownSteps
<1>23. CASE Kill
  BY <1>23, GoType, StepsOf, KindOf
  DEF Kill, TypeOK, Locks, ghosts, Purging, At, files, memory, ShutdownSteps
<1>24. CASE ForgetDeletedPid
  BY <1>24, GoType, StepsOf
  DEF ForgetDeletedPid, TypeOK, Locks, ghosts, Purging, At, memory, ShutdownSteps
<1>25. CASE VerifyStopped
  BY <1>25, GoType, UnlockType, StepsOf, KindOf
  DEF VerifyStopped, TypeOK, Locks, ghosts, Purging, At, files, memory, ShutdownSteps
<1>26. CASE ClearStopping
  BY <1>26, GoType, UnlockType, StepsOf, JobType, DeletionAssumption
  DEF ClearStopping, TypeOK, Locks, ghosts, Purging, At, memory, ShutdownSteps
<1>27. CASE MarkPurging
  <2>1. op.kind = "sweep" /\ job \in Jobs
    BY <1>27, KindOf, JobThere DEF MarkPurging, TypeOK, At
  <2>2. CASE job.due /\ ~MayStillRun
    <3>1. op'.kind = "sweep" /\ op'.step = "purge"
      BY <1>27, <2>1, <2>2, GoType, StepsOf DEF MarkPurging, TypeOK
    <3>2. job' \in Jobs /\ job'.purging /\ job'.due /\ job'.stopping = job.stopping
      BY <1>27, <2>1, <2>2, JobType, JobFields, SomeJob DEF MarkPurging
    <3>3. job' # NoJob
      BY <3>2, DeletionAssumption
    <3>4. ~job.stopping
      BY <1>27 DEF MarkPurging, At, Locks
    <3> QED BY <1>27, <2>1, <3>1, <3>2, <3>3, <3>4
            DEF MarkPurging, Locks, memory, ghosts, ShutdownSteps
  <2>3. CASE ~(job.due /\ ~MayStillRun)
    BY <1>27, <2>3, UnlockType DEF MarkPurging, Locks, ghosts, Purging, At, memory
  <2> QED BY <2>2, <2>3
<1>28. CASE PurgeSome
  BY <1>28, GoType, StepsOf, KindOf
  DEF PurgeSome, TypeOK, Locks, ghosts, Purging, At, memory, ShutdownSteps
<1>29. CASE PurgeRest
  BY <1>29, GoType, StepsOf, KindOf
  DEF PurgeRest, TypeOK, Locks, ghosts, Purging, At, memory, ShutdownSteps
<1>30. CASE ForgetJob
  BY <1>30, UnlockType DEF ForgetJob, Locks, ghosts, Purging, At
<1>31. CASE Sweep
  <2>1. op'.kind = "sweep" /\ op'.step \in {"check", "due"}
        /\ (op'.step = "check" => job.stopping)
        /\ (op'.step = "due" => ~job.stopping)
    <3>1. CASE job.stopping
      BY <1>31, TakeType, StepsOf DEF Sweep
    <3>2. CASE ~job.stopping
      BY <1>31, TakeType, StepsOf DEF Sweep
    <3> QED BY <3>1, <3>2
  <2> QED BY <1>31, <2>1
          DEF Sweep, Gone, Locks, ghosts, Purging, At, files, memory, ShutdownSteps
<1>32. CASE SpawnRefused
  BY <1>32, UnlockType DEF SpawnRefused, EndStart, Locks, ghosts, Purging, At, files
<1>33. CASE UnlistFails
  BY <1>33, UnlockType DEF UnlistFails, Locks, ghosts, Purging, At
<1>34. CASE StepFails
  BY <1>34, UnlockType DEF StepFails, EndStart, Locks, ghosts, Purging, At, files
<1>35. CASE Crash
  BY <1>35, UnlockType DEF Crash, Locks, ghosts, Purging, At, files, Apart
<1>36. CASE RecordFails
  BY <1>36, UnlockType DEF RecordFails, EndStart, Locks, ghosts, Purging, At, files
<1>37. ASSUME NEW p \in Pids, Exit(p) PROVE Locks'
  BY <1>37 DEF Exit, Locks, ghosts, Purging, At, files, memory
<1>38. ASSUME NEW s \in Strangers, NEW p \in Pids, Come(s, p) PROVE Locks'
  BY <1>38 DEF Come, Locks, ghosts, Purging, At, files, memory
<1>39. CASE Day
  <2>1. CASE job = NoJob
    BY <1>39, <2>1 DEF Day, Locks, ghosts, Purging, At
  <2>2. CASE job # NoJob
    <3>1. job \in Jobs /\ job' = [job EXCEPT !.due = TRUE]
      BY <1>39, <2>2 DEF Day, TypeOK
    <3>2. job' \in Jobs /\ job'.due /\ job'.stopping = job.stopping
          /\ job'.purging = job.purging
      BY <3>1, <2>2, JobType
    <3>3. job' # NoJob
      BY <3>2, DeletionAssumption
    <3> QED BY <1>39, <3>3 DEF Day, Locks, ghosts, Purging, At, memory
  <2> QED BY <2>1, <2>2
<1>41. CASE Backfill
  BY <1>41 DEF Backfill, Locks, Purging, At, memory
<1>40. CASE UNCHANGED vars
  BY <1>40 DEF vars, files, memory, Locks, ghosts, Purging, At
<1> QED
  BY
     <1>1, <1>2, <1>3, <1>4, <1>5, <1>6, <1>7, <1>8, <1>9, <1>10,
     <1>11, <1>12, <1>13, <1>14, <1>15, <1>16, <1>17, <1>18, <1>19,
     <1>20, <1>21, <1>22, <1>23, <1>24, <1>25, <1>26, <1>27, <1>28,
     <1>29, <1>30, <1>31, <1>32, <1>33, <1>34, <1>35, <1>36, <1>37,
     <1>38, <1>39, <1>40, <1>41
  DEF Next, Requests, Threading, Holding, Starting, Deleting, Faults, World

-----------------------------------------------------------------------------
(* The day of a job, and the books.                                        *)

LEMMA DaysStep ==
    ASSUME TypeOK, Locks, Days, [Next]_vars
    PROVE  Days'
<1>1. CASE Register
  BY <1>1, TakeType, StepsOf, NatCount DEF Register, Days, procs, ghosts
<1>2. CASE RegisterFails
  BY <1>2 DEF RegisterFails, Days, files
<1>3. CASE Import
  <2>1. op'.kind = "import"
    BY <1>3, TakeType, StepsOf, NatCount DEF Import
  <2> QED BY <1>3, <2>1 DEF Import, Days, ghosts
<1>4. CASE SaveRoster
  BY <1>4 DEF SaveRoster, Days
<1>5. CASE AskRestart
  BY <1>5 DEF AskRestart, Days, files, ghosts
<1>6. CASE Down
  BY <1>6, TakeType, StepsOf DEF Down, Days, files, ghosts
<1>7. CASE Remove
  BY <1>7, JobFields DEF Remove, Days
<1>8. ASSUME NEW t \in pending, StartCreated(t) PROVE Days'
  BY <1>8 DEF StartCreated, Days, files, ghosts
<1>9. ASSUME NEW t \in pending, CreateWorker(t) PROVE Days'
  BY <1>9, TakeType, StepsOf, TokType DEF CreateWorker, Days, files, ghosts
<1>10. ASSUME NEW t \in pending, BringUp(t) PROVE Days'
  BY <1>10 DEF BringUp, Days, files, ghosts
<1>11. ASSUME NEW t \in pending, StartBot(t) PROVE Days'
  BY <1>11, TakeType, StepsOf DEF StartBot, Days, files, ghosts
<1>12. ASSUME NEW t \in pending, RestartWorker(t) PROVE Days'
  BY <1>12, TakeType, StepsOf, TokType DEF RestartWorker, Days, files, ghosts
<1>13. ASSUME NEW t \in pending, ShutdownThread(t) PROVE Days'
  BY <1>13, TakeType, StepsOf DEF ShutdownThread, Days, files, ghosts
<1>14. CASE CancelJob
  BY <1>14, UnlockType DEF CancelJob, Days
<1>15. CASE StopAgent
  BY <1>15, GoType, StepsOf, KindOf
  DEF StopAgent, TypeOK, Days, At, files, ghosts
<1>16. CASE ForgetPid
  BY <1>16, GoType, UnlockType, StepsOf DEF ForgetPid, TypeOK, Days, ghosts
<1>17. CASE Adopt
  BY <1>17, UnlockType DEF Adopt, EndStart, Days, files, ghosts
<1>18. ASSUME NEW p \in Pids, Spawn(p) PROVE Days'
  BY <1>18 DEF Spawn, Days, files
<1>19. CASE Record
  BY <1>19, UnlockType DEF Record, EndStart, Days, ghosts
<1>20. CASE NoteStopping
  BY <1>20 DEF NoteStopping, Days, ghosts
<1>21. CASE Unlist
  BY <1>21 DEF Unlist, Days
<1>22. CASE CheckIdentity
  BY <1>22, GoType, UnlockType, StepsOf, KindOf
  DEF CheckIdentity, TypeOK, Days, At, files, ghosts
<1>23. CASE Kill
  BY <1>23, GoType, StepsOf, KindOf DEF Kill, TypeOK, Days, At, files, ghosts
<1>24. CASE ForgetDeletedPid
  BY <1>24, GoType, StepsOf DEF ForgetDeletedPid, TypeOK, Days, ghosts
<1>25. CASE VerifyStopped
  BY <1>25, GoType, UnlockType, StepsOf, KindOf
  DEF VerifyStopped, TypeOK, Days, At, files, ghosts
<1>26. CASE ClearStopping
  BY <1>26, GoType, UnlockType, StepsOf, JobThere
  DEF ClearStopping, TypeOK, Days, At, ghosts
<1>27. CASE MarkPurging
  BY <1>27, GoType, UnlockType, StepsOf, KindOf, JobThere
  DEF MarkPurging, TypeOK, Days, At, ghosts
<1>28. CASE PurgeSome
  BY <1>28, GoType, StepsOf, KindOf DEF PurgeSome, TypeOK, Days, At, ghosts
<1>29. CASE PurgeRest
  BY <1>29, GoType, StepsOf, KindOf DEF PurgeRest, TypeOK, Days, At, ghosts
<1>30. CASE ForgetJob
  BY <1>30, UnlockType DEF ForgetJob, Days
<1>31. CASE Sweep
  BY <1>31, TakeType, StepsOf DEF Sweep, Days, files, ghosts
<1>32. CASE SpawnRefused
  BY <1>32, UnlockType DEF SpawnRefused, EndStart, Days, files, ghosts
<1>33. CASE UnlistFails
  BY <1>33, UnlockType DEF UnlistFails, Days, ghosts
<1>34. CASE StepFails
  BY <1>34, UnlockType DEF StepFails, EndStart, Days, files, ghosts
<1>35. CASE Crash
  BY <1>35, UnlockType DEF Crash, Days, files
<1>36. CASE RecordFails
  BY <1>36, UnlockType DEF RecordFails, EndStart, Days, files
<1>37. ASSUME NEW p \in Pids, Exit(p) PROVE Days'
  BY <1>37 DEF Exit, Days, files, ghosts
<1>38. ASSUME NEW s \in Strangers, NEW p \in Pids, Come(s, p) PROVE Days'
  BY <1>38 DEF Come, Days, files, ghosts
<1>39. CASE Day
  BY <1>39 DEF Day, Days
<1>41. CASE Backfill
  BY <1>41 DEF Backfill, Days
<1>40. CASE UNCHANGED vars
  BY <1>40 DEF vars, files, ghosts, Days
<1> QED
  BY
     <1>1, <1>2, <1>3, <1>4, <1>5, <1>6, <1>7, <1>8, <1>9, <1>10,
     <1>11, <1>12, <1>13, <1>14, <1>15, <1>16, <1>17, <1>18, <1>19,
     <1>20, <1>21, <1>22, <1>23, <1>24, <1>25, <1>26, <1>27, <1>28,
     <1>29, <1>30, <1>31, <1>32, <1>33, <1>34, <1>35, <1>36, <1>37,
     <1>38, <1>39, <1>40, <1>41
  DEF Next, Requests, Threading, Holding, Starting, Deleting, Faults, World

LEMMA BooksStep ==
    ASSUME TypeOK, Locks, Books, Lost' = {}, [Next]_vars
    PROVE  Books'
<1>1. CASE Register
  BY <1>1, TakeType, StepsOf, NatCount, DeletionAssumption
  DEF Register, Books, Agents, Tracked, Doomed, Purging, At, procs, NoOp
<1>2. CASE RegisterFails
  BY <1>2 DEF RegisterFails, Lost
<1>3. CASE Import
  BY <1>3, TakeType, StepsOf, NatCount
  DEF Import, Books, Agents, Tracked, Doomed, Purging, At, procs, NoOp
<1>4. CASE SaveRoster
  BY <1>4 DEF SaveRoster, Lost, TypeOK, Books
<1>5. CASE AskRestart
  BY <1>5
  DEF AskRestart, Books, Agents, Tracked, Doomed, Purging, At, files, procs
<1>6. CASE Down
  BY <1>6, TakeType, StepsOf
  DEF Down, Books, Agents, Tracked, Doomed, Purging, At, files, memory,
      procs, NoOp
<1>7. CASE Remove
  <2>1. job = NoJob
    BY <1>7 DEF Remove, Lost
  <2>2. op'.kind = "remove" /\ op'.step = "stopping"
    BY <1>7, TakeType, StepsOf, NatCount DEF Remove
  <2>3. /\ job' = Fresh(run) /\ op = NoOp /\ listed
        /\ UNCHANGED <<saved, run, listed, procs>>
    BY <1>7, <2>1 DEF Remove
  <2>4. job'.pid = run /\ job'.ident = Occupant(run) /\ ~job'.stopping
    BY <2>3 DEF Fresh
  <2>5. Agents' = Agents /\ \A p \in Agents : p = run
    BY <2>3 DEF Agents, procs, NoOp, Books, Tracked
  <2>6. \A p \in Agents' : Occupant(run) = "agent"
    BY <2>5, DeletionAssumption DEF Occupant, Agents
  <2> QED BY <2>2, <2>3, <2>4, <2>5, <2>6
          DEF Books, Tracked, Doomed, Purging, At
<1>8. ASSUME NEW t \in pending, StartCreated(t) PROVE Books'
  BY <1>8
  DEF StartCreated, Books, Agents, Tracked, Doomed, Purging, At, files, procs
<1>9. ASSUME NEW t \in pending, CreateWorker(t) PROVE Books'
  BY <1>9, TakeType, StepsOf, TokType
  DEF CreateWorker, Books, Agents, Tracked, Doomed, Purging, At, files,
      procs, StillWanted, NoOp
<1>10. ASSUME NEW t \in pending, BringUp(t) PROVE Books'
  BY <1>10
  DEF BringUp, Books, Agents, Tracked, Doomed, Purging, At, files, procs
<1>11. ASSUME NEW t \in pending, StartBot(t) PROVE Books'
  BY <1>11, TakeType, StepsOf
  DEF StartBot, Books, Agents, Tracked, Doomed, Purging, At, files, procs,
      NoOp
<1>12. ASSUME NEW t \in pending, RestartWorker(t) PROVE Books'
  BY <1>12, TakeType, StepsOf, TokType
  DEF RestartWorker, Books, Agents, Tracked, Doomed, Purging, At, files,
      procs, NoOp
<1>13. ASSUME NEW t \in pending, ShutdownThread(t) PROVE Books'
  <2>1. CASE job # NoJob /\ ~saved /\ job.stopping
    <3>1. op'.kind = "shutdown" /\ op'.step = "check"
      BY <1>13, <2>1, TakeType, StepsOf DEF ShutdownThread
    <3>2. op = NoOp /\ UNCHANGED <<files, listed, procs>>
      BY <1>13 DEF ShutdownThread
    <3> QED BY <2>1, <3>1, <3>2
            DEF NoOp, Books, Agents, Tracked, Doomed, Purging, At, files,
                procs
  <2>2. CASE ~(job # NoJob /\ ~saved /\ job.stopping)
    BY <1>13, <2>2
    DEF ShutdownThread, Books, Agents, Tracked, Doomed, Purging, At, files,
        procs
  <2> QED BY <2>1, <2>2
<1>14. CASE CancelJob
  BY <1>14, UnlockType
  DEF CancelJob, Books, Agents, Tracked, Doomed, Purging, At, procs
<1>15. CASE StopAgent
  BY <1>15, GoType, StepsOf, KindOf
  DEF StopAgent, TypeOK, Books, Agents, Tracked, Doomed, At, files, memory
<1>16. CASE ForgetPid
  BY <1>16, GoType, UnlockType, StepsOf
  DEF ForgetPid, TypeOK, Books, Agents, Doomed, At, memory, procs
<1>17. CASE Adopt
  BY <1>17, UnlockType
  DEF Adopt, EndStart, Books, Agents, Tracked, Doomed, Purging, At, files,
      procs
<1>18. ASSUME NEW p \in Pids, Spawn(p) PROVE Books'
  <2>1. op.kind \in {"create", "start", "restart"} /\ op.step = "spawn"
    BY <1>18, KindOf DEF Spawn, TypeOK, At
  <2>2. Agents = {}
    <3>1. \A q \in Agents : q = run
      BY <2>1 DEF Books, Tracked
    <3>2. run \notin Agents
      BY <1>18, DeletionAssumption DEF Spawn, Runs, Occupant, Agents
    <3> QED BY <3>1, <3>2
  <2>3. Agents' \subseteq {p}
    BY <1>18, <2>2 DEF Spawn, Agents
  <2> QED BY <1>18, <2>1, <2>3
          DEF Spawn, Lost, Books, Tracked, Doomed, Purging, At, files
<1>19. CASE Record
  BY <1>19, UnlockType
  DEF Record, EndStart, Books, Agents, Tracked, Doomed, Purging, At, procs
<1>20. CASE NoteStopping
  BY <1>20, GoType, StepsOf
  DEF NoteStopping, TypeOK, Locks, Books, Agents, Tracked, Doomed, Purging,
      At, procs
<1>21. CASE Unlist
  BY <1>21, UnlockType
  DEF Unlist, Books, Agents, Tracked, Doomed, Purging, At, procs
<1>22. CASE CheckIdentity
  BY <1>22, GoType, UnlockType, StepsOf, KindOf
  DEF CheckIdentity, TypeOK, Books, Agents, Tracked, Doomed, Purging, At,
      files, memory, procs
<1>23. CASE Kill
  <2>1. op.kind \in {"shutdown", "sweep"} /\ op.step = "kill"
        /\ "forget_pid" \in Steps[op.kind]
    BY <1>23, KindOf, StepsOf DEF Kill, TypeOK, At
  <2>2. job # NoJob /\ job.stopping
    BY <2>1 DEF Locks, ShutdownSteps
  <2>3. job.handle = job.pid /\ \A p \in Agents : p = job.pid
    BY <2>1, <2>2 DEF Books, Doomed
  <2>4. Agents' = {}
    BY <1>23, <2>3 DEF Kill, Agents, TypeOK
  <2>5. op'.kind = op.kind /\ op'.step = "forget_pid"
    BY <1>23, <2>1, GoType DEF Kill, TypeOK
  <2> QED BY <1>23, <2>4, <2>5 DEF Kill, Books, Doomed, files, memory
<1>24. CASE ForgetDeletedPid
  <2>1. Agents = {} /\ Agents' = {}
    BY <1>24 DEF ForgetDeletedPid, At, Books, Agents, procs
  <2>2. op'.kind = op.kind /\ op'.step = "verify"
    BY <1>24, GoType, StepsOf DEF ForgetDeletedPid, TypeOK
  <2> QED BY <1>24, <2>1, <2>2 DEF ForgetDeletedPid, Books, Doomed, memory
<1>25. CASE VerifyStopped
  BY <1>25, GoType, UnlockType, StepsOf, KindOf
  DEF VerifyStopped, TypeOK, Books, Agents, Tracked, Doomed, Purging, At,
      files, memory, procs
<1>26. CASE ClearStopping
  BY <1>26, GoType, UnlockType, StepsOf, JobThere
  DEF ClearStopping, TypeOK, Books, Agents, Tracked, Doomed, Purging, At,
      memory, procs
<1>27. CASE MarkPurging
  <2>1. op.kind = "sweep" /\ job \in Jobs /\ job # NoJob
    BY <1>27, KindOf, JobThere DEF MarkPurging, TypeOK, At
  <2>2. Agents' = Agents /\ Tracked = run /\ Doomed /\ ~listed
    BY <1>27, <2>1 DEF MarkPurging, Agents, Tracked, Doomed, Locks, procs, At
  <2>3. CASE job.due /\ ~MayStillRun
    <3>1. op'.kind = "sweep" /\ op'.step = "purge"
      BY <1>27, <2>1, <2>3, GoType, StepsOf DEF MarkPurging, TypeOK
    <3>2. /\ job'.stopping = job.stopping /\ job'.handle = job.handle
          /\ job'.pid = job.pid /\ job'.ident = job.ident
      BY <1>27, <2>1, JobFields DEF MarkPurging
    <3>3. Agents = {}
      <4> SUFFICES ASSUME NEW p \in Agents PROVE FALSE
        OBVIOUS
      <4>1. p = job.pid /\ job.ident = "agent"
        BY <2>2 DEF Books
      <4>2. Occupant(job.pid) = "agent"
        BY <4>1, DeletionAssumption DEF Occupant, Agents
      <4> QED BY <2>3, <4>1, <4>2 DEF MayStillRun
    <3> QED BY <1>27, <2>2, <3>1, <3>2, <3>3 DEF MarkPurging, Books, memory
  <2>4. CASE ~(job.due /\ ~MayStillRun)
    <3>1. op'.kind = "none" /\ op'.step = "idle"
      BY <1>27, <2>4, UnlockType DEF MarkPurging
    <3> QED BY <1>27, <2>2, <2>4, <3>1
            DEF MarkPurging, Books, Tracked, Purging, At, memory
  <2> QED BY <2>3, <2>4
<1>28. CASE PurgeSome
  BY <1>28, GoType, StepsOf, KindOf
  DEF PurgeSome, TypeOK, Books, Agents, Doomed, Purging, At, memory, procs
<1>29. CASE PurgeRest
  BY <1>29, GoType, StepsOf, KindOf
  DEF PurgeRest, TypeOK, Books, Agents, Doomed, Purging, At, memory, procs
<1>30. CASE ForgetJob
  BY <1>30, UnlockType
  DEF ForgetJob, Books, Agents, Doomed, Purging, memory, procs
<1>31. CASE Sweep
  <2>1. op'.kind = "sweep" /\ op'.step \in {"check", "due"}
    <3>1. CASE job.stopping
      BY <1>31, TakeType, StepsOf DEF Sweep
    <3>2. CASE ~job.stopping
      BY <1>31, TakeType, StepsOf DEF Sweep
    <3> QED BY <3>1, <3>2
  <2>2. op = NoOp /\ UNCHANGED <<files, memory, procs>> /\ Doomed
    BY <1>31 DEF Sweep, Gone, Doomed
  <2> QED BY <2>1, <2>2
          DEF NoOp, Books, Agents, Tracked, Doomed, Purging, At, files,
              memory, procs
<1>32. CASE SpawnRefused
  BY <1>32, UnlockType
  DEF SpawnRefused, EndStart, Books, Agents, Tracked, Doomed, Purging, At, files,
      procs
<1>33. CASE UnlistFails
  BY <1>33, UnlockType
  DEF UnlistFails, Books, Agents, Tracked, Doomed, Purging, At, procs
<1>34. CASE StepFails
  BY <1>34, UnlockType
  DEF StepFails, EndStart, Books, Agents, Tracked, Doomed, Purging, At, files,
      procs
<1>35. CASE Crash
  BY <1>35, UnlockType
  DEF Crash, Lost, Books, Agents, Tracked, Doomed, Purging, At, files, procs
<1>36. CASE RecordFails
  BY <1>36 DEF RecordFails, Lost
<1>37. ASSUME NEW p \in Pids, Exit(p) PROVE Books'
  BY <1>37
  DEF Exit, Books, Agents, Tracked, Doomed, Purging, At, files, memory
<1>38. ASSUME NEW s \in Strangers, NEW p \in Pids, Come(s, p) PROVE Books'
  BY <1>38, DeletionAssumption
  DEF Come, Books, Agents, Tracked, Doomed, Purging, At, files, memory
<1>39. CASE Day
  BY <1>39
  DEF Day, Books, Agents, Tracked, Doomed, Purging, At, memory, procs
<1>41. CASE Backfill
  BY <1>41
  DEF Backfill, Locks, Books, Agents, Tracked, Doomed, Purging, At, memory, procs, Lost
<1>40. CASE UNCHANGED vars
  BY <1>40
  DEF vars, Books, Agents, Tracked, Doomed, Purging, At, files, memory, procs
<1> QED
  BY
     <1>1, <1>2, <1>3, <1>4, <1>5, <1>6, <1>7, <1>8, <1>9, <1>10,
     <1>11, <1>12, <1>13, <1>14, <1>15, <1>16, <1>17, <1>18, <1>19,
     <1>20, <1>21, <1>22, <1>23, <1>24, <1>25, <1>26, <1>27, <1>28,
     <1>29, <1>30, <1>31, <1>32, <1>33, <1>34, <1>35, <1>36, <1>37,
     <1>38, <1>39, <1>40, <1>41
  DEF Next, Requests, Threading, Holding, Starting, Deleting, Faults, World

-----------------------------------------------------------------------------
(* The theorems.                                                           *)

LEMMA NextInv == IInv /\ [Next]_vars => IInv'
<1> SUFFICES ASSUME IInv, [Next]_vars PROVE IInv'
  OBVIOUS
<1>1. astray \subseteq astray'
  BY DEF Next, vars, Requests, Threading, Holding, Starting, Deleting, Faults,
         World, files, memory, procs, ghosts, Register, RegisterFails, Import,
         SaveRoster, AskRestart, Down, Remove, StartCreated, CreateWorker,
         BringUp, StartBot, RestartWorker, ShutdownThread, CancelJob, StopAgent,
         ForgetPid, Adopt, Spawn, Record, NoteStopping, Unlist, CheckIdentity,
         Kill, ForgetDeletedPid, VerifyStopped, ClearStopping, MarkPurging,
         PurgeSome, PurgeRest, ForgetJob, Sweep, Backfill, SpawnRefused, RecordFails, UnlistFails,
         StepFails, EndStart, Crash, Exit, Come, Day
<1>2. Agency'
  <2> SUFFICES ASSUME Lost' = {} PROVE Books'
    BY DEF Agency
  <2>1. Books
    BY <1>1 DEF IInv, Agency, Lost
  <2> QED BY <2>1, BooksStep DEF IInv
<1> QED BY <1>2, TypeOKStep, LocksStep, DaysStep DEF IInv

LEMMA Inductive == Spec => []IInv
BY InitInv, NextInv, PTL DEF Spec

\* The state of the bot, of the lock and of the processes is well formed, and
\* the holder of the lock is in a step of its operation.
THEOREM TypeCorrect == Spec => []TypeOK
<1>1. IInv => TypeOK
  BY DEF IInv
<1> QED BY <1>1, Inductive, PTL

\* Files are purged only of a bot that the server does not list and whose
\* shutdown is complete, a day after its deletion unless the deletion took the
\* job of another, and while no agent of it runs unless one was lost; then, and
\* with the files half gone, the bot is in no roster unless the seed roster gave
\* it back.  For any number of threads, restarts, deaths of the server and steps
\* that fail (bot_cleanup.sweep).
THEOREM PurgesAreSafe == Spec => []PurgeIsSafe
<1>1. IInv => PurgeIsSafe
  <2> SUFFICES ASSUME IInv PROVE PurgeIsSafe
    OBVIOUS
  <2>1. Purging => op.kind = "sweep"
    BY KindOf DEF IInv, TypeOK, Purging, At
  <2>2. Purging \/ data = "partial" => (~listed /\ ~saved) \/ "seeded" \in astray
    BY <2>1 DEF IInv, Locks
  <2>3. Purging => ~listed /\ job # NoJob /\ ~job.stopping
    BY <2>1 DEF IInv, Locks
  <2>4. Purging => (recent => "reused" \in astray)
    BY <2>1 DEF IInv, Locks, Days
  <2>5. Purging => (Agents # {} => Lost # {})
    BY DEF IInv, Agency, Books
  <2> QED BY <2>2, <2>3, <2>4, <2>5 DEF PurgeIsSafe
<1> QED BY <1>1, Inductive, PTL

\* One agent at a time answers for the bot, whoever starts, restarts, deletes
\* and registers it at once (the lifecycle lock and the run file), unless one was
\* lost: by a death of the server or a failed write after Popen, a start that had
\* waited, a roster that lost the bot or was not saved, or a deletion that took
\* the job of another.
THEOREM OneAgentAtATime == Spec => []OneAgent
<1>1. IInv => OneAgent
  <2> SUFFICES ASSUME IInv, Lost = {} PROVE Cardinality(Agents) <= 1
    BY DEF OneAgent
  <2>1. Agents \subseteq {Tracked}
    BY DEF IInv, Agency, Books
  <2>2. Cardinality({Tracked}) = 1 /\ IsFiniteSet({Tracked})
    BY FS_Singleton
  <2>3. Cardinality(Agents) <= Cardinality({Tracked})
    BY <2>1, <2>2, FS_Subset
  <2> QED BY <2>2, <2>3
<1> QED BY <1>1, Inductive, PTL
=============================================================================
