-------------------------- MODULE Routines_proofs --------------------------
(***************************************************************************)
(* Proofs about Routines, for any number of routines, minutes, edits,       *)
(* faults and crashes: type correctness, that an occurrence ends once, that *)
(* what the file records was sent, and that a save loses no record.         *)
(***************************************************************************)
EXTENDS Routines, TLAPS

Sent == inbox \cup processed

Told(rows) ==
    \A r \in Routs, s \in Slots :
        (rows[r].hist[s] # "none" \/ (rows[r].fired /\ s = rows[r].at)) =>
            <<r, s>> \in Sent

\* Nobody handles, and no row tells of, an occurrence that was not sent.
RowsTell ==
    /\ Told(file) /\ Told(copy)
    /\ agent.stage # "idle" => agent.occ \in Sent
    /\ zombies \subseteq Sent

\* The occurrence the harness is about to send is that of a row it holds.
JobTells ==
    job.stage = "send" =>
        /\ job.cur[1] \in job.todo
        /\ job.cur = <<job.cur[1],
                       SlotOf(copy[job.cur[1]], job.kind, job.minute)>>
        /\ job.found => job.cur \in processed

\* A message that is stopped has a reason.
StopIsGiven == agent.stage = "stop" => agent.stop # "go"

\* A thread that holds the lock has every record of the file.
CopyKeeps ==
    job.stage # "none" =>
        \A r \in Routs, s \in Slots :
            file[r].hist[s] # "none" => copy[r].hist[s] = file[r].hist[s]

\* An occurrence that was not sent again after it was archived: it is queued
\* or archived, is answered at most once, and is not run once answered.
EndsOnce ==
    \A o \in Occs \ raced :
        /\ ~(o \in inbox /\ o \in processed)
        /\ ended[o] <= 1
        /\ ended[o] = 1 => o \in Sent
        /\ ended[o] = 1 /\ o \in inbox => o \in replied
        /\ agent.occ = o /\ agent.stage \in {"stop", "start", "run", "reply"} =>
             ended[o] = 0 /\ o \in inbox

\* The inductive invariant.
IInv == /\ TypeOK /\ RowsTell /\ JobTells /\ CopyKeeps /\ StopIsGiven
        /\ EndsOnce

-----------------------------------------------------------------------------
(* What the helpers do to the records they change.                         *)
LEMMA FreshRow ==
    ASSUME NEW once \in BOOLEAN, NEW m \in Minutes
    PROVE  /\ NewRow(once, m) \in Rows /\ ~NewRow(once, m).fired
           /\ \A s \in Slots : NewRow(once, m).hist[s] = "none"
<1>1. 0 \in 0..MaxRevisions
  BY RoutinesAssumption
<1> QED BY <1>1 DEF NewRow, Rows

LEMMA NothingYet ==
    /\ NoJob \in Jobs /\ NoAgent \in Agents /\ NoAttempt \in Attempts
    /\ NoMsg \in Msgs /\ NoCopy \in [Routs -> Rows]
    /\ NoJob.stage = "none" /\ NoAgent.stage = "idle"
    /\ \A r \in Routs : /\ ~NoCopy[r].fired
                        /\ \A s \in Slots : NoCopy[r].hist[s] = "none"
<1>1. /\ 0 \in Minutes /\ 0 \in 0..MaxRevisions /\ 0 \in 0..(MaxAttempts + 1)
  BY RoutinesAssumption DEF Minutes
<1>2. NoCopy \in [Routs -> Rows]
  BY <1>1, FreshRow DEF NoCopy
<1>3. \A r \in Routs : /\ ~NoCopy[r].fired
                       /\ \A s \in Slots : NoCopy[r].hist[s] = "none"
  BY <1>1, FreshRow DEF NoCopy
<1>4. NoJob \in Jobs /\ NoAgent \in Agents /\ NoAttempt \in Attempts
      /\ NoMsg \in Msgs
  BY <1>1 DEF NoJob, Jobs, NoAgent, Agents, NoAttempt, Attempts, NoMsg, Msgs
<1> QED BY <1>2, <1>3, <1>4 DEF NoJob, NoAgent

LEMMA StopReasonType ==
    ASSUME NEW o PROVE StopReason(o) \in Stops \cup {"go"}
BY DEF StopReason, Stops

LEMMA SlotType ==
    ASSUME NEW row \in Rows, NEW kind, NEW m \in Minutes
    PROVE  SlotOf(row, kind, m) \in Slots
BY DEF SlotOf, Rows, Slots, Minutes

\* A row that is told how its occurrence goes.
LEMMA RecordSets ==
    ASSUME TypeOK, NEW o \in Occs, NEW state \in Recorded, Record(o, state)
    PROVE  /\ file' \in [Routs -> Rows]
           /\ \A r \in Routs :
                /\ file'[r].fired = file[r].fired /\ file'[r].at = file[r].at
                /\ \A s \in Slots : <<r, s>> # o =>
                      file'[r].hist[s] = file[r].hist[s]
<1>1. /\ o[1] \in Routs /\ o[2] \in Slots /\ o = <<o[1], o[2]>>
      /\ file \in [Routs -> Rows]
  BY DEF Occs, TypeOK
<1> DEFINE hist == [file[o[1]].hist EXCEPT ![o[2]] = state]
           row  == [file[o[1]] EXCEPT !.hist = hist]
<1>2. /\ hist \in [Slots -> Recorded \cup {"none"}]
      /\ \A s \in Slots : s # o[2] => hist[s] = file[o[1]].hist[s]
  BY <1>1 DEF Rows
<1>3. CASE UNCHANGED file
  BY <1>1, <1>3
<1>4. CASE file' = [file EXCEPT ![o[1]] = row]
  <2> HIDE DEF hist
  <2>1. /\ row \in Rows /\ row.hist = hist
        /\ row.fired = file[o[1]].fired /\ row.at = file[o[1]].at
    BY <1>1, <1>2 DEF Rows
  <2> HIDE DEF row
  <2>2. file' \in [Routs -> Rows] /\ file'[o[1]] = row
        /\ \A r \in Routs \ {o[1]} : file'[r] = file[r]
    BY <1>1, <1>4, <2>1
  <2>3. ASSUME NEW s \in Slots, <<o[1], s>> # o PROVE row.hist[s] = file[o[1]].hist[s]
    BY <1>1, <1>2, <2>1, <2>3
  <2> QED BY <2>1, <2>2, <2>3
<1> QED BY <1>3, <1>4 DEF Record

\* A row stamped by a tick.
LEMMA StampSets ==
    ASSUME NEW row \in Rows, NEW kind \in {"due", "test"}, NEW slot \in Slots,
           NEW minute \in Minutes, NEW found \in BOOLEAN
    PROVE  LET new == Stamped(row, kind, slot, minute, found)
           IN  /\ new \in Rows /\ new.at = row.at /\ new.once = row.once
               /\ new.fired => row.fired \/ (row.once /\ kind = "due")
               /\ \A s \in Slots :
                    /\ s # slot => new.hist[s] = row.hist[s]
                    /\ row.hist[s] # "none" => new.hist[s] = row.hist[s]
<1> DEFINE was  == row.hist[slot]
           is   == IF was # "none" THEN was
                   ELSE IF found THEN "unknown" ELSE "queued"
           hist == [row.hist EXCEPT ![slot] = is]
           fired == row.fired \/ (row.once /\ kind = "due")
           enabled == row.enabled /\ ~(row.once /\ kind = "due")
           new  == [row EXCEPT !.last = minute, !.fired = fired,
                               !.enabled = enabled, !.hist = hist]
<1>1. /\ is \in Recorded \cup {"none"} /\ (was # "none" => is = was)
  <2>1. was \in Recorded \cup {"none"}
    BY DEF Rows
  <2>2. "unknown" \in Recorded /\ "queued" \in Recorded
    BY DEF Recorded
  <2> HIDE DEF was
  <2> QED BY <2>1, <2>2
<1> HIDE DEF is
<1>2. /\ hist \in [Slots -> Recorded \cup {"none"}]
      /\ \A s \in Slots : /\ s # slot => hist[s] = row.hist[s]
                          /\ row.hist[s] # "none" => hist[s] = row.hist[s]
  BY <1>1 DEF Rows
<1>3. fired \in BOOLEAN /\ enabled \in BOOLEAN
  OBVIOUS
<1> HIDE DEF hist, fired, enabled
<1>4. /\ new \in Rows /\ new.at = row.at /\ new.once = row.once
      /\ new.fired = fired /\ new.hist = hist
  BY <1>2, <1>3 DEF Rows
<1>5. Stamped(row, kind, slot, minute, found) = new
  BY DEF Stamped, new, hist, is, fired, enabled
<1> HIDE DEF new
<1> QED BY <1>2, <1>4, <1>5 DEF fired

\* A row that was edited.
LEMMA EditSets ==
    ASSUME NEW row \in Rows, NEW new \in Edited(row), new.rev <= MaxRevisions
    PROVE  /\ new \in Rows /\ new.hist = row.hist
           /\ new.fired => row.fired /\ new.at = row.at
<1>1. /\ row.rev \in Nat /\ MaxRevisions \in Nat
  BY RoutinesAssumption DEF Rows
<1>2. CASE new \in {[row EXCEPT !.enabled = ~@], [row EXCEPT !.live = FALSE]}
  BY <1>2 DEF Rows
<1>3. ASSUME row.rev + 1 <= MaxRevisions PROVE row.rev + 1 \in 0..MaxRevisions
  BY <1>1, <1>3
<1>4. CASE new = [row EXCEPT !.rev = @ + 1]
  <2>1. new.rev = row.rev + 1
    BY <1>4 DEF Rows
  <2> QED BY <1>3, <1>4, <2>1 DEF Rows
<1>5. CASE new = [row EXCEPT !.rev = @ + 1, !.last = Never]
  <2>1. new.rev = row.rev + 1
    BY <1>5 DEF Rows
  <2> QED BY <1>3, <1>5, <2>1 DEF Rows
<1>6. ASSUME NEW m \in Minutes, NEW e \in {row.enabled, TRUE},
             new = Rescheduled(row, m, e)
      PROVE  /\ new \in Rows /\ new.hist = row.hist
             /\ new.fired => row.fired /\ new.at = row.at
  <2>1. new.rev = row.rev + 1
    BY <1>6 DEF Rows, Rescheduled
  <2>2. (row.fired /\ m = row.at) \in BOOLEAN /\ e \in BOOLEAN
    BY DEF Rows
  <2> QED BY <1>3, <1>6, <2>1, <2>2 DEF Rows, Rescheduled
<1>7. \/ new \in {[row EXCEPT !.enabled = ~@], [row EXCEPT !.live = FALSE]}
      \/ new = [row EXCEPT !.rev = @ + 1]
      \/ new = [row EXCEPT !.rev = @ + 1, !.last = Never]
      \/ \E m \in Minutes, e \in {row.enabled, TRUE} :
            new = Rescheduled(row, m, e)
  <2> DEFINE toggled == [row EXCEPT !.enabled = ~@]
             deleted == [row EXCEPT !.live = FALSE]
             revised == [row EXCEPT !.rev = @ + 1]
             cleared == [row EXCEPT !.rev = @ + 1, !.last = Never]
             moved   == {Rescheduled(row, m, row.enabled) : m \in Minutes}
                          \cup {Rescheduled(row, m, TRUE) : m \in Minutes}
  <2>1. Edited(row) = {toggled, deleted, revised}
                        \cup (IF row.once THEN moved ELSE {cleared})
    BY DEF Edited
  <2>2. new \in moved => \E m \in Minutes, e \in {row.enabled, TRUE} :
                            new = Rescheduled(row, m, e)
    OBVIOUS
  <2> HIDE DEF toggled, deleted, revised, cleared, moved
  <2>3. new \in {toggled, deleted, revised, cleared} \/ new \in moved
    BY <2>1
  <2> QED BY <2>2, <2>3 DEF toggled, deleted, revised, cleared
<1> QED BY <1>2, <1>4, <1>5, <1>6, <1>7

\* Changes of one field of the bot's process, its attempt and the job.
LEMMA Fields ==
    ASSUME TypeOK
    PROVE  /\ \A stage \in {"idle", "stop", "start", "run", "reply", "archive",
                            "abandon", "late"} :
                Turn(stage) => /\ agent' \in Agents /\ agent'.occ = agent.occ
                               /\ agent'.stage = stage
           /\ [attempt EXCEPT !.count = 1] \in Attempts
           /\ agent.stage # "idle" => agent \in Agents
<1>1. 1 \in 0..(MaxAttempts + 1)
  BY RoutinesAssumption
<1> QED BY <1>1 DEF TypeOK, Turn, Agents, Attempts

LEMMA Answered ==
    ASSUME TypeOK, agent.occ \in Occs, ReplyTerminal
    PROVE  /\ replied' = replied \cup {agent.occ} /\ replied' \subseteq Occs
           /\ ended' \in [Occs -> Nat]
           /\ ended'[agent.occ] = ended[agent.occ] + 1
           /\ \A o \in Occs \ {agent.occ} : ended'[o] = ended[o]
BY DEF TypeOK, ReplyTerminal

\* What the process handles is an occurrence.
LEMMA Handles ==
    ASSUME TypeOK, RowsTell, agent.stage # "idle"
    PROVE  agent.occ \in Occs /\ agent.occ \in Sent
BY DEF TypeOK, RowsTell, Sent

\* A thread between its look at the archive and its send.
LEMMA Sending ==
    ASSUME TypeOK, JobTells, job.stage = "send"
    PROVE  /\ job.cur \in Occs /\ job.cur[1] \in Routs /\ job.cur[2] \in Slots
           /\ job.cur = <<job.cur[1], job.cur[2]>>
           /\ job.kind \in {"due", "test"} /\ job.minute \in Minutes
           /\ job.found \in BOOLEAN /\ copy[job.cur[1]] \in Rows
           /\ job.cur[2] = SlotOf(copy[job.cur[1]], job.kind, job.minute)
<1>1. /\ job.cur[1] \in Routs /\ job.kind \in {"due", "test"}
      /\ job.minute \in Minutes /\ job.found \in BOOLEAN
  BY DEF TypeOK, JobTells, Jobs
<1>2. copy[job.cur[1]] \in Rows
  BY <1>1 DEF TypeOK
<1>3. SlotOf(copy[job.cur[1]], job.kind, job.minute) \in Slots
  BY <1>1, <1>2, SlotType
<1> QED BY <1>1, <1>2, <1>3 DEF JobTells, Occs

\* What a send makes of the rows and the job.
LEMMA SendSets ==
    ASSUME TypeOK, JobTells, Send
    PROVE  /\ copy' \in [Routs -> Rows] /\ job' \in Jobs /\ msg' \in [Occs -> Msgs]
           /\ job'.stage = "check"
           /\ \A r \in Routs, s \in Slots :
                /\ copy[r].hist[s] # "none" => copy'[r].hist[s] = copy[r].hist[s]
                /\ copy'[r].hist[s] # "none" =>
                     copy[r].hist[s] # "none" \/ <<r, s>> = job.cur
                /\ copy'[r].fired /\ s = copy'[r].at =>
                     \/ copy[r].fired /\ s = copy[r].at
                     \/ <<r, s>> = job.cur
<1> DEFINE o   == job.cur
           row == copy[o[1]]
           new == Stamped(row, job.kind, o[2], job.minute, job.found)
<1>1. /\ o \in Occs /\ o[1] \in Routs /\ o[2] \in Slots /\ o = <<o[1], o[2]>>
      /\ job.kind \in {"due", "test"} /\ job.minute \in Minutes
      /\ job.found \in BOOLEAN /\ row \in Rows
      /\ o[2] = SlotOf(row, job.kind, job.minute)
  BY Sending DEF Send
<1>2. /\ copy' = [copy EXCEPT ![o[1]] = new]
      /\ job' = [job EXCEPT !.stage = "check", !.todo = @ \ {o[1]}]
      /\ \/ UNCHANGED msg
         \/ msg' = [msg EXCEPT ![o] = [rev |-> row.rev,
                      due |-> IF o[2] = Test THEN job.minute ELSE o[2]]]
  BY DEF Send
<1>3. /\ new \in Rows /\ new.at = row.at
      /\ new.fired => row.fired \/ (row.once /\ job.kind = "due")
      /\ \A s \in Slots :
           /\ s # o[2] => new.hist[s] = row.hist[s]
           /\ row.hist[s] # "none" => new.hist[s] = row.hist[s]
  BY <1>1, StampSets
<1>4. row.once /\ job.kind = "due" => o[2] = row.at
  BY <1>1 DEF SlotOf
<1>5. /\ row.rev \in 0..MaxRevisions
      /\ (IF o[2] = Test THEN job.minute ELSE o[2]) \in Minutes
  BY <1>1 DEF Rows, Slots
<1>6. msg' \in [Occs -> Msgs]
  BY <1>1, <1>2, <1>5 DEF Msgs, TypeOK
<1>7. job' \in Jobs /\ job'.stage = "check"
  BY <1>2 DEF TypeOK, Jobs
<1> HIDE DEF new
<1>8. /\ copy' \in [Routs -> Rows] /\ copy'[o[1]] = new
      /\ \A r \in Routs \ {o[1]} : copy'[r] = copy[r]
  BY <1>1, <1>2, <1>3 DEF TypeOK
<1>9. ASSUME NEW r \in Routs, NEW s \in Slots
      PROVE  /\ copy[r].hist[s] # "none" => copy'[r].hist[s] = copy[r].hist[s]
             /\ copy'[r].hist[s] # "none" =>
                  copy[r].hist[s] # "none" \/ <<r, s>> = o
             /\ copy'[r].fired /\ s = copy'[r].at =>
                  \/ copy[r].fired /\ s = copy[r].at
                  \/ <<r, s>> = o
  <2>1. CASE r # o[1]
    BY <1>8, <2>1
  <2>2. CASE r = o[1]
    BY <1>1, <1>3, <1>4, <1>8, <2>2
  <2> QED BY <2>1, <2>2
<1> QED BY <1>6, <1>7, <1>8, <1>9

\* A tick that has looked one of its routines up.
LEMMA CheckSets ==
    ASSUME TypeOK, NEW r \in Routs, Check(r)
    PROVE  LET o == <<r, SlotOf(copy[r], job.kind, job.minute)>>
           IN  /\ job' \in Jobs /\ job'.stage = "send" /\ job'.cur = o
               /\ job'.todo = job.todo /\ job'.kind = job.kind
               /\ job'.minute = job.minute /\ (job'.found => o \in processed)
<1> DEFINE o     == <<r, SlotOf(copy[r], job.kind, job.minute)>>
           found == o \in processed
<1>1. SlotOf(copy[r], job.kind, job.minute) \in Slots
  BY SlotType DEF TypeOK, Jobs
<1>2. o \in Occs /\ found \in BOOLEAN
  BY <1>1 DEF Occs
<1>3. job' = [job EXCEPT !.stage = "send", !.cur = o, !.found = found]
  BY DEF Check
<1>4. job \in Jobs
  BY DEF TypeOK
<1> HIDE DEF o, found
<1>5. /\ job' \in Jobs /\ job'.stage = "send" /\ job'.cur = o
      /\ job'.todo = job.todo /\ job'.kind = job.kind
      /\ job'.minute = job.minute /\ job'.found = found
  BY <1>2, <1>3, <1>4 DEF Jobs
<1> QED BY <1>5 DEF o, found

\* A message picked up.
LEMMA PickSets ==
    ASSUME TypeOK, NEW o \in Occs, Pick(o)
    PROVE  /\ agent' \in Agents /\ attempt' \in Attempts
           /\ agent'.occ = o /\ agent'.stage \in {"archive", "stop", "start"}
           /\ agent'.stage \in {"stop", "start"} => o \notin replied
           /\ agent'.stage = "stop" => agent'.stop # "go"
<1> DEFINE count == IF attempt.occ # o THEN 1
                    ELSE IF attempt.count > MaxAttempts
                      THEN attempt.count ELSE attempt.count + 1
           stage == IF attempt'.count > MaxAttempts \/ o \in replied
                      THEN "archive"
                    ELSE IF StopReason(o) # "go" THEN "stop" ELSE "start"
<1>1. attempt.count \in 0..(MaxAttempts + 1) /\ MaxAttempts \in Nat \ {0}
  BY RoutinesAssumption DEF TypeOK, Attempts
<1>2. count \in 0..(MaxAttempts + 1)
  BY <1>1
<1>3. attempt' = [occ |-> o, count |-> count]
  BY DEF Pick
<1>4. agent' = [occ |-> o, stage |-> stage, stop |-> StopReason(o)]
  BY DEF Pick
<1>5. /\ stage \in {"archive", "stop", "start"}
      /\ stage # "archive" => o \notin replied
      /\ stage = "stop" => StopReason(o) # "go"
  OBVIOUS
<1> HIDE DEF count, stage
<1> QED BY <1>2, <1>3, <1>4, <1>5, StopReasonType DEF Agents, Attempts

-----------------------------------------------------------------------------
(* Each action keeps the types.                                            *)
LEMMA TypeStep == IInv /\ [Next]_vars => TypeOK'
<1> SUFFICES ASSUME IInv, [Next]_vars PROVE TypeOK'
  OBVIOUS
<1>0. /\ TypeOK /\ RowsTell /\ JobTells
      /\ file \in [Routs -> Rows] /\ copy \in [Routs -> Rows]
      /\ agent \in Agents /\ attempt \in Attempts /\ job \in Jobs
      /\ faults \in 0..MaxFaults /\ crashes \in 0..MaxCrashes
      /\ MaxFaults \in Nat /\ MaxCrashes \in Nat /\ MaxMinute \in Nat
      /\ now \in Minutes
  BY RoutinesAssumption DEF IInv, TypeOK
<1> USE DEF TypeOK, queue, bot, bounds
<1>1. CASE Advance
  <2>1. now' \in Minutes
    BY <1>0, <1>1 DEF Advance, Minutes
  <2> QED BY <1>0, <1>1, <2>1 DEF Advance
<1>2. ASSUME NEW kind \in {"due", "test"}, NEW todo \in SUBSET Routs,
             Read(kind, todo)
      PROVE  TypeOK'
  <2>1. job' = [NoJob EXCEPT !.stage = "check", !.kind = kind, !.minute = now,
                             !.todo = todo]
    BY <1>2 DEF Read
  <2>2. job' \in Jobs
    BY <1>0, <2>1 DEF NoJob, Jobs
  <2> QED BY <1>0, <1>2, <2>2 DEF Read
<1>3. CASE FireDue
  BY <1>2, <1>3 DEF FireDue
<1>4. ASSUME NEW r \in Routs, RunNow(r) PROVE TypeOK'
  BY <1>2, <1>4 DEF RunNow
<1>5. ASSUME NEW r \in Routs, Check(r) PROVE TypeOK'
  <2>1. job' \in Jobs
    BY <1>0, <1>5, CheckSets
  <2> QED BY <1>0, <1>5, <2>1 DEF Check
<1>6. CASE Send
  <2>1. copy' \in [Routs -> Rows] /\ job' \in Jobs /\ msg' \in [Occs -> Msgs]
    BY <1>0, <1>6, SendSets
  <2>2. inbox' \subseteq Occs /\ raced' \subseteq Occs
    BY <1>0, <1>6, Sending DEF Send
  <2> QED BY <1>0, <1>6, <2>1, <2>2 DEF Send
<1>7. CASE Save
  BY <1>0, <1>7, NothingYet DEF Save
<1>8. CASE Tear
  <2>1. faults' \in 0..MaxFaults
    BY <1>0, <1>8 DEF Tear
  <2> QED BY <1>0, <1>8, <2>1, NothingYet DEF Tear
<1>9. ASSUME NEW r \in Routs, Edit(r) PROVE TypeOK'
  <2>1. PICK row \in Edited(file[r]) :
            row.rev <= MaxRevisions /\ file' = [file EXCEPT ![r] = row]
    BY <1>9 DEF Edit
  <2>2. row \in Rows
    BY <1>0, <2>1, EditSets
  <2> QED BY <1>0, <1>9, <2>1, <2>2 DEF Edit
<1>10. ASSUME NEW o \in Occs, Pick(o) PROVE TypeOK'
  <2>1. agent' \in Agents /\ attempt' \in Attempts
    BY <1>0, <1>10, PickSets
  <2> QED BY <1>0, <1>10, <2>1 DEF Pick
<1>11. CASE RecordStop
  <2>1. agent.occ \in Occs
    BY <1>0, <1>11, Handles DEF RecordStop
  <2>2. agent.stop \in Recorded
    <3>1. agent.stop \in Stops \cup {"go"} /\ agent.stop # "go"
      BY <1>0, <1>11 DEF Agents, RecordStop, IInv, StopIsGiven
    <3> QED BY <3>1 DEF Recorded
  <2>3. file' \in [Routs -> Rows] /\ agent' \in Agents
    BY <1>0, <1>11, <2>1, <2>2, RecordSets, Fields DEF RecordStop
  <2> QED BY <1>0, <1>11, <2>3 DEF RecordStop
<1>12. CASE RecordStart
  <2>1. agent.occ \in Occs /\ "running" \in Recorded
    BY <1>0, <1>12, Handles DEF RecordStart, Recorded
  <2>2. file' \in [Routs -> Rows] /\ agent' \in Agents
    BY <1>0, <1>12, <2>1, RecordSets, Fields DEF RecordStart
  <2> QED BY <1>0, <1>12, <2>2 DEF RecordStart
<1>13. CASE RecordEnd
  <2>1. agent.occ \in Occs /\ PossibleEnds \subseteq Recorded
    BY <1>0, <1>13, Handles, StopReasonType
       DEF RecordEnd, PossibleEnds, Recorded, Ends
  <2>2. PICK end \in PossibleEnds :
          /\ Record(agent.occ, end)
          /\ IF end = "interrupted"
               THEN agent' = NoAgent /\ attempt' = [attempt EXCEPT !.count = 1]
               ELSE Turn("reply") /\ UNCHANGED attempt
    BY <1>13 DEF RecordEnd
  <2>3. file' \in [Routs -> Rows] /\ agent' \in Agents /\ attempt' \in Attempts
    BY <1>0, <2>1, <2>2, RecordSets, Fields, NothingYet
  <2> QED BY <1>0, <1>13, <2>3 DEF RecordEnd
<1>14. CASE Reply \/ Escape
  <2>1. agent.occ \in Occs /\ (Turn("archive") \/ Turn("abandon")) /\ ReplyTerminal
    BY <1>0, <1>14, Handles DEF Reply, Escape
  <2>2. agent' \in Agents
    BY <1>0, <2>1, Fields
  <2>3. replied' \subseteq Occs /\ ended' \in [Occs -> Nat]
    BY <1>0, <2>1, Answered
  <2> QED BY <1>0, <1>14, <2>1, <2>2, <2>3 DEF Reply, Escape
<1>15. CASE Archive
  <2>1. agent' \in Agents /\ attempt' \in Attempts
    <3>1. \/ agent' = [agent EXCEPT !.stage = "late"]
          \/ agent' = NoAgent
      BY <1>15 DEF Archive
    <3>2. [agent EXCEPT !.stage = "late"] \in Agents
      BY <1>0 DEF Agents
    <3> QED BY <1>0, <1>15, <3>1, <3>2, NothingYet DEF Archive
  <2> QED BY <1>0, <1>15, <2>1 DEF Archive, ToArchive
<1>16. CASE RecordLate
  <2>1. agent.occ \in Occs /\ "unknown" \in Recorded
    BY <1>0, <1>16, Handles DEF RecordLate, Recorded
  <2>2. file' \in [Routs -> Rows]
    BY <1>0, <1>16, <2>1, RecordSets DEF RecordLate
  <2> QED BY <1>0, <1>16, <2>2, NothingYet DEF RecordLate
<1>17. ASSUME NEW o \in Occs, ZombieEnds(o) PROVE TypeOK'
  <2>1. PICK end \in Ends : Record(o, end)
    BY <1>17 DEF ZombieEnds
  <2>2. end \in Recorded
    BY DEF Recorded
  <2>3. file' \in [Routs -> Rows]
    BY <1>0, <2>1, <2>2, RecordSets
  <2> QED BY <1>0, <1>17, <2>3 DEF ZombieEnds
<1>18. ASSUME NEW o \in Occs, RemoveQueued(o) PROVE TypeOK'
  BY <1>0, <1>18 DEF RemoveQueued, ToArchive
<1>19. CASE AgentCrash
  <2>1. crashes' \in 0..MaxCrashes
    BY <1>0, <1>19 DEF AgentCrash
  <2> QED BY <1>0, <1>19, <2>1, NothingYet DEF AgentCrash
<1>20. CASE UNCHANGED vars
  BY <1>0, <1>20 DEF vars
<1> QED
  BY <1>1, <1>3, <1>4, <1>5, <1>6, <1>7, <1>8, <1>9, <1>10, <1>11, <1>12,
     <1>13, <1>14, <1>15, <1>16, <1>17, <1>18, <1>19, <1>20
     DEF Next, Scheduler, Loop

-----------------------------------------------------------------------------
(* What the rows tell.                                                     *)
Telling == RowsTell /\ JobTells /\ CopyKeeps /\ StopIsGiven

\* A record about an occurrence that was sent, made by a thread that has the
\* lock.
LEMMA RecordTells ==
    ASSUME TypeOK, Telling, Unlocked, NEW o \in Occs, o \in Sent,
           NEW state \in Recorded, Record(o, state),
           UNCHANGED <<job, copy, inbox, processed>>,
           agent'.stage # "idle" => agent'.occ = o, zombies' \subseteq zombies,
           agent'.stage # "stop"
    PROVE  Telling'
<1>1. \A r \in Routs :
        /\ file'[r].fired = file[r].fired /\ file'[r].at = file[r].at
        /\ \A s \in Slots : <<r, s>> # o => file'[r].hist[s] = file[r].hist[s]
  BY RecordSets
<1>2. Told(file)'
  BY <1>1 DEF Telling, RowsTell, Told, Sent
<1>3. Told(copy)'
  BY DEF Telling, RowsTell, Told, Sent
<1>4. CopyKeeps' /\ JobTells'
  BY DEF Unlocked, CopyKeeps, JobTells
<1> QED BY <1>2, <1>3, <1>4 DEF Telling, RowsTell, Sent, StopIsGiven

\* What changes no row and forgets nothing that was sent.
LEMMA TellsStill ==
    ASSUME TypeOK, Telling, UNCHANGED <<file, copy, job>>,
           Sent \subseteq Sent', processed \subseteq processed',
           zombies' \subseteq Sent',
           agent'.stage # "idle" => agent'.occ \in Sent', StopIsGiven'
    PROVE  Telling'
BY DEF Telling, RowsTell, Told, JobTells, CopyKeeps

LEMMA TellStep == IInv /\ [Next]_vars => Telling'
<1> SUFFICES ASSUME IInv, [Next]_vars PROVE Telling'
  OBVIOUS
<1>0. /\ TypeOK /\ Telling /\ RowsTell /\ JobTells /\ CopyKeeps /\ StopIsGiven
      /\ file \in [Routs -> Rows] /\ copy \in [Routs -> Rows]
  BY DEF IInv, Telling, TypeOK
<1> USE DEF queue, bot, bounds
<1>1. CASE Advance \/ UNCHANGED vars
  BY <1>0, <1>1, TellsStill DEF Advance, vars, Sent, RowsTell, StopIsGiven
<1>2. ASSUME NEW kind, NEW todo, Read(kind, todo) PROVE Telling'
  <2>1. job'.stage = "check" /\ copy' = file /\ UNCHANGED <<file, queue, bot>>
    BY <1>2 DEF Read, NoJob
  <2> QED
    BY <1>0, <2>1 DEF Telling, RowsTell, Told, JobTells, CopyKeeps, Sent,
                      StopIsGiven
<1>3. CASE FireDue
  BY <1>2, <1>3 DEF FireDue
<1>4. ASSUME NEW r \in Routs, RunNow(r) PROVE Telling'
  BY <1>2, <1>4 DEF RunNow
<1>5. ASSUME NEW r \in Routs, Check(r) PROVE Telling'
  <2>1. /\ job.stage = "check" /\ r \in job.todo
        /\ UNCHANGED <<file, copy, queue, bot>>
    BY <1>5 DEF Check
  <2>2. /\ job'.todo = job.todo /\ job'.kind = job.kind
        /\ job'.minute = job.minute /\ job'.stage = "send"
        /\ job'.cur = <<r, SlotOf(copy[r], job.kind, job.minute)>>
        /\ job'.found => job'.cur \in processed
    BY <1>0, <1>5, CheckSets
  <2>3. JobTells'
    BY <2>1, <2>2 DEF JobTells
  <2> QED
    BY <1>0, <2>1, <2>2, <2>3 DEF Telling, RowsTell, Told, CopyKeeps, Sent,
                                  StopIsGiven
<1>6. CASE Send
  <2>1. /\ job.stage = "send" /\ UNCHANGED <<file, processed, bot>>
        /\ inbox \subseteq inbox' /\ job.cur \in Sent'
    BY <1>0, <1>6 DEF Send, JobTells, Sent
  <2>2. /\ job'.stage = "check"
        /\ \A r \in Routs, s \in Slots :
             /\ copy[r].hist[s] # "none" => copy'[r].hist[s] = copy[r].hist[s]
             /\ copy'[r].hist[s] # "none" =>
                  copy[r].hist[s] # "none" \/ <<r, s>> = job.cur
             /\ copy'[r].fired /\ s = copy'[r].at =>
                  \/ copy[r].fired /\ s = copy[r].at
                  \/ <<r, s>> = job.cur
    BY <1>0, <1>6, SendSets
  <2>3. Sent \subseteq Sent'
    BY <2>1 DEF Sent
  <2>4. Told(copy)'
    <3> SUFFICES ASSUME NEW r \in Routs, NEW s \in Slots,
                        \/ copy'[r].hist[s] # "none"
                        \/ copy'[r].fired /\ s = copy'[r].at
                 PROVE  <<r, s>> \in Sent'
      BY DEF Told
    <3>1. \/ copy[r].hist[s] # "none"
          \/ copy[r].fired /\ s = copy[r].at
          \/ <<r, s>> = job.cur
      BY <2>2
    <3> QED BY <1>0, <2>1, <2>3, <3>1 DEF RowsTell, Told
  <2>5. Told(file)'
    BY <1>0, <2>1, <2>3 DEF RowsTell, Told
  <2>6. CopyKeeps'
    BY <1>0, <2>1, <2>2 DEF CopyKeeps
  <2> QED
    BY <1>0, <2>1, <2>2, <2>3, <2>4, <2>5, <2>6
       DEF Telling, RowsTell, JobTells, StopIsGiven
<1>7. CASE Save \/ Tear
  <2>1. /\ job' = NoJob /\ copy' = NoCopy /\ UNCHANGED <<queue, bot>>
        /\ file' \in {file, copy}
    BY <1>7 DEF Save, Tear
  <2>2. Told(NoCopy)'
    BY NothingYet DEF Told, NoCopy, NewRow
  <2>3. Told(copy)' /\ Told(file)'
    BY <1>0, <2>1, <2>2 DEF RowsTell, Told, Sent
  <2> QED
    BY <1>0, <2>1, <2>3, NothingYet
       DEF Telling, RowsTell, JobTells, CopyKeeps, Sent, StopIsGiven
<1>8. ASSUME NEW r \in Routs, Edit(r) PROVE Telling'
  <2>1. PICK row \in Edited(file[r]) :
            row.rev <= MaxRevisions /\ file' = [file EXCEPT ![r] = row]
    BY <1>8 DEF Edit
  <2>2. /\ row.hist = file[r].hist
        /\ row.fired => file[r].fired /\ row.at = file[r].at
    BY <1>0, <2>1, EditSets
  <2>3. Unlocked /\ UNCHANGED <<job, copy, queue, bot>>
    BY <1>8 DEF Edit
  <2>4. ASSUME NEW q \in Routs, NEW s \in Slots,
               \/ file'[q].hist[s] # "none"
               \/ file'[q].fired /\ s = file'[q].at
        PROVE  \/ file[q].hist[s] # "none"
               \/ file[q].fired /\ s = file[q].at
    BY <1>0, <2>1, <2>2, <2>4
  <2>5. Told(file)'
    BY <1>0, <2>3, <2>4 DEF RowsTell, Told, Sent
  <2> QED
    BY <1>0, <2>3, <2>5
       DEF Telling, RowsTell, Told, JobTells, CopyKeeps, Sent, Unlocked,
           StopIsGiven
<1>9. ASSUME NEW o \in Occs, Pick(o) PROVE Telling'
  <2>1. /\ agent'.occ = o /\ (agent'.stage = "stop" => agent'.stop # "go")
    BY <1>0, <1>9, PickSets
  <2>2. o \in inbox /\ UNCHANGED <<file, copy, job, queue, zombies>>
    BY <1>9 DEF Pick
  <2> QED
    BY <1>0, <2>1, <2>2, TellsStill DEF Sent, RowsTell, StopIsGiven
<1>10. CASE RecordStop \/ RecordStart \/ RecordEnd \/ RecordLate
  <2>1. /\ Unlocked /\ agent.stage # "idle"
        /\ UNCHANGED <<job, copy, queue, zombies>>
    BY <1>10 DEF RecordStop, RecordStart, RecordEnd, RecordLate
  <2>2. agent.occ \in Occs /\ agent.occ \in Sent
    BY <1>0, <2>1, Handles
  <2>3. agent' = NoAgent \/ Turn("run") \/ Turn("reply")
    BY <1>10 DEF RecordStop, RecordStart, RecordEnd, RecordLate
  <2>4. /\ agent'.stage # "idle" => agent'.occ = agent.occ
        /\ agent'.stage # "stop"
    BY <1>0, <2>3, Fields, NothingYet DEF NoAgent
  <2>5. PICK state \in Recorded : Record(agent.occ, state)
    <3>1. CASE RecordStop
      <4>1. agent.stop \in Stops
        BY <1>0, <3>1 DEF RecordStop, StopIsGiven, TypeOK, Agents
      <4> QED BY <3>1, <4>1 DEF RecordStop, Recorded
    <3>2. CASE RecordStart
      BY <3>2 DEF RecordStart, Recorded
    <3>3. CASE RecordEnd
      <4>1. PossibleEnds \subseteq Recorded
        BY StopReasonType DEF PossibleEnds, Recorded
      <4> QED BY <3>3, <4>1 DEF RecordEnd
    <3>4. CASE RecordLate
      BY <3>4 DEF RecordLate, Recorded
    <3> QED BY <1>10, <3>1, <3>2, <3>3, <3>4
  <2> QED BY <1>0, <2>1, <2>2, <2>4, <2>5, RecordTells
<1>11. CASE Reply \/ Escape
  <2>1. /\ agent.stage # "idle" /\ UNCHANGED <<file, copy, job, queue>>
        /\ zombies' \subseteq zombies \cup {agent.occ}
        /\ Turn("archive") \/ Turn("abandon")
    BY <1>11 DEF Reply, Escape
  <2>2. agent.occ \in Sent
    BY <1>0, <2>1, Handles
  <2>3. agent'.occ = agent.occ /\ agent'.stage # "stop"
    BY <1>0, <2>1, Fields
  <2> QED
    BY <1>0, <2>1, <2>2, <2>3, TellsStill DEF Sent, RowsTell, StopIsGiven
<1>12. CASE Archive
  <2>1. /\ agent.stage # "idle" /\ UNCHANGED <<file, copy, job, zombies>>
        /\ ToArchive(agent.occ)
        /\ agent' = NoAgent \/ agent' = [agent EXCEPT !.stage = "late"]
    BY <1>12 DEF Archive
  <2>2. Sent \subseteq Sent' /\ processed \subseteq processed'
    BY <2>1 DEF ToArchive, Sent
  <2>3. /\ agent'.stage # "idle" => agent'.occ = agent.occ
        /\ agent'.stage # "stop"
    BY <1>0, <2>1 DEF NoAgent, TypeOK, Agents
  <2>4. agent.occ \in Sent
    BY <1>0, <2>1, Handles
  <2> QED
    BY <1>0, <2>1, <2>2, <2>3, <2>4, TellsStill DEF RowsTell, StopIsGiven
<1>13. ASSUME NEW o \in Occs, ZombieEnds(o) PROVE Telling'
  <2>1. PICK end \in Ends : Record(o, end)
    BY <1>13 DEF ZombieEnds
  <2>2. /\ Unlocked /\ o \in zombies /\ zombies' \subseteq zombies
        /\ UNCHANGED <<job, copy, queue, agent>>
    BY <1>13 DEF ZombieEnds
  <2>3. o \in Sent /\ end \in Recorded
    BY <1>0, <2>2 DEF RowsTell, Recorded
  <2>4. \A r \in Routs :
          /\ file'[r].fired = file[r].fired /\ file'[r].at = file[r].at
          /\ \A s \in Slots : <<r, s>> # o => file'[r].hist[s] = file[r].hist[s]
    BY <1>0, <2>1, <2>3, RecordSets
  <2>5. Told(file)'
    BY <1>0, <2>2, <2>3, <2>4 DEF RowsTell, Told, Sent
  <2> QED
    BY <1>0, <2>2, <2>5
       DEF Telling, RowsTell, Told, JobTells, CopyKeeps, Sent, Unlocked,
           StopIsGiven
<1>14. ASSUME NEW o \in Occs, RemoveQueued(o) PROVE Telling'
  <2>1. /\ ToArchive(o) /\ UNCHANGED <<file, copy, job, zombies, agent>>
    BY <1>14 DEF RemoveQueued
  <2>2. Sent \subseteq Sent' /\ processed \subseteq processed'
    BY <2>1 DEF ToArchive, Sent
  <2> QED BY <1>0, <2>1, <2>2, TellsStill DEF RowsTell, StopIsGiven
<1>15. CASE AgentCrash
  <2>1. /\ agent' = NoAgent /\ zombies' = {}
        /\ UNCHANGED <<file, copy, job, queue>>
    BY <1>15 DEF AgentCrash
  <2> QED BY <1>0, <2>1, NothingYet, TellsStill DEF Sent, StopIsGiven
<1> QED
  BY <1>1, <1>3, <1>4, <1>5, <1>6, <1>7, <1>8, <1>9, <1>10, <1>11, <1>12,
     <1>13, <1>14, <1>15 DEF Next, Scheduler, Loop

-----------------------------------------------------------------------------
(* How an occurrence ends.                                                 *)
Working(o) == agent.occ = o /\ agent.stage \in {"stop", "start", "run", "reply"}

\* What leaves the queue and the answers alone, and begins no work.
LEMMA EndsStill ==
    ASSUME EndsOnce, UNCHANGED <<inbox, processed, ended, raced>>,
           replied \subseteq replied',
           \A o \in Occs : Working(o)' => Working(o)
    PROVE  EndsOnce'
BY DEF EndsOnce, Sent, Working

\* An occurrence leaves the queue for the archive.
LEMMA EndsArchived ==
    ASSUME TypeOK, EndsOnce, NEW o \in Occs, ToArchive(o),
           UNCHANGED <<ended, raced>>, replied \ {o} \subseteq replied',
           \A p \in Occs : Working(p)' => Working(p) /\ p # o
    PROVE  EndsOnce'
<1> SUFFICES ASSUME NEW p \in Occs \ raced
             PROVE  /\ ~(p \in inbox' /\ p \in processed')
                    /\ ended[p] <= 1
                    /\ ended[p] = 1 => p \in Sent'
                    /\ ended[p] = 1 /\ p \in inbox' => p \in replied'
                    /\ Working(p)' => ended[p] = 0 /\ p \in inbox'
  BY DEF EndsOnce, Working
<1>1. /\ inbox' = inbox \ {o}
      /\ processed' = IF o \in inbox THEN processed \cup {o} ELSE processed
  BY DEF ToArchive
<1>2. /\ ~(p \in inbox /\ p \in processed) /\ ended[p] <= 1
      /\ ended[p] = 1 => p \in Sent
      /\ ended[p] = 1 /\ p \in inbox => p \in replied
      /\ Working(p) => ended[p] = 0 /\ p \in inbox
  BY DEF EndsOnce, Working
<1>3. CASE p = o
  BY <1>1, <1>2, <1>3 DEF Sent
<1>4. CASE p # o
  <2>1. (p \in inbox' <=> p \in inbox) /\ (p \in processed' <=> p \in processed)
    BY <1>1, <1>4
  <2> QED BY <1>2, <1>4, <2>1 DEF Sent
<1> QED BY <1>3, <1>4

LEMMA EndsStep == IInv /\ [Next]_vars => EndsOnce'
<1> SUFFICES ASSUME IInv, [Next]_vars PROVE EndsOnce'
  OBVIOUS
<1>0. /\ TypeOK /\ RowsTell /\ JobTells /\ EndsOnce
      /\ agent \in Agents /\ ended \in [Occs -> Nat]
  BY DEF IInv, TypeOK
<1> USE DEF queue, bot, bounds
<1>1. CASE \/ Advance \/ FireDue \/ Save \/ Tear \/ UNCHANGED vars
           \/ \E r \in Routs : RunNow(r) \/ Edit(r) \/ Check(r)
  <2>1. UNCHANGED <<queue, bot, raced>>
    BY <1>1 DEF Advance, FireDue, Save, Tear, vars, RunNow, Edit, Check, Read
  <2> QED BY <1>0, <2>1, EndsStill DEF Working
<1>2. CASE Send
  <2>1. /\ job.stage = "send" /\ UNCHANGED <<processed, bot>>
        /\ \/ UNCHANGED <<inbox, raced>>
           \/ /\ inbox' = inbox \cup {job.cur}
              /\ raced' = raced \cup ({job.cur} \cap processed)
    BY <1>2 DEF Send
  <2>2. CASE UNCHANGED <<inbox, raced>>
    BY <1>0, <2>1, <2>2, EndsStill DEF Working
  <2>3. CASE /\ inbox' = inbox \cup {job.cur}
             /\ raced' = raced \cup ({job.cur} \cap processed)
    <3> SUFFICES ASSUME NEW o \in Occs \ raced'
                 PROVE  /\ ~(o \in inbox' /\ o \in processed)
                        /\ ended[o] <= 1
                        /\ ended[o] = 1 => o \in Sent'
                        /\ ended[o] = 1 /\ o \in inbox' => o \in replied
                        /\ Working(o) => ended[o] = 0 /\ o \in inbox'
      BY <2>1 DEF EndsOnce, Working
    <3>1. o \in Occs \ raced
      BY <2>3
    <3>2. /\ ~(o \in inbox /\ o \in processed) /\ ended[o] <= 1
          /\ ended[o] = 1 => o \in Sent
          /\ ended[o] = 1 /\ o \in inbox => o \in replied
          /\ Working(o) => ended[o] = 0 /\ o \in inbox
      BY <1>0, <3>1 DEF EndsOnce, Working
    <3>3. o = job.cur => o \notin processed
      BY <2>3
    <3> QED BY <2>1, <2>3, <3>2, <3>3 DEF Sent
  <2> QED BY <2>1, <2>2, <2>3
<1>3. ASSUME NEW o \in Occs, Pick(o) PROVE EndsOnce'
  <2>1. /\ agent'.occ = o /\ agent'.stage \in {"archive", "stop", "start"}
        /\ agent'.stage \in {"stop", "start"} => o \notin replied
    BY <1>0, <1>3, PickSets
  <2>2. o \in inbox /\ UNCHANGED <<queue, replied, ended, raced>>
    BY <1>3 DEF Pick
  <2> SUFFICES ASSUME NEW p \in Occs \ raced, Working(p)'
               PROVE  ended[p] = 0 /\ p \in inbox
    BY <1>0, <2>2 DEF EndsOnce, Working, Sent
  <2>3. p = o /\ o \notin replied
    BY <2>1 DEF Working
  <2>4. ended[p] <= 1 /\ ended[p] # 1 /\ ended[p] \in Nat
    BY <1>0, <2>2, <2>3 DEF EndsOnce
  <2> QED BY <2>2, <2>3, <2>4
<1>4. CASE RecordStop \/ RecordStart \/ RecordEnd \/ RecordLate
  <2>1. /\ UNCHANGED <<queue, replied, ended, raced>>
        /\ agent.stage \in {"stop", "start", "run", "late"}
        /\ \/ agent' = NoAgent
           \/ agent.stage # "late" /\ (Turn("run") \/ Turn("reply"))
    BY <1>4 DEF RecordStop, RecordStart, RecordEnd, RecordLate
  <2>2. \/ agent'.stage = "idle"
        \/ agent'.occ = agent.occ /\ agent.stage # "late"
    BY <1>0, <2>1, Fields, NothingYet
  <2> QED BY <1>0, <2>1, <2>2, EndsStill DEF Working
<1>5. CASE Reply \/ Escape
  <2>1. /\ UNCHANGED <<queue, raced>> /\ agent.stage \in {"reply", "run"}
        /\ ReplyTerminal /\ (Turn("archive") \/ Turn("abandon"))
    BY <1>5 DEF Reply, Escape
  <2>2. agent.occ \in Occs
    BY <1>0, <2>1, Handles
  <2>3. /\ replied' = replied \cup {agent.occ}
        /\ ended'[agent.occ] = ended[agent.occ] + 1
        /\ \A o \in Occs \ {agent.occ} : ended'[o] = ended[o]
    BY <1>0, <2>1, <2>2, Answered
  <2>4. agent'.stage \in {"archive", "abandon"}
    BY <1>0, <2>1, Fields
  <2> SUFFICES ASSUME NEW o \in Occs \ raced
               PROVE  /\ ~(o \in inbox /\ o \in processed)
                      /\ ended'[o] <= 1
                      /\ ended'[o] = 1 => o \in Sent
                      /\ ended'[o] = 1 /\ o \in inbox => o \in replied'
    BY <2>1, <2>4 DEF EndsOnce, Sent
  <2>5. /\ ~(o \in inbox /\ o \in processed) /\ ended[o] <= 1
        /\ ended[o] = 1 => o \in Sent
        /\ ended[o] = 1 /\ o \in inbox => o \in replied
        /\ agent.occ = o => ended[o] = 0 /\ o \in inbox
    BY <1>0, <2>1 DEF EndsOnce
  <2>6. CASE o = agent.occ
    BY <2>3, <2>5, <2>6 DEF Sent
  <2>7. CASE o # agent.occ
    BY <2>3, <2>5, <2>7
  <2> QED BY <2>6, <2>7
<1>6. CASE Archive
  <2>1. /\ agent.stage \in {"archive", "abandon"} /\ ToArchive(agent.occ)
        /\ replied' = replied \ {agent.occ} /\ UNCHANGED <<ended, raced>>
        /\ agent' = NoAgent \/ agent' = [agent EXCEPT !.stage = "late"]
    BY <1>6 DEF Archive
  <2>2. agent.occ \in Occs
    BY <1>0, <2>1, Handles
  <2>3. agent'.stage \in {"idle", "late"}
    BY <1>0, <2>1, NothingYet DEF Agents
  <2> QED BY <1>0, <2>1, <2>2, <2>3, EndsArchived DEF Working
<1>7. ASSUME NEW o \in Occs, ZombieEnds(o) PROVE EndsOnce'
  <2>1. UNCHANGED <<queue, agent, replied, ended, raced>>
    BY <1>7 DEF ZombieEnds
  <2> QED BY <1>0, <2>1, EndsStill DEF Working
<1>8. ASSUME NEW o \in Occs, RemoveQueued(o) PROVE EndsOnce'
  <2>1. ToArchive(o) /\ agent.occ # o /\ UNCHANGED <<bot, raced>>
    BY <1>8 DEF RemoveQueued
  <2> QED BY <1>0, <2>1, EndsArchived DEF Working
<1>9. CASE AgentCrash
  <2>1. agent' = NoAgent /\ UNCHANGED <<queue, replied, ended, raced>>
    BY <1>9 DEF AgentCrash
  <2> QED BY <1>0, <2>1, NothingYet, EndsStill DEF Working
<1> QED
  BY <1>1, <1>2, <1>3, <1>4, <1>5, <1>6, <1>7, <1>8, <1>9
     DEF Next, Scheduler, Loop

-----------------------------------------------------------------------------
(* The theorems.                                                           *)
LEMMA InitInv == Init => IInv
<1> SUFFICES ASSUME Init PROVE IInv
  OBVIOUS
<1>1. /\ 0 \in Minutes /\ 0 \in 0..MaxFaults /\ 0 \in 0..MaxCrashes
  BY RoutinesAssumption DEF Minutes
<1>2. /\ file \in [Routs -> Rows]
      /\ \A r \in Routs : /\ ~file[r].fired
                          /\ \A s \in Slots : file[r].hist[s] = "none"
  <2> DEFINE New == {NewRow(TRUE, m) : m \in Minutes} \cup {NewRow(FALSE, 0)}
  <2>1. \A row \in New : /\ row \in Rows /\ ~row.fired
                         /\ \A s \in Slots : row.hist[s] = "none"
    BY <1>1, FreshRow
  <2>2. file \in [Routs -> New]
    BY DEF Init
  <2> HIDE DEF New
  <2> QED BY <2>1, <2>2
<1>3. TypeOK
  BY <1>1, <1>2, NothingYet DEF Init, TypeOK
<1>4. RowsTell
  BY <1>2, NothingYet DEF Init, RowsTell, Told
<1>5. JobTells /\ CopyKeeps /\ StopIsGiven
  BY NothingYet DEF Init, JobTells, CopyKeeps, StopIsGiven
<1>6. EndsOnce
  BY NothingYet DEF Init, EndsOnce
<1> QED BY <1>3, <1>4, <1>5, <1>6 DEF IInv

LEMMA StepInv == IInv /\ [Next]_vars => IInv'
BY TypeStep, TellStep, EndsStep DEF IInv, Telling

LEMMA Inductive == Spec => []IInv
BY InitInv, StepInv, PTL DEF Spec

(* Every reachable state has the types of the model.                       *)
THEOREM TypeCorrect == Spec => []TypeOK
<1>1. IInv => TypeOK
  BY DEF IInv
<1> QED BY <1>1, Inductive, PTL

(* An occurrence ends once, whatever ticks fail, edits are made and runs    *)
(* hang or crash: only one sent again after it was archived, in the window  *)
(* between the look at the archive and the send, may end a second time.     *)
THEOREM EndsOnceUnlessRaced == Spec => []OnceUnlessRaced
<1>1. IInv => OnceUnlessRaced
  <2> SUFFICES ASSUME IInv, NEW o \in Occs, o \notin raced
               PROVE  ~(ended[o] > 1)
    BY DEF OnceUnlessRaced
  <2>1. ended[o] <= 1 /\ ended[o] \in Nat
    BY DEF IInv, EndsOnce, TypeOK
  <2> QED BY <2>1
<1> QED BY <1>1, Inductive, PTL

(* The file tells of no occurrence that was not enqueued: a tick saves its  *)
(* rows after its sends, and nobody records a run of anything else.         *)
THEOREM RecordsAreSent == Spec => []RecordedIsSent
<1>1. IInv => RecordedIsSent
  BY DEF IInv, RowsTell, Told, RecordedIsSent, Sent
<1> QED BY <1>1, Inductive, PTL

(* A scheduler thread that saves the rows it read undoes no record that the *)
(* bot made in the meantime: the lock keeps the two apart.                  *)
THEOREM SavesKeepRecords == Spec => SaveKeepsRecords
<1> DEFINE Kept == Save => \A r \in Routs, s \in Slots :
                     file[r].hist[s] # "none" =>
                       file'[r].hist[s] = file[r].hist[s]
<1>1. IInv /\ [Next]_vars => [Kept]_vars
  <2> SUFFICES ASSUME IInv, Save PROVE Kept
    OBVIOUS
  <2>1. job.stage # "none" /\ file' = copy
    BY DEF Save
  <2> QED BY <2>1 DEF IInv, CopyKeeps
<1> QED BY <1>1, Inductive, PTL DEF Spec, SaveKeepsRecords
=============================================================================
