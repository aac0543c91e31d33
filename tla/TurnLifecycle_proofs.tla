----------------------- MODULE TurnLifecycle_proofs -----------------------
(***************************************************************************)
(* Proofs about TurnLifecycle, for any messages and any bounds, however    *)
(* the process stops between two writes: type correctness; no message is   *)
(* answered twice; no message is started more often than its budget        *)
(* allows; an open chat is carried by something that brings it back.       *)
(***************************************************************************)
EXTENDS TurnLifecycle, TLAPS

Paths == {"none", "turn", "answer", "escape", "defer", "giveup", "drop",
          "recovered", "reject", "redrive", "requeue", "tombstone"}

USE DEF files, boot, loop, runs, prompts, log, bounds

-----------------------------------------------------------------------------
(* The ways out of a turn.                                                 *)

(* The ways out are the paths, and all but none have a first write.        *)
LEMMA RouteShape ==
    /\ DOMAIN Route = Paths
    /\ \A p \in Paths : Len(Route[p]) \in Nat
    /\ \A p \in Paths \ {"none"} : Len(Route[p]) >= 1
    /\ Len(Route["none"]) = 0
BY DEF Route, Paths, AnswerRoute, EscapeRoute, DeferRoute, GiveUpRoute,
       DropRoute, RecoveredRoute, RejectRoute

\* Which write stands where: the order the proofs below rest on.
Table ==
    /\ At("admit")   <=> path = "turn" /\ step = 1
    /\ At("run")     <=> path = "turn" /\ step = 2
    /\ At("begin")   <=> path \in {"answer", "escape"} /\ step = 1
    /\ At("inflight") <=> path \in {"answer", "escape"} /\ step = 2
    /\ At("reply")   <=> path \in {"answer", "escape"} /\ step = 3
    /\ At("receipt") <=> path \in {"answer", "escape"} /\ step = 4
    /\ At("archive") <=> \/ path \in {"answer", "escape"} /\ step = 5
                         \/ path = "giveup" /\ step = 2
                         \/ /\ path \in {"drop", "recovered", "reject"}
                            /\ step = 1
    /\ At("release") <=> \/ path \in {"answer", "escape"} /\ step = 7
                         \/ path = "giveup" /\ step = 4
                         \/ path = "drop" /\ step = 3
                         \/ path = "recovered" /\ step = 6
    /\ At("prune")   <=> \/ path \in {"answer", "escape"} /\ step = 8
                         \/ path = "giveup" /\ step = 5
                         \/ path = "drop" /\ step = 5
                         \/ path = "recovered" /\ step = 7
    /\ At("unclaim") <=> path = "defer" /\ step = 3
    /\ At("notice")  <=> \/ path \in {"defer", "giveup"} /\ step = 1
                         \/ path = "drop" /\ step = 4
                         \/ path = "recovered" /\ step = 3
                         \/ path = "reject" /\ step = 2
    /\ At("unattempt") <=> \/ path \in {"answer", "escape"} /\ step = 6
                           \/ path = "giveup" /\ step = 3
                           \/ path \in {"drop", "recovered"} /\ step = 2
    /\ At("reattempt") <=> path = "defer" /\ step = 2
    /\ At("prompt")    <=> path = "redrive" /\ step = 1
    /\ At("requeue")   <=> path = "requeue" /\ step = 1
    /\ At("tombstone") <=> path = "tombstone" /\ step = 1
    /\ At("bury")      <=> path = "tombstone" /\ step = 2
    /\ At("settle") <=> \/ path = "answer" /\ step = 9
                        \/ path \in {"defer", "recovered"} /\ step = 4
                        \/ path \in {"giveup", "drop"} /\ step = 6
                        \/ path = "reject" /\ step = 3
    /\ At("write")  <=> \/ path = "answer" /\ step = 10
                        \/ path \in {"defer", "recovered"} /\ step = 5
                        \/ path \in {"giveup", "drop"} /\ step = 7
                        \/ path = "reject" /\ step = 4

(* Which write a place on a way out stands for.                            *)
LEMMA RouteTable ==
    ASSUME LoopOK
    PROVE  Table
<1>1. path \in Paths
  BY RouteShape DEF LoopOK
<1>2. step \in 0..Len(Route[path])
  BY DEF LoopOK
<1>3. CASE path = "none"
  <2>1. Route[path] = << >>
    BY <1>3 DEF Route
  <2> QED BY <1>2, <1>3, <2>1 DEF Table, At
<1>4. CASE path = "turn"
  <2>1. Route[path] = << "admit", "run" >>
    BY <1>4 DEF Route
  <2> QED BY <1>2, <1>4, <2>1 DEF Table, At
<1>5. CASE path = "answer"
  <2>1. Route[path] = AnswerRoute
    BY <1>5 DEF Route
  <2> QED BY <1>2, <1>5, <2>1 DEF Table, At, AnswerRoute
<1>6. CASE path = "escape"
  <2>1. Route[path] = EscapeRoute
    BY <1>6 DEF Route
  <2> QED BY <1>2, <1>6, <2>1 DEF Table, At, EscapeRoute
<1>7. CASE path = "defer"
  <2>1. Route[path] = DeferRoute
    BY <1>7 DEF Route
  <2> QED BY <1>2, <1>7, <2>1 DEF Table, At, DeferRoute
<1>8. CASE path = "giveup"
  <2>1. Route[path] = GiveUpRoute
    BY <1>8 DEF Route
  <2> QED BY <1>2, <1>8, <2>1 DEF Table, At, GiveUpRoute
<1>9. CASE path = "drop"
  <2>1. Route[path] = DropRoute
    BY <1>9 DEF Route
  <2> QED BY <1>2, <1>9, <2>1 DEF Table, At, DropRoute
<1>10. CASE path = "recovered"
  <2>1. Route[path] = RecoveredRoute
    BY <1>10 DEF Route
  <2> QED BY <1>2, <1>10, <2>1 DEF Table, At, RecoveredRoute
<1>11. CASE path = "reject"
  <2>1. Route[path] = RejectRoute
    BY <1>11 DEF Route
  <2> QED BY <1>2, <1>11, <2>1 DEF Table, At, RejectRoute
<1>12. CASE path = "redrive"
  <2>1. Route[path] = << "prompt" >>
    BY <1>12 DEF Route
  <2> QED BY <1>2, <1>12, <2>1 DEF Table, At
<1>13. CASE path = "requeue"
  <2>1. Route[path] = << "requeue" >>
    BY <1>13 DEF Route
  <2> QED BY <1>2, <1>13, <2>1 DEF Table, At
<1>14. CASE path = "tombstone"
  <2>1. Route[path] = << "tombstone", "bury" >>
    BY <1>14 DEF Route
  <2> QED BY <1>2, <1>14, <2>1 DEF Table, At
<1> QED
  BY <1>1, <1>3, <1>4, <1>5, <1>6, <1>7, <1>8, <1>9, <1>10, <1>11, <1>12,
     <1>13, <1>14 DEF Paths

-----------------------------------------------------------------------------
(* Type correctness.                                                       *)

\* The three ways the process moves along its way out keep it on one.
LEMMA EnterOK ==
    ASSUME NEW p \in Paths \ {"none"}, NEW m \in Ids, Enter(p, m)
    PROVE  LoopOK'
<1>1. Len(Route[p]) \in Nat /\ Len(Route[p]) >= 1
  BY RouteShape
<1> QED BY <1>1, RouteShape DEF Enter, LoopOK

(* Leaving the way out leaves nothing of it behind.                        *)
LEMMA LeaveOK ==
    ASSUME Leave
    PROVE  LoopOK'
BY RouteShape DEF Leave, LoopOK, Paths

(* A step along a way out stays on it.                                     *)
LEMMA ForwardOK ==
    ASSUME LoopOK, step > 0, NEW n \in Nat, Forward(n)
    PROVE  LoopOK'
<1>1. Len(Route[path]) \in Nat
  BY RouteShape DEF LoopOK
<1>2. CASE step + n > Len(Route[path])
  BY <1>2, LeaveOK DEF Forward
<1>3. CASE ~(step + n > Len(Route[path]))
  <2>1. step + n \in 0..Len(Route[path]) /\ step + n > 0
    BY <1>1, <1>3 DEF LoopOK
  <2> QED BY <1>3, <2>1 DEF Forward, LoopOK
<1> QED BY <1>2, <1>3

(* The empty records are records.                                          *)
LEMMA SourceShape == NoClaim \in Claims /\ NoDebt \in Debts
BY LifecycleAssumption DEF NoClaim, NoDebt, Claims, Debts, ClaimStates

(* The types hold initially.                                               *)
LEMMA InitOK ==
    ASSUME Init
    PROVE  TypeOK
<1>1. LoopOK
  BY RouteShape DEF Init, LoopOK, Paths
<1>2. FilesOK /\ ProcessOK /\ LogOK
  BY SourceShape DEF Init, FilesOK, ProcessOK, LogOK, RowStates
<1> QED BY <1>1, <1>2 DEF TypeOK

(* A claim replaced by a claim.                                            *)
LEMMA ClaimPut ==
    ASSUME claim \in [Ids -> Claims], NEW m \in Ids, NEW c \in Claims,
           claim' = [claim EXCEPT ![m] = c]
    PROVE  claim' \in [Ids -> Claims]
OBVIOUS

(* The fields of a claim.                                                  *)
LEMMA ClaimShape ==
    ASSUME FilesOK, NEW m \in Ids
    PROVE  /\ claim[m] \in Claims
           /\ claim[m].state \in ClaimStates
           /\ claim[m].budget \in 0..Budget
           /\ claim[m].inputs \subseteq Ids
BY DEF FilesOK, Claims

(* Closing chats keeps the outcomes what they may be.                      *)
LEMMA ClosedOK ==
    ASSUME LogOK, NEW how \in {"told", "dropped"}
    PROVE  Close(how) \in [Chats -> {"open", "told", "dropped", "lost"}]
BY DEF LogOK, Close

(* A redrive, at boot or when idle, keeps the types.                       *)
LEMMA RedriveOK ==
    ASSUME TypeOK, Redrive
    PROVE  /\ LoopOK'
           /\ owed' \in Debts
           /\ about' \in [Prompts -> SUBSET Chats]
           /\ source' \in [Prompts -> Chats \cup {NoMsg}]
           /\ arrived' \subseteq Ids
           /\ outcome' \in [Chats -> {"open", "told", "dropped", "lost"}]
<1>1. owed \in Debts /\ owed.ids \subseteq Chats
      /\ owed.redrives \in 0..MaxRedrives
  BY DEF TypeOK, FilesOK, Debts
<1>2. CASE owed.redrives >= MaxRedrives
  <2>1. DropObligation
    BY <1>2 DEF Redrive
  <2>2. LoopOK'
    BY <2>1 DEF DropObligation, TypeOK, LoopOK
  <2>3. outcome' \in [Chats -> {"open", "told", "dropped", "lost"}]
    BY <2>1 DEF DropObligation, TypeOK, LogOK
  <2> QED
    BY <2>1, <2>2, <2>3, SourceShape
    DEF DropObligation, TypeOK, ProcessOK, LogOK
<1>3. CASE ~(owed.redrives >= MaxRedrives)
  <2>1. CountRedrive
    BY <1>3 DEF Redrive
  <2>2. PICK p \in Prompts \ arrived, c \in owed.ids :
          /\ about' = [about EXCEPT ![p] = owed.ids]
          /\ source' = [source EXCEPT ![p] = c]
          /\ arrived' = arrived \cup {p}
          /\ Enter("redrive", p)
    BY <2>1 DEF CountRedrive
  <2>3. LoopOK'
    BY <2>2, EnterOK DEF Paths, Ids
  <2>4. owed.redrives + 1 \in 0..MaxRedrives
    BY <1>1, <1>3, LifecycleAssumption
  <2>5. owed' = [owed EXCEPT !.redrives = owed.redrives + 1]
    BY <2>1 DEF CountRedrive
  <2>6. owed' \in Debts
    BY <1>1, <2>4, <2>5 DEF Debts
  <2>7. about' \in [Prompts -> SUBSET Chats]
        /\ source' \in [Prompts -> Chats \cup {NoMsg}]
        /\ arrived' \subseteq Ids
    BY <1>1, <2>2 DEF TypeOK, ProcessOK, LogOK, Ids
  <2>8. outcome' = outcome
    BY <2>1 DEF CountRedrive
  <2> QED BY <2>3, <2>6, <2>7, <2>8 DEF TypeOK, LogOK
<1> QED BY <1>2, <1>3

(* Claims stamped by a shutdown are claims.                                *)
LEMMA StampedOK ==
    ASSUME TypeOK
    PROVE  Stamped \in [Ids -> Claims]
<1>1. ASSUME NEW m \in Ids
      PROVE  [claim[m] EXCEPT !.state = "interrupted"] \in Claims
             /\ claim[m] \in Claims
  BY ClaimShape DEF TypeOK, Claims, ClaimStates
<1> QED BY <1>1 DEF Stamped

(* Whatever ends the process, its death keeps the types.                   *)
LEMMA DieOK ==
    ASSUME TypeOK, Die, claim' \in [Ids -> Claims]
    PROVE  TypeOK'
<1>1. LoopOK'
  BY LeaveOK DEF Die
<1>2. FilesOK'
  BY DEF TypeOK, FilesOK, Die
<1>3. ProcessOK'
  BY SourceShape DEF TypeOK, ProcessOK, Die
<1>4. LogOK'
  <2>1. exposed' \subseteq Chats
    <3>1. Popped \subseteq Chats
      BY DEF TypeOK, ProcessOK, Popped
    <3>2. Audience(cur) \subseteq Chats
      BY DEF Audience
    <3>3. Unannounced \subseteq Chats
      BY <3>2 DEF Unannounced
    <3>5. exposed' = exposed \cup Popped \cup Unannounced
      BY DEF Die
    <3>4. exposed \subseteq Chats
      BY DEF TypeOK, LogOK
    <3> QED BY <3>1, <3>3, <3>5, <3>4
  <2> QED BY <2>1 DEF TypeOK, LogOK, Die
<1> QED BY <1>1, <1>2, <1>3, <1>4 DEF TypeOK

(* SendChat keeps the types.                                               *)
LEMMA SendChatOK ==
    ASSUME TypeOK, NEW c \in Chats, SendChat(c)
    PROVE  TypeOK'
<1>1. LoopOK'
  BY DEF TypeOK, LoopOK, SendChat
<1>2. FilesOK' /\ ProcessOK' /\ LogOK'
  BY DEF TypeOK, FilesOK, ProcessOK, LogOK, Claims, Debts, SendChat, Ids
<1> QED BY <1>1, <1>2 DEF TypeOK

(* RecordSend keeps the types.                                             *)
LEMMA RecordSendOK ==
    ASSUME TypeOK, NEW c \in Chats, RecordSend(c)
    PROVE  TypeOK'
<1>1. LoopOK'
  BY DEF TypeOK, LoopOK, RecordSend
<1>2. FilesOK' /\ ProcessOK' /\ LogOK'
  BY DEF TypeOK, FilesOK, ProcessOK, LogOK, Claims, Debts, RecordSend, Debts
<1> QED BY <1>1, <1>2 DEF TypeOK

(* SendWork keeps the types.                                               *)
LEMMA SendWorkOK ==
    ASSUME TypeOK, NEW w \in Works, SendWork(w)
    PROVE  TypeOK'
<1>1. LoopOK'
  BY DEF TypeOK, LoopOK, SendWork
<1>2. FilesOK' /\ ProcessOK' /\ LogOK'
  BY DEF TypeOK, FilesOK, ProcessOK, LogOK, Claims, Debts, SendWork, Ids
<1> QED BY <1>1, <1>2 DEF TypeOK

(* Boot keeps the types.                                                   *)
LEMMA BootOK ==
    ASSUME TypeOK, Boot
    PROVE  TypeOK'
<1>0. CASE Redrive
  <2>1. FilesOK'
    BY <1>0, RedriveOK DEF Boot, TypeOK, FilesOK
  <2>2. ProcessOK'
    BY <1>0, RedriveOK DEF Boot, TypeOK, ProcessOK, Orphaned
  <2>3. LogOK'
    BY <1>0, RedriveOK DEF Boot, TypeOK, LogOK
  <2> QED BY <1>0, <2>1, <2>2, <2>3, RedriveOK DEF TypeOK
<1>1. CASE UNCHANGED <<owed, loop, prompts, arrived, outcome>>
  <2>1. FilesOK'
    BY <1>1 DEF Boot, TypeOK, FilesOK
  <2>2. ProcessOK'
    BY <1>1 DEF Boot, TypeOK, ProcessOK, Orphaned
  <2>3. LogOK' /\ LoopOK'
    BY <1>1 DEF Boot, TypeOK, LogOK, LoopOK
  <2> QED BY <2>1, <2>2, <2>3 DEF TypeOK
<1> QED BY <1>0, <1>1 DEF Boot

(* Requeue keeps the types.                                                *)
LEMMA RequeueOK ==
    ASSUME TypeOK, Requeue
    PROVE  TypeOK'
<1>0. cur \in Ids
  BY DEF At, TypeOK, LoopOK, Requeue
<1>1. LoopOK'
  BY DEF TypeOK, LoopOK, Requeue
<1>2. FilesOK'
  <2>1. claim[cur].inputs \subseteq Ids
    BY <1>0, ClaimShape DEF TypeOK
  <2>2. PICK m \in claim[cur].inputs \ inbox : inbox' = inbox \cup {m}
    BY DEF Requeue
  <2> QED BY <2>1, <2>2 DEF TypeOK, FilesOK, Requeue
<1>3. ProcessOK'
  BY DEF TypeOK, ProcessOK, Requeue
<1>4. LogOK'
  BY DEF TypeOK, LogOK, Requeue
<1> QED BY <1>1, <1>2, <1>3, <1>4 DEF TypeOK

(* MarkQueued keeps the types.                                             *)
LEMMA MarkQueuedOK ==
    ASSUME TypeOK, MarkQueued
    PROVE  TypeOK'
<1>0. cur \in Ids
  BY DEF At, TypeOK, LoopOK, MarkQueued
<1>1. LoopOK'
  BY ForwardOK DEF TypeOK, At, MarkQueued
<1>2. FilesOK'
  <2>1. claim[cur] \in Claims
    BY <1>0, ClaimShape DEF TypeOK
  <2>2. [claim[cur] EXCEPT !.state = "queued"] \in Claims
    BY <2>1 DEF Claims, ClaimStates
  <2>3. claim' = [claim EXCEPT ![cur] = [claim[cur] EXCEPT !.state = "queued"]]
    BY DEF MarkQueued
  <2>4. claim' \in [Ids -> Claims]
    BY <1>0, <2>2, <2>3 DEF TypeOK, FilesOK
  <2> QED BY <2>4 DEF TypeOK, FilesOK, MarkQueued
<1>3. ProcessOK'
  BY DEF TypeOK, ProcessOK, MarkQueued
<1>4. LogOK'
  BY DEF TypeOK, LogOK, MarkQueued
<1> QED BY <1>1, <1>2, <1>3, <1>4 DEF TypeOK

(* Refund keeps the types.                                                 *)
LEMMA RefundOK ==
    ASSUME TypeOK, Refund
    PROVE  TypeOK'
<1>0. cur \in Ids
  BY DEF At, TypeOK, LoopOK, Refund
<1>1. LoopOK'
  BY ForwardOK DEF TypeOK, At, Refund
<1>2. FilesOK'
  <2> DEFINE b == IF claim[cur].budget < Budget THEN claim[cur].budget + 1
                                              ELSE claim[cur].budget
  <2>1. claim[cur] \in Claims /\ claim[cur].budget \in 0..Budget
    BY <1>0, ClaimShape DEF TypeOK
  <2>2. b \in 0..Budget
    BY <2>1, LifecycleAssumption
  <2>3. claim' = [claim EXCEPT ![cur] = [claim[cur] EXCEPT !.budget = b]]
    BY DEF Refund
  <2>4. [claim[cur] EXCEPT !.budget = b] \in Claims
    BY <2>1, <2>2 DEF Claims
  <2>5. claim' \in [Ids -> Claims]
    BY <1>0, <2>3, <2>4 DEF TypeOK, FilesOK
  <2> QED BY <2>5 DEF TypeOK, FilesOK, Refund
<1>3. ProcessOK'
  BY DEF TypeOK, ProcessOK, Refund
<1>4. LogOK'
  BY DEF TypeOK, LogOK, Refund
<1> QED BY <1>1, <1>2, <1>3, <1>4 DEF TypeOK

(* Tombstone keeps the types.                                              *)
LEMMA TombstoneOK ==
    ASSUME TypeOK, Tombstone
    PROVE  TypeOK'
<1>0. cur \in Ids
  BY DEF At, TypeOK, LoopOK, Tombstone
<1>1. LoopOK'
  BY ForwardOK DEF TypeOK, At, Tombstone
<1>2. FilesOK'
  <2>1. claim[cur] \in Claims
    BY <1>0, ClaimShape DEF TypeOK
  <2>2. [claim[cur] EXCEPT !.state = "tombstone"] \in Claims
    BY <2>1 DEF Claims, ClaimStates
  <2>3. claim' = [claim EXCEPT ![cur] =
                      [claim[cur] EXCEPT !.state = "tombstone"]]
    BY DEF Tombstone
  <2>4. claim' \in [Ids -> Claims]
    BY <1>0, <2>2, <2>3 DEF TypeOK, FilesOK
  <2> QED BY <2>4 DEF TypeOK, FilesOK, Tombstone
<1>3. ProcessOK'
  BY DEF TypeOK, ProcessOK, Tombstone
<1>4. LogOK'
  <2>1. exposed' \subseteq Chats /\ lapsed' \subseteq Ids
    BY <1>0 DEF TypeOK, LogOK, Tombstone, Audience
  <2> QED BY <2>1 DEF TypeOK, LogOK, Tombstone
<1> QED BY <1>1, <1>2, <1>3, <1>4 DEF TypeOK

(* Bury keeps the types.                                                   *)
LEMMA BuryOK ==
    ASSUME TypeOK, Bury
    PROVE  TypeOK'
<1>1. LoopOK'
  <2>1. CASE Forward(1)
    BY <2>1, ForwardOK DEF TypeOK, At, Bury
  <2>2. CASE UNCHANGED loop
    BY <2>2 DEF TypeOK, LoopOK
  <2> QED BY <2>1, <2>2 DEF Bury
<1>2. FilesOK'
  BY DEF TypeOK, FilesOK, Bury
<1>3. ProcessOK'
  BY DEF TypeOK, ProcessOK, Bury
<1>4. LogOK'
  BY DEF TypeOK, LogOK, Bury
<1> QED BY <1>1, <1>2, <1>3, <1>4 DEF TypeOK

(* SweepDone keeps the types.                                              *)
LEMMA SweepDoneOK ==
    ASSUME TypeOK, SweepDone
    PROVE  TypeOK'
<1>1. LoopOK'
  BY DEF TypeOK, LoopOK, SweepDone
<1>2. FilesOK' /\ ProcessOK' /\ LogOK'
  BY DEF TypeOK, FilesOK, ProcessOK, LogOK, Claims, Debts, SweepDone
<1> QED BY <1>1, <1>2 DEF TypeOK

(* SweepClaim keeps the types.                                             *)
LEMMA SweepClaimOK ==
    ASSUME TypeOK, NEW m \in Ids, SweepClaim(m)
    PROVE  TypeOK'
<1>1. LoopOK'
  BY EnterOK DEF TypeOK, Paths, SweepClaim
<1>2. FilesOK'
  <2>1. CASE Exhausted(m)
    BY <2>1 DEF SweepClaim, TypeOK, FilesOK
  <2>2. CASE ~Exhausted(m)
    <3>1. claim[m] \in Claims /\ claim[m].budget \in 0..Budget
      BY ClaimShape DEF TypeOK
    <3>2. claim[m].budget - 1 \in 0..Budget
      BY <2>2, <3>1, LifecycleAssumption DEF Exhausted
    <3>3. claim' = [claim EXCEPT ![m] =
                      [claim[m] EXCEPT !.budget = claim[m].budget - 1]]
      BY <2>2 DEF SweepClaim
    <3>4. [claim[m] EXCEPT !.budget = claim[m].budget - 1] \in Claims
      BY <3>1, <3>2 DEF Claims
    <3>5. claim' \in [Ids -> Claims]
      BY <3>3, <3>4 DEF TypeOK, FilesOK
    <3> QED BY <3>5 DEF SweepClaim, TypeOK, FilesOK
  <2> QED BY <2>1, <2>2
<1>3. ProcessOK'
  BY DEF TypeOK, ProcessOK, SweepClaim, Exhausted
<1>4. LogOK'
  BY DEF TypeOK, LogOK, SweepClaim, Exhausted
<1> QED BY <1>1, <1>2, <1>3, <1>4 DEF TypeOK

(* LedgerWrite keeps the types.                                            *)
LEMMA LedgerWriteOK ==
    ASSUME TypeOK, LedgerWrite
    PROVE  TypeOK'
<1>1. LoopOK'
  BY ForwardOK DEF TypeOK, At, LedgerWrite
<1>2. row' \in [Ids -> RowStates]
  <2>1. PICK s \in RowStates : row' = [row EXCEPT ![cur] = s]
    <3>1. cur \in Ids
      BY DEF TypeOK, LoopOK, LedgerWrite, At
    <3>2. row[cur] \in RowStates
      BY <3>1 DEF TypeOK, FilesOK
    <3> QED BY <3>2 DEF LedgerWrite, SetRow, RowStates
  <2> QED BY <2>1 DEF TypeOK, FilesOK
<1>3. FilesOK' /\ ProcessOK' /\ LogOK'
  BY <1>2 DEF TypeOK, FilesOK, ProcessOK, LogOK, LedgerWrite
<1> QED BY <1>1, <1>3 DEF TypeOK

(* Reply keeps the types.                                                  *)
LEMMA ReplyOK ==
    ASSUME TypeOK, Reply
    PROVE  TypeOK'
<1>0. cur \in Ids
  BY DEF At, TypeOK, LoopOK, Reply
<1>1. LoopOK'
  BY ForwardOK DEF TypeOK, At, Reply
<1>2. FilesOK'
  BY DEF TypeOK, FilesOK, Reply
<1>3. ProcessOK'
  BY DEF TypeOK, ProcessOK, Reply
<1>4. LogOK'
  <2>1. outcome' \in [Chats -> {"open", "told", "dropped", "lost"}]
    BY ClosedOK DEF TypeOK, Reply
  <2> QED BY <1>0, <2>1 DEF TypeOK, LogOK, Reply
<1> QED BY <1>1, <1>2, <1>3, <1>4 DEF TypeOK

(* Notice keeps the types.                                                 *)
LEMMA NoticeOK ==
    ASSUME TypeOK, Notice
    PROVE  TypeOK'
<1>1. LoopOK'
  BY ForwardOK DEF TypeOK, At, Notice
<1>2. FilesOK' /\ ProcessOK' /\ LogOK'
  BY DEF TypeOK, FilesOK, ProcessOK, LogOK, Claims, Debts, Notice, Close
<1> QED BY <1>1, <1>2 DEF TypeOK

(* Archive keeps the types.                                                *)
LEMMA ArchiveOK ==
    ASSUME TypeOK, Archive
    PROVE  TypeOK'
<1>1. LoopOK'
  BY ForwardOK DEF TypeOK, At, Archive
<1>2. FilesOK' /\ ProcessOK' /\ LogOK'
  BY DEF TypeOK, FilesOK, ProcessOK, LogOK, Claims, Debts, Archive
<1> QED BY <1>1, <1>2 DEF TypeOK

(* SetAttempt keeps the types.                                             *)
LEMMA SetAttemptOK ==
    ASSUME TypeOK, SetAttempt
    PROVE  TypeOK'
<1>0. cur \in Ids
  BY DEF At, TypeOK, LoopOK, SetAttempt
<1>1. LoopOK'
  BY ForwardOK DEF TypeOK, At, SetAttempt
<1>2. FilesOK'
  BY <1>0 DEF TypeOK, FilesOK, SetAttempt
<1>3. ProcessOK'
  BY <1>0 DEF TypeOK, ProcessOK, SetAttempt
<1>4. LogOK'
  BY DEF TypeOK, LogOK, SetAttempt
<1> QED BY <1>1, <1>2, <1>3, <1>4 DEF TypeOK

(* Release keeps the types.                                                *)
LEMMA ReleaseOK ==
    ASSUME TypeOK, Release
    PROVE  TypeOK'
<1>1. LoopOK'
  BY ForwardOK DEF TypeOK, At, Release
<1>2. FilesOK'
  BY SourceShape DEF TypeOK, FilesOK, Release
<1>3. ProcessOK'
  BY DEF TypeOK, ProcessOK, Release
<1>4. LogOK'
  BY DEF TypeOK, LogOK, Release
<1> QED BY <1>1, <1>2, <1>3, <1>4 DEF TypeOK

(* SettleRead keeps the types.                                             *)
LEMMA SettleReadOK ==
    ASSUME TypeOK, SettleRead
    PROVE  TypeOK'
<1>1. LoopOK'
  BY ForwardOK DEF TypeOK, At, SettleRead
<1>2. FilesOK' /\ ProcessOK' /\ LogOK'
  BY SourceShape
  DEF TypeOK, FilesOK, ProcessOK, LogOK, Claims, Debts, SettleRead
<1> QED BY <1>1, <1>2 DEF TypeOK

(* SettleWrite keeps the types.                                            *)
LEMMA SettleWriteOK ==
    ASSUME TypeOK, SettleWrite
    PROVE  TypeOK'
<1>1. LoopOK'
  BY ForwardOK DEF TypeOK, At, SettleWrite
<1>2. FilesOK' /\ ProcessOK' /\ LogOK'
  BY SourceShape
  DEF TypeOK, FilesOK, ProcessOK, LogOK, Claims, Debts, SettleWrite
<1> QED BY <1>1, <1>2 DEF TypeOK

(* CheckObligations keeps the types.                                       *)
LEMMA CheckObligationsOK ==
    ASSUME TypeOK, CheckObligations
    PROVE  TypeOK'
<1>1. LoopOK'
  BY RedriveOK DEF CheckObligations
<1>2. FilesOK'
  BY RedriveOK DEF CheckObligations, TypeOK, FilesOK
<1>3. ProcessOK'
  BY RedriveOK DEF CheckObligations, TypeOK, ProcessOK
<1>4. LogOK'
  BY RedriveOK DEF CheckObligations, TypeOK, LogOK
<1> QED BY <1>1, <1>2, <1>3, <1>4 DEF TypeOK

(* SendPrompt keeps the types.                                             *)
LEMMA SendPromptOK ==
    ASSUME TypeOK, SendPrompt
    PROVE  TypeOK'
<1>0. cur \in Ids
  BY DEF At, TypeOK, LoopOK, SendPrompt
<1>1. LoopOK'
  BY ForwardOK DEF TypeOK, At, SendPrompt
<1>2. FilesOK'
  BY <1>0 DEF TypeOK, FilesOK, SendPrompt
<1>3. ProcessOK'
  BY <1>0 DEF TypeOK, ProcessOK, SendPrompt
<1>4. LogOK'
  BY DEF TypeOK, LogOK, SendPrompt
<1> QED BY <1>1, <1>2, <1>3, <1>4 DEF TypeOK

(* Admit keeps the types.                                                  *)
LEMMA AdmitOK ==
    ASSUME TypeOK, Admit
    PROVE  TypeOK'
<1>0. cur \in Ids
  BY DEF At, TypeOK, LoopOK, Admit
<1>1. LoopOK'
  BY ForwardOK DEF TypeOK, At, Admit
<1>2. FilesOK'
  <2>1. AdmittedClaim(cur) \in Claims
    <3>1. claim[cur].budget \in 0..Budget /\ Budget \in 0..Budget
      BY <1>0, ClaimShape, LifecycleAssumption DEF TypeOK
    <3> QED BY <1>0, <3>1 DEF AdmittedClaim, Claims, ClaimStates
  <2>2. claim' \in [Ids -> Claims]
    BY <1>0, <2>1 DEF TypeOK, FilesOK, Admit
  <2>3. row' \in [Ids -> RowStates]
    BY <1>0 DEF TypeOK, FilesOK, Admit, RowStates
  <2> QED BY <2>2, <2>3 DEF TypeOK, FilesOK, Admit
<1>3. ProcessOK'
  BY DEF TypeOK, ProcessOK, Admit
<1>4. LogOK'
  BY <1>0 DEF TypeOK, LogOK, Admit
<1> QED BY <1>1, <1>2, <1>3, <1>4 DEF TypeOK

(* RejectArrival keeps the types.                                          *)
LEMMA RejectArrivalOK ==
    ASSUME TypeOK, RejectArrival
    PROVE  TypeOK'
<1>1. LoopOK'
  <2>1. PICK m \in late \cap inbox : Enter("reject", m)
    BY DEF RejectArrival
  <2>2. m \in Ids
    BY DEF TypeOK, FilesOK
  <2> QED BY <2>1, <2>2, EnterOK DEF Paths
<1>2. FilesOK'
  BY DEF TypeOK, FilesOK, RejectArrival
<1>3. ProcessOK'
  BY DEF TypeOK, ProcessOK, RejectArrival
<1>4. LogOK'
  BY DEF TypeOK, LogOK, RejectArrival
<1> QED BY <1>1, <1>2, <1>3, <1>4 DEF TypeOK

(* EndDrain keeps the types.                                               *)
LEMMA EndDrainOK ==
    ASSUME TypeOK, EndDrain
    PROVE  TypeOK'
BY DieOK, StampedOK DEF EndDrain

(* Pick keeps the types.                                                   *)
LEMMA PickOK ==
    ASSUME TypeOK, NEW m \in Ids, Pick(m)
    PROVE  TypeOK'
<1>1. LoopOK'
  <2>1. Verdict(m) \in Paths \ {"none"}
    BY DEF Verdict, Paths
  <2>2. Enter(Verdict(m), m)
    BY DEF Pick
  <2> QED BY <2>1, <2>2, EnterOK
<1>2. FilesOK'
  BY DEF TypeOK, FilesOK, Pick, NoteAttempt
<1>3. ProcessOK'
  BY DEF TypeOK, ProcessOK, Pick, NoteAttempt
<1>4. LogOK'
  BY DEF TypeOK, LogOK, Pick, NoteAttempt
<1> QED BY <1>1, <1>2, <1>3, <1>4 DEF TypeOK

(* Finish keeps the types.                                                 *)
LEMMA FinishOK ==
    ASSUME TypeOK, NEW i \in BOOLEAN, Finish(i)
    PROVE  TypeOK'
<1>0. cur \in Ids
  BY DEF At, TypeOK, LoopOK, Finish
<1>1. LoopOK'
  <2>1. \E p \in {"giveup", "defer", "answer"} : Enter(p, cur)
    BY DEF Finish
  <2> QED BY <1>0, <2>1, EnterOK DEF Paths
<1>2. FilesOK'
  BY DEF TypeOK, FilesOK, Finish
<1>3. ProcessOK'
  <2>1. interrupts' \in [Ids -> Nat]
    BY <1>0 DEF TypeOK, ProcessOK, Finish, Interrupted
  <2> QED BY <2>1 DEF TypeOK, ProcessOK, Finish
<1>4. LogOK'
  BY DEF TypeOK, LogOK, Finish
<1> QED BY <1>1, <1>2, <1>3, <1>4 DEF TypeOK

(* RecordSteer keeps the types.                                            *)
LEMMA RecordSteerOK ==
    ASSUME TypeOK, NEW r \in Ids, RecordSteer(r)
    PROVE  TypeOK'
<1>1. LoopOK'
  BY DEF TypeOK, LoopOK, RecordSteer
<1>2. FilesOK'
  <2>1. claim[r] \in Claims /\ claim[r].inputs \subseteq Ids
    BY ClaimShape DEF TypeOK
  <2>2. taken[r] \subseteq Ids
    BY DEF TypeOK, ProcessOK, Ids
  <2>3. [claim[r] EXCEPT !.inputs = claim[r].inputs \cup taken[r]] \in Claims
    BY <2>1, <2>2 DEF Claims
  <2>4. claim' \in [Ids -> Claims]
    BY <2>3 DEF TypeOK, FilesOK, RecordSteer
  <2> QED BY <2>4 DEF TypeOK, FilesOK, RecordSteer
<1>3. ProcessOK'
  BY DEF TypeOK, ProcessOK, RecordSteer
<1>4. LogOK'
  BY DEF TypeOK, ProcessOK, LogOK, RecordSteer
<1> QED BY <1>1, <1>2, <1>3, <1>4 DEF TypeOK

(* LateSettle keeps the types.                                             *)
LEMMA LateSettleOK ==
    ASSUME TypeOK, NEW z \in Ids, LateSettle(z)
    PROVE  TypeOK'
<1>1. LoopOK'
  BY DEF TypeOK, LoopOK, LateSettle
<1>2. FilesOK' /\ ProcessOK' /\ LogOK'
  BY DEF TypeOK, FilesOK, ProcessOK, LogOK, Claims, Debts, LateSettle
<1> QED BY <1>1, <1>2 DEF TypeOK

(* TakeSteer keeps the types.                                              *)
LEMMA TakeSteerOK ==
    ASSUME TypeOK, NEW r \in Ids, NEW c \in Chats, TakeSteer(r, c)
    PROVE  TypeOK'
<1>1. LoopOK'
  BY DEF TypeOK, LoopOK, TakeSteer
<1>2. FilesOK' /\ ProcessOK' /\ LogOK'
  BY DEF TypeOK, FilesOK, ProcessOK, LogOK, Claims, Debts, TakeSteer
<1> QED BY <1>1, <1>2 DEF TypeOK

(* Trip keeps the types.                                                   *)
LEMMA TripOK ==
    ASSUME TypeOK, Trip
    PROVE  TypeOK'
<1>1. LoopOK'
  BY DEF TypeOK, LoopOK, Trip
<1>2. FilesOK' /\ ProcessOK' /\ LogOK'
  BY DEF TypeOK, FilesOK, ProcessOK, LogOK, Claims, Debts, Trip
<1> QED BY <1>1, <1>2 DEF TypeOK

(* Escape keeps the types.                                                 *)
LEMMA EscapeOK ==
    ASSUME TypeOK, Escape
    PROVE  TypeOK'
<1>0. cur \in Ids
  BY DEF At, TypeOK, LoopOK, Escape
<1>1. LoopOK'
  BY <1>0, EnterOK DEF Paths, Escape
<1>2. FilesOK'
  BY DEF TypeOK, FilesOK, Escape
<1>3. ProcessOK'
  BY <1>0 DEF TypeOK, ProcessOK, Escape
<1>4. LogOK'
  BY DEF TypeOK, LogOK, Escape
<1> QED BY <1>1, <1>2, <1>3, <1>4 DEF TypeOK

(* BeginDrain keeps the types.                                             *)
LEMMA BeginDrainOK ==
    ASSUME TypeOK, BeginDrain
    PROVE  TypeOK'
<1>1. LoopOK'
  BY DEF TypeOK, LoopOK, BeginDrain
<1>2. FilesOK'
  BY StampedOK DEF TypeOK, FilesOK, BeginDrain
<1>3. ProcessOK'
  BY DEF TypeOK, ProcessOK, BeginDrain, At
<1>4. LogOK'
  BY DEF TypeOK, LogOK, BeginDrain
<1> QED BY <1>1, <1>2, <1>3, <1>4 DEF TypeOK

(* Crash keeps the types.                                                  *)
LEMMA CrashOK ==
    ASSUME TypeOK, Crash
    PROVE  TypeOK'
BY DieOK DEF Crash, TypeOK, FilesOK

-----------------------------------------------------------------------------
(* Type correctness is inductive on its own.                               *)
LEMMA TypeOKStep ==
    ASSUME TypeOK, [Next]_vars
    PROVE  TypeOK'
<1>1. CASE Harness
  BY <1>1, SendChatOK, RecordSendOK, SendWorkOK DEF Harness
<1>2. CASE Recover
  BY <1>2, BootOK, RequeueOK, MarkQueuedOK, RefundOK, TombstoneOK, BuryOK,
     SweepDoneOK, SweepClaimOK DEF Recover
<1>3. CASE WayOut
  BY <1>3, LedgerWriteOK, ReplyOK, NoticeOK, ArchiveOK, SetAttemptOK,
     ReleaseOK, SettleReadOK, SettleWriteOK DEF WayOut
<1>4. CASE MainLoop
  BY <1>4, CheckObligationsOK, SendPromptOK, AdmitOK, RejectArrivalOK,
     EndDrainOK, PickOK DEF MainLoop
<1>5. CASE Worker
  BY <1>5, FinishOK, RecordSteerOK, LateSettleOK, TakeSteerOK DEF Worker
<1>6. CASE Trip \/ Escape \/ BeginDrain \/ Crash
  BY <1>6, TripOK, EscapeOK, BeginDrainOK, CrashOK
<1>7. CASE UNCHANGED vars
  BY <1>7 DEF vars, TypeOK, FilesOK, LoopOK, ProcessOK, LogOK
<1> QED BY <1>1, <1>2, <1>3, <1>4, <1>5, <1>6, <1>7 DEF Next

(* Every record, file and program variable keeps its type: in particular a *)
(* claim's budget never leaves 0..Budget, whatever sweeps charge and       *)
(* refund, an obligation is never redriven past MaxRedrives, and the       *)
(* process never walks past the last write of a way out.                   *)
THEOREM TypeCorrect == Spec => []TypeOK
<1> QED BY InitOK, TypeOKStep, PTL DEF Spec

-----------------------------------------------------------------------------
(* The inductive invariant behind AnsweredOnce.                            *)

\* Everything the process handles has arrived before.
AllArrived ==
    /\ inbox \subseteq arrived
    /\ sweep \subseteq arrived
    /\ everTaken \subseteq arrived
    /\ \A m \in Ids : claim[m].state # "none" => m \in arrived
    /\ \A m \in Ids : answers[m] > 0 => m \in arrived
    /\ step > 0 => cur \in arrived

\* A claim brings back its own message and the follow-ups of its turn.
InputsAreOwn ==
    /\ \A m \in Ids : taken[m] \subseteq everTaken
    /\ \A m \in Ids : claim[m].inputs \subseteq {m} \cup everTaken

\* Neither a file nor the message's own claim brings it back.
Gone(m) == m \notin inbox /\ m \notin claim[m].inputs

\* An answered message is known to the ledger, or nothing brings it back.
AnsweredIsKnown ==
    \A m \in Ids \ everTaken :
        answers[m] = 1 => row[m] \in {"inflight", "sent"} \/ Gone(m)

\* On the way to its reply a message is unanswered.
Unanswered ==
    \/ path \in {"turn", "defer", "giveup", "redrive"}
    \/ path \in {"answer", "escape"} /\ step <= 3

\* Past these writes the file, and then the claim, of the message is gone.
Archived == \/ path \in {"answer", "escape"} /\ step >= 6
            \/ path \in {"drop", "recovered"} /\ step >= 2
Released == \/ path \in {"answer", "escape"} /\ step >= 8
            \/ path = "drop" /\ step >= 4
            \/ path = "recovered" /\ step >= 7

WayOutIsOrdered ==
    step > 0 /\ cur \notin everTaken =>
        /\ Unanswered => answers[cur] = 0
        /\ path \in {"answer", "escape"} /\ step = 3
             => row[cur] \in {"inflight", "sent"}
        /\ Archived => cur \notin inbox
        /\ Released => cur \notin claim[cur].inputs

Rest == /\ AllArrived
        /\ InputsAreOwn
        /\ AnsweredOnce
        /\ AnsweredIsKnown
        /\ WayOutIsOrdered

AnswerInv == TypeOK /\ Rest

(* A recovery prompt is minted as a message nobody has answered.           *)
LEMMA RedriveFresh ==
    ASSUME AnswerInv, Redrive
    PROVE  \/ UNCHANGED loop
           \/ /\ path' = "redrive" /\ step' = 1
              /\ answers[cur'] = 0
<1>1. CASE DropObligation
  BY <1>1 DEF DropObligation
<1>2. CASE CountRedrive
  <2>1. PICK p \in Prompts \ arrived : Enter("redrive", p)
    BY <1>2 DEF CountRedrive
  <2>2. p \in Ids /\ answers[p] \in Nat
    BY DEF Ids, AnswerInv, TypeOK, LogOK
  <2>3. answers[p] = 0
    BY <2>2 DEF AnswerInv, Rest, AllArrived
  <2> QED BY <2>1, <2>3 DEF Enter
<1> QED BY <1>1, <1>2 DEF Redrive

(* What the steps below need of the invariant.                             *)
LEMMA Facts ==
    ASSUME AnswerInv
    PROVE  /\ Table /\ TypeOK /\ Rest
           /\ step > 0 => cur \in Ids /\ step \in Nat
BY RouteTable, RouteShape DEF AnswerInv, TypeOK, LoopOK

\* Steps that touch none of the variables the invariant speaks about.
LEMMA FrameKeeps ==
    ASSUME AnswerInv,
           UNCHANGED <<inbox, claim, row, sweep, path, step, cur, taken,
                       arrived, answers, everTaken>>
    PROVE  Rest'
BY DEF AnswerInv, Rest, AllArrived, InputsAreOwn, AnsweredOnce,
       AnsweredIsKnown, Gone, WayOutIsOrdered, Unanswered, Archived, Released

\* Steps that only walk on, past a write the invariant does not care about.
LEMMA WalkKeeps ==
    ASSUME AnswerInv, step > 0, Forward(1),
           ~At("inflight"), ~At("archive"), ~At("release"),
           UNCHANGED <<inbox, claim, row, sweep, taken, arrived, answers,
                       everTaken>>
    PROVE  Rest'
<1>1. step' > 0 => step' = step + 1 /\ path' = path /\ cur' = cur
  BY DEF Forward, Leave
<1>2. AllArrived' /\ InputsAreOwn' /\ AnsweredOnce' /\ AnsweredIsKnown'
  BY Facts, <1>1
  DEF Rest, AllArrived, InputsAreOwn, AnsweredOnce, AnsweredIsKnown, Gone
<1>3. WayOutIsOrdered'
  BY Facts, <1>1
  DEF Rest, WayOutIsOrdered, Unanswered, Archived, Released, Table
<1> QED BY <1>2, <1>3 DEF Rest

(* SendChat keeps what the invariant adds to the types.                    *)
LEMMA SendChatKeeps ==
    ASSUME AnswerInv, NEW c \in Chats, SendChat(c)
    PROVE  Rest'
<1>1. InputsAreOwn' /\ AnsweredOnce'
  BY Facts
  DEF Rest, InputsAreOwn, AnsweredOnce, WayOutIsOrdered, Unanswered, SendChat
<1>2. AllArrived'
  BY Facts
  DEF AllArrived, InputsAreOwn, SendChat, Ids, Rest, TypeOK, FilesOK,
      ProcessOK, LogOK, Claims
<1>3. AnsweredIsKnown'
  BY Facts
  DEF AnsweredIsKnown, AnsweredOnce, WayOutIsOrdered, Unanswered, Archived,
      Released, AllArrived, InputsAreOwn, Gone, SendChat, Ids, Rest, TypeOK,
      FilesOK, ProcessOK, LogOK, Claims
<1>4. WayOutIsOrdered'
  BY Facts
  DEF WayOutIsOrdered, Unanswered, Archived, Released, AllArrived,
      InputsAreOwn, AnsweredOnce, AnsweredIsKnown, Gone, SendChat, Ids, Rest,
      TypeOK, FilesOK, ProcessOK, LogOK, Claims, Table
<1> QED BY <1>1, <1>2, <1>3, <1>4 DEF Rest

(* SendWork keeps what the invariant adds to the types.                    *)
LEMMA SendWorkKeeps ==
    ASSUME AnswerInv, NEW w \in Works, SendWork(w)
    PROVE  Rest'
<1>1. InputsAreOwn' /\ AnsweredOnce'
  BY Facts
  DEF Rest, InputsAreOwn, AnsweredOnce, WayOutIsOrdered, Unanswered, SendWork
<1>2. AllArrived'
  BY Facts
  DEF AllArrived, InputsAreOwn, SendWork, Ids, Rest, TypeOK, FilesOK,
      ProcessOK, LogOK, Claims
<1>3. AnsweredIsKnown'
  BY Facts
  DEF AnsweredIsKnown, AnsweredOnce, WayOutIsOrdered, Unanswered, Archived,
      Released, AllArrived, InputsAreOwn, Gone, SendWork, Ids, Rest, TypeOK,
      FilesOK, ProcessOK, LogOK, Claims
<1>4. WayOutIsOrdered'
  BY Facts
  DEF WayOutIsOrdered, Unanswered, Archived, Released, AllArrived,
      InputsAreOwn, AnsweredOnce, AnsweredIsKnown, Gone, SendWork, Ids, Rest,
      TypeOK, FilesOK, ProcessOK, LogOK, Claims, Table
<1> QED BY <1>1, <1>2, <1>3, <1>4 DEF Rest

(* Boot keeps what the invariant adds to the types.                        *)
LEMMA BootKeeps ==
    ASSUME AnswerInv, Boot
    PROVE  Rest'
<1>1. \/ UNCHANGED loop
      \/ /\ path' = "redrive" /\ step' = 1
         /\ answers[cur'] = 0
  BY RedriveFresh DEF Boot
<1>2. InputsAreOwn' /\ AnsweredOnce' /\ AnsweredIsKnown'
  BY Facts
  DEF Rest, InputsAreOwn, AnsweredOnce, WayOutIsOrdered, Unanswered,
      AnsweredIsKnown, Archived, Released, AllArrived, Gone, Boot
<1>3. AllArrived'
  BY Facts, <1>1
  DEF AllArrived, InputsAreOwn, Boot, Orphaned, Live, Redrive, CountRedrive,
      DropObligation, Enter, Rest, TypeOK, FilesOK, ProcessOK, LogOK, Claims
<1>4. WayOutIsOrdered'
  <2>1. UNCHANGED <<inbox, claim, row, answers, everTaken>>
    BY DEF Boot
  <2> QED BY Facts, <1>1, <2>1
    DEF WayOutIsOrdered, Unanswered, Archived, Released, Rest
<1> QED BY <1>2, <1>3, <1>4 DEF Rest

(* Requeue keeps what the invariant adds to the types.                     *)
LEMMA RequeueKeeps ==
    ASSUME AnswerInv, Requeue
    PROVE  Rest'
<1>1. /\ cur \in Ids /\ cur \in arrived /\ path = "requeue"
      /\ \E k \in {cur} \cup everTaken :
            k \in claim[cur].inputs /\ inbox' = inbox \cup {k}
  <2>1. step > 0 /\ path = "requeue"
    BY Facts DEF Requeue, At, Table
  <2> QED BY Facts, <2>1 DEF Requeue, Rest, InputsAreOwn, AllArrived
<1>2. InputsAreOwn' /\ AnsweredOnce'
  BY Facts
  DEF Rest, InputsAreOwn, AnsweredOnce, WayOutIsOrdered, Unanswered, Requeue
<1>3. AllArrived'
  BY Facts, <1>1
  DEF AllArrived, InputsAreOwn, Requeue, Rest, TypeOK, FilesOK, ProcessOK,
      LogOK, Claims
<1>4. AnsweredIsKnown'
  BY Facts, <1>1
  DEF AnsweredIsKnown, AnsweredOnce, WayOutIsOrdered, Unanswered, Archived,
      Released, AllArrived, InputsAreOwn, Gone, Requeue, Rest, TypeOK,
      FilesOK, ProcessOK, LogOK, Claims
<1>5. WayOutIsOrdered'
  BY Facts, <1>1
  DEF WayOutIsOrdered, Unanswered, Archived, Released, AllArrived,
      InputsAreOwn, AnsweredOnce, AnsweredIsKnown, Gone, Requeue, Rest,
      TypeOK, FilesOK, ProcessOK, LogOK, Claims, Table
<1> QED BY <1>2, <1>3, <1>4, <1>5 DEF Rest

(* MarkQueued keeps what the invariant adds to the types.                  *)
LEMMA MarkQueuedKeeps ==
    ASSUME AnswerInv, MarkQueued
    PROVE  Rest'
<1>1. step' > 0 => step' = step + 1 /\ path' = path /\ cur' = cur
  BY DEF MarkQueued, Forward, Leave
<1>2. \A k \in Ids : /\ claim'[k].inputs = claim[k].inputs
                     /\ claim'[k].state # "none" =>
                          claim[k].state # "none" \/ k = cur
  <2>1. \A k \in Ids : claim[k] \in Claims
    BY Facts, ClaimShape DEF TypeOK
  <2>2. claim' = [claim EXCEPT ![cur] = [claim[cur] EXCEPT !.state = "queued"]]
    BY DEF MarkQueued
  <2> QED BY Facts, <2>1, <2>2 DEF Claims, TypeOK, FilesOK
<1>3. AnsweredOnce'
  BY Facts DEF Rest, AnsweredOnce, WayOutIsOrdered, Unanswered, MarkQueued
<1>4. AllArrived'
  BY Facts, <1>1, <1>2
  DEF AllArrived, InputsAreOwn, MarkQueued, Rest, TypeOK, FilesOK, ProcessOK,
      LogOK, Claims, Table
<1>5. InputsAreOwn'
  BY Facts, <1>1, <1>2
  DEF InputsAreOwn, MarkQueued, Rest, TypeOK, FilesOK, ProcessOK, LogOK,
      Claims, Table
<1>6. AnsweredIsKnown'
  BY Facts, <1>1, <1>2
  DEF AnsweredIsKnown, AnsweredOnce, WayOutIsOrdered, Unanswered, Archived,
      Released, AllArrived, InputsAreOwn, Gone, MarkQueued, Rest, TypeOK,
      FilesOK, ProcessOK, LogOK, Claims, Table
<1>7. WayOutIsOrdered'
  BY Facts, <1>1, <1>2
  DEF WayOutIsOrdered, Unanswered, Archived, Released, AllArrived,
      InputsAreOwn, AnsweredOnce, AnsweredIsKnown, Gone, MarkQueued, Rest,
      TypeOK, FilesOK, ProcessOK, LogOK, Claims, Table
<1> QED BY <1>3, <1>4, <1>5, <1>6, <1>7 DEF Rest

(* Refund keeps what the invariant adds to the types.                      *)
LEMMA RefundKeeps ==
    ASSUME AnswerInv, Refund
    PROVE  Rest'
<1>1. step' > 0 => step' = step + 1 /\ path' = path /\ cur' = cur
  BY DEF Refund, Forward, Leave
<1>2. \A k \in Ids : /\ claim'[k].inputs = claim[k].inputs
                     /\ claim'[k].state # "none" =>
                          claim[k].state # "none" \/ k = cur
  <2>1. \A k \in Ids : claim[k] \in Claims
    BY Facts, ClaimShape DEF TypeOK
  <2>2. claim' = [claim EXCEPT ![cur] = [claim[cur] EXCEPT !.budget =
                   IF claim[cur].budget < Budget THEN claim[cur].budget + 1
                                             ELSE claim[cur].budget]]
    BY DEF Refund
  <2> QED BY Facts, <2>1, <2>2 DEF Claims, TypeOK, FilesOK
<1>3. AnsweredOnce'
  BY Facts DEF Rest, AnsweredOnce, WayOutIsOrdered, Unanswered, Refund
<1>4. AllArrived'
  BY Facts, <1>1, <1>2
  DEF AllArrived, InputsAreOwn, Refund, Rest, TypeOK, FilesOK, ProcessOK,
      LogOK, Claims, Table
<1>5. InputsAreOwn'
  BY Facts, <1>1, <1>2
  DEF InputsAreOwn, Refund, Rest, TypeOK, FilesOK, ProcessOK, LogOK, Claims,
      Table
<1>6. AnsweredIsKnown'
  BY Facts, <1>1, <1>2
  DEF AnsweredIsKnown, AnsweredOnce, WayOutIsOrdered, Unanswered, Archived,
      Released, AllArrived, InputsAreOwn, Gone, Refund, Rest, TypeOK, FilesOK,
      ProcessOK, LogOK, Claims, Table
<1>7. WayOutIsOrdered'
  BY Facts, <1>1, <1>2
  DEF WayOutIsOrdered, Unanswered, Archived, Released, AllArrived,
      InputsAreOwn, AnsweredOnce, AnsweredIsKnown, Gone, Refund, Rest, TypeOK,
      FilesOK, ProcessOK, LogOK, Claims, Table
<1> QED BY <1>3, <1>4, <1>5, <1>6, <1>7 DEF Rest

(* Tombstone keeps what the invariant adds to the types.                   *)
LEMMA TombstoneKeeps ==
    ASSUME AnswerInv, Tombstone
    PROVE  Rest'
<1>1. step' > 0 => step' = step + 1 /\ path' = path /\ cur' = cur
  BY DEF Tombstone, Forward, Leave
<1>2. \A k \in Ids : /\ claim'[k].inputs = claim[k].inputs
                     /\ claim'[k].state # "none" =>
                          claim[k].state # "none" \/ k = cur
  <2>1. \A k \in Ids : claim[k] \in Claims
    BY Facts, ClaimShape DEF TypeOK
  <2>2. claim' = [claim EXCEPT ![cur] =
                      [claim[cur] EXCEPT !.state = "tombstone"]]
    BY DEF Tombstone
  <2> QED BY Facts, <2>1, <2>2 DEF Claims, TypeOK, FilesOK
<1>3. AnsweredOnce'
  BY Facts DEF Rest, AnsweredOnce, WayOutIsOrdered, Unanswered, Tombstone
<1>4. AllArrived'
  BY Facts, <1>1, <1>2
  DEF AllArrived, InputsAreOwn, Tombstone, Rest, TypeOK, FilesOK, ProcessOK,
      LogOK, Claims, Table
<1>5. InputsAreOwn'
  BY Facts, <1>1, <1>2
  DEF InputsAreOwn, Tombstone, Rest, TypeOK, FilesOK, ProcessOK, LogOK,
      Claims, Table
<1>6. AnsweredIsKnown'
  BY Facts, <1>1, <1>2
  DEF AnsweredIsKnown, AnsweredOnce, WayOutIsOrdered, Unanswered, Archived,
      Released, AllArrived, InputsAreOwn, Gone, Tombstone, Rest, TypeOK,
      FilesOK, ProcessOK, LogOK, Claims, Table
<1>7. WayOutIsOrdered'
  BY Facts, <1>1, <1>2
  DEF WayOutIsOrdered, Unanswered, Archived, Released, AllArrived,
      InputsAreOwn, AnsweredOnce, AnsweredIsKnown, Gone, Tombstone, Rest,
      TypeOK, FilesOK, ProcessOK, LogOK, Claims, Table
<1> QED BY <1>3, <1>4, <1>5, <1>6, <1>7 DEF Rest

(* Bury keeps what the invariant adds to the types.                        *)
LEMMA BuryKeeps ==
    ASSUME AnswerInv, Bury
    PROVE  Rest'
<1>1. step' > 0 => path' = path /\ cur' = cur
  BY DEF Bury, Forward, Leave
<1>2. step > 0 /\ cur \in Ids /\ path = "tombstone"
  BY Facts DEF Bury, At, Table
<1>3. InputsAreOwn' /\ AnsweredOnce'
  BY Facts
  DEF Rest, InputsAreOwn, AnsweredOnce, WayOutIsOrdered, Unanswered, Bury
<1>4. AllArrived'
  <2>1. inbox' \subseteq inbox
    BY DEF Bury
  <2> QED BY Facts, <1>2, <1>1, <2>1 DEF AllArrived, Bury, Rest
<1>5. AnsweredIsKnown'
  BY Facts, <1>1, <1>2
  DEF AnsweredIsKnown, AnsweredOnce, WayOutIsOrdered, Unanswered, Archived,
      Released, AllArrived, InputsAreOwn, Gone, Bury, Rest, TypeOK, FilesOK,
      ProcessOK, LogOK, Claims, Table
<1>6. WayOutIsOrdered'
  BY Facts, <1>1, <1>2
  DEF WayOutIsOrdered, Unanswered, Archived, Released, AllArrived,
      InputsAreOwn, AnsweredOnce, AnsweredIsKnown, Gone, Bury, Rest, TypeOK,
      FilesOK, ProcessOK, LogOK, Claims, Table
<1> QED BY <1>3, <1>4, <1>5, <1>6 DEF Rest

(* SweepClaim keeps what the invariant adds to the types.                  *)
LEMMA SweepClaimKeeps ==
    ASSUME AnswerInv, NEW m \in Ids, SweepClaim(m)
    PROVE  Rest'
<1>1. \A k \in Ids : /\ claim'[k].inputs = claim[k].inputs
                     /\ claim'[k].state # "none" =>
                          claim[k].state # "none" \/ k = m
  <2>0. CASE UNCHANGED claim
    BY <2>0
  <2>1. CASE claim' = [claim EXCEPT ![m] =
                         [claim[m] EXCEPT !.budget = claim[m].budget - 1]]
    <3>1. \A k \in Ids : claim[k] \in Claims
      BY Facts, ClaimShape DEF TypeOK
    <3> QED BY Facts, <2>1, <3>1 DEF Claims, TypeOK, FilesOK
  <2> QED BY <2>0, <2>1 DEF SweepClaim
<1>2. AnsweredOnce'
  BY Facts DEF Rest, AnsweredOnce, WayOutIsOrdered, Unanswered, SweepClaim
<1>3. AllArrived'
  BY Facts, <1>1
  DEF AllArrived, InputsAreOwn, SweepClaim, Enter, Exhausted, Rest, TypeOK,
      FilesOK, ProcessOK, LogOK, Claims
<1>4. InputsAreOwn'
  BY Facts, <1>1
  DEF InputsAreOwn, SweepClaim, Enter, Exhausted, Rest, TypeOK, FilesOK,
      ProcessOK, LogOK, Claims
<1>5. AnsweredIsKnown'
  BY Facts, <1>1
  DEF AnsweredIsKnown, AnsweredOnce, WayOutIsOrdered, Unanswered, Archived,
      Released, AllArrived, InputsAreOwn, Gone, SweepClaim, Enter, Exhausted,
      Rest, TypeOK, FilesOK, ProcessOK, LogOK, Claims
<1>6. WayOutIsOrdered'
  BY Facts, <1>1
  DEF WayOutIsOrdered, Unanswered, Archived, Released, AllArrived,
      InputsAreOwn, AnsweredOnce, AnsweredIsKnown, Gone, SweepClaim, Enter,
      Exhausted, Rest, TypeOK, FilesOK, ProcessOK, LogOK, Claims, Table
<1> QED BY <1>2, <1>3, <1>4, <1>5, <1>6 DEF Rest

(* LedgerWrite keeps what the invariant adds to the types.                 *)
LEMMA LedgerWriteKeeps ==
    ASSUME AnswerInv, LedgerWrite
    PROVE  Rest'
<1>1. step' > 0 => step' = step + 1 /\ path' = path /\ cur' = cur
  BY DEF LedgerWrite, Forward, Leave
<1>2. /\ step > 0 /\ cur \in Ids /\ step \in Nat
      /\ \A k \in Ids \ {cur} : row'[k] = row[k]
      /\ row'[cur] \in {"inflight", "sent"} \/ At("begin") \/ At("prune")
      /\ At("begin") /\ row[cur] \in {"inflight", "sent"}
           => row'[cur] = row[cur]
  BY Facts
  DEF LedgerWrite, SetRow, At, Table, TypeOK, FilesOK, RowStates
<1>3. /\ At("begin") /\ cur \notin everTaken => answers[cur] = 0
      /\ At("prune") /\ cur \notin everTaken /\ answers[cur] = 1 => Gone(cur)
  BY Facts, <1>2
  DEF Rest, Table, WayOutIsOrdered, Unanswered, Archived, Released, Gone
<1>4. InputsAreOwn' /\ AnsweredOnce'
  BY Facts
  DEF Rest, InputsAreOwn, AnsweredOnce, WayOutIsOrdered, Unanswered,
      LedgerWrite
<1>5. AllArrived'
  BY Facts, <1>1, <1>2, <1>3
  DEF AllArrived, InputsAreOwn, LedgerWrite, SetRow, Rest, TypeOK, FilesOK,
      ProcessOK, LogOK, Claims, Table
<1>6. AnsweredIsKnown'
  BY Facts, <1>1, <1>2, <1>3
  DEF AnsweredIsKnown, AnsweredOnce, WayOutIsOrdered, Unanswered, Archived,
      Released, AllArrived, InputsAreOwn, Gone, LedgerWrite, SetRow, Rest,
      TypeOK, FilesOK, ProcessOK, LogOK, Claims, Table
<1>7. WayOutIsOrdered'
  BY Facts, <1>1, <1>2, <1>3
  DEF WayOutIsOrdered, Unanswered, Archived, Released, AllArrived,
      InputsAreOwn, AnsweredOnce, AnsweredIsKnown, Gone, LedgerWrite, SetRow,
      Rest, TypeOK, FilesOK, ProcessOK, LogOK, Claims, Table
<1> QED BY <1>4, <1>5, <1>6, <1>7 DEF Rest

(* Reply keeps what the invariant adds to the types.                       *)
LEMMA ReplyKeeps ==
    ASSUME AnswerInv, Reply
    PROVE  Rest'
<1>1. step' > 0 => step' = step + 1 /\ path' = path /\ cur' = cur
  BY DEF Reply, Forward, Leave
<1>2. InputsAreOwn'
  BY Facts DEF Rest, InputsAreOwn, Reply
<1>3. AllArrived'
  BY Facts, <1>1
  DEF AllArrived, InputsAreOwn, Reply, Rest, TypeOK, FilesOK, ProcessOK,
      LogOK, Claims, Table
<1>4. AnsweredOnce'
  BY Facts, <1>1
  DEF AnsweredOnce, WayOutIsOrdered, Unanswered, Reply, Rest, TypeOK, FilesOK,
      ProcessOK, LogOK, Claims, Table
<1>5. AnsweredIsKnown'
  BY Facts, <1>1
  DEF AnsweredIsKnown, AnsweredOnce, WayOutIsOrdered, Unanswered, Archived,
      Released, AllArrived, InputsAreOwn, Gone, Reply, Rest, TypeOK, FilesOK,
      ProcessOK, LogOK, Claims, Table
<1>6. WayOutIsOrdered'
  BY Facts, <1>1
  DEF WayOutIsOrdered, Unanswered, Archived, Released, AllArrived,
      InputsAreOwn, AnsweredOnce, AnsweredIsKnown, Gone, Reply, Rest, TypeOK,
      FilesOK, ProcessOK, LogOK, Claims, Table
<1> QED BY <1>2, <1>3, <1>4, <1>5, <1>6 DEF Rest

(* Archive keeps what the invariant adds to the types.                     *)
LEMMA ArchiveKeeps ==
    ASSUME AnswerInv, Archive
    PROVE  Rest'
<1>1. step' > 0 => step' = step + 1 /\ path' = path /\ cur' = cur
  BY DEF Archive, Forward, Leave
<1>2. InputsAreOwn' /\ AnsweredOnce'
  BY Facts
  DEF Rest, InputsAreOwn, AnsweredOnce, WayOutIsOrdered, Unanswered, Archive
<1>3. AllArrived'
  BY Facts, <1>1
  DEF AllArrived, InputsAreOwn, Archive, Rest, TypeOK, FilesOK, ProcessOK,
      LogOK, Claims, Table
<1>4. AnsweredIsKnown'
  BY Facts, <1>1
  DEF AnsweredIsKnown, AnsweredOnce, WayOutIsOrdered, Unanswered, Archived,
      Released, AllArrived, InputsAreOwn, Gone, Archive, Rest, TypeOK,
      FilesOK, ProcessOK, LogOK, Claims, Table
<1>5. WayOutIsOrdered'
  BY Facts, <1>1
  DEF WayOutIsOrdered, Unanswered, Archived, Released, AllArrived,
      InputsAreOwn, AnsweredOnce, AnsweredIsKnown, Gone, Archive, Rest,
      TypeOK, FilesOK, ProcessOK, LogOK, Claims, Table
<1> QED BY <1>2, <1>3, <1>4, <1>5 DEF Rest

(* Release keeps what the invariant adds to the types.                     *)
LEMMA ReleaseKeeps ==
    ASSUME AnswerInv, Release
    PROVE  Rest'
<1>1. step' > 0 => step' = step + 1 /\ path' = path /\ cur' = cur
  BY DEF Release, Forward, Leave
<1>2. \A k \in Ids : /\ claim'[k].inputs \subseteq claim[k].inputs
                     /\ claim'[k].state # "none" => claim[k].state # "none"
                     /\ At("release") /\ k = cur => claim'[k].inputs = {}
  <2>1. claim' = claim \/ claim' = [claim EXCEPT ![cur] = NoClaim]
    BY DEF Release
  <2>2. At("release") => claim' = [claim EXCEPT ![cur] = NoClaim]
    BY Facts DEF Release, Table
  <2> QED BY Facts, <2>1, <2>2 DEF NoClaim, TypeOK, FilesOK
<1>3. AnsweredOnce'
  BY Facts DEF Rest, AnsweredOnce, WayOutIsOrdered, Unanswered, Release
<1>4. AllArrived'
  BY Facts, <1>1, <1>2
  DEF AllArrived, InputsAreOwn, Release, NoClaim, Rest, TypeOK, FilesOK,
      ProcessOK, LogOK, Claims, Table
<1>5. InputsAreOwn'
  BY Facts, <1>1, <1>2
  DEF InputsAreOwn, Release, NoClaim, Rest, TypeOK, FilesOK, ProcessOK, LogOK,
      Claims, Table
<1>6. AnsweredIsKnown'
  BY Facts, <1>1, <1>2
  DEF AnsweredIsKnown, AnsweredOnce, WayOutIsOrdered, Unanswered, Archived,
      Released, AllArrived, InputsAreOwn, Gone, Release, NoClaim, Rest,
      TypeOK, FilesOK, ProcessOK, LogOK, Claims, Table
<1>7. WayOutIsOrdered'
  BY Facts, <1>1, <1>2
  DEF WayOutIsOrdered, Unanswered, Archived, Released, AllArrived,
      InputsAreOwn, AnsweredOnce, AnsweredIsKnown, Gone, Release, NoClaim,
      Rest, TypeOK, FilesOK, ProcessOK, LogOK, Claims, Table
<1> QED BY <1>3, <1>4, <1>5, <1>6, <1>7 DEF Rest

(* SettleRead keeps what the invariant adds to the types.                  *)
LEMMA SettleReadKeeps ==
    ASSUME AnswerInv, SettleRead
    PROVE  Rest'
<1>1. step' > 0 => /\ \E n \in 1..2 : step' = step + n
                  /\ path' = path /\ cur' = cur
  BY DEF SettleRead, Forward, Leave
<1>2. step > 0 /\ cur \in Ids /\ step \in Nat
  BY Facts DEF SettleRead, At
<1>3. InputsAreOwn' /\ AnsweredOnce' /\ AnsweredIsKnown'
  BY Facts
  DEF Rest, InputsAreOwn, AnsweredOnce, WayOutIsOrdered, Unanswered,
      AnsweredIsKnown, Archived, Released, AllArrived, Gone, SettleRead
<1>4. AllArrived'
  BY Facts, <1>1, <1>2
  DEF AllArrived, InputsAreOwn, SettleRead, Rest, TypeOK, FilesOK, ProcessOK,
      LogOK, Claims, Table
<1>5. WayOutIsOrdered'
  BY Facts, <1>1, <1>2
  DEF WayOutIsOrdered, Unanswered, Archived, Released, AllArrived,
      InputsAreOwn, AnsweredOnce, AnsweredIsKnown, Gone, SettleRead, Rest,
      TypeOK, FilesOK, ProcessOK, LogOK, Claims, Table
<1> QED BY <1>3, <1>4, <1>5 DEF Rest

(* CheckObligations keeps what the invariant adds to the types.            *)
LEMMA CheckObligationsKeeps ==
    ASSUME AnswerInv, CheckObligations
    PROVE  Rest'
<1>1. \/ UNCHANGED loop
      \/ /\ path' = "redrive" /\ step' = 1
         /\ answers[cur'] = 0
  BY RedriveFresh DEF CheckObligations
<1>2. InputsAreOwn' /\ AnsweredOnce' /\ AnsweredIsKnown'
  BY Facts
  DEF Rest, InputsAreOwn, AnsweredOnce, WayOutIsOrdered, Unanswered,
      AnsweredIsKnown, Archived, Released, AllArrived, Gone, CheckObligations
<1>3. AllArrived'
  BY Facts, <1>1
  DEF AllArrived, InputsAreOwn, CheckObligations, Redrive, CountRedrive,
      DropObligation, Enter, Rest, TypeOK, FilesOK, ProcessOK, LogOK, Claims
<1>4. WayOutIsOrdered'
  <2>1. UNCHANGED <<inbox, claim, row, answers, everTaken>>
    BY DEF CheckObligations
  <2> QED BY Facts, <1>1, <2>1
    DEF WayOutIsOrdered, Unanswered, Archived, Released, Rest
<1> QED BY <1>2, <1>3, <1>4 DEF Rest

(* SendPrompt keeps what the invariant adds to the types.                  *)
LEMMA SendPromptKeeps ==
    ASSUME AnswerInv, SendPrompt
    PROVE  Rest'
<1>1. step' > 0 => step' = step + 1 /\ path' = path /\ cur' = cur
  BY DEF SendPrompt, Forward, Leave
<1>2. InputsAreOwn' /\ AnsweredOnce'
  BY Facts
  DEF Rest, InputsAreOwn, AnsweredOnce, WayOutIsOrdered, Unanswered,
      SendPrompt
<1>3. AllArrived'
  BY Facts, <1>1
  DEF AllArrived, InputsAreOwn, SendPrompt, Rest, TypeOK, FilesOK, ProcessOK,
      LogOK, Claims, Table
<1>4. AnsweredIsKnown'
  BY Facts, <1>1
  DEF AnsweredIsKnown, AnsweredOnce, WayOutIsOrdered, Unanswered, Archived,
      Released, AllArrived, InputsAreOwn, Gone, SendPrompt, Rest, TypeOK,
      FilesOK, ProcessOK, LogOK, Claims, Table
<1>5. WayOutIsOrdered'
  BY Facts, <1>1
  DEF WayOutIsOrdered, Unanswered, Archived, Released, AllArrived,
      InputsAreOwn, AnsweredOnce, AnsweredIsKnown, Gone, SendPrompt, Rest,
      TypeOK, FilesOK, ProcessOK, LogOK, Claims, Table
<1> QED BY <1>2, <1>3, <1>4, <1>5 DEF Rest

(* Admit keeps what the invariant adds to the types.                       *)
LEMMA AdmitKeeps ==
    ASSUME AnswerInv, Admit
    PROVE  Rest'
<1>1. step' > 0 => step' = step + 1 /\ path' = path /\ cur' = cur
  BY DEF Admit, Forward, Leave
<1>2. \A k \in Ids : /\ k # cur => claim'[k] = claim[k]
                     /\ k = cur => claim'[k].inputs = {cur}
  BY Facts DEF Admit, AdmittedClaim, TypeOK, FilesOK
<1>3. AnsweredOnce'
  BY Facts DEF Rest, AnsweredOnce, WayOutIsOrdered, Unanswered, Admit
<1>4. AllArrived'
  BY Facts, <1>1, <1>2
  DEF AllArrived, InputsAreOwn, Admit, AdmittedClaim, Rest, TypeOK, FilesOK,
      ProcessOK, LogOK, Claims, Table
<1>5. InputsAreOwn'
  BY Facts, <1>1, <1>2
  DEF InputsAreOwn, Admit, AdmittedClaim, Rest, TypeOK, FilesOK, ProcessOK,
      LogOK, Claims, Table
<1>6. AnsweredIsKnown'
  BY Facts, <1>1, <1>2
  DEF AnsweredIsKnown, AnsweredOnce, WayOutIsOrdered, Unanswered, Archived,
      Released, AllArrived, InputsAreOwn, Gone, Admit, AdmittedClaim, Rest,
      TypeOK, FilesOK, ProcessOK, LogOK, Claims, Table
<1>7. WayOutIsOrdered'
  BY Facts, <1>1, <1>2
  DEF WayOutIsOrdered, Unanswered, Archived, Released, AllArrived,
      InputsAreOwn, AnsweredOnce, AnsweredIsKnown, Gone, Admit, AdmittedClaim,
      Rest, TypeOK, FilesOK, ProcessOK, LogOK, Claims, Table
<1> QED BY <1>3, <1>4, <1>5, <1>6, <1>7 DEF Rest

(* RejectArrival keeps what the invariant adds to the types.               *)
LEMMA RejectArrivalKeeps ==
    ASSUME AnswerInv, RejectArrival
    PROVE  Rest'
<1>1. InputsAreOwn' /\ AnsweredOnce' /\ AnsweredIsKnown'
  BY Facts
  DEF Rest, InputsAreOwn, AnsweredOnce, WayOutIsOrdered, Unanswered,
      AnsweredIsKnown, Archived, Released, AllArrived, Gone, RejectArrival
<1>2. AllArrived'
  BY Facts
  DEF AllArrived, InputsAreOwn, RejectArrival, Enter, Rest, TypeOK, FilesOK,
      ProcessOK, LogOK, Claims
<1>3. WayOutIsOrdered'
  BY Facts
  DEF WayOutIsOrdered, Unanswered, Archived, Released, AllArrived,
      InputsAreOwn, AnsweredOnce, AnsweredIsKnown, Gone, RejectArrival, Enter,
      Rest, TypeOK, FilesOK, ProcessOK, LogOK, Claims, Table
<1> QED BY <1>1, <1>2, <1>3 DEF Rest

(* Pick keeps what the invariant adds to the types.                        *)
LEMMA PickKeeps ==
    ASSUME AnswerInv, NEW m \in Ids, Pick(m)
    PROVE  Rest'
<1>1. /\ m \in inbox /\ cur' = m /\ path' = Verdict(m) /\ step' = 1
      /\ m \notin everTaken /\ path' = "turn" => answers[m] = 0
  <2>1. m \in inbox /\ cur' = m /\ path' = Verdict(m) /\ step' = 1
    BY DEF Pick, NextTask, Enter
  <2>2. ASSUME m \notin everTaken, Verdict(m) = "turn"
        PROVE  answers[m] = 0
    <3>1. row[m] \notin {"inflight", "sent"}
      BY <2>2 DEF Verdict
    <3>2. answers[m] # 1 /\ answers[m] <= 1 /\ answers[m] \in Nat
      BY Facts, <2>1, <2>2, <3>1
      DEF Rest, AnsweredIsKnown, AnsweredOnce, Gone, TypeOK, LogOK
    <3> QED BY <3>2
  <2> QED BY <2>1, <2>2
<1>2. path' \in {"drop", "recovered", "turn"}
  BY <1>1 DEF Verdict
<1>3. InputsAreOwn' /\ AnsweredOnce' /\ AnsweredIsKnown'
  BY Facts
  DEF Rest, InputsAreOwn, AnsweredOnce, WayOutIsOrdered, Unanswered,
      AnsweredIsKnown, Archived, Released, AllArrived, Gone, Pick
<1>4. AllArrived'
  BY Facts, <1>1, <1>2
  DEF AllArrived, InputsAreOwn, Pick, Rest, TypeOK, FilesOK, ProcessOK, LogOK,
      Claims
<1>5. WayOutIsOrdered'
  BY Facts, <1>1, <1>2
  DEF WayOutIsOrdered, Unanswered, Archived, Released, AllArrived,
      InputsAreOwn, AnsweredOnce, AnsweredIsKnown, Gone, Pick, Rest, TypeOK,
      FilesOK, ProcessOK, LogOK, Claims, Table
<1> QED BY <1>3, <1>4, <1>5 DEF Rest

(* Finish keeps what the invariant adds to the types.                      *)
LEMMA FinishKeeps ==
    ASSUME AnswerInv, NEW i \in BOOLEAN, Finish(i)
    PROVE  Rest'
<1>1. step > 0 /\ cur \in Ids /\ step \in Nat
  BY Facts DEF Finish, At
<1>2. InputsAreOwn' /\ AnsweredOnce' /\ AnsweredIsKnown'
  BY Facts
  DEF Rest, InputsAreOwn, AnsweredOnce, WayOutIsOrdered, Unanswered,
      AnsweredIsKnown, Archived, Released, AllArrived, Gone, Finish
<1>3. AllArrived'
  BY Facts, <1>1
  DEF AllArrived, InputsAreOwn, Finish, Enter, Rest, TypeOK, FilesOK,
      ProcessOK, LogOK, Claims
<1>4. WayOutIsOrdered'
  BY Facts, <1>1
  DEF WayOutIsOrdered, Unanswered, Archived, Released, AllArrived,
      InputsAreOwn, AnsweredOnce, AnsweredIsKnown, Gone, Finish, Enter, Rest,
      TypeOK, FilesOK, ProcessOK, LogOK, Claims, Table
<1> QED BY <1>2, <1>3, <1>4 DEF Rest

(* RecordSteer keeps what the invariant adds to the types.                 *)
LEMMA RecordSteerKeeps ==
    ASSUME AnswerInv, NEW r \in Ids, RecordSteer(r)
    PROVE  Rest'
<1>1. \A k \in Ids : /\ k # r => claim'[k] = claim[k]
                     /\ claim'[k].state = claim[k].state
                     /\ claim'[k].inputs \subseteq claim[k].inputs \cup taken[k]
  <2>1. CASE claim[r].state # "none"
    <3>1. claim' = [claim EXCEPT ![r] =
                      [claim[r] EXCEPT !.inputs = claim[r].inputs \cup taken[r]]]
      BY <2>1 DEF RecordSteer
    <3>2. claim[r] \in Claims
      BY Facts, ClaimShape DEF TypeOK
    <3> QED BY Facts, <3>1, <3>2 DEF Claims, TypeOK, FilesOK
  <2>2. CASE claim[r].state = "none"
    BY <2>2 DEF RecordSteer
  <2> QED BY <2>1, <2>2
<1>2. AnsweredOnce'
  BY Facts DEF Rest, AnsweredOnce, WayOutIsOrdered, Unanswered, RecordSteer
<1>3. AllArrived'
  BY Facts, <1>1
  DEF AllArrived, InputsAreOwn, RecordSteer, Rest, TypeOK, FilesOK, ProcessOK,
      LogOK, Claims
<1>4. InputsAreOwn'
  BY Facts, <1>1
  DEF InputsAreOwn, RecordSteer, Rest, TypeOK, FilesOK, ProcessOK, LogOK,
      Claims
<1>5. AnsweredIsKnown'
  BY Facts, <1>1
  DEF AnsweredIsKnown, AnsweredOnce, WayOutIsOrdered, Unanswered, Archived,
      Released, AllArrived, InputsAreOwn, Gone, RecordSteer, Rest, TypeOK,
      FilesOK, ProcessOK, LogOK, Claims
<1>6. WayOutIsOrdered'
  BY Facts, <1>1
  DEF WayOutIsOrdered, Unanswered, Archived, Released, AllArrived,
      InputsAreOwn, AnsweredOnce, AnsweredIsKnown, Gone, RecordSteer, Rest,
      TypeOK, FilesOK, ProcessOK, LogOK, Claims, Table
<1> QED BY <1>2, <1>3, <1>4, <1>5, <1>6 DEF Rest

(* TakeSteer keeps what the invariant adds to the types.                   *)
LEMMA TakeSteerKeeps ==
    ASSUME AnswerInv, NEW r \in Ids, NEW c \in Chats, TakeSteer(r, c)
    PROVE  Rest'
<1>1. AllArrived'
  BY Facts
  DEF AllArrived, InputsAreOwn, TakeSteer, Rest, TypeOK, FilesOK, ProcessOK,
      LogOK, Claims
<1>2. InputsAreOwn'
  BY Facts
  DEF InputsAreOwn, TakeSteer, Rest, TypeOK, FilesOK, ProcessOK, LogOK, Claims
<1>3. AnsweredOnce'
  BY Facts
  DEF AnsweredOnce, WayOutIsOrdered, Unanswered, TakeSteer, Rest, TypeOK,
      FilesOK, ProcessOK, LogOK, Claims
<1>4. AnsweredIsKnown'
  BY Facts
  DEF AnsweredIsKnown, AnsweredOnce, WayOutIsOrdered, Unanswered, Archived,
      Released, AllArrived, InputsAreOwn, Gone, TakeSteer, Rest, TypeOK,
      FilesOK, ProcessOK, LogOK, Claims
<1>5. WayOutIsOrdered'
  BY Facts
  DEF WayOutIsOrdered, Unanswered, Archived, Released, AllArrived,
      InputsAreOwn, AnsweredOnce, AnsweredIsKnown, Gone, TakeSteer, Rest,
      TypeOK, FilesOK, ProcessOK, LogOK, Claims, Table
<1> QED BY <1>1, <1>2, <1>3, <1>4, <1>5 DEF Rest

(* Escape keeps what the invariant adds to the types.                      *)
LEMMA EscapeKeeps ==
    ASSUME AnswerInv, Escape
    PROVE  Rest'
<1>1. step > 0 /\ cur \in Ids /\ step \in Nat
  BY Facts DEF Escape, At
<1>2. InputsAreOwn' /\ AnsweredOnce' /\ AnsweredIsKnown'
  BY Facts
  DEF Rest, InputsAreOwn, AnsweredOnce, WayOutIsOrdered, Unanswered,
      AnsweredIsKnown, Archived, Released, AllArrived, Gone, Escape
<1>3. AllArrived'
  BY Facts, <1>1
  DEF AllArrived, InputsAreOwn, Escape, Enter, Rest, TypeOK, FilesOK,
      ProcessOK, LogOK, Claims
<1>4. WayOutIsOrdered'
  BY Facts, <1>1
  DEF WayOutIsOrdered, Unanswered, Archived, Released, AllArrived,
      InputsAreOwn, AnsweredOnce, AnsweredIsKnown, Gone, Escape, Enter, Rest,
      TypeOK, FilesOK, ProcessOK, LogOK, Claims, Table
<1> QED BY <1>2, <1>3, <1>4 DEF Rest

(* BeginDrain keeps what the invariant adds to the types.                  *)
LEMMA BeginDrainKeeps ==
    ASSUME AnswerInv, BeginDrain
    PROVE  Rest'
<1>1. AnsweredOnce'
  BY Facts DEF Rest, AnsweredOnce, WayOutIsOrdered, Unanswered, BeginDrain
<1>2. AllArrived'
  BY Facts
  DEF AllArrived, InputsAreOwn, BeginDrain, Stamped, Rest, TypeOK, FilesOK,
      ProcessOK, LogOK, Claims
<1>3. InputsAreOwn'
  BY Facts
  DEF InputsAreOwn, BeginDrain, Stamped, Rest, TypeOK, FilesOK, ProcessOK,
      LogOK, Claims
<1>4. AnsweredIsKnown'
  BY Facts
  DEF AnsweredIsKnown, AnsweredOnce, WayOutIsOrdered, Unanswered, Archived,
      Released, AllArrived, InputsAreOwn, Gone, BeginDrain, Stamped, Rest,
      TypeOK, FilesOK, ProcessOK, LogOK, Claims
<1>5. WayOutIsOrdered'
  BY Facts
  DEF WayOutIsOrdered, Unanswered, Archived, Released, AllArrived,
      InputsAreOwn, AnsweredOnce, AnsweredIsKnown, Gone, BeginDrain, Stamped,
      Rest, TypeOK, FilesOK, ProcessOK, LogOK, Claims, Table
<1> QED BY <1>1, <1>2, <1>3, <1>4, <1>5 DEF Rest

(* The death of the process leaves the records the invariant rests on.     *)
LEMMA DieKeeps ==
    ASSUME AnswerInv, Die,
           \A m \in Ids : /\ claim'[m].inputs = claim[m].inputs
                          /\ claim'[m].state # "none" =>
                               claim[m].state # "none"
    PROVE  Rest'
<1>1. /\ UNCHANGED <<inbox, row, arrived, answers, everTaken>>
      /\ taken' = [m \in Ids |-> {}] /\ sweep' = {} /\ step' = 0
  BY DEF Die, Leave
<1>2. AllArrived' /\ InputsAreOwn'
  BY Facts, <1>1 DEF Rest, AllArrived, InputsAreOwn
<1>3. AnsweredOnce' /\ AnsweredIsKnown' /\ WayOutIsOrdered'
  BY Facts, <1>1
  DEF Rest, AnsweredOnce, AnsweredIsKnown, Gone, WayOutIsOrdered
<1> QED BY <1>2, <1>3 DEF Rest

(* A stamp changes no inputs and gives no message a claim.                 *)
LEMMA StampKeeps ==
    ASSUME AnswerInv, claim' = Stamped
    PROVE  \A m \in Ids : /\ claim'[m].inputs = claim[m].inputs
                          /\ claim'[m].state # "none" =>
                               claim[m].state # "none"
<1>1. \A m \in Ids : claim[m] \in Claims
  BY Facts, ClaimShape DEF TypeOK
<1> QED BY <1>1 DEF Stamped, Claims

-----------------------------------------------------------------------------
(* The invariant holds initially.                                          *)
LEMMA AnswerInvInit ==
    ASSUME Init
    PROVE  AnswerInv
<1>1. TypeOK
  BY InitOK
<1>2. Rest
  BY DEF Init, Rest, AllArrived, InputsAreOwn, AnsweredOnce, AnsweredIsKnown,
     WayOutIsOrdered, NoClaim
<1> QED BY <1>1, <1>2 DEF AnswerInv

(* The invariant is inductive.                                             *)
LEMMA AnswerInvStep ==
    ASSUME AnswerInv, [Next]_vars
    PROVE  AnswerInv'
<1>0. TypeOK'
  BY TypeOKStep DEF AnswerInv
<1>1. CASE Harness
  <2>1. ASSUME NEW c \in Chats, RecordSend(c)
        PROVE  Rest'
    BY <2>1, FrameKeeps DEF RecordSend
  <2> QED BY <1>0, <1>1, <2>1, SendChatKeeps, SendWorkKeeps
    DEF Harness, AnswerInv
<1>2. CASE Recover
  <2>1. SweepDone => Rest'
    BY FrameKeeps DEF SweepDone
  <2> QED BY <1>0, <1>2, <2>1, BootKeeps, RequeueKeeps, MarkQueuedKeeps,
       RefundKeeps, TombstoneKeeps, BuryKeeps, SweepClaimKeeps
    DEF Recover, AnswerInv
<1>3. CASE WayOut
  <2>1. Notice \/ SetAttempt \/ SettleWrite => Rest'
    BY WalkKeeps DEF Notice, SetAttempt, SettleWrite, At
  <2> QED BY <1>0, <1>3, <2>1, LedgerWriteKeeps, ReplyKeeps, ArchiveKeeps,
       ReleaseKeeps, SettleReadKeeps
    DEF WayOut, AnswerInv
<1>4. CASE MainLoop
  <2>1. EndDrain => Rest'
    BY StampKeeps, DieKeeps DEF EndDrain
  <2> QED BY <1>0, <1>4, <2>1, CheckObligationsKeeps, SendPromptKeeps,
       AdmitKeeps, RejectArrivalKeeps, PickKeeps
    DEF MainLoop, AnswerInv
<1>5. CASE Worker
  <2>1. ASSUME NEW r \in Ids, LateSettle(r)
        PROVE  Rest'
    BY <2>1, FrameKeeps DEF LateSettle
  <2> QED BY <1>0, <1>5, <2>1, FinishKeeps, RecordSteerKeeps, TakeSteerKeeps
    DEF Worker, AnswerInv
<1>6. CASE Trip \/ Escape \/ BeginDrain \/ Crash
  <2>1. Trip => Rest'
    BY FrameKeeps DEF Trip
  <2>2. Crash => Rest'
    BY DieKeeps DEF Crash
  <2> QED BY <1>0, <1>6, <2>1, <2>2, EscapeKeeps, BeginDrainKeeps
    DEF AnswerInv
<1>7. CASE UNCHANGED vars
  BY <1>0, <1>7, FrameKeeps DEF vars, AnswerInv
<1> QED BY <1>1, <1>2, <1>3, <1>4, <1>5, <1>6, <1>7 DEF Next

(* A message never folded into another turn gets at most one terminal      *)
(* reply, however many crashes, shutdowns, redispatches, interrupts and    *)
(* abandoned runs there are and wherever between two writes they fall: the *)
(* row is in flight before the reply leaves, and stays until neither the   *)
(* file nor the claim can bring the message back.                          *)
THEOREM AnsweredAtMostOnce == Spec => []AnsweredOnce
<1>1. AnswerInv => AnsweredOnce
  BY DEF AnswerInv, Rest
<1> QED BY <1>1, AnswerInvInit, AnswerInvStep, PTL DEF Spec


-----------------------------------------------------------------------------
(* Where a way out ends.                                                   *)

\* The last write of each way out, or the settle that skips it.
AtEnd ==
    /\ path \in Paths \ {"none"}
    /\ path = "turn" => step = 2
    /\ path = "answer" => step >= 9
    /\ path = "escape" => step = 8
    /\ path = "defer" => step >= 4
    /\ path \in {"giveup", "drop"} => step >= 6
    /\ path = "recovered" => step = 7
    /\ path = "reject" => step >= 3
    /\ path = "tombstone" => step = 2

(* A step along a way out goes to the next place or leaves at the end.     *)
LEMMA WalkOn ==
    ASSUME LoopOK, step > 0, NEW n \in {1, 2}, Forward(n),
           n = 2 => At("settle")
    PROVE  \/ path' = path /\ cur' = cur /\ step' = step + n
           \/ Leave /\ AtEnd
<1> SUFFICES ASSUME Leave, step + n > Len(Route[path])
             PROVE  AtEnd
  BY DEF Forward
<1>1. path \in Paths /\ step \in 0..Len(Route[path])
  BY RouteShape DEF LoopOK
<1> DEFINE last == Len(Route[path])
<1>2. /\ path = "none" => last = 0
      /\ path = "turn" => last = 2
      /\ path = "answer" => last = 10
      /\ path = "escape" => last = 8
      /\ path = "defer" => last = 5
      /\ path \in {"giveup", "drop", "recovered"} => last = 7
      /\ path = "reject" => last = 4
      /\ path = "tombstone" => last = 2
  BY DEF Route, AnswerRoute, EscapeRoute, DeferRoute, GiveUpRoute, DropRoute,
     RecoveredRoute, RejectRoute
<1>3. step \in Nat /\ last \in Nat /\ step <= last /\ step + n > last
  BY <1>1, RouteShape
<1>4. Table
  BY RouteTable
<1> HIDE DEF last
<1> QED BY <1>1, <1>2, <1>3, <1>4 DEF AtEnd, Paths, Table

(* The short ways end soon.                                                *)
LEMMA ShortWays ==
    ASSUME LoopOK
    PROVE  /\ path \in {"redrive", "requeue"} => step <= 1
           /\ path \in {"turn", "tombstone"} => step <= 2
           /\ path = "none" => step = 0
<1> DEFINE last == Len(Route[path])
<1>1. /\ path \in {"redrive", "requeue"} => last = 1
      /\ path \in {"turn", "tombstone"} => last = 2
      /\ path = "none" => last = 0
  BY DEF Route
<1>2. last \in Nat /\ step \in 0..last
  BY RouteShape DEF LoopOK
<1> HIDE DEF last
<1> QED BY <1>1, <1>2

-----------------------------------------------------------------------------
(* The budget of a crash loop.                                             *)

\* A redispatch that was charged is about to be queued or to start.
Starting == /\ step > 0
            /\ \/ path = "turn" /\ step = 1
               \/ path = "requeue"

\* Past these writes the message has no claim, and its starts are forgotten.
Settled == /\ step > 0
           /\ \/ path \in {"answer", "escape"} /\ step >= 8
              \/ path = "giveup" /\ step >= 5
              \/ path = "drop" /\ step >= 4
              \/ path = "recovered" /\ step >= 7
              \/ path = "defer" /\ step >= 4 /\ ~draining
              \/ path = "redrive"

\* The loop may pick this message before the next boot.
Due(m) == /\ m \in inbox
          /\ phase # "booting" /\ m \notin sweep
          /\ ~draining
          /\ ~(step > 0 /\ cur = m)

\* The sweep and the drain keep to their phases, and a tombstone is noted.
SweepIsOver ==
    /\ phase = "up" => sweep = {}
    /\ step > 0 /\ path = "reject" => draining
    /\ step = 2 /\ path = "tombstone" => cur \in lapsed

\* Starts are counted on a claim, and a turn that was lost is noted.
StartsAreClaimed ==
    /\ \A m \in Ids : /\ claim[m].state = "none" => starts[m] = 0
                      /\ claim[m].state = "tombstone" => m \in lapsed
    /\ Settled => starts[cur] = 0

\* Every start but the first is charged, and the charge comes first: what the
\* loop may start has a charge that no start has used.
StartsAreCharged ==
    \A m \in Ids \ lapsed :
        /\ starts[m] + claim[m].budget <= Budget + 1
        /\ Due(m) \/ (Starting /\ cur = m) =>
              starts[m] + claim[m].budget <= Budget

StartsRest == SweepIsOver /\ StartsAreClaimed /\ StartsAreCharged

StartsInv == AnswerInv /\ (everTaken = {} => StartsRest)

(* What the steps below need, when no follow-up was ever taken.            *)
LEMMA StartsFacts ==
    ASSUME AnswerInv, everTaken = {}
    PROVE  /\ Table /\ LoopOK
           /\ step > 0 => cur \in Ids /\ cur \in arrived
           /\ step \in Nat
           /\ path \in {"redrive", "requeue"} => step <= 1
           /\ path \in {"turn", "tombstone"} => step <= 2
           /\ path = "none" => step = 0
           /\ \A m \in Ids : /\ claim[m] \in Claims
                             /\ claim[m].inputs \subseteq {m}
                             /\ claim[m].budget \in 0..Budget
                             /\ claim[m].state # "none" => m \in arrived
                             /\ starts[m] \in Nat
                             /\ taken[m] = {}
           /\ inbox \subseteq arrived
           /\ claim \in [Ids -> Claims] /\ starts \in [Ids -> Nat]
           /\ Budget \in Nat
<1>1. TypeOK /\ Rest
  BY DEF AnswerInv
<1>2. step \in Nat
  BY <1>1, RouteShape DEF TypeOK, LoopOK
<1>3. \A m \in Ids : /\ claim[m] \in Claims
                     /\ claim[m].budget \in 0..Budget
  BY <1>1, ClaimShape DEF TypeOK
<1> QED BY <1>1, <1>2, <1>3, Facts, ShortWays, LifecycleAssumption
  DEF TypeOK, FilesOK, LogOK, Rest, AllArrived, InputsAreOwn

(* Steps that touch none of the variables the invariant speaks about.      *)
LEMMA FrameStarts ==
    ASSUME StartsRest,
           UNCHANGED <<inbox, claim, phase, draining, sweep, path, step, cur,
                       lapsed, starts>>
    PROVE  StartsRest'
BY DEF StartsRest, SweepIsOver, StartsAreClaimed, StartsAreCharged, Settled,
       Starting, Due

(* Steps that only walk on, past a write the invariant does not care       *)
(* about.                                                                  *)
LEMMA WalkStarts ==
    ASSUME AnswerInv, everTaken = {}, StartsRest,
           step > 0, NEW n \in {1, 2}, Forward(n), n = 2 => At("settle"),
           ~At("admit"), ~At("run"), ~At("requeue"), ~At("tombstone"),
           ~At("release"), ~At("unclaim"), inbox' \subseteq inbox \cup {cur},
           UNCHANGED <<claim, phase, draining, sweep, lapsed, starts>>
    PROVE  StartsRest'
<1> USE StartsFacts
<1>1. \/ path' = path /\ cur' = cur /\ step' = step + n
      \/ step' = 0 /\ path' = "none" /\ AtEnd
  BY WalkOn DEF Leave
<1>2. SweepIsOver'
  BY <1>1 DEF StartsRest, SweepIsOver, Table
<1>3. StartsAreClaimed'
  BY <1>1 DEF StartsRest, StartsAreClaimed, Settled, Table
<1>4. ASSUME NEW m \in Ids, m \notin lapsed, (Due(m) \/ (Starting /\ cur = m))'
      PROVE  starts[m] + claim[m].budget <= Budget
  <2>1. ~Starting'
    BY <1>1 DEF Starting, Table
  <2>2. CASE m = cur /\ step' = 0
    <3>1. Settled
      BY <1>1, <1>4, <2>1, <2>2
      DEF StartsRest, SweepIsOver, Settled, Due, AtEnd, Table, Paths
    <3> QED BY <2>2, <3>1 DEF StartsRest, StartsAreClaimed
  <2>3. CASE ~(m = cur /\ step' = 0)
    BY <1>1, <1>4, <2>1, <2>3 DEF StartsRest, StartsAreCharged, Due
  <2> QED BY <2>2, <2>3
<1>5. \A m \in Ids \ lapsed :
        starts[m] + claim[m].budget <= Budget + 1
  BY DEF StartsRest, StartsAreCharged
<1>6. StartsAreCharged'
  BY <1>4, <1>5 DEF StartsAreCharged, Due, Starting
<1> QED BY <1>2, <1>3, <1>6 DEF StartsRest

(* A new message has not started.                                          *)
LEMMA SendChatStarts ==
    ASSUME AnswerInv, everTaken = {}, StartsRest, NEW c \in Chats, SendChat(c)
    PROVE  StartsRest'
<1> USE StartsFacts
<1>a. c \in Ids /\ claim[c].state = "none"
  BY DEF SendChat, Ids
<1>0. c \in Ids /\ starts[c] = 0
  BY <1>a DEF StartsRest, StartsAreClaimed
<1>1. SweepIsOver'
  BY <1>0 DEF StartsRest, SweepIsOver, SendChat
<1>2. StartsAreClaimed'
  BY <1>0 DEF StartsRest, StartsAreClaimed, Settled, SendChat
<1>3. ASSUME NEW m \in Ids, m \notin lapsed'
      PROVE  /\ starts'[m] + claim'[m].budget <= Budget + 1
             /\ (Due(m) \/ (Starting /\ cur = m))' =>
                  starts'[m] + claim'[m].budget <= Budget
  BY <1>0, <1>3
  DEF StartsRest, SweepIsOver, StartsAreClaimed, StartsAreCharged, Settled,
      Starting, Due, SendChat
<1>4. StartsAreCharged'
  BY <1>3 DEF StartsAreCharged
<1> QED BY <1>1, <1>2, <1>4 DEF StartsRest

(* A new message has not started.                                          *)
LEMMA SendWorkStarts ==
    ASSUME AnswerInv, everTaken = {}, StartsRest, NEW w \in Works, SendWork(w)
    PROVE  StartsRest'
<1> USE StartsFacts
<1>a. w \in Ids /\ claim[w].state = "none"
  BY DEF SendWork, Ids
<1>0. w \in Ids /\ starts[w] = 0
  BY <1>a DEF StartsRest, StartsAreClaimed
<1>1. SweepIsOver'
  BY <1>0 DEF StartsRest, SweepIsOver, SendWork
<1>2. StartsAreClaimed'
  BY <1>0 DEF StartsRest, StartsAreClaimed, Settled, SendWork
<1>3. ASSUME NEW m \in Ids, m \notin lapsed'
      PROVE  /\ starts'[m] + claim'[m].budget <= Budget + 1
             /\ (Due(m) \/ (Starting /\ cur = m))' =>
                  starts'[m] + claim'[m].budget <= Budget
  BY <1>0, <1>3
  DEF StartsRest, SweepIsOver, StartsAreClaimed, StartsAreCharged, Settled,
      Starting, Due, SendWork
<1>4. StartsAreCharged'
  BY <1>3 DEF StartsAreCharged
<1> QED BY <1>1, <1>2, <1>4 DEF StartsRest

(* At boot every live claim is swept.                                      *)
LEMMA BootStarts ==
    ASSUME AnswerInv, everTaken = {}, StartsRest, Boot
    PROVE  StartsRest'
<1> USE StartsFacts
<1>a. \/ UNCHANGED loop
      \/ step' = 1 /\ path' = "redrive" /\ cur' \in Ids \ arrived
  BY DEF Boot, Redrive, CountRedrive, DropObligation, Enter, Ids
<1>0. \/ UNCHANGED loop
      \/ step' = 1 /\ path' = "redrive" /\ cur' \in Ids /\ starts[cur'] = 0
  BY <1>a DEF StartsRest, StartsAreClaimed
<1>1. SweepIsOver'
  BY <1>0
  DEF StartsRest, SweepIsOver, Boot, Orphaned, Live, Claims, ClaimStates
<1>2. StartsAreClaimed'
  BY <1>0
  DEF StartsRest, StartsAreClaimed, Settled, Boot, Orphaned, Live, Claims,
      ClaimStates
<1>3. ASSUME NEW m \in Ids, m \notin lapsed'
      PROVE  /\ starts'[m] + claim'[m].budget <= Budget + 1
             /\ (Due(m) \/ (Starting /\ cur = m))' =>
                  starts'[m] + claim'[m].budget <= Budget
  BY <1>0, <1>3
  DEF StartsRest, SweepIsOver, StartsAreClaimed, StartsAreCharged, Settled,
      Starting, Due, Boot, Orphaned, Live, Claims, ClaimStates
<1>4. StartsAreCharged'
  BY <1>3 DEF StartsAreCharged
<1> QED BY <1>1, <1>2, <1>4 DEF StartsRest

(* Only the message itself is queued again.                                *)
LEMMA RequeueStarts ==
    ASSUME AnswerInv, everTaken = {}, StartsRest, Requeue
    PROVE  StartsRest'
<1> USE StartsFacts
<1>1. SweepIsOver'
  BY DEF StartsRest, SweepIsOver, Requeue, Table
<1>2. StartsAreClaimed'
  BY DEF StartsRest, StartsAreClaimed, Settled, Requeue, Table
<1>3. ASSUME NEW m \in Ids, m \notin lapsed'
      PROVE  /\ starts'[m] + claim'[m].budget <= Budget + 1
             /\ (Due(m) \/ (Starting /\ cur = m))' =>
                  starts'[m] + claim'[m].budget <= Budget
  BY <1>3
  DEF StartsRest, SweepIsOver, StartsAreClaimed, StartsAreCharged, Settled,
      Starting, Due, Requeue, Table
<1>4. StartsAreCharged'
  BY <1>3 DEF StartsAreCharged
<1> QED BY <1>1, <1>2, <1>4 DEF StartsRest

(* A queued redispatch is charged.                                         *)
LEMMA MarkQueuedStarts ==
    ASSUME AnswerInv, everTaken = {}, StartsRest, MarkQueued
    PROVE  StartsRest'
<1> USE StartsFacts
<1>1. SweepIsOver'
  BY WalkOn
  DEF StartsRest, SweepIsOver, MarkQueued, Claims, Leave, AtEnd, Table
<1>2. StartsAreClaimed'
  BY WalkOn
  DEF StartsRest, StartsAreClaimed, Settled, MarkQueued, Claims, Leave, AtEnd,
      Table
<1>3. ASSUME NEW m \in Ids, m \notin lapsed'
      PROVE  /\ starts'[m] + claim'[m].budget <= Budget + 1
             /\ (Due(m) \/ (Starting /\ cur = m))' =>
                  starts'[m] + claim'[m].budget <= Budget
  BY WalkOn, <1>3
  DEF StartsRest, SweepIsOver, StartsAreClaimed, StartsAreCharged, Settled,
      Starting, Due, MarkQueued, Claims, Leave, AtEnd, Table
<1>4. StartsAreCharged'
  BY <1>3 DEF StartsAreCharged
<1> QED BY <1>1, <1>2, <1>4 DEF StartsRest

(* A refund is given for a message that is not queued.                     *)
LEMMA RefundStarts ==
    ASSUME AnswerInv, everTaken = {}, StartsRest, Refund
    PROVE  StartsRest'
<1> USE StartsFacts
<1>a. path = "requeue" /\ step = 1 /\ cur \notin inbox
  BY DEF Refund, Table
<1>b. Len(Route[path]) = 1
  BY <1>a DEF Route
<1>0. path = "requeue" /\ step = 1 /\ cur \notin inbox /\ step' = 0
  BY <1>a, <1>b DEF Refund, Forward, Leave
<1>1. SweepIsOver'
  BY <1>0 DEF StartsRest, SweepIsOver, Refund, Claims, Leave, Table
<1>2. StartsAreClaimed'
  BY <1>0
  DEF StartsRest, StartsAreClaimed, Settled, Refund, Claims, Leave, Table
<1>3. ASSUME NEW m \in Ids, m \notin lapsed'
      PROVE  /\ starts'[m] + claim'[m].budget <= Budget + 1
             /\ (Due(m) \/ (Starting /\ cur = m))' =>
                  starts'[m] + claim'[m].budget <= Budget
  BY <1>0, <1>3
  DEF StartsRest, SweepIsOver, StartsAreClaimed, StartsAreCharged, Settled,
      Starting, Due, Refund, Claims, Leave, Table
<1>4. StartsAreCharged'
  BY <1>3 DEF StartsAreCharged
<1> QED BY <1>1, <1>2, <1>4 DEF StartsRest

(* A tombstone is noted.                                                   *)
LEMMA TombstoneStarts ==
    ASSUME AnswerInv, everTaken = {}, StartsRest, Tombstone
    PROVE  StartsRest'
<1> USE StartsFacts
<1>1. SweepIsOver'
  BY WalkOn
  DEF StartsRest, SweepIsOver, Tombstone, Claims, Leave, AtEnd, Table
<1>2. StartsAreClaimed'
  BY WalkOn
  DEF StartsRest, StartsAreClaimed, Settled, Tombstone, Claims, Leave, AtEnd,
      Table
<1>3. ASSUME NEW m \in Ids, m \notin lapsed'
      PROVE  /\ starts'[m] + claim'[m].budget <= Budget + 1
             /\ (Due(m) \/ (Starting /\ cur = m))' =>
                  starts'[m] + claim'[m].budget <= Budget
  BY WalkOn, <1>3
  DEF StartsRest, SweepIsOver, StartsAreClaimed, StartsAreCharged, Settled,
      Starting, Due, Tombstone, Claims, Leave, AtEnd, Table
<1>4. StartsAreCharged'
  BY <1>3 DEF StartsAreCharged
<1> QED BY <1>1, <1>2, <1>4 DEF StartsRest

(* A buried message is not due.                                            *)
LEMMA BuryStarts ==
    ASSUME AnswerInv, everTaken = {}, StartsRest, Bury
    PROVE  StartsRest'
<1> USE StartsFacts
<1>1. SweepIsOver'
  BY WalkOn DEF StartsRest, SweepIsOver, Bury, Leave, AtEnd, Table
<1>2. StartsAreClaimed'
  BY WalkOn
  DEF StartsRest, StartsAreClaimed, Settled, Bury, Leave, AtEnd, Table
<1>3. ASSUME NEW m \in Ids, m \notin lapsed'
      PROVE  /\ starts'[m] + claim'[m].budget <= Budget + 1
             /\ (Due(m) \/ (Starting /\ cur = m))' =>
                  starts'[m] + claim'[m].budget <= Budget
  BY WalkOn, <1>3
  DEF StartsRest, SweepIsOver, StartsAreClaimed, StartsAreCharged, Settled,
      Starting, Due, Bury, Leave, AtEnd, Table
<1>4. StartsAreCharged'
  BY <1>3 DEF StartsAreCharged
<1> QED BY <1>1, <1>2, <1>4 DEF StartsRest

(* The loop begins when the sweep is over.                                 *)
LEMMA SweepDoneStarts ==
    ASSUME AnswerInv, everTaken = {}, StartsRest, SweepDone
    PROVE  StartsRest'
<1> USE StartsFacts
<1>1. SweepIsOver'
  BY DEF StartsRest, SweepIsOver, SweepDone
<1>2. StartsAreClaimed'
  BY DEF StartsRest, StartsAreClaimed, Settled, SweepDone
<1>3. ASSUME NEW m \in Ids, m \notin lapsed'
      PROVE  /\ starts'[m] + claim'[m].budget <= Budget + 1
             /\ (Due(m) \/ (Starting /\ cur = m))' =>
                  starts'[m] + claim'[m].budget <= Budget
  BY <1>3
  DEF StartsRest, SweepIsOver, StartsAreClaimed, StartsAreCharged, Settled,
      Starting, Due, SweepDone
<1>4. StartsAreCharged'
  BY <1>3 DEF StartsAreCharged
<1> QED BY <1>1, <1>2, <1>4 DEF StartsRest

(* A redispatch is charged before it is queued.                            *)
LEMMA SweepClaimStarts ==
    ASSUME AnswerInv, everTaken = {}, StartsRest, NEW k \in Ids, SweepClaim(k)
    PROVE  StartsRest'
<1> USE StartsFacts
<1>1. SweepIsOver'
  BY DEF StartsRest, SweepIsOver, SweepClaim, Claims, Exhausted, Enter
<1>2. StartsAreClaimed'
  BY DEF StartsRest, StartsAreClaimed, Settled, SweepClaim, Claims, Exhausted,
     Enter
<1>3. ASSUME NEW m \in Ids, m \notin lapsed'
      PROVE  /\ starts'[m] + claim'[m].budget <= Budget + 1
             /\ (Due(m) \/ (Starting /\ cur = m))' =>
                  starts'[m] + claim'[m].budget <= Budget
  BY <1>3
  DEF StartsRest, SweepIsOver, StartsAreClaimed, StartsAreCharged, Settled,
      Starting, Due, SweepClaim, Claims, Exhausted, Enter
<1>4. StartsAreCharged'
  BY <1>3 DEF StartsAreCharged
<1> QED BY <1>1, <1>2, <1>4 DEF StartsRest

(* A released message forgets its starts.                                  *)
LEMMA ReleaseStarts ==
    ASSUME AnswerInv, everTaken = {}, StartsRest, Release
    PROVE  StartsRest'
<1> USE StartsFacts
<1>1. SweepIsOver'
  BY WalkOn DEF StartsRest, SweepIsOver, Release, Leave, AtEnd, NoClaim, Table
<1>2. StartsAreClaimed'
  BY WalkOn
  DEF StartsRest, StartsAreClaimed, Settled, Release, Leave, AtEnd, NoClaim,
      Table
<1>3. ASSUME NEW m \in Ids, m \notin lapsed'
      PROVE  /\ starts'[m] + claim'[m].budget <= Budget + 1
             /\ (Due(m) \/ (Starting /\ cur = m))' =>
                  starts'[m] + claim'[m].budget <= Budget
  BY WalkOn, <1>3
  DEF StartsRest, SweepIsOver, StartsAreClaimed, StartsAreCharged, Settled,
      Starting, Due, Release, Leave, AtEnd, NoClaim, Table
<1>4. StartsAreCharged'
  BY <1>3 DEF StartsAreCharged
<1> QED BY <1>1, <1>2, <1>4 DEF StartsRest

(* A prompt is a new message.                                              *)
LEMMA CheckObligationsStarts ==
    ASSUME AnswerInv, everTaken = {}, StartsRest, CheckObligations
    PROVE  StartsRest'
<1> USE StartsFacts
<1>a. \/ UNCHANGED loop
      \/ step' = 1 /\ path' = "redrive" /\ cur' \in Ids \ arrived
  BY DEF CheckObligations, Redrive, CountRedrive, DropObligation, Enter, Ids
<1>0. \/ UNCHANGED loop
      \/ step' = 1 /\ path' = "redrive" /\ cur' \in Ids /\ starts[cur'] = 0
  BY <1>a DEF StartsRest, StartsAreClaimed
<1>1. SweepIsOver'
  BY <1>0 DEF StartsRest, SweepIsOver, CheckObligations, Idle
<1>2. StartsAreClaimed'
  BY <1>0 DEF StartsRest, StartsAreClaimed, Settled, CheckObligations, Idle
<1>3. ASSUME NEW m \in Ids, m \notin lapsed'
      PROVE  /\ starts'[m] + claim'[m].budget <= Budget + 1
             /\ (Due(m) \/ (Starting /\ cur = m))' =>
                  starts'[m] + claim'[m].budget <= Budget
  BY <1>0, <1>3
  DEF StartsRest, SweepIsOver, StartsAreClaimed, StartsAreCharged, Settled,
      Starting, Due, CheckObligations, Idle
<1>4. StartsAreCharged'
  BY <1>3 DEF StartsAreCharged
<1> QED BY <1>1, <1>2, <1>4 DEF StartsRest

(* A start uses the charge that was made for it.                           *)
LEMMA AdmitStarts ==
    ASSUME AnswerInv, everTaken = {}, StartsRest, Admit
    PROVE  StartsRest'
<1> USE StartsFacts
<1>0. path = "turn" /\ step = 1 /\ path' = path /\ step' = 2 /\ cur' = cur
  BY WalkOn DEF Admit, Table, Leave, AtEnd
<1>1. SweepIsOver'
  BY <1>0 DEF StartsRest, SweepIsOver, Admit, AdmittedClaim
<1>2. StartsAreClaimed'
  BY <1>0 DEF StartsRest, StartsAreClaimed, Settled, Admit, AdmittedClaim
<1>3. ASSUME NEW m \in Ids, m \notin lapsed'
      PROVE  /\ starts'[m] + claim'[m].budget <= Budget + 1
             /\ (Due(m) \/ (Starting /\ cur = m))' =>
                  starts'[m] + claim'[m].budget <= Budget
  BY <1>0, <1>3
  DEF StartsRest, SweepIsOver, StartsAreClaimed, StartsAreCharged, Settled,
      Starting, Due, Admit, AdmittedClaim
<1>4. StartsAreCharged'
  BY <1>3 DEF StartsAreCharged
<1> QED BY <1>1, <1>2, <1>4 DEF StartsRest

(* Only a draining process rejects.                                        *)
LEMMA RejectArrivalStarts ==
    ASSUME AnswerInv, everTaken = {}, StartsRest, RejectArrival
    PROVE  StartsRest'
<1> USE StartsFacts
<1>1. SweepIsOver'
  BY DEF StartsRest, SweepIsOver, RejectArrival, Enter, Idle
<1>2. StartsAreClaimed'
  BY DEF StartsRest, StartsAreClaimed, Settled, RejectArrival, Enter, Idle
<1>3. ASSUME NEW m \in Ids, m \notin lapsed'
      PROVE  /\ starts'[m] + claim'[m].budget <= Budget + 1
             /\ (Due(m) \/ (Starting /\ cur = m))' =>
                  starts'[m] + claim'[m].budget <= Budget
  BY <1>3
  DEF StartsRest, SweepIsOver, StartsAreClaimed, StartsAreCharged, Settled,
      Starting, Due, RejectArrival, Enter, Idle
<1>4. StartsAreCharged'
  BY <1>3 DEF StartsAreCharged
<1> QED BY <1>1, <1>2, <1>4 DEF StartsRest

(* The loop picks what is due.                                             *)
LEMMA PickStarts ==
    ASSUME AnswerInv, everTaken = {}, StartsRest, NEW k \in Ids, Pick(k)
    PROVE  StartsRest'
<1> USE StartsFacts
<1>1. SweepIsOver'
  BY DEF StartsRest, SweepIsOver, Pick, NextTask, Verdict, Enter, Idle
<1>2. StartsAreClaimed'
  BY DEF StartsRest, StartsAreClaimed, Settled, Pick, NextTask, Verdict,
     Enter, Idle
<1>3. ASSUME NEW m \in Ids, m \notin lapsed'
      PROVE  /\ starts'[m] + claim'[m].budget <= Budget + 1
             /\ (Due(m) \/ (Starting /\ cur = m))' =>
                  starts'[m] + claim'[m].budget <= Budget
  BY <1>3
  DEF StartsRest, SweepIsOver, StartsAreClaimed, StartsAreCharged, Settled,
      Starting, Due, Pick, NextTask, Verdict, Enter, Idle
<1>4. StartsAreCharged'
  BY <1>3 DEF StartsAreCharged
<1> QED BY <1>1, <1>2, <1>4 DEF StartsRest

(* The end of a run charges nothing.                                       *)
LEMMA FinishStarts ==
    ASSUME AnswerInv, everTaken = {}, StartsRest, NEW i \in BOOLEAN, Finish(i)
    PROVE  StartsRest'
<1> USE StartsFacts
<1>1. SweepIsOver'
  BY DEF StartsRest, SweepIsOver, Finish, Enter, Table
<1>2. StartsAreClaimed'
  BY DEF StartsRest, StartsAreClaimed, Settled, Finish, Enter, Table
<1>3. ASSUME NEW m \in Ids, m \notin lapsed'
      PROVE  /\ starts'[m] + claim'[m].budget <= Budget + 1
             /\ (Due(m) \/ (Starting /\ cur = m))' =>
                  starts'[m] + claim'[m].budget <= Budget
  BY <1>3
  DEF StartsRest, SweepIsOver, StartsAreClaimed, StartsAreCharged, Settled,
      Starting, Due, Finish, Enter, Table
<1>4. StartsAreCharged'
  BY <1>3 DEF StartsAreCharged
<1> QED BY <1>1, <1>2, <1>4 DEF StartsRest

(* A run that is given up charges nothing.                                 *)
LEMMA EscapeStarts ==
    ASSUME AnswerInv, everTaken = {}, StartsRest, Escape
    PROVE  StartsRest'
<1> USE StartsFacts
<1>1. SweepIsOver'
  BY DEF StartsRest, SweepIsOver, Escape, Enter, Table
<1>2. StartsAreClaimed'
  BY DEF StartsRest, StartsAreClaimed, Settled, Escape, Enter, Table
<1>3. ASSUME NEW m \in Ids, m \notin lapsed'
      PROVE  /\ starts'[m] + claim'[m].budget <= Budget + 1
             /\ (Due(m) \/ (Starting /\ cur = m))' =>
                  starts'[m] + claim'[m].budget <= Budget
  BY <1>3
  DEF StartsRest, SweepIsOver, StartsAreClaimed, StartsAreCharged, Settled,
      Starting, Due, Escape, Enter, Table
<1>4. StartsAreCharged'
  BY <1>3 DEF StartsAreCharged
<1> QED BY <1>1, <1>2, <1>4 DEF StartsRest

(* A shutdown charges nothing.                                             *)
LEMMA BeginDrainStarts ==
    ASSUME AnswerInv, everTaken = {}, StartsRest, BeginDrain
    PROVE  StartsRest'
<1> USE StartsFacts
<1>1. SweepIsOver'
  BY DEF StartsRest, SweepIsOver, BeginDrain, Stamped
<1>2. StartsAreClaimed'
  BY DEF StartsRest, StartsAreClaimed, Settled, BeginDrain, Stamped
<1>3. ASSUME NEW m \in Ids, m \notin lapsed'
      PROVE  /\ starts'[m] + claim'[m].budget <= Budget + 1
             /\ (Due(m) \/ (Starting /\ cur = m))' =>
                  starts'[m] + claim'[m].budget <= Budget
  BY <1>3
  DEF StartsRest, SweepIsOver, StartsAreClaimed, StartsAreCharged, Settled,
      Starting, Due, BeginDrain, Stamped
<1>4. StartsAreCharged'
  BY <1>3 DEF StartsAreCharged
<1> QED BY <1>1, <1>2, <1>4 DEF StartsRest

(* After a death nothing is due.                                           *)
LEMMA DieStarts ==
    ASSUME AnswerInv, everTaken = {}, StartsRest, Die,
           claim' \in {claim, Stamped}
    PROVE  StartsRest'
<1> USE StartsFacts
<1>1. SweepIsOver'
  BY DEF StartsRest, SweepIsOver, Die, Leave, Stamped, Claims
<1>2. StartsAreClaimed'
  BY DEF StartsRest, StartsAreClaimed, Settled, Die, Leave, Stamped, Claims
<1>3. ASSUME NEW m \in Ids, m \notin lapsed'
      PROVE  /\ starts'[m] + claim'[m].budget <= Budget + 1
             /\ (Due(m) \/ (Starting /\ cur = m))' =>
                  starts'[m] + claim'[m].budget <= Budget
  BY <1>3
  DEF StartsRest, SweepIsOver, StartsAreClaimed, StartsAreCharged, Settled,
      Starting, Due, Die, Leave, Stamped, Claims
<1>4. StartsAreCharged'
  BY <1>3 DEF StartsAreCharged
<1> QED BY <1>1, <1>2, <1>4 DEF StartsRest

(* The invariant holds initially.                                          *)
LEMMA StartsInvInit ==
    ASSUME Init
    PROVE  StartsInv
<1>1. AnswerInv
  BY AnswerInvInit
<1>2. StartsRest
  BY LifecycleAssumption
  DEF Init, NoClaim, StartsRest, SweepIsOver, StartsAreClaimed,
      StartsAreCharged, Settled, Starting, Due
<1> QED BY <1>1, <1>2 DEF StartsInv

(* The invariant is inductive.                                             *)
LEMMA StartsInvStep ==
    ASSUME StartsInv, [Next]_vars
    PROVE  StartsInv'
<1>1. AnswerInv /\ AnswerInv'
  BY AnswerInvStep DEF StartsInv
<1> SUFFICES ASSUME everTaken' = {}
             PROVE  StartsRest'
  BY <1>1 DEF StartsInv
<1>2. ASSUME NEW r \in Ids, NEW c \in Chats, TakeSteer(r, c)
      PROVE  FALSE
  BY <1>2 DEF TakeSteer
<1>3. everTaken = {}
  BY <1>2 DEF Next, Harness, Recover, WayOut, MainLoop, Worker, SendChat,
     RecordSend, SendWork, Boot, Requeue, MarkQueued, Refund, Tombstone, Bury,
     SweepDone, SweepClaim, LedgerWrite, Reply, Notice, Archive, SetAttempt,
     Release, SettleRead, SettleWrite, CheckObligations, SendPrompt, Admit,
     RejectArrival, EndDrain, Pick, Finish, RecordSteer, LateSettle, Trip,
     Escape, BeginDrain, Crash, Die, vars
<1>4. StartsRest /\ Table /\ LoopOK
  BY <1>1, <1>3, StartsFacts DEF StartsInv
<1> USE <1>1, <1>3, <1>4
<1>5. CASE Harness
  <2>1. ASSUME NEW c \in Chats, RecordSend(c)
        PROVE  StartsRest'
    BY <2>1, FrameStarts DEF RecordSend
  <2> QED BY <1>5, <2>1, SendChatStarts, SendWorkStarts DEF Harness
<1>6. CASE Recover
  BY <1>6, BootStarts, RequeueStarts, MarkQueuedStarts, RefundStarts,
     TombstoneStarts, BuryStarts, SweepDoneStarts, SweepClaimStarts
  DEF Recover
<1>7. CASE WayOut
  <2>1. CASE LedgerWrite \/ Reply \/ Notice \/ SetAttempt \/ SettleWrite
             \/ Archive
    <3>1. Forward(1) /\ step > 0 /\ inbox' \subseteq inbox \cup {cur}
      BY <2>1 DEF LedgerWrite, Reply, Notice, SetAttempt, SettleWrite,
         Archive, At
    <3>2. UNCHANGED <<claim, phase, draining, sweep, lapsed, starts>>
      BY <2>1 DEF LedgerWrite, Reply, Notice, SetAttempt, SettleWrite, Archive
    <3>3. /\ ~At("admit") /\ ~At("run") /\ ~At("requeue")
          /\ ~At("tombstone") /\ ~At("release") /\ ~At("unclaim")
      BY <2>1 DEF LedgerWrite, Reply, Notice, SetAttempt, SettleWrite,
         Archive, At
    <3> QED BY <3>1, <3>2, <3>3, WalkStarts
  <2>2. CASE SettleRead
    <3>1. /\ Forward(1) \/ Forward(2)
          /\ At("settle") /\ step > 0
          /\ UNCHANGED <<inbox, claim, phase, draining, sweep, lapsed, starts>>
      BY <2>2 DEF SettleRead, At
    <3>2. /\ ~At("admit") /\ ~At("run") /\ ~At("requeue")
          /\ ~At("tombstone") /\ ~At("release") /\ ~At("unclaim")
      BY <3>1 DEF At
    <3> QED BY <3>1, <3>2, WalkStarts
  <2> QED BY <1>7, <2>1, <2>2, ReleaseStarts DEF WayOut
<1>8. CASE MainLoop
  <2>1. CASE SendPrompt
    <3>1. /\ Forward(1) /\ step > 0 /\ inbox' \subseteq inbox \cup {cur}
          /\ UNCHANGED <<claim, phase, draining, sweep, lapsed, starts>>
          /\ ~At("admit") /\ ~At("run") /\ ~At("requeue")
          /\ ~At("tombstone") /\ ~At("release") /\ ~At("unclaim")
      BY <2>1 DEF SendPrompt, At
    <3> QED BY <3>1, WalkStarts
  <2>2. EndDrain => StartsRest'
    BY DieStarts DEF EndDrain
  <2> QED BY <1>8, <2>1, <2>2, CheckObligationsStarts, AdmitStarts,
          RejectArrivalStarts, PickStarts
      DEF MainLoop
<1>9. CASE Worker
  <2>1. ASSUME NEW r \in Ids, LateSettle(r)
        PROVE  StartsRest'
    BY <2>1, FrameStarts DEF LateSettle
  <2>2. ASSUME NEW r \in Ids, RecordSteer(r)
        PROVE  FALSE
    BY <2>2, StartsFacts DEF RecordSteer
  <2> QED BY <1>2, <1>9, <2>1, <2>2, FinishStarts DEF Worker
<1>10. CASE Trip \/ Escape \/ BeginDrain \/ Crash
  <2>1. Trip => StartsRest'
    BY FrameStarts DEF Trip
  <2>2. Crash => StartsRest'
    BY DieStarts DEF Crash
  <2> QED BY <1>10, <2>1, <2>2, EscapeStarts, BeginDrainStarts
<1>11. CASE UNCHANGED vars
  BY <1>11, FrameStarts DEF vars
<1> QED BY <1>5, <1>6, <1>7, <1>8, <1>9, <1>10, <1>11 DEF Next

(* As long as no follow-up was taken into a live turn, a message is never  *)
(* started more often than its budget allows, wherever the crashes and     *)
(* shutdowns fall: the charge is written before the redispatch is queued,  *)
(* and given back only for a message that is not in the queue.             *)
THEOREM CrashLoopIsBounded == Spec => [](everTaken = {} => StartsWithinBudget)
<1>1. StartsInv /\ everTaken = {} => StartsWithinBudget
  BY DEF StartsInv, StartsRest, StartsAreCharged, StartsWithinBudget
<1> QED BY <1>1, StartsInvInit, StartsInvStep, PTL DEF Spec

-----------------------------------------------------------------------------
(* What brings an open chat back.                                          *)

\* No run was abandoned, or no follow-up ever left the inbox for a run.
Clear == escapes = 0 \/ everTaken = {}

\* The row says that an answer went out, or may have.
MayBeOut == {"inflight", "sent"}

\* What a run popped, or may still pop, is forgotten with the run.
RunsKeep ==
    /\ escapes = 0 => zombies = {}
    /\ \A r \in Ids :
          since[r] # {} \/ taken[r] # {} =>
              r \in zombies \/ (path = "turn" /\ step = 2 /\ cur = r)

\* A claim lists its own message, and no claim lists nothing.
ClaimsList ==
    \A m \in Ids : IF claim[m].state = "none" THEN claim[m].inputs = {}
                                              ELSE m \in claim[m].inputs

\* No turn was ever started for c: no claim lists it and nothing joined it.
Unheard(c) == /\ \A m \in Ids : c \notin claim[m].inputs
              /\ \A d \in Chats : joined[d] # c

\* A follow-up that is taken has had no turn of its own.
SteersAreFresh ==
    /\ escapes = 0 => \A r \in Ids : \A c \in since[r] \cap inbox : Unheard(c)
    /\ \A r \in Ids : \A c \in taken[r] : Unheard(c) /\ c \notin inbox

\* A claim lists, besides its own message, what joined its turn.
JoinedOnce ==
    /\ \A c \in Chats :
          joined[c] # NoMsg => joined[c] \in arrived /\ c \in everTaken
    /\ \A m \in Ids : \A c \in claim[m].inputs \ {m} : joined[c] = m

\* The claims are swept before the loop begins, and those found are there.
BootIsOrdered ==
    /\ phase = "booting" => step = 0
    /\ phase # "up" /\ step > 0 => path \in {"redrive", "requeue", "tombstone"}
    /\ phase = "up" => sweep = {}
    /\ \A m \in sweep : claim[m].state # "none"
    /\ step > 0 /\ path \in {"requeue", "tombstone"} => claim[cur].state # "none"

\* What stands by the message on the first steps of a way out.
OnTheWay ==
    step > 0 =>
        /\ path \in {"turn", "defer"} => cur \in inbox
        /\ path = "turn" /\ step = 2 => Live(cur)
        /\ path \in {"answer", "escape"} /\ step <= 2 => Live(cur)
        /\ path = "recovered" /\ step = 1 => row[cur] \in MayBeOut
        /\ path \in {"turn", "defer", "giveup"} => row[cur] \notin MayBeOut
        /\ path = "drop" /\ step > 1 => cur \notin inbox

\* Past these writes the user was told.
Told == /\ step > 0
        /\ \/ path \in {"answer", "escape"} /\ step > 3
           \/ path = "giveup" /\ step > 1
           \/ path = "drop" /\ step > 4
           \/ path = "recovered" /\ step > 3
           \/ path = "reject" /\ step > 2

ToldIsClosed == Told => \A c \in Hosted(cur) : outcome[c] # "open"

\* Closed, or remembered by nothing but the obligation.
Lost(c) == c \notin arrived \/ c \in exposed \/ outcome[c] # "open"

\* A message whose answer may be out keeps its claim until its chats are
\* closed, but for the message that is being dropped.
RowsKeep ==
    \A m \in Ids :
        /\ row[m] # "none" => m \in arrived
        /\ row[m] \in MayBeOut /\ ~Live(m) =>
              \A c \in Hosted(m) :
                  Lost(c) \/ (step = 4 /\ path = "drop" /\ cur = m)

\* A lost turn leaves the queue after its chats were given up.
BuriedAreExposed ==
    step = 2 /\ path = "tombstone" =>
        \A m \in {cur} \cup claim[cur].inputs : Hosted(m) \subseteq exposed

\* The file of m or its claim is there.
Kept(m) == m \in inbox \/ Live(m)

\* c is kept, popped, folded into what is kept, or about to be announced.
Carried(c) ==
    \/ Kept(c)
    \/ \E m \in Ids : c \in taken[m]
    \/ joined[c] # NoMsg /\ Kept(joined[c])
    \/ step > 0 /\ path \in {"drop", "reject"} /\ c \in Hosted(cur)

AllCarried == \A c \in Chats : Lost(c) \/ Carried(c)

SteersKeep == RunsKeep /\ ClaimsList /\ SteersAreFresh /\ JoinedOnce

CarryRest == /\ SteersKeep
             /\ BootIsOrdered
             /\ OnTheWay
             /\ ToldIsClosed
             /\ RowsKeep
             /\ BuriedAreExposed
             /\ AllCarried

CarryInv == AnswerInv /\ (Clear => CarryRest)

(* What the steps below need of the types and of the order of arrival.     *)
LEMMA CarryFacts ==
    ASSUME AnswerInv
    PROVE  /\ Table /\ LoopOK
           /\ step > 0 => cur \in Ids /\ cur \in arrived
           /\ step = 0 => cur = NoMsg
           /\ step \in Nat
           /\ path \in {"redrive", "requeue"} => step <= 1
           /\ path \in {"turn", "tombstone"} => step <= 2
           /\ path = "none" => step = 0
           /\ \A m \in Ids : /\ claim[m] \in Claims
                             /\ claim[m].state \in ClaimStates
                             /\ claim[m].inputs \subseteq {m} \cup everTaken
                             /\ claim[m].state # "none" => m \in arrived
                             /\ taken[m] \subseteq everTaken
           /\ inbox \subseteq arrived /\ arrived \subseteq Ids
           /\ everTaken \subseteq Chats /\ everTaken \subseteq arrived
           /\ claim \in [Ids -> Claims] /\ row \in [Ids -> RowStates]
           /\ since \in [Ids -> SUBSET Chats]
           /\ taken \in [Ids -> SUBSET Chats]
           /\ joined \in [Chats -> Ids \cup {NoMsg}]
           /\ outcome \in [Chats -> {"open", "told", "dropped", "lost"}]
           /\ Chats \subseteq Ids /\ NoMsg \notin Ids
           /\ phase \in {"booting", "sweeping", "up"}
           /\ escapes \in Nat /\ sweep \subseteq Ids
<1>1. TypeOK /\ Rest
  BY DEF AnswerInv
<1>2. step \in Nat /\ (step = 0 => cur = NoMsg)
  BY <1>1, RouteShape DEF TypeOK, LoopOK
<1>3. \A m \in Ids : claim[m] \in Claims /\ claim[m].state \in ClaimStates
  BY <1>1, ClaimShape DEF TypeOK
<1>4. Chats \subseteq Ids /\ NoMsg \notin Ids
  BY LifecycleAssumption DEF Ids
<1> QED BY <1>1, <1>2, <1>3, <1>4, Facts, ShortWays
  DEF TypeOK, FilesOK, LogOK, ProcessOK, Rest, AllArrived, InputsAreOwn

(* When no turn runs, nothing is popped, and nothing may be.               *)
LEMMA NoRun ==
    ASSUME AnswerInv, Clear, CarryRest, ~(path = "turn" /\ step = 2)
    PROVE  \A r \in Ids : taken[r] = {} /\ (escapes = 0 => since[r] = {})
BY CarryFacts DEF Clear, CarryRest, SteersKeep, RunsKeep

(* Steps that touch none of the variables the invariant speaks about.      *)
LEMMA FrameCarries ==
    ASSUME AnswerInv, CarryRest,
           UNCHANGED <<inbox, claim, row, phase, sweep, path, step, cur,
                       zombies, since, taken, arrived, outcome, joined,
                       everTaken, exposed, escapes>>
    PROVE  CarryRest'
<1> USE CarryFacts
<1>1. RunsKeep'
  BY DEF CarryRest, SteersKeep, RunsKeep
<1>2. ClaimsList'
  BY DEF CarryRest, SteersKeep, ClaimsList
<1>3. SteersAreFresh'
  BY DEF CarryRest, SteersKeep, SteersAreFresh, Unheard
<1>4. JoinedOnce'
  BY DEF CarryRest, SteersKeep, JoinedOnce
<1>5. BootIsOrdered'
  BY DEF CarryRest, BootIsOrdered
<1>6. OnTheWay'
  BY DEF CarryRest, OnTheWay, Live, MayBeOut
<1>7. ToldIsClosed'
  BY DEF CarryRest, ToldIsClosed, Told, Hosted
<1>8. RowsKeep'
  BY DEF CarryRest, RowsKeep, Hosted, Lost, Live, MayBeOut
<1>9. BuriedAreExposed'
  BY DEF CarryRest, BuriedAreExposed, Hosted
<1>10. AllCarried'
  BY DEF CarryRest, AllCarried, Carried, Kept, Hosted, Lost, Live
<1> QED
  BY <1>1, <1>2, <1>3, <1>4, <1>5, <1>6, <1>7, <1>8, <1>9, <1>10
  DEF CarryRest, SteersKeep

(* A new chat is in the inbox.                                             *)
LEMMA SendChatCarries ==
    ASSUME AnswerInv, CarryRest, NEW k \in Chats, SendChat(k)
    PROVE  CarryRest'
<1> USE CarryFacts
<1>1. RunsKeep'
  BY DEF CarryRest, SteersKeep, RunsKeep, Table, SendChat, Running
<1>2. ClaimsList'
  BY DEF CarryRest, SteersKeep, ClaimsList, SendChat, Running
<1>3. SteersAreFresh'
  BY DEF CarryRest, SteersKeep, RunsKeep, ClaimsList, JoinedOnce,
     SteersAreFresh, Unheard, SendChat, Running
<1>4. JoinedOnce'
  BY DEF CarryRest, SteersKeep, JoinedOnce, SendChat, Running
<1>5. BootIsOrdered'
  BY DEF CarryRest, BootIsOrdered, SendChat, Running
<1>6. OnTheWay'
  BY DEF CarryRest, OnTheWay, Live, MayBeOut, SendChat, Running
<1>7. ToldIsClosed'
  BY DEF CarryRest, ToldIsClosed, Told, Hosted, SendChat, Running
<1>8. RowsKeep'
  BY DEF CarryRest, SteersKeep, JoinedOnce, OnTheWay, RowsKeep, ToldIsClosed,
     Told, Hosted, Lost, Live, MayBeOut, SendChat, Running
<1>9. BuriedAreExposed'
  BY DEF CarryRest, BuriedAreExposed, Hosted, SendChat, Running
<1>10. AllCarried'
  BY DEF CarryRest, AllCarried, Carried, Kept, Hosted, Lost, Live, SendChat,
     Running
<1> QED
  BY <1>1, <1>2, <1>3, <1>4, <1>5, <1>6, <1>7, <1>8, <1>9, <1>10
  DEF CarryRest, SteersKeep

(* A new message of another lane joins nothing.                            *)
LEMMA SendWorkCarries ==
    ASSUME AnswerInv, CarryRest, NEW k \in Works, SendWork(k)
    PROVE  CarryRest'
<1> USE CarryFacts
<1>0. k \in Ids /\ k \notin Chats
  BY LifecycleAssumption DEF Ids
<1>1. RunsKeep'
  BY <1>0 DEF CarryRest, SteersKeep, RunsKeep, SendWork
<1>2. ClaimsList'
  BY <1>0 DEF CarryRest, SteersKeep, ClaimsList, SendWork
<1>3. SteersAreFresh'
  BY <1>0 DEF CarryRest, SteersKeep, SteersAreFresh, Unheard, SendWork
<1>4. JoinedOnce'
  BY <1>0 DEF CarryRest, SteersKeep, JoinedOnce, SendWork
<1>5. BootIsOrdered'
  BY <1>0 DEF CarryRest, BootIsOrdered, SendWork
<1>6. OnTheWay'
  BY <1>0 DEF CarryRest, OnTheWay, Live, MayBeOut, SendWork
<1>7. ToldIsClosed'
  BY <1>0 DEF CarryRest, ToldIsClosed, Told, Hosted, SendWork
<1>8. RowsKeep'
  BY <1>0 DEF CarryRest, RowsKeep, Hosted, Lost, Live, MayBeOut, SendWork
<1>9. BuriedAreExposed'
  BY <1>0 DEF CarryRest, BuriedAreExposed, Hosted, SendWork
<1>10. AllCarried'
  BY <1>0
  DEF CarryRest, AllCarried, Carried, Kept, Hosted, Lost, Live, SendWork
<1> QED
  BY <1>1, <1>2, <1>3, <1>4, <1>5, <1>6, <1>7, <1>8, <1>9, <1>10
  DEF CarryRest, SteersKeep

(* A prompt is a new message, and what is given up is closed.              *)
LEMMA BootCarries ==
    ASSUME AnswerInv, CarryRest, Boot
    PROVE  CarryRest'
<1> USE CarryFacts
<1>0. \/ /\ UNCHANGED <<path, step, cur, arrived>>
         /\ \A c \in Chats : outcome'[c] \in {outcome[c], "lost"}
      \/ /\ path' = "redrive" /\ step' = 1 /\ cur' \in Prompts \ arrived
         /\ arrived' = arrived \cup {cur'} /\ outcome' = outcome
  BY DEF Boot, Redrive, CountRedrive, DropObligation, Enter
<1>b. step = 0
  BY DEF Boot, Idle, CarryRest, BootIsOrdered
<1>a. Prompts \cap Chats = {} /\ Prompts \subseteq Ids
  BY LifecycleAssumption DEF Ids
<1>1. RunsKeep'
  BY <1>0, <1>b, <1>a DEF CarryRest, SteersKeep, RunsKeep, Boot, Orphaned
<1>2. ClaimsList'
  BY <1>0, <1>b, <1>a DEF CarryRest, SteersKeep, ClaimsList, Boot, Orphaned
<1>3. SteersAreFresh'
  BY <1>0, <1>b, <1>a
  DEF CarryRest, SteersKeep, SteersAreFresh, Unheard, Boot, Orphaned
<1>4. JoinedOnce'
  BY <1>0, <1>b, <1>a DEF CarryRest, SteersKeep, JoinedOnce, Boot, Orphaned
<1>5. BootIsOrdered'
  BY <1>0, <1>b, <1>a DEF CarryRest, BootIsOrdered, Boot, Orphaned, Live
<1>6. OnTheWay'
  BY <1>0, <1>b, <1>a
  DEF CarryRest, OnTheWay, Live, MayBeOut, Boot, Orphaned, Live
<1>7. ToldIsClosed'
  BY <1>0, <1>b, <1>a
  DEF CarryRest, ToldIsClosed, Told, Hosted, Boot, Orphaned
<1>8. RowsKeep'
  BY <1>0, <1>b, <1>a
  DEF CarryRest, RowsKeep, Hosted, Lost, Live, MayBeOut, Boot, Orphaned, Live
<1>9. BuriedAreExposed'
  BY <1>0, <1>b, <1>a DEF CarryRest, BuriedAreExposed, Boot, Orphaned
<1>10. AllCarried'
  BY <1>0, <1>b, <1>a
  DEF CarryRest, AllCarried, Carried, Kept, Hosted, Lost, Live, Boot,
      Orphaned, Live
<1> QED
  BY <1>1, <1>2, <1>3, <1>4, <1>5, <1>6, <1>7, <1>8, <1>9, <1>10
  DEF CarryRest, SteersKeep

(* A prompt is a new message, and what is given up is closed.              *)
LEMMA CheckObligationsCarries ==
    ASSUME AnswerInv, CarryRest, CheckObligations
    PROVE  CarryRest'
<1> USE CarryFacts
<1>0. \/ /\ UNCHANGED <<path, step, cur, arrived>>
         /\ \A c \in Chats : outcome'[c] \in {outcome[c], "lost"}
      \/ /\ path' = "redrive" /\ step' = 1 /\ cur' \in Prompts \ arrived
         /\ arrived' = arrived \cup {cur'} /\ outcome' = outcome
  BY DEF CheckObligations, Redrive, CountRedrive, DropObligation, Enter
<1>b. step = 0
  BY DEF CheckObligations, Idle, CarryRest
<1>a. Prompts \cap Chats = {} /\ Prompts \subseteq Ids
  BY LifecycleAssumption DEF Ids
<1>1. RunsKeep'
  BY <1>0, <1>b, <1>a
  DEF CarryRest, SteersKeep, RunsKeep, CheckObligations, Idle
<1>2. ClaimsList'
  BY <1>0, <1>b, <1>a
  DEF CarryRest, SteersKeep, ClaimsList, CheckObligations, Idle
<1>3. SteersAreFresh'
  BY <1>0, <1>b, <1>a
  DEF CarryRest, SteersKeep, SteersAreFresh, Unheard, CheckObligations, Idle
<1>4. JoinedOnce'
  BY <1>0, <1>b, <1>a
  DEF CarryRest, SteersKeep, JoinedOnce, CheckObligations, Idle
<1>5. BootIsOrdered'
  BY <1>0, <1>b, <1>a DEF CarryRest, BootIsOrdered, CheckObligations, Idle
<1>6. OnTheWay'
  BY <1>0, <1>b, <1>a
  DEF CarryRest, OnTheWay, Live, MayBeOut, CheckObligations, Idle
<1>7. ToldIsClosed'
  BY <1>0, <1>b, <1>a
  DEF CarryRest, ToldIsClosed, Told, Hosted, CheckObligations, Idle
<1>8. RowsKeep'
  BY <1>0, <1>b, <1>a
  DEF CarryRest, RowsKeep, Hosted, Lost, Live, MayBeOut, CheckObligations,
      Idle
<1>9. BuriedAreExposed'
  BY <1>0, <1>b, <1>a DEF CarryRest, BuriedAreExposed, CheckObligations, Idle
<1>10. AllCarried'
  BY <1>0, <1>b, <1>a
  DEF CarryRest, AllCarried, Carried, Kept, Hosted, Lost, Live,
      CheckObligations, Idle
<1> QED
  BY <1>1, <1>2, <1>3, <1>4, <1>5, <1>6, <1>7, <1>8, <1>9, <1>10
  DEF CarryRest, SteersKeep

(* The loop begins when the sweep is over.                                 *)
LEMMA SweepDoneCarries ==
    ASSUME AnswerInv, CarryRest, SweepDone
    PROVE  CarryRest'
<1> USE CarryFacts
<1>1. RunsKeep'
  BY DEF CarryRest, SteersKeep, RunsKeep, SweepDone
<1>2. ClaimsList'
  BY DEF CarryRest, SteersKeep, ClaimsList, SweepDone
<1>3. SteersAreFresh'
  BY DEF CarryRest, SteersKeep, SteersAreFresh, Unheard, SweepDone
<1>4. JoinedOnce'
  BY DEF CarryRest, SteersKeep, JoinedOnce, SweepDone
<1>5. BootIsOrdered'
  BY DEF CarryRest, BootIsOrdered, SweepDone
<1>6. OnTheWay'
  BY DEF CarryRest, OnTheWay, Live, MayBeOut, SweepDone
<1>7. ToldIsClosed'
  BY DEF CarryRest, ToldIsClosed, Told, Hosted, SweepDone
<1>8. RowsKeep'
  BY DEF CarryRest, RowsKeep, Hosted, Lost, Live, MayBeOut, SweepDone
<1>9. BuriedAreExposed'
  BY DEF CarryRest, BuriedAreExposed, SweepDone
<1>10. AllCarried'
  BY DEF CarryRest, AllCarried, Carried, Kept, Hosted, Lost, Live, SweepDone
<1> QED
  BY <1>1, <1>2, <1>3, <1>4, <1>5, <1>6, <1>7, <1>8, <1>9, <1>10
  DEF CarryRest, SteersKeep

(* An abandoned run forgets what it may pop.                               *)
LEMMA LateSettleCarries ==
    ASSUME AnswerInv, CarryRest, NEW k \in Ids, LateSettle(k)
    PROVE  CarryRest'
<1> USE CarryFacts
<1>1. RunsKeep'
  BY DEF CarryRest, SteersKeep, RunsKeep, LateSettle
<1>2. ClaimsList'
  BY DEF CarryRest, SteersKeep, ClaimsList, LateSettle
<1>3. SteersAreFresh'
  BY DEF CarryRest, SteersKeep, SteersAreFresh, Unheard, LateSettle
<1>4. JoinedOnce'
  BY DEF CarryRest, SteersKeep, JoinedOnce, LateSettle
<1>5. BootIsOrdered'
  BY DEF CarryRest, BootIsOrdered, LateSettle
<1>6. OnTheWay'
  BY DEF CarryRest, OnTheWay, Live, MayBeOut, LateSettle
<1>7. ToldIsClosed'
  BY DEF CarryRest, ToldIsClosed, Told, Hosted, LateSettle
<1>8. RowsKeep'
  BY DEF CarryRest, RowsKeep, Hosted, Lost, Live, MayBeOut, LateSettle
<1>9. BuriedAreExposed'
  BY DEF CarryRest, BuriedAreExposed, Hosted, LateSettle
<1>10. AllCarried'
  BY DEF CarryRest, AllCarried, Carried, Kept, Hosted, Lost, Live, LateSettle
<1> QED
  BY <1>1, <1>2, <1>3, <1>4, <1>5, <1>6, <1>7, <1>8, <1>9, <1>10
  DEF CarryRest, SteersKeep

(* A prompt joins the queue.                                               *)
LEMMA SendPromptCarries ==
    ASSUME AnswerInv, Clear, CarryRest, SendPrompt
    PROVE  CarryRest'
<1> USE CarryFacts
<1>0. \/ path' = path /\ cur' = cur /\ step' = step + 1
      \/ path' = "none" /\ step' = 0 /\ AtEnd
  BY WalkOn DEF SendPrompt, Leave, At
<1>a. \A r \in Ids : taken[r] = {} /\ (escapes = 0 => since[r] = {})
  BY NoRun DEF SendPrompt, Table
<1>1. RunsKeep'
  BY <1>0, <1>a DEF CarryRest, SteersKeep, RunsKeep, Table, SendPrompt, Paths
<1>2. ClaimsList'
  BY <1>0, <1>a DEF CarryRest, SteersKeep, ClaimsList, SendPrompt
<1>3. SteersAreFresh'
  BY <1>0, <1>a DEF CarryRest, SteersAreFresh, Unheard, SendPrompt
<1>4. JoinedOnce'
  BY <1>0, <1>a DEF CarryRest, SteersKeep, JoinedOnce, SendPrompt
<1>5. BootIsOrdered'
  BY <1>0, <1>a DEF CarryRest, BootIsOrdered, Table, SendPrompt, Paths
<1>6. OnTheWay'
  BY <1>0, <1>a
  DEF CarryRest, BootIsOrdered, OnTheWay, Live, MayBeOut, Table, SendPrompt,
      Paths
<1>7. ToldIsClosed'
  BY <1>0, <1>a
  DEF CarryRest, OnTheWay, ToldIsClosed, Told, Hosted, Table, SendPrompt,
      Paths
<1>8. RowsKeep'
  BY <1>0, <1>a
  DEF CarryRest, SteersKeep, JoinedOnce, OnTheWay, RowsKeep, ToldIsClosed,
      Told, Hosted, Lost, Live, MayBeOut, Table, SendPrompt, Paths
<1>9. BuriedAreExposed'
  BY <1>0, <1>a
  DEF CarryRest, BuriedAreExposed, Hosted, Table, SendPrompt, Paths
<1>10. AllCarried'
  BY <1>0, <1>a
  DEF CarryRest, AllCarried, Carried, Kept, Hosted, Lost, Live, SendPrompt
<1> QED
  BY <1>1, <1>2, <1>3, <1>4, <1>5, <1>6, <1>7, <1>8, <1>9, <1>10
  DEF CarryRest, SteersKeep

(* A charge leaves the claim where it is.                                  *)
LEMMA SweepClaimCarries ==
    ASSUME AnswerInv, CarryRest, NEW k \in Ids, SweepClaim(k)
    PROVE  CarryRest'
<1> USE CarryFacts
<1>b. \A m \in Ids : /\ claim'[m].inputs = claim[m].inputs
                     /\ claim'[m].state # "none" <=> claim[m].state # "none"
                     /\ (Live(m)' <=> Live(m))
  <2>1. \/ claim' = claim
        \/ claim' = [claim EXCEPT ![k] =
                       [claim[k] EXCEPT !.budget = claim[k].budget - 1]]
    BY DEF SweepClaim
  <2>2. \A m \in Ids : /\ claim'[m].inputs = claim[m].inputs
                       /\ claim'[m].state = claim[m].state
    BY <2>1 DEF Claims
  <2> QED BY <2>2 DEF Live
<1>c. /\ step = 0 /\ path' \in {"requeue", "tombstone"} /\ step' = 1 /\ cur' = k
      /\ k \in sweep /\ sweep' \subseteq sweep /\ phase = "sweeping"
  BY DEF SweepClaim, Enter
<1>d. UNCHANGED <<inbox, row, phase, zombies, since, taken, arrived, outcome,
                  joined, everTaken, exposed, escapes>>
  BY DEF SweepClaim
<1>1. RunsKeep'
  BY <1>b DEF CarryRest, SteersKeep, RunsKeep, SweepClaim, Exhausted, Enter
<1>2. ClaimsList'
  BY <1>b DEF CarryRest, SteersKeep, ClaimsList, SweepClaim, Exhausted, Enter
<1>3. SteersAreFresh'
  BY <1>b, <1>c, <1>d DEF CarryRest, SteersKeep, SteersAreFresh, Unheard
<1>4. JoinedOnce'
  BY <1>b DEF CarryRest, SteersKeep, JoinedOnce, SweepClaim, Exhausted, Enter
<1>5. BootIsOrdered'
  BY <1>b, <1>c, <1>d DEF CarryRest, BootIsOrdered
<1>6. OnTheWay'
  BY <1>b
  DEF CarryRest, OnTheWay, Live, MayBeOut, SweepClaim, Exhausted, Enter
<1>7. ToldIsClosed'
  BY <1>b
  DEF CarryRest, ToldIsClosed, Told, Hosted, SweepClaim, Exhausted, Enter
<1>8. RowsKeep'
  BY <1>b
  DEF CarryRest, RowsKeep, Hosted, Lost, Live, MayBeOut, SweepClaim,
      Exhausted, Enter
<1>9. BuriedAreExposed'
  BY <1>b
  DEF CarryRest, BuriedAreExposed, Hosted, SweepClaim, Exhausted, Enter
<1>10. AllCarried'
  BY <1>b, <1>c, <1>d DEF CarryRest, AllCarried, Carried, Kept, Lost
<1> QED
  BY <1>1, <1>2, <1>3, <1>4, <1>5, <1>6, <1>7, <1>8, <1>9, <1>10
  DEF CarryRest, SteersKeep

(* More files come back.                                                   *)
LEMMA RequeueCarries ==
    ASSUME AnswerInv, CarryRest, Requeue
    PROVE  CarryRest'
<1> USE CarryFacts
<1>1. RunsKeep'
  BY DEF CarryRest, SteersKeep, RunsKeep, Requeue
<1>2. ClaimsList'
  BY DEF CarryRest, SteersKeep, ClaimsList, Requeue
<1>3. SteersAreFresh'
  BY DEF CarryRest, SteersKeep, RunsKeep, ClaimsList, JoinedOnce,
     SteersAreFresh, Unheard, Table, Requeue
<1>4. JoinedOnce'
  BY DEF CarryRest, SteersKeep, JoinedOnce, Requeue
<1>5. BootIsOrdered'
  BY DEF CarryRest, BootIsOrdered, Requeue
<1>6. OnTheWay'
  BY DEF CarryRest, BootIsOrdered, OnTheWay, Live, MayBeOut, Table, Requeue
<1>7. ToldIsClosed'
  BY DEF CarryRest, ToldIsClosed, Told, Hosted, Requeue
<1>8. RowsKeep'
  BY DEF CarryRest, RowsKeep, Hosted, Lost, Live, MayBeOut, Requeue
<1>9. BuriedAreExposed'
  BY DEF CarryRest, BuriedAreExposed, Hosted, Requeue
<1>10. AllCarried'
  BY DEF CarryRest, AllCarried, Carried, Kept, Hosted, Lost, Live, Requeue
<1> QED
  BY <1>1, <1>2, <1>3, <1>4, <1>5, <1>6, <1>7, <1>8, <1>9, <1>10
  DEF CarryRest, SteersKeep

(* A queued claim is live.                                                 *)
LEMMA MarkQueuedCarries ==
    ASSUME AnswerInv, CarryRest, MarkQueued
    PROVE  CarryRest'
<1> USE CarryFacts
<1>0. \/ path' = path /\ cur' = cur /\ step' = step + 1
      \/ path' = "none" /\ step' = 0 /\ AtEnd
  BY WalkOn DEF MarkQueued, Leave, At
<1>a. path = "requeue" /\ claim[cur].state # "none"
  BY DEF MarkQueued, CarryRest, BootIsOrdered, Table
<1>b. \A m \in Ids : /\ claim'[m].inputs = claim[m].inputs
                     /\ claim'[m].state # "none" <=> claim[m].state # "none"
                     /\ (Live(m) => Live(m)')
  BY <1>a DEF MarkQueued, Live
<1>1. RunsKeep'
  BY <1>0, <1>a, <1>b DEF CarryRest, SteersKeep, RunsKeep, MarkQueued
<1>2. ClaimsList'
  BY <1>0, <1>a, <1>b DEF CarryRest, SteersKeep, ClaimsList, MarkQueued
<1>3. SteersAreFresh'
  BY <1>0, <1>a, <1>b
  DEF CarryRest, SteersKeep, SteersAreFresh, Unheard, MarkQueued
<1>4. JoinedOnce'
  BY <1>0, <1>a, <1>b DEF CarryRest, SteersKeep, JoinedOnce, MarkQueued
<1>5. BootIsOrdered'
  BY <1>0, <1>a, <1>b
  DEF CarryRest, BootIsOrdered, Table, MarkQueued, Claims, Paths
<1>6. OnTheWay'
  BY <1>0, <1>a, <1>b DEF CarryRest, OnTheWay, Live, MayBeOut, MarkQueued
<1>7. ToldIsClosed'
  BY <1>0, <1>a, <1>b DEF CarryRest, ToldIsClosed, Told, Hosted, MarkQueued
<1>8. RowsKeep'
  BY <1>0, <1>a, <1>b
  DEF CarryRest, RowsKeep, Hosted, Lost, Live, MayBeOut, MarkQueued
<1>9. BuriedAreExposed'
  BY <1>0, <1>a, <1>b DEF CarryRest, BuriedAreExposed, Hosted, MarkQueued
<1>10. AllCarried'
  BY <1>0, <1>a, <1>b
  DEF CarryRest, AllCarried, Carried, Kept, Hosted, Lost, Live, MarkQueued
<1> QED
  BY <1>1, <1>2, <1>3, <1>4, <1>5, <1>6, <1>7, <1>8, <1>9, <1>10
  DEF CarryRest, SteersKeep

(* A refund leaves the claim where it is.                                  *)
LEMMA RefundCarries ==
    ASSUME AnswerInv, CarryRest, Refund
    PROVE  CarryRest'
<1> USE CarryFacts
<1>0. \/ path' = path /\ cur' = cur /\ step' = step + 1
      \/ path' = "none" /\ step' = 0 /\ AtEnd
  BY WalkOn DEF Refund, Leave, At
<1>b. \A m \in Ids : /\ claim'[m].inputs = claim[m].inputs
                     /\ claim'[m].state # "none" <=> claim[m].state # "none"
                     /\ (Live(m)' <=> Live(m))
  BY DEF Refund, Live
<1>1. RunsKeep'
  BY <1>0, <1>b
  DEF CarryRest, SteersKeep, RunsKeep, Table, Refund, Claims, Paths
<1>2. ClaimsList'
  BY <1>0, <1>b DEF CarryRest, SteersKeep, ClaimsList, Refund
<1>3. SteersAreFresh'
  BY <1>0, <1>b DEF CarryRest, SteersKeep, SteersAreFresh, Unheard, Refund
<1>4. JoinedOnce'
  BY <1>0, <1>b DEF CarryRest, SteersKeep, JoinedOnce, Refund
<1>5. BootIsOrdered'
  BY <1>0, <1>b DEF CarryRest, BootIsOrdered, Table, Refund, Claims, Paths
<1>6. OnTheWay'
  BY <1>0, <1>b
  DEF CarryRest, BootIsOrdered, OnTheWay, Live, MayBeOut, Table, Refund,
      Claims, Paths
<1>7. ToldIsClosed'
  BY <1>0, <1>b
  DEF CarryRest, OnTheWay, ToldIsClosed, Told, Hosted, Table, Refund, Claims,
      Paths
<1>8. RowsKeep'
  BY <1>0, <1>b
  DEF CarryRest, SteersKeep, JoinedOnce, OnTheWay, RowsKeep, ToldIsClosed,
      Told, Hosted, Lost, Live, MayBeOut, Table, Refund, Claims, Paths
<1>9. BuriedAreExposed'
  BY <1>0, <1>b
  DEF CarryRest, BuriedAreExposed, Hosted, Table, Refund, Claims, Paths
<1>10. AllCarried'
  BY <1>0, <1>b
  DEF CarryRest, AllCarried, OnTheWay, ToldIsClosed, Told, RowsKeep, Carried,
      Kept, Hosted, Lost, Live, MayBeOut, Table, Refund, Claims, Paths
<1> QED
  BY <1>1, <1>2, <1>3, <1>4, <1>5, <1>6, <1>7, <1>8, <1>9, <1>10
  DEF CarryRest, SteersKeep

(* A tombstoned turn is given up.                                          *)
LEMMA TombstoneCarries ==
    ASSUME AnswerInv, CarryRest, Tombstone
    PROVE  CarryRest'
<1> USE CarryFacts
<1>0. \/ path' = path /\ cur' = cur /\ step' = step + 1
      \/ path' = "none" /\ step' = 0 /\ AtEnd
  BY WalkOn DEF Tombstone, Leave, At
<1>a. path = "tombstone" /\ step = 1 /\ claim[cur].state # "none"
  BY DEF Tombstone, CarryRest, BootIsOrdered, Table
<1>b. \A m \in Ids : /\ claim'[m].inputs = claim[m].inputs
                     /\ claim'[m].state # "none" <=> claim[m].state # "none"
                     /\ (m # cur => (Live(m)' <=> Live(m)))
  BY <1>a DEF Tombstone, Live
<1>c. \A m \in {cur} \cup claim[cur].inputs : Hosted(m) \subseteq exposed'
  <2> SUFFICES ASSUME NEW m \in {cur} \cup claim[cur].inputs,
                      NEW c \in Hosted(m)
               PROVE  c \in exposed'
    OBVIOUS
  <2>1. c \in Audience(m)
    BY DEF Audience, Hosted
  <2> QED BY <2>1 DEF Tombstone
<1>e. \A m \in Ids : Hosted(m)' = Hosted(m)
  BY DEF Tombstone, Hosted
<1>f. cur' = cur \/ step' = 0
  BY <1>0
<1>d. exposed \subseteq exposed'
  BY DEF Tombstone
<1>1. RunsKeep'
  BY <1>0, <1>a, <1>b, <1>c, <1>d
  DEF CarryRest, SteersKeep, RunsKeep, Tombstone
<1>2. ClaimsList'
  BY <1>0, <1>a, <1>b, <1>c, <1>d
  DEF CarryRest, SteersKeep, ClaimsList, Tombstone
<1>3. SteersAreFresh'
  BY <1>0, <1>a, <1>b, <1>c, <1>d
  DEF CarryRest, SteersKeep, SteersAreFresh, Unheard, Tombstone
<1>4. JoinedOnce'
  BY <1>0, <1>a, <1>b, <1>c, <1>d
  DEF CarryRest, SteersKeep, JoinedOnce, Tombstone
<1>5. BootIsOrdered'
  BY <1>0, <1>a, <1>b, <1>c, <1>d DEF CarryRest, BootIsOrdered, Tombstone
<1>6. OnTheWay'
  BY <1>0, <1>a, <1>b, <1>c, <1>d
  DEF CarryRest, OnTheWay, Live, MayBeOut, Tombstone
<1>7. ToldIsClosed'
  BY <1>0, <1>a, <1>b, <1>c, <1>d
  DEF CarryRest, ToldIsClosed, Told, Hosted, Tombstone
<1>8. RowsKeep'
  BY <1>0, <1>a, <1>b, <1>c, <1>d, <1>e
  DEF CarryRest, RowsKeep, Lost, Tombstone
<1>9. BuriedAreExposed'
  <2>1. claim'[cur].inputs = claim[cur].inputs
    BY <1>a, <1>b
  <2> QED BY <1>a, <1>c, <1>e, <1>f, <2>1 DEF BuriedAreExposed
<1>10. AllCarried'
  BY <1>0, <1>a, <1>b, <1>c, <1>d
  DEF CarryRest, AllCarried, Carried, Kept, Hosted, Lost, Live, Tombstone
<1> QED
  BY <1>1, <1>2, <1>3, <1>4, <1>5, <1>6, <1>7, <1>8, <1>9, <1>10
  DEF CarryRest, SteersKeep

(* What is buried was given up.                                            *)
LEMMA BuryCarries ==
    ASSUME AnswerInv, CarryRest, Bury
    PROVE  CarryRest'
<1> USE CarryFacts
<1>a. path = "tombstone" /\ step = 2
  BY DEF Bury, Table
<1>0. \/ path' = path /\ cur' = cur /\ step' = step
      \/ path' = "none" /\ step' = 0
  <2>1. Len(Route[path]) = 2
    BY <1>a DEF Route
  <2> QED BY <1>a, <2>1 DEF Bury, Forward, Leave
<1>c. \A m \in inbox \ inbox' : Hosted(m) \subseteq exposed
  BY <1>a DEF Bury, CarryRest, BuriedAreExposed
<1>1. RunsKeep'
  BY <1>0, <1>a, <1>c DEF CarryRest, SteersKeep, RunsKeep, Bury
<1>2. ClaimsList'
  BY <1>0, <1>a, <1>c DEF CarryRest, SteersKeep, ClaimsList, Bury
<1>3. SteersAreFresh'
  BY <1>0, <1>a, <1>c DEF CarryRest, SteersKeep, SteersAreFresh, Unheard, Bury
<1>4. JoinedOnce'
  BY <1>0, <1>a, <1>c DEF CarryRest, SteersKeep, JoinedOnce, Bury
<1>5. BootIsOrdered'
  BY <1>0, <1>a, <1>c DEF CarryRest, BootIsOrdered, Bury
<1>6. OnTheWay'
  BY <1>0, <1>a, <1>c DEF CarryRest, OnTheWay, Live, MayBeOut, Bury
<1>7. ToldIsClosed'
  BY <1>0, <1>a, <1>c DEF CarryRest, ToldIsClosed, Told, Hosted, Bury
<1>8. RowsKeep'
  BY <1>0, <1>a, <1>c
  DEF CarryRest, RowsKeep, Hosted, Lost, Live, MayBeOut, Bury
<1>9. BuriedAreExposed'
  BY <1>0, <1>a, <1>c DEF CarryRest, BuriedAreExposed, Hosted, Bury
<1>10. AllCarried'
  BY <1>0, <1>a, <1>c
  DEF CarryRest, AllCarried, Carried, Kept, Hosted, Lost, Live, Bury
<1> QED
  BY <1>1, <1>2, <1>3, <1>4, <1>5, <1>6, <1>7, <1>8, <1>9, <1>10
  DEF CarryRest, SteersKeep

(* What is picked is in the inbox.                                         *)
LEMMA PickCarries ==
    ASSUME AnswerInv, CarryRest, NEW k \in Ids, Pick(k)
    PROVE  CarryRest'
<1> USE CarryFacts
<1>1. RunsKeep'
  BY DEF CarryRest, SteersKeep, RunsKeep, Pick, NextTask, Verdict, Enter, Idle
<1>2. ClaimsList'
  BY DEF CarryRest, SteersKeep, ClaimsList, Pick, NextTask, Verdict, Enter,
     Idle
<1>3. SteersAreFresh'
  BY DEF CarryRest, SteersKeep, SteersAreFresh, Unheard, Pick, NextTask,
     Verdict, Enter, Idle
<1>4. JoinedOnce'
  BY DEF CarryRest, SteersKeep, JoinedOnce, Pick, NextTask, Verdict, Enter,
     Idle
<1>5. BootIsOrdered'
  BY DEF CarryRest, BootIsOrdered, Pick, NextTask, Verdict, Enter, Idle
<1>6. OnTheWay'
  BY DEF CarryRest, OnTheWay, Live, MayBeOut, Pick, NextTask, Verdict, Enter,
     Idle
<1>7. ToldIsClosed'
  BY DEF CarryRest, ToldIsClosed, Told, Hosted, Pick, NextTask, Verdict,
     Enter, Idle
<1>8. RowsKeep'
  BY DEF CarryRest, RowsKeep, Hosted, Lost, Live, MayBeOut, Pick, NextTask,
     Verdict, Enter, Idle
<1>9. BuriedAreExposed'
  BY DEF CarryRest, BuriedAreExposed, Pick, NextTask, Verdict, Enter, Idle
<1>10. AllCarried'
  BY DEF CarryRest, AllCarried, Carried, Kept, Hosted, Lost, Live, Pick,
     NextTask, Verdict, Enter, Idle
<1> QED
  BY <1>1, <1>2, <1>3, <1>4, <1>5, <1>6, <1>7, <1>8, <1>9, <1>10
  DEF CarryRest, SteersKeep

(* What is admitted is claimed.                                            *)
LEMMA AdmitCarries ==
    ASSUME AnswerInv, CarryRest, Clear, Admit
    PROVE  CarryRest'
<1> USE CarryFacts
<1>0. path = "turn" /\ step = 1 /\ path' = path /\ step' = 2 /\ cur' = cur
  BY WalkOn DEF Admit, Table, Leave, AtEnd
<1>a. \A r \in Ids : taken[r] = {} /\ (escapes = 0 => since[r] = {})
  BY <1>0, NoRun
<1>1. RunsKeep'
  BY <1>0, <1>a DEF CarryRest, SteersKeep, RunsKeep, Admit, AdmittedClaim
<1>2. ClaimsList'
  BY <1>0, <1>a DEF CarryRest, SteersKeep, ClaimsList, Admit, AdmittedClaim
<1>3. SteersAreFresh'
  BY <1>0, <1>a
  DEF CarryRest, SteersKeep, SteersAreFresh, Unheard, Admit, AdmittedClaim
<1>4. JoinedOnce'
  BY <1>0, <1>a DEF CarryRest, SteersKeep, JoinedOnce, Admit, AdmittedClaim
<1>5. BootIsOrdered'
  BY <1>0, <1>a DEF CarryRest, BootIsOrdered, Admit, AdmittedClaim
<1>6. OnTheWay'
  BY <1>0, <1>a DEF CarryRest, OnTheWay, Live, MayBeOut, Admit, AdmittedClaim
<1>7. ToldIsClosed'
  BY <1>0, <1>a
  DEF CarryRest, ToldIsClosed, Told, Hosted, Admit, AdmittedClaim
<1>8. RowsKeep'
  BY <1>0, <1>a
  DEF CarryRest, RowsKeep, Hosted, Lost, Live, MayBeOut, Admit, AdmittedClaim
<1>9. BuriedAreExposed'
  BY <1>0, <1>a DEF CarryRest, BuriedAreExposed, Hosted, Admit, AdmittedClaim
<1>10. AllCarried'
  BY <1>0, <1>a
  DEF CarryRest, AllCarried, Carried, Kept, Hosted, Lost, Live, Admit,
      AdmittedClaim
<1> QED
  BY <1>1, <1>2, <1>3, <1>4, <1>5, <1>6, <1>7, <1>8, <1>9, <1>10
  DEF CarryRest, SteersKeep

(* A follow-up that is popped was fresh.                                   *)
LEMMA TakeSteerCarries ==
    ASSUME AnswerInv, CarryRest, Clear', NEW r \in Ids, NEW k \in Chats,
           TakeSteer(r, k)
    PROVE  CarryRest'
<1> USE CarryFacts
<1>a. escapes = 0
  BY DEF TakeSteer, Clear
<1>b. r = cur /\ path = "turn" /\ step = 2
  BY <1>a DEF TakeSteer, Running, CarryRest, SteersKeep, RunsKeep
<1>c. Unheard(k) /\ k \in inbox
  BY <1>a DEF TakeSteer, CarryRest, SteersKeep, SteersAreFresh
<1>d. k # cur
  BY <1>b, <1>c DEF CarryRest, SteersKeep, ClaimsList, OnTheWay, Live, Unheard
<1>1. RunsKeep'
  BY <1>a, <1>b, <1>c, <1>d DEF CarryRest, SteersKeep, RunsKeep, TakeSteer
<1>2. ClaimsList'
  BY <1>a, <1>b, <1>c, <1>d DEF CarryRest, SteersKeep, ClaimsList, TakeSteer
<1>3. SteersAreFresh'
  BY <1>a, <1>b, <1>c, <1>d
  DEF CarryRest, SteersKeep, SteersAreFresh, Unheard, TakeSteer
<1>4. JoinedOnce'
  BY <1>a, <1>b, <1>c, <1>d DEF CarryRest, SteersKeep, JoinedOnce, TakeSteer
<1>5. BootIsOrdered'
  BY <1>a, <1>b, <1>c, <1>d DEF CarryRest, BootIsOrdered, TakeSteer
<1>6. OnTheWay'
  BY <1>a, <1>b, <1>c, <1>d DEF CarryRest, OnTheWay, Live, MayBeOut, TakeSteer
<1>7. ToldIsClosed'
  BY <1>a, <1>b, <1>c, <1>d
  DEF CarryRest, ToldIsClosed, Told, Hosted, TakeSteer
<1>8. RowsKeep'
  BY <1>a, <1>b, <1>c, <1>d
  DEF CarryRest, RowsKeep, Hosted, Lost, Live, MayBeOut, TakeSteer
<1>9. BuriedAreExposed'
  BY <1>a, <1>b, <1>c, <1>d DEF CarryRest, BuriedAreExposed, TakeSteer
<1>10. AllCarried'
  <2> SUFFICES ASSUME NEW c \in Chats, ~Lost(c)
               PROVE  Carried(c)'
    BY DEF AllCarried, Lost, TakeSteer
  <2>1. CASE c = k
    BY <2>1 DEF TakeSteer, Carried
  <2>2. CASE c # k
    <3>1. Carried(c) /\ joined[c] # k
      BY <1>c DEF CarryRest, AllCarried, Unheard
    <3>2. UNCHANGED <<claim, joined, path, step, cur>>
          /\ (\A m \in Ids : taken[m] \subseteq taken'[m])
          /\ inbox \ {k} \subseteq inbox'
      BY DEF TakeSteer
    <3> QED BY <2>2, <3>1, <3>2 DEF Carried, Kept, Live, Hosted
  <2> QED BY <2>1, <2>2
<1> QED
  BY <1>1, <1>2, <1>3, <1>4, <1>5, <1>6, <1>7, <1>8, <1>9, <1>10
  DEF CarryRest, SteersKeep

(* A follow-up that is recorded joins a live claim.                        *)
LEMMA RecordSteerCarries ==
    ASSUME AnswerInv, CarryRest, Clear, NEW r \in Ids, RecordSteer(r)
    PROVE  CarryRest'
<1> USE CarryFacts
<1>a. taken[r] # {} /\ r \in Running
  BY DEF RecordSteer
<1>0. escapes = 0 /\ path = "turn" /\ step = 2 /\ cur = r
  BY <1>a DEF Clear, CarryRest, SteersKeep, RunsKeep
<1>b. Live(r) /\ claim[r].state # "none" /\ r \in claim[r].inputs
  BY <1>0 DEF CarryRest, SteersKeep, ClaimsList, OnTheWay, Live
<1>c. \A m \in Ids : /\ m = r => claim'[m].inputs = claim[m].inputs \cup taken[r]
                     /\ m # r => claim'[m].inputs = claim[m].inputs
                     /\ claim'[m].state = claim[m].state
                     /\ taken'[m] = {}
  <2>1. claim' = [claim EXCEPT ![r].inputs = @ \cup taken[r]]
        /\ taken' = [taken EXCEPT ![r] = {}]
    BY <1>b DEF RecordSteer
  <2>2. \A m \in Ids : m # r => taken[m] = {}
    BY <1>0 DEF CarryRest, SteersKeep, RunsKeep
  <2>3. ASSUME NEW m \in Ids
        PROVE  /\ m = r => claim'[m].inputs = claim[m].inputs \cup taken[r]
               /\ m # r => claim'[m].inputs = claim[m].inputs
               /\ claim'[m].state = claim[m].state
    BY <2>1
  <2>4. \A m \in Ids : taken'[m] = {}
    BY <2>1, <2>2
  <2> QED BY <2>3, <2>4
<1>d. \A c \in Chats : joined'[c] = IF c \in taken[r] THEN r ELSE joined[c]
  BY DEF RecordSteer
<1>e. \A c \in taken[r] : Unheard(c) /\ c \notin inbox
  BY DEF CarryRest, SteersKeep, SteersAreFresh
<1>f. exposed' = exposed
  BY <1>b DEF RecordSteer
<1>g. UNCHANGED <<inbox, row, phase, sweep, path, step, cur, zombies, since,
                  arrived, outcome, everTaken, escapes>>
  BY DEF RecordSteer
<1>1. RunsKeep'
  BY <1>0, <1>a, <1>b, <1>c, <1>d, <1>e, <1>f, <1>g
  DEF CarryRest, SteersKeep, RunsKeep
<1>2. ClaimsList'
  BY <1>0, <1>a, <1>b, <1>c, <1>d, <1>e, <1>f, <1>g
  DEF CarryRest, SteersKeep, ClaimsList
<1>3. SteersAreFresh'
  BY <1>0, <1>a, <1>b, <1>c, <1>d, <1>e, <1>f, <1>g
  DEF CarryRest, SteersKeep, SteersAreFresh, Unheard
<1>4. JoinedOnce'
  <2>1. ASSUME NEW c \in Chats, joined'[c] # NoMsg
        PROVE  joined'[c] \in arrived' /\ c \in everTaken'
    BY <1>0, <1>d, <1>g, <2>1 DEF CarryRest, SteersKeep, JoinedOnce
  <2>2. ASSUME NEW m \in Ids, NEW c \in claim'[m].inputs \ {m}
        PROVE  joined'[c] = m
    <3>1. CASE c \in taken[r]
      BY <1>c, <1>d, <1>e, <2>2, <3>1 DEF Unheard
    <3>2. CASE c \notin taken[r]
      <4>1. c \in claim[m].inputs \ {m} /\ c \in Chats
        BY <1>c, <3>2
      <4> QED BY <1>d, <3>2, <4>1 DEF CarryRest, SteersKeep, JoinedOnce
    <3> QED BY <3>1, <3>2
  <2> QED BY <2>1, <2>2 DEF JoinedOnce
<1>5. BootIsOrdered'
  BY <1>0, <1>a, <1>b, <1>c, <1>d, <1>e, <1>f, <1>g
  DEF CarryRest, BootIsOrdered
<1>6. OnTheWay'
  BY <1>0, <1>a, <1>b, <1>c, <1>d, <1>e, <1>f, <1>g
  DEF CarryRest, OnTheWay, Live, MayBeOut
<1>7. ToldIsClosed'
  BY <1>0, <1>a, <1>b, <1>c, <1>d, <1>e, <1>f, <1>g
  DEF CarryRest, ToldIsClosed, Told, Hosted
<1>8. RowsKeep'
  BY <1>0, <1>a, <1>b, <1>c, <1>d, <1>e, <1>f, <1>g
  DEF CarryRest, RowsKeep, Hosted, Lost, Live, MayBeOut
<1>9. BuriedAreExposed'
  BY <1>0, <1>a, <1>b, <1>c, <1>d, <1>e, <1>f, <1>g
  DEF CarryRest, BuriedAreExposed
<1>10. AllCarried'
  <2> SUFFICES ASSUME NEW c \in Chats, ~Lost(c)
               PROVE  Carried(c)'
    BY <1>f, <1>g DEF AllCarried, Lost
  <2>1. \A m \in Ids : Kept(m)' <=> Kept(m)
    BY <1>c, <1>g DEF Kept, Live
  <2>2. CASE c \in taken[r]
    <3>1. joined'[c] = r /\ Kept(r)'
      BY <1>b, <1>d, <2>1, <2>2 DEF Kept
    <3> QED BY <3>1 DEF Carried
  <2>3. CASE c \notin taken[r]
    <3>1. joined'[c] = joined[c] /\ Carried(c)
      BY <1>d, <2>3 DEF CarryRest, AllCarried
    <3>2. Kept(c) \/ (joined[c] # NoMsg /\ Kept(joined[c]))
      BY <1>0, <2>3, <3>1 DEF Carried, CarryRest, SteersKeep, RunsKeep
    <3> QED BY <2>1, <3>1, <3>2 DEF Carried
  <2> QED BY <2>2, <2>3
<1> QED
  BY <1>1, <1>2, <1>3, <1>4, <1>5, <1>6, <1>7, <1>8, <1>9, <1>10
  DEF CarryRest, SteersKeep

(* A run that ends has popped nothing.                                     *)
LEMMA FinishCarries ==
    ASSUME AnswerInv, CarryRest, NEW i \in BOOLEAN, Finish(i)
    PROVE  CarryRest'
<1> USE CarryFacts
<1>1. RunsKeep'
  BY DEF CarryRest, SteersKeep, RunsKeep, Finish, Enter
<1>2. ClaimsList'
  BY DEF CarryRest, SteersKeep, ClaimsList, Finish, Enter
<1>3. SteersAreFresh'
  BY DEF CarryRest, SteersKeep, SteersAreFresh, Unheard, Finish, Enter
<1>4. JoinedOnce'
  BY DEF CarryRest, SteersKeep, JoinedOnce, Finish, Enter
<1>5. BootIsOrdered'
  BY DEF CarryRest, BootIsOrdered, Table, Finish, Enter
<1>6. OnTheWay'
  BY DEF CarryRest, BootIsOrdered, OnTheWay, Live, MayBeOut, Table, Finish,
     Enter
<1>7. ToldIsClosed'
  BY DEF CarryRest, ToldIsClosed, Told, Hosted, Finish, Enter
<1>8. RowsKeep'
  BY DEF CarryRest, SteersKeep, JoinedOnce, OnTheWay, RowsKeep, ToldIsClosed,
     Told, Hosted, Lost, Live, MayBeOut, Table, Finish, Enter
<1>9. BuriedAreExposed'
  BY DEF CarryRest, BuriedAreExposed, Finish, Enter
<1>10. AllCarried'
  BY DEF CarryRest, AllCarried, OnTheWay, ToldIsClosed, Told, RowsKeep,
     Carried, Kept, Hosted, Lost, Live, MayBeOut, Table, Finish, Enter
<1> QED
  BY <1>1, <1>2, <1>3, <1>4, <1>5, <1>6, <1>7, <1>8, <1>9, <1>10
  DEF CarryRest, SteersKeep

(* A run that is abandoned leaves its claim.                               *)
LEMMA EscapeCarries ==
    ASSUME AnswerInv, CarryRest, Clear', Escape
    PROVE  CarryRest'
<1> USE CarryFacts
<1>1. RunsKeep'
  BY DEF CarryRest, SteersKeep, RunsKeep, Escape, Enter, Clear
<1>2. ClaimsList'
  BY DEF CarryRest, SteersKeep, ClaimsList, Escape, Enter, Clear
<1>3. SteersAreFresh'
  BY DEF CarryRest, SteersAreFresh, Unheard, Escape, Enter, Clear
<1>4. JoinedOnce'
  BY DEF CarryRest, SteersKeep, JoinedOnce, Escape, Enter, Clear
<1>5. BootIsOrdered'
  BY DEF CarryRest, BootIsOrdered, Table, Escape, Enter, Clear
<1>6. OnTheWay'
  BY DEF CarryRest, BootIsOrdered, OnTheWay, Live, MayBeOut, Table, Escape,
     Enter, Clear
<1>7. ToldIsClosed'
  BY DEF CarryRest, ToldIsClosed, Told, Hosted, Escape, Enter, Clear
<1>8. RowsKeep'
  BY DEF CarryRest, SteersKeep, JoinedOnce, OnTheWay, RowsKeep, ToldIsClosed,
     Told, Hosted, Lost, Live, MayBeOut, Table, Escape, Enter, Clear
<1>9. BuriedAreExposed'
  BY DEF CarryRest, BuriedAreExposed, Escape, Enter, Clear
<1>10. AllCarried'
  BY DEF CarryRest, AllCarried, OnTheWay, ToldIsClosed, Told, RowsKeep,
     Carried, Kept, Hosted, Lost, Live, MayBeOut, Table, Escape, Enter, Clear
<1> QED
  BY <1>1, <1>2, <1>3, <1>4, <1>5, <1>6, <1>7, <1>8, <1>9, <1>10
  DEF CarryRest, SteersKeep

(* The ledger says that an answer may be out while the claim is there.     *)
LEMMA LedgerWriteCarries ==
    ASSUME AnswerInv, CarryRest, LedgerWrite
    PROVE  CarryRest'
<1> USE CarryFacts
<1>0. \/ path' = path /\ cur' = cur /\ step' = step + 1
      \/ path' = "none" /\ step' = 0 /\ AtEnd
  BY WalkOn DEF LedgerWrite, Leave, At
<1>1. RunsKeep'
  BY <1>0
  DEF CarryRest, SteersKeep, RunsKeep, Table, LedgerWrite, SetRow, Paths
<1>2. ClaimsList'
  BY <1>0 DEF CarryRest, SteersKeep, ClaimsList, LedgerWrite, SetRow
<1>3. SteersAreFresh'
  BY <1>0
  DEF CarryRest, SteersKeep, SteersAreFresh, Unheard, LedgerWrite, SetRow
<1>4. JoinedOnce'
  BY <1>0 DEF CarryRest, SteersKeep, JoinedOnce, LedgerWrite, SetRow
<1>5. BootIsOrdered'
  BY <1>0 DEF CarryRest, BootIsOrdered, Table, LedgerWrite, SetRow, Paths
<1>6. OnTheWay'
  BY <1>0
  DEF CarryRest, BootIsOrdered, OnTheWay, Live, MayBeOut, Table, LedgerWrite,
      SetRow, Paths
<1>7. ToldIsClosed'
  BY <1>0
  DEF CarryRest, OnTheWay, ToldIsClosed, Told, Hosted, Table, LedgerWrite,
      SetRow, Paths
<1>8. RowsKeep'
  BY <1>0
  DEF CarryRest, SteersKeep, JoinedOnce, OnTheWay, RowsKeep, ToldIsClosed,
      Told, Hosted, Lost, Live, MayBeOut, Table, LedgerWrite, SetRow, Paths
<1>9. BuriedAreExposed'
  BY <1>0
  DEF CarryRest, BuriedAreExposed, Hosted, Table, LedgerWrite, SetRow, Paths
<1>10. AllCarried'
  BY <1>0
  DEF CarryRest, AllCarried, OnTheWay, ToldIsClosed, Told, RowsKeep, Carried,
      Kept, Hosted, Lost, Live, MayBeOut, Table, LedgerWrite, SetRow, Paths
<1> QED
  BY <1>1, <1>2, <1>3, <1>4, <1>5, <1>6, <1>7, <1>8, <1>9, <1>10
  DEF CarryRest, SteersKeep

(* The reply closes what the turn hosts.                                   *)
LEMMA ReplyCarries ==
    ASSUME AnswerInv, CarryRest, Reply
    PROVE  CarryRest'
<1> USE CarryFacts
<1>0. \/ path' = path /\ cur' = cur /\ step' = step + 1
      \/ path' = "none" /\ step' = 0 /\ AtEnd
  BY WalkOn DEF Reply, Leave, At
<1>1. RunsKeep'
  BY <1>0
  DEF CarryRest, SteersKeep, RunsKeep, Table, Reply, Close, Audience, Paths
<1>2. ClaimsList'
  BY <1>0 DEF CarryRest, SteersKeep, ClaimsList, Reply, Close, Audience
<1>3. SteersAreFresh'
  BY <1>0
  DEF CarryRest, SteersKeep, SteersAreFresh, Unheard, Reply, Close, Audience
<1>4. JoinedOnce'
  BY <1>0 DEF CarryRest, SteersKeep, JoinedOnce, Reply, Close, Audience
<1>5. BootIsOrdered'
  BY <1>0 DEF CarryRest, BootIsOrdered, Table, Reply, Close, Audience, Paths
<1>6. OnTheWay'
  BY <1>0
  DEF CarryRest, BootIsOrdered, OnTheWay, Live, MayBeOut, Table, Reply, Close,
      Audience, Paths
<1>7. ToldIsClosed'
  BY <1>0 DEF CarryRest, ToldIsClosed, Told, Hosted, Reply, Close, Audience
<1>8. RowsKeep'
  BY <1>0
  DEF CarryRest, RowsKeep, Hosted, Lost, Live, MayBeOut, Reply, Close,
      Audience
<1>9. BuriedAreExposed'
  BY <1>0
  DEF CarryRest, BuriedAreExposed, Hosted, Table, Reply, Close, Audience,
      Paths
<1>10. AllCarried'
  BY <1>0
  DEF CarryRest, AllCarried, Carried, Kept, Hosted, Lost, Live, Reply, Close,
      Audience
<1> QED
  BY <1>1, <1>2, <1>3, <1>4, <1>5, <1>6, <1>7, <1>8, <1>9, <1>10
  DEF CarryRest, SteersKeep

(* The notice closes what the turn hosts.                                  *)
LEMMA NoticeCarries ==
    ASSUME AnswerInv, CarryRest, Notice
    PROVE  CarryRest'
<1> USE CarryFacts
<1>0. \/ path' = path /\ cur' = cur /\ step' = step + 1
      \/ path' = "none" /\ step' = 0 /\ AtEnd
  BY WalkOn DEF Notice, Leave, At
<1>1. RunsKeep'
  BY <1>0
  DEF CarryRest, SteersKeep, RunsKeep, Table, Notice, Close, Audience, Paths
<1>2. ClaimsList'
  BY <1>0 DEF CarryRest, SteersKeep, ClaimsList, Notice, Close, Audience
<1>3. SteersAreFresh'
  BY <1>0
  DEF CarryRest, SteersKeep, SteersAreFresh, Unheard, Notice, Close, Audience
<1>4. JoinedOnce'
  BY <1>0 DEF CarryRest, SteersKeep, JoinedOnce, Notice, Close, Audience
<1>5. BootIsOrdered'
  BY <1>0 DEF CarryRest, BootIsOrdered, Table, Notice, Close, Audience, Paths
<1>6. OnTheWay'
  BY <1>0
  DEF CarryRest, BootIsOrdered, OnTheWay, Live, MayBeOut, Table, Notice,
      Close, Audience, Paths
<1>7. ToldIsClosed'
  BY <1>0 DEF CarryRest, ToldIsClosed, Told, Hosted, Notice, Close, Audience
<1>8. RowsKeep'
  BY <1>0
  DEF CarryRest, RowsKeep, Hosted, Lost, Live, MayBeOut, Notice, Close,
      Audience
<1>9. BuriedAreExposed'
  BY <1>0
  DEF CarryRest, BuriedAreExposed, Hosted, Table, Notice, Close, Audience,
      Paths
<1>10. AllCarried'
  BY <1>0
  DEF CarryRest, AllCarried, Carried, Kept, Hosted, Lost, Live, Notice, Close,
      Audience
<1> QED
  BY <1>1, <1>2, <1>3, <1>4, <1>5, <1>6, <1>7, <1>8, <1>9, <1>10
  DEF CarryRest, SteersKeep

(* What is archived is claimed, closed or announced next.                  *)
LEMMA ArchiveCarries ==
    ASSUME AnswerInv, CarryRest, Archive
    PROVE  CarryRest'
<1> USE CarryFacts
<1>0. \/ path' = path /\ cur' = cur /\ step' = step + 1
      \/ path' = "none" /\ step' = 0 /\ AtEnd
  BY WalkOn DEF Archive, Leave, At
<1>1. RunsKeep'
  BY <1>0 DEF CarryRest, SteersKeep, RunsKeep, Table, Archive, Paths
<1>2. ClaimsList'
  BY <1>0 DEF CarryRest, SteersKeep, ClaimsList, Archive
<1>3. SteersAreFresh'
  BY <1>0 DEF CarryRest, SteersKeep, SteersAreFresh, Unheard, Archive
<1>4. JoinedOnce'
  BY <1>0 DEF CarryRest, SteersKeep, JoinedOnce, Archive
<1>5. BootIsOrdered'
  BY <1>0 DEF CarryRest, BootIsOrdered, Table, Archive, Paths
<1>6. OnTheWay'
  BY <1>0
  DEF CarryRest, BootIsOrdered, OnTheWay, Live, MayBeOut, Table, Archive,
      Paths
<1>7. ToldIsClosed'
  BY <1>0
  DEF CarryRest, OnTheWay, ToldIsClosed, Told, Hosted, Table, Archive, Paths
<1>8. RowsKeep'
  BY <1>0
  DEF CarryRest, SteersKeep, JoinedOnce, OnTheWay, RowsKeep, ToldIsClosed,
      Told, Hosted, Lost, Live, MayBeOut, Table, Archive, Paths
<1>9. BuriedAreExposed'
  BY <1>0 DEF CarryRest, BuriedAreExposed, Hosted, Table, Archive, Paths
<1>10. AllCarried'
  BY <1>0
  DEF CarryRest, AllCarried, OnTheWay, ToldIsClosed, Told, RowsKeep, Carried,
      Kept, Hosted, Lost, Live, MayBeOut, Table, Archive, AtEnd, Paths
<1> QED
  BY <1>1, <1>2, <1>3, <1>4, <1>5, <1>6, <1>7, <1>8, <1>9, <1>10
  DEF CarryRest, SteersKeep

(* The attempt and the obligation carry nothing.                           *)
LEMMA BookkeepingCarries ==
    ASSUME AnswerInv, CarryRest, SetAttempt \/ SettleRead \/ SettleWrite
    PROVE  CarryRest'
<1> USE CarryFacts
<1>0. \/ /\ path' = path /\ cur' = cur
         /\ step' = step + 1 \/ (step' = step + 2 /\ At("settle"))
      \/ path' = "none" /\ step' = 0 /\ AtEnd
  BY WalkOn DEF SetAttempt, SettleRead, SettleWrite, Leave, At
<1>a. At("unattempt") \/ At("reattempt") \/ At("settle") \/ At("write")
  BY DEF SetAttempt, SettleRead, SettleWrite
<1>b. UNCHANGED <<inbox, claim, row, phase, sweep, zombies, since, taken,
                  arrived, outcome, joined, everTaken, exposed, escapes>>
  BY DEF SetAttempt, SettleRead, SettleWrite
<1>1. RunsKeep'
  BY <1>0, <1>a, <1>b DEF CarryRest, SteersKeep, RunsKeep, Table, Paths
<1>2. ClaimsList'
  BY <1>0, <1>a, <1>b DEF CarryRest, SteersKeep, ClaimsList
<1>3. SteersAreFresh'
  BY <1>0, <1>a, <1>b DEF CarryRest, SteersKeep, SteersAreFresh, Unheard
<1>4. JoinedOnce'
  BY <1>0, <1>a, <1>b DEF CarryRest, SteersKeep, JoinedOnce
<1>5. BootIsOrdered'
  BY <1>0, <1>a, <1>b DEF CarryRest, BootIsOrdered, Table, Paths
<1>6. OnTheWay'
  BY <1>0, <1>a, <1>b
  DEF CarryRest, BootIsOrdered, OnTheWay, Live, MayBeOut, Table, Paths
<1>7. ToldIsClosed'
  BY <1>0, <1>a, <1>b
  DEF CarryRest, OnTheWay, ToldIsClosed, Told, Hosted, Table, Paths
<1>8. RowsKeep'
  BY <1>0, <1>a, <1>b
  DEF CarryRest, SteersKeep, JoinedOnce, OnTheWay, RowsKeep, ToldIsClosed,
      Told, Hosted, Lost, Live, MayBeOut, Table, Paths
<1>9. BuriedAreExposed'
  BY <1>0, <1>a, <1>b DEF CarryRest, BuriedAreExposed, Hosted, Table, Paths
<1>10. AllCarried'
  BY <1>0, <1>a, <1>b
  DEF CarryRest, AllCarried, OnTheWay, ToldIsClosed, Told, RowsKeep, Carried,
      Kept, Hosted, Lost, Live, MayBeOut, Table, AtEnd, Paths
<1> QED
  BY <1>1, <1>2, <1>3, <1>4, <1>5, <1>6, <1>7, <1>8, <1>9, <1>10
  DEF CarryRest, SteersKeep

(* What is released is closed, announced next or queued.                   *)
LEMMA ReleaseCarries ==
    ASSUME AnswerInv, CarryRest, Release
    PROVE  CarryRest'
<1> USE CarryFacts
<1>0. \/ path' = path /\ cur' = cur /\ step' = step + 1
      \/ path' = "none" /\ step' = 0 /\ AtEnd
  BY WalkOn DEF Release, Leave, At
<1>1. RunsKeep'
  BY <1>0 DEF CarryRest, SteersKeep, RunsKeep, Table, Release, NoClaim, Paths
<1>2. ClaimsList'
  BY <1>0 DEF CarryRest, SteersKeep, ClaimsList, Release, NoClaim
<1>3. SteersAreFresh'
  <2>1. \A m \in Ids : claim'[m].inputs \subseteq claim[m].inputs
    BY DEF Release, NoClaim
  <2>2. UNCHANGED <<joined, since, taken, inbox, escapes>>
    BY DEF Release
  <2> QED BY <2>1, <2>2 DEF CarryRest, SteersKeep, SteersAreFresh, Unheard
<1>4. JoinedOnce'
  BY <1>0 DEF CarryRest, SteersKeep, JoinedOnce, Release, NoClaim
<1>5. BootIsOrdered'
  BY <1>0 DEF CarryRest, BootIsOrdered, Table, Release, NoClaim, Paths
<1>6. OnTheWay'
  BY <1>0
  DEF CarryRest, BootIsOrdered, OnTheWay, Live, MayBeOut, Table, Release,
      NoClaim, Paths
<1>7. ToldIsClosed'
  BY <1>0
  DEF CarryRest, OnTheWay, ToldIsClosed, Told, Hosted, Table, Release,
      NoClaim, Paths
<1>8. RowsKeep'
  BY <1>0
  DEF CarryRest, SteersKeep, JoinedOnce, OnTheWay, RowsKeep, ToldIsClosed,
      Told, Hosted, Lost, Live, MayBeOut, Table, Release, NoClaim, AtEnd,
      Paths
<1>9. BuriedAreExposed'
  BY <1>0
  DEF CarryRest, BuriedAreExposed, Hosted, Table, Release, NoClaim, Paths
<1>10. AllCarried'
  BY <1>0
  DEF CarryRest, AllCarried, OnTheWay, ToldIsClosed, Told, RowsKeep, Carried,
      Kept, Hosted, Lost, Live, MayBeOut, Table, Release, NoClaim, AtEnd,
      Paths
<1> QED
  BY <1>1, <1>2, <1>3, <1>4, <1>5, <1>6, <1>7, <1>8, <1>9, <1>10
  DEF CarryRest, SteersKeep

(* A stamped claim is live.                                                *)
LEMMA BeginDrainCarries ==
    ASSUME AnswerInv, CarryRest, BeginDrain
    PROVE  CarryRest'
<1> USE CarryFacts
<1>b. \A m \in Ids : /\ claim'[m].inputs = claim[m].inputs
                     /\ claim'[m].state # "none" <=> claim[m].state # "none"
                     /\ (Live(m)' <=> Live(m))
  BY DEF BeginDrain, Stamped, Live
<1>c. UNCHANGED <<phase, sweep, path, step, cur, joined, exposed>>
  BY DEF BeginDrain
<1>e. \A m \in Ids : Hosted(m)' = Hosted(m)
  BY <1>c DEF Hosted
<1>d. step > 0 => claim'[cur].inputs = claim[cur].inputs
  BY <1>b
<1>1. RunsKeep'
  BY <1>b DEF CarryRest, SteersKeep, RunsKeep, BeginDrain, Stamped, Claims
<1>2. ClaimsList'
  BY <1>b DEF CarryRest, SteersKeep, ClaimsList, BeginDrain, Stamped, Claims
<1>3. SteersAreFresh'
  BY <1>b
  DEF CarryRest, SteersKeep, SteersAreFresh, Unheard, BeginDrain, Stamped,
      Claims
<1>4. JoinedOnce'
  BY <1>b DEF CarryRest, SteersKeep, JoinedOnce, BeginDrain, Stamped, Claims
<1>5. BootIsOrdered'
  BY <1>b, <1>c DEF CarryRest, BootIsOrdered
<1>6. OnTheWay'
  BY <1>b DEF CarryRest, OnTheWay, Live, MayBeOut, BeginDrain, Stamped, Claims
<1>7. ToldIsClosed'
  BY <1>b
  DEF CarryRest, ToldIsClosed, Told, Hosted, BeginDrain, Stamped, Claims
<1>8. RowsKeep'
  BY <1>b
  DEF CarryRest, RowsKeep, Hosted, Lost, Live, MayBeOut, BeginDrain, Stamped,
      Claims
<1>9. BuriedAreExposed'
  <2> SUFFICES ASSUME step = 2, path = "tombstone",
                      NEW m \in {cur} \cup claim[cur].inputs
               PROVE  Hosted(m)' \subseteq exposed
    BY <1>c, <1>d DEF BuriedAreExposed
  <2>1. m \in Ids
    OBVIOUS
  <2> QED BY <1>e, <2>1 DEF CarryRest, BuriedAreExposed
<1>10. AllCarried'
  BY <1>b
  DEF CarryRest, AllCarried, Carried, Kept, Hosted, Lost, Live, BeginDrain,
      Stamped, Claims
<1> QED
  BY <1>1, <1>2, <1>3, <1>4, <1>5, <1>6, <1>7, <1>8, <1>9, <1>10
  DEF CarryRest, SteersKeep

(* What is rejected is in the inbox.                                       *)
LEMMA RejectArrivalCarries ==
    ASSUME AnswerInv, CarryRest, RejectArrival
    PROVE  CarryRest'
<1> USE CarryFacts
<1>1. RunsKeep'
  BY DEF CarryRest, SteersKeep, RunsKeep, RejectArrival, Enter, Idle
<1>2. ClaimsList'
  BY DEF CarryRest, SteersKeep, ClaimsList, RejectArrival, Enter, Idle
<1>3. SteersAreFresh'
  BY DEF CarryRest, SteersKeep, SteersAreFresh, Unheard, RejectArrival, Enter,
     Idle
<1>4. JoinedOnce'
  BY DEF CarryRest, SteersKeep, JoinedOnce, RejectArrival, Enter, Idle
<1>5. BootIsOrdered'
  BY DEF CarryRest, BootIsOrdered, RejectArrival, Enter, Idle
<1>6. OnTheWay'
  BY DEF CarryRest, OnTheWay, Live, MayBeOut, RejectArrival, Enter, Idle
<1>7. ToldIsClosed'
  BY DEF CarryRest, ToldIsClosed, Told, Hosted, RejectArrival, Enter, Idle
<1>8. RowsKeep'
  BY DEF CarryRest, RowsKeep, Hosted, Lost, Live, MayBeOut, RejectArrival,
     Enter, Idle
<1>9. BuriedAreExposed'
  BY DEF CarryRest, BuriedAreExposed, RejectArrival, Enter, Idle
<1>10. AllCarried'
  BY DEF CarryRest, AllCarried, Carried, Kept, Hosted, Lost, Live,
     RejectArrival, Enter, Idle
<1> QED
  BY <1>1, <1>2, <1>3, <1>4, <1>5, <1>6, <1>7, <1>8, <1>9, <1>10
  DEF CarryRest, SteersKeep

(* What dies with the process is noted.                                    *)
LEMMA DieCarries ==
    ASSUME AnswerInv, CarryRest, Die, claim' \in {claim, Stamped}
    PROVE  CarryRest'
<1> USE CarryFacts
<1>b. \A m \in Ids : /\ claim'[m].inputs = claim[m].inputs
                     /\ claim'[m].state # "none" <=> claim[m].state # "none"
                     /\ (Live(m)' <=> Live(m))
  BY DEF Stamped, Claims, Live
<1>c. \A m \in Ids : taken[m] \subseteq exposed'
  BY DEF Die, Popped
<1>d. \A c \in Hosted(cur) :
        /\ step > 0 /\ path \in {"drop", "reject"} /\ cur \notin inbox
        /\ ~Recoverable(c) \/ row[cur] \in MayBeOut
        => c \in exposed'
  BY DEF Die, Unannounced, Audience, MayBeOut, Hosted
<1>1. RunsKeep'
  BY <1>b, <1>c, <1>d
  DEF CarryRest, SteersKeep, RunsKeep, Die, Leave, Stamped, Claims
<1>2. ClaimsList'
  BY <1>b, <1>c, <1>d
  DEF CarryRest, SteersKeep, ClaimsList, Die, Leave, Stamped, Claims
<1>3. SteersAreFresh'
  BY <1>b, <1>c, <1>d
  DEF CarryRest, SteersKeep, SteersAreFresh, Unheard, Die, Leave, Stamped,
      Claims
<1>4. JoinedOnce'
  BY <1>b, <1>c, <1>d
  DEF CarryRest, SteersKeep, JoinedOnce, Die, Leave, Stamped, Claims
<1>5. BootIsOrdered'
  BY <1>b, <1>c, <1>d
  DEF CarryRest, BootIsOrdered, Die, Leave, Stamped, Claims
<1>6. OnTheWay'
  BY <1>b, <1>c, <1>d
  DEF CarryRest, OnTheWay, Live, MayBeOut, Die, Leave, Stamped, Claims
<1>7. ToldIsClosed'
  BY <1>b, <1>c, <1>d
  DEF CarryRest, ToldIsClosed, Told, Hosted, Die, Leave, Stamped, Claims
<1>8. RowsKeep'
  BY <1>b, <1>c, <1>d
  DEF CarryRest, SteersKeep, JoinedOnce, OnTheWay, RowsKeep, ToldIsClosed,
      Told, Hosted, Lost, Live, MayBeOut, Die, Leave, Stamped, Claims,
      ClaimStates
<1>9. BuriedAreExposed'
  BY <1>b, <1>c, <1>d
  DEF CarryRest, BuriedAreExposed, Hosted, Die, Leave, Stamped, Claims
<1>10. AllCarried'
  <2> SUFFICES ASSUME NEW c \in Chats, ~Lost(c)'
               PROVE  Carried(c)'
    BY DEF AllCarried
  <2>1. Carried(c) /\ c \notin exposed'
    BY DEF CarryRest, AllCarried, Lost, Die
  <2>2. UNCHANGED <<inbox, joined>>
    BY DEF Die
  <2>3. \A m \in Ids : Kept(m) => Kept(m)'
    BY <1>b, <2>2 DEF Kept
  <2>4. CASE Kept(c) \/ (joined[c] # NoMsg /\ Kept(joined[c]))
    BY <2>2, <2>3, <2>4 DEF Carried
  <2>5. CASE step > 0 /\ path \in {"drop", "reject"} /\ c \in Hosted(cur)
    <3>1. CASE cur \in inbox
      BY <2>2, <2>3, <2>5, <3>1 DEF Carried, Kept, Hosted
    <3>2. CASE cur \notin inbox
      <4>1. Recoverable(c)
        BY <1>d, <2>1, <2>5, <3>2
      <4>2. Kept(c) \/ (joined[c] # NoMsg /\ Kept(joined[c]))
        BY <4>1 DEF Recoverable, Kept, CarryRest, SteersKeep, JoinedOnce
      <4> QED BY <2>2, <2>3, <4>2 DEF Carried
    <3> QED BY <3>1, <3>2
  <2> QED BY <1>c, <2>1, <2>4, <2>5 DEF Carried
<1> QED
  BY <1>1, <1>2, <1>3, <1>4, <1>5, <1>6, <1>7, <1>8, <1>9, <1>10
  DEF CarryRest, SteersKeep

(* The invariant holds initially.                                          *)
LEMMA CarryInvInit ==
    ASSUME Init
    PROVE  CarryInv
<1>1. AnswerInv
  BY AnswerInvInit
<1>2. CarryRest
  BY LifecycleAssumption
  DEF Init, NoClaim, CarryRest, SteersKeep, RunsKeep, ClaimsList,
      SteersAreFresh, JoinedOnce, BootIsOrdered, OnTheWay, ToldIsClosed,
      Told, RowsKeep, BuriedAreExposed, AllCarried, Hosted, Unheard,
      MayBeOut, Lost
<1> QED BY <1>1, <1>2 DEF CarryInv

(* An abandoned run stays counted and a follow-up stays taken.             *)
LEMMA ClearBefore ==
    ASSUME AnswerInv, [Next]_vars, Clear'
    PROVE  Clear
<1>1. escapes \in Nat
  BY CarryFacts
<1>2. everTaken \subseteq everTaken' /\ escapes' \in {escapes, escapes + 1}
  BY DEF Next, Harness, Recover, WayOut, MainLoop, Worker, SendChat,
     RecordSend, SendWork, Boot, Requeue, MarkQueued, Refund, Tombstone, Bury,
     SweepDone, SweepClaim, LedgerWrite, Reply, Notice, Archive, SetAttempt,
     Release, SettleRead, SettleWrite, CheckObligations, SendPrompt, Admit,
     RejectArrival, EndDrain, Pick, Finish, RecordSteer, LateSettle,
     TakeSteer, Trip, Escape, BeginDrain, Crash, Die, vars
<1> QED BY <1>1, <1>2 DEF Clear

(* The invariant is inductive.                                             *)
LEMMA CarryInvStep ==
    ASSUME CarryInv, [Next]_vars
    PROVE  CarryInv'
<1>1. AnswerInv /\ AnswerInv'
  BY AnswerInvStep DEF CarryInv
<1> SUFFICES ASSUME Clear'
             PROVE  CarryRest'
  BY <1>1 DEF CarryInv
<1>2. Clear /\ CarryRest
  BY <1>1, ClearBefore DEF CarryInv
<1> USE <1>1, <1>2
<1>3. CASE Harness
  <2>1. ASSUME NEW c \in Chats, RecordSend(c)
        PROVE  CarryRest'
    BY <2>1, FrameCarries DEF RecordSend
  <2> QED BY <1>3, <2>1, SendChatCarries, SendWorkCarries DEF Harness
<1>4. CASE Recover
  BY <1>4, BootCarries, RequeueCarries, MarkQueuedCarries, RefundCarries,
     TombstoneCarries, BuryCarries, SweepDoneCarries, SweepClaimCarries
  DEF Recover
<1>5. CASE WayOut
  BY <1>5, LedgerWriteCarries, ReplyCarries, NoticeCarries, ArchiveCarries,
     BookkeepingCarries, ReleaseCarries
  DEF WayOut
<1>6. CASE MainLoop
  <2>1. EndDrain => CarryRest'
    BY DieCarries DEF EndDrain
  <2> QED BY <1>6, <2>1, CheckObligationsCarries, SendPromptCarries,
             AdmitCarries, RejectArrivalCarries, PickCarries
          DEF MainLoop
<1>7. CASE Worker
  BY <1>7, FinishCarries, RecordSteerCarries, LateSettleCarries,
     TakeSteerCarries
  DEF Worker
<1>8. CASE Trip \/ Escape \/ BeginDrain \/ Crash
  <2>1. Trip => CarryRest'
    BY FrameCarries DEF Trip
  <2>2. Crash => CarryRest'
    BY DieCarries DEF Crash
  <2> QED BY <1>8, <2>1, <2>2, EscapeCarries, BeginDrainCarries
<1>9. CASE UNCHANGED vars
  BY <1>9, FrameCarries DEF vars
<1> QED BY <1>3, <1>4, <1>5, <1>6, <1>7, <1>8, <1>9 DEF Next

(* As long as no run was abandoned, or no follow-up was taken into a live  *)
(* turn, an open chat is always carried by something that brings it back,  *)
(* wherever the crashes and shutdowns fall: its file, the claim of its     *)
(* turn or of the one it joined, the run that popped it, or the way out    *)
(* that is about to tell its user.                                         *)
THEOREM OpenChatsAreCarried == Spec => [](Clear => OpenIsCarried)
<1>1. CarryInv /\ Clear => OpenIsCarried
  <2> SUFFICES ASSUME AnswerInv, CarryRest, NEW c \in Chats, ~Lost(c)
               PROVE  \/ Recoverable(c)
                      \/ \E m \in Ids : c \in taken[m]
                      \/ step > 0 /\ c \in Audience(cur)
                      \/ joined[c] # NoMsg /\ Recoverable(joined[c])
    BY DEF CarryInv, OpenIsCarried, Lost
  <2>1. \A m \in Ids : Kept(m) => Recoverable(m)
    BY DEF Kept, Recoverable, Live, CarryRest, SteersKeep, ClaimsList
  <2>2. Carried(c) /\ c \in Ids /\ joined[c] \in Ids \cup {NoMsg}
    BY CarryFacts DEF CarryRest, AllCarried
  <2> QED BY <2>1, <2>2 DEF Carried, Audience, Hosted
<1> QED BY <1>1, CarryInvInit, CarryInvStep, PTL DEF Spec

=============================================================================
