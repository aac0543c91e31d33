---------------------------- MODULE Sends_proofs ----------------------------
(***************************************************************************)
(* Proofs about Sends, for any nonces, inputs, recipients, threads and     *)
(* ledger size: what the ledger keeps, what a client is told, and that a   *)
(* nonce is dispatched once unless one of the named excuses applies.       *)
(***************************************************************************)
EXTENDS Sends, SequenceTheorems, FiniteSetTheorems, TLAPS

-----------------------------------------------------------------------------
(* The ledger as a sequence.                                               *)

\* A nonce has one record, and the records after it are newer.
LedgerIsOrdered ==
    \A k, l \in 1..Len(ledger) :
        k < l => /\ ledger[k].nonce # ledger[l].nonce
                 /\ ledger[l].nonce \in newer[ledger[k].nonce]

(* A sequence without one of its places.                                   *)
LEMMA RemoveAtProperties ==
    ASSUME NEW S, NEW s \in Seq(S), NEW gap \in 1..Len(s)
    PROVE  /\ RemoveAt(s, gap) \in Seq(S)
           /\ Len(RemoveAt(s, gap)) = Len(s) - 1
           /\ \A j \in 1..(Len(s) - 1) :
                RemoveAt(s, gap)[j] = s[IF j < gap THEN j ELSE j + 1]
<1>1. /\ Len(s) \in Nat /\ gap \in 1..Len(s)
      /\ \A i \in 1..Len(s) : s[i] \in S
  BY ElementOfSeq, LenProperties
<1>2. /\ SubSeq(s, 1, gap - 1) \in Seq(S)
      /\ Len(SubSeq(s, 1, gap - 1)) = gap - 1
      /\ \A i \in 1..(gap - 1) : SubSeq(s, 1, gap - 1)[i] = s[i]
  <2>1. \A i \in 1..(gap - 1) : s[i] \in S
    BY <1>1
  <2>2. 1 \in Int /\ gap - 1 \in Int
    BY <1>1
  <2>3. /\ IF 1 <= gap - 1 THEN gap - 1 - 1 + 1 = gap - 1 ELSE 0 = gap - 1
        /\ \A i \in 1..(gap - 1) : i \in 1..(gap - 1 - 1 + 1) /\ 1 + i - 1 = i
    BY <1>1
  <2> QED BY <2>1, <2>2, <2>3, SubSeqProperties
<1>3. /\ SubSeq(s, gap + 1, Len(s)) \in Seq(S)
      /\ Len(SubSeq(s, gap + 1, Len(s))) = Len(s) - gap
      /\ \A i \in 1..(Len(s) - gap) :
           SubSeq(s, gap + 1, Len(s))[i] = s[gap + i]
  <2>1. \A i \in (gap + 1)..Len(s) : s[i] \in S
    BY <1>1
  <2>2. gap + 1 \in Int /\ Len(s) \in Int
    BY <1>1
  <2> QED BY <1>1, <2>1, <2>2, SubSeqProperties
<1>4. PICK before \in Seq(S) : before = SubSeq(s, 1, gap - 1)
  BY <1>2
<1>5. PICK after \in Seq(S) : after = SubSeq(s, gap + 1, Len(s))
  BY <1>3
<1>6. PICK rest \in Seq(S) : rest = before \o after
  BY ConcatProperties
<1>7. /\ Len(rest) = Len(before) + Len(after)
      /\ \A i \in 1..(Len(before) + Len(after)) :
           rest[i] = IF i <= Len(before) THEN before[i]
                                         ELSE after[i - Len(before)]
  BY <1>6, ConcatProperties
<1>8. /\ Len(rest) = Len(s) - 1
      /\ \A i \in 1..(Len(s) - 1) :
           rest[i] = IF i <= gap - 1 THEN before[i] ELSE after[i - (gap - 1)]
  <2>1. Len(before) = gap - 1 /\ Len(after) = Len(s) - gap
    BY <1>2, <1>3, <1>4, <1>5
  <2>2. (gap - 1) + (Len(s) - gap) = Len(s) - 1
    BY <1>1
  <2> QED BY <1>7, <2>1, <2>2
<1>9. ASSUME NEW j \in 1..(Len(s) - 1)
      PROVE  rest[j] = s[IF j < gap THEN j ELSE j + 1]
  <2>1. CASE j < gap
    <3>1. j \in 1..(gap - 1) /\ j <= gap - 1
      BY <1>1, <2>1
    <3>2. rest[j] = before[j]
      BY <1>8, <3>1
    <3> QED BY <1>2, <1>4, <2>1, <3>1, <3>2
  <2>2. CASE ~(j < gap)
    <3>1. /\ j - (gap - 1) \in 1..(Len(s) - gap)
          /\ j + 1 = gap + (j - (gap - 1)) /\ ~(j <= gap - 1)
      BY <1>1, <2>2
    <3>2. rest[j] = after[j - (gap - 1)]
      BY <1>8, <3>1
    <3> QED BY <1>3, <1>5, <2>2, <3>1, <3>2
  <2> QED BY <2>1, <2>2
<1>10. RemoveAt(s, gap) = rest
  BY <1>4, <1>5, <1>6 DEF RemoveAt
<1> QED BY <1>8, <1>9, <1>10

(* The records but one, where the nonce had one, in their order.           *)
LEMMA OthersKept ==
    ASSUME ledger \in Seq(Records), LedgerIsOrdered, NEW n \in Nonces
    PROVE  \E gap \in 1..(Len(ledger) + 1) :
             /\ Others(n) \in Seq(Records)
             /\ IF gap <= Len(ledger)
                  THEN /\ Len(Others(n)) = Len(ledger) - 1
                       /\ ledger[gap].nonce = n
                  ELSE Len(Others(n)) = Len(ledger)
             /\ \A j \in 1..Len(Others(n)) :
                  Others(n)[j] = ledger[IF j < gap THEN j ELSE j + 1]
             /\ \A k \in 1..Len(ledger) : k # gap => ledger[k].nonce # n
<1>1. Len(ledger) \in Nat
  BY LenProperties
<1>2. CASE \E k \in 1..Len(ledger) : ledger[k].nonce = n
  <2>1. PICK gap \in 1..Len(ledger) :
          gap = CHOOSE k \in 1..Len(ledger) : ledger[k].nonce = n
    BY <1>2
  <2>2. ledger[gap].nonce = n /\ Others(n) = RemoveAt(ledger, gap)
    BY <1>2, <2>1 DEF Others
  <2>3. \A k \in 1..Len(ledger) : k # gap => ledger[k].nonce # n
    BY <1>1, <2>2 DEF LedgerIsOrdered
  <2>4. /\ Others(n) \in Seq(Records)
        /\ Len(Others(n)) = Len(ledger) - 1
        /\ \A j \in 1..(Len(ledger) - 1) :
             Others(n)[j] = ledger[IF j < gap THEN j ELSE j + 1]
    BY <2>2, RemoveAtProperties
  <2>5. gap \in 1..(Len(ledger) + 1) /\ gap <= Len(ledger)
    BY <1>1
  <2> QED BY <2>2, <2>3, <2>4, <2>5
<1>3. CASE ~ \E k \in 1..Len(ledger) : ledger[k].nonce = n
  <2>1. Others(n) = ledger
    BY <1>3 DEF Others
  <2>2. Len(ledger) + 1 \in 1..(Len(ledger) + 1)
    BY <1>1
  <2> QED BY <1>1, <1>3, <2>1, <2>2
<1> QED BY <1>2, <1>3

\* s ends in the new record; before it stand other records of the ledger in
\* their order, and what is missing was the oldest of a full ledger.
IsNext(s, n, i) ==
    /\ s \in Seq(Records) /\ Len(s) \in 1..LEDGER_CAP
    /\ s[Len(s)] = [nonce |-> n, digest |-> i]
    /\ \E at \in [1..(Len(s) - 1) -> 1..Len(ledger)] :
         /\ \A j \in 1..(Len(s) - 1) :
              s[j] = ledger[at[j]] /\ s[j].nonce # n
         /\ \A j, k \in 1..(Len(s) - 1) : j < k => at[j] < at[k]
         /\ \A k \in 1..Len(ledger) :
              \/ ledger[k].nonce = n
              \/ \E j \in 1..(Len(s) - 1) : at[j] = k
              \/ /\ Len(s) = LEDGER_CAP
                 /\ \A j \in 1..(Len(s) - 1) : k < at[j]

(* The ledger after record_accept.                                         *)
LEMMA RecordedIsNext ==
    ASSUME ledger \in Seq(Records), Len(ledger) <= LEDGER_CAP,
           LedgerIsOrdered, NEW n \in Nonces, NEW i \in Inputs
    PROVE  IsNext(Recorded(n, i), n, i)
<1> DEFINE new == [nonce |-> n, digest |-> i]
           all == Append(Others(n), new)
           s   == Recorded(n, i)
<1>1. Len(ledger) \in Nat /\ LEDGER_CAP \in Nat \ {0} /\ new \in Records
  BY LenProperties, SendsAssumption DEF Records
<1>2. PICK gap \in 1..(Len(ledger) + 1) :
             /\ Others(n) \in Seq(Records)
             /\ IF gap <= Len(ledger)
                  THEN /\ Len(Others(n)) = Len(ledger) - 1
                       /\ ledger[gap].nonce = n
                  ELSE Len(Others(n)) = Len(ledger)
             /\ \A j \in 1..Len(Others(n)) :
                  Others(n)[j] = ledger[IF j < gap THEN j ELSE j + 1]
             /\ \A k \in 1..Len(ledger) : k # gap => ledger[k].nonce # n
  BY OthersKept
<1> DEFINE old == Len(Others(n))
<1>3. old \in Nat /\ old <= LEDGER_CAP
  BY <1>1, <1>2
<1>4. /\ all \in Seq(Records) /\ Len(all) = old + 1
      /\ \A j \in 1..old : all[j] = Others(n)[j]
      /\ all[old + 1] = new
  BY <1>1, <1>2, AppendProperties
<1> DEFINE cut == IF old + 1 > LEDGER_CAP THEN 1 ELSE 0
<1>5. s = Keep(all)
  BY DEF Recorded
<1>6. cut \in {0, 1} /\ (cut = 1 <=> old + 1 > LEDGER_CAP)
  OBVIOUS
<1> HIDE DEF new, all, s, old, cut
<1>7. /\ s \in Seq(Records) /\ Len(s) = old + 1 - cut
      /\ \A j \in 1..(old + 1 - cut) : s[j] = all[j + cut]
  <2>1. CASE old + 1 > LEDGER_CAP
    <3>1. s = SubSeq(all, 2, old + 1)
      BY <1>1, <1>3, <1>4, <1>5, <2>1 DEF Keep
    <3>2. \A j \in 2..(old + 1) : all[j] \in Records
      BY <1>3, <1>4, ElementOfSeq
    <3>3. /\ s \in Seq(Records) /\ Len(s) = old
          /\ \A j \in 1..old : s[j] = all[j + 1]
      BY <1>1, <1>3, <2>1, <3>1, <3>2, SubSeqProperties
    <3> QED BY <1>3, <1>6, <2>1, <3>3
  <2>2. CASE ~(old + 1 > LEDGER_CAP)
    BY <1>1, <1>3, <1>4, <1>5, <1>6, <2>2 DEF Keep
  <2> QED BY <2>1, <2>2
<1>8. Len(s) \in 1..LEDGER_CAP /\ s[Len(s)] = new
  BY <1>1, <1>3, <1>4, <1>7, <1>6
<1> DEFINE at == [j \in 1..(Len(s) - 1) |->
                    IF j + cut < gap THEN j + cut ELSE j + cut + 1]
<1>9. old = IF gap <= Len(ledger) THEN Len(ledger) - 1 ELSE Len(ledger)
  BY <1>1, <1>2 DEF old
<1>10. at \in [1..(Len(s) - 1) -> 1..Len(ledger)]
  <2>1. ASSUME NEW j \in 1..(Len(s) - 1)
        PROVE  at[j] \in 1..Len(ledger)
    BY <1>1, <1>3, <1>7, <1>8, <1>9, <1>6
  <2> QED BY <2>1
<1>11. ASSUME NEW j \in 1..(Len(s) - 1)
       PROVE  s[j] = ledger[at[j]] /\ s[j].nonce # n
  <2>1. j + cut \in 1..old /\ j \in 1..(old + 1 - cut)
    BY <1>3, <1>7, <1>8, <1>6
  <2>2. s[j] = Others(n)[j + cut]
    BY <1>4, <1>7, <2>1
  <2>3. s[j] = ledger[at[j]]
    BY <1>2, <2>1, <2>2 DEF old
  <2>4. at[j] # gap /\ at[j] \in 1..Len(ledger)
    <3>1. at[j] = IF j + cut < gap THEN j + cut ELSE j + cut + 1
      OBVIOUS
    <3>2. at[j] \in 1..Len(ledger)
      BY <1>10
    <3> HIDE DEF at
    <3> QED BY <1>1, <1>3, <1>6, <2>1, <3>1, <3>2
  <2> QED BY <1>2, <2>3, <2>4
<1>12. \A j, k \in 1..(Len(s) - 1) : j < k => at[j] < at[k]
  <2> SUFFICES ASSUME NEW j \in 1..(Len(s) - 1), NEW k \in 1..(Len(s) - 1),
                      j < k
               PROVE  at[j] < at[k]
    OBVIOUS
  <2>1. /\ at[j] = IF j + cut < gap THEN j + cut ELSE j + cut + 1
        /\ at[k] = IF k + cut < gap THEN k + cut ELSE k + cut + 1
    OBVIOUS
  <2>2. j \in Nat /\ k \in Nat /\ gap \in Nat
    BY <1>1, <1>8
  <2> HIDE DEF at
  <2> QED BY <1>6, <2>1, <2>2
<1>13. ASSUME NEW k \in 1..Len(ledger)
       PROVE  \/ ledger[k].nonce = n
              \/ \E j \in 1..(Len(s) - 1) : at[j] = k
              \/ /\ Len(s) = LEDGER_CAP
                 /\ \A j \in 1..(Len(s) - 1) : k < at[j]
  <2>1. CASE k = gap
    BY <1>2, <2>1
  <2>2. CASE k # gap
    <3> DEFINE j == (IF k < gap THEN k ELSE k - 1) - cut
    <3>1. CASE j >= 1
      <4>1. j \in 1..(Len(s) - 1)
        BY <1>1, <1>3, <1>7, <1>9, <1>6, <2>2, <3>1
      <4>2. at[j] = k
        BY <1>1, <1>6, <2>2, <4>1
      <4> QED BY <4>1, <4>2
    <3>2. CASE j < 1
      <4>1. cut = 1 /\ (IF k < gap THEN k ELSE k - 1) = 1
        BY <1>1, <1>6, <2>2, <3>2
      <4>2. Len(s) = LEDGER_CAP
        BY <1>1, <1>3, <1>7, <1>6, <4>1
      <4>3. \A q \in 1..(Len(s) - 1) : k < at[q]
        BY <1>1, <1>8, <2>2, <4>1
      <4> QED BY <4>2, <4>3
    <3> QED BY <1>1, <1>6, <3>1, <3>2
  <2> QED BY <2>1, <2>2
<1> HIDE DEF at
<1> QED BY <1>7, <1>8, <1>10, <1>11, <1>12, <1>13 DEF IsNext, s, new
-----------------------------------------------------------------------------
(* The inductive invariant.                                                *)

\* A thread that has a request knows its nonce and its input, and
\* sends nothing before it looked the nonce up.
ThreadsAreBound ==
    \A h \in Handlers :
        /\ handler[h].stage = "free" => handler[h] = Free
        /\ handler[h].stage # "free" =>
             handler[h].nonce \in Nonces /\ handler[h].input \in Inputs
        /\ handler[h].stage = "admit" => handler[h].todo = Members

\* A record is of an input its client was told of.
RecordsAreTold ==
    \A k \in 1..Len(ledger) : ledger[k].digest \in told[ledger[k].nonce]

\* A recipient a thread has done with has the chat, and so has every recipient
\* of what a client was told was accepted.
SentBefore ==
    /\ \A h \in Handlers :
         handler[h].stage = "dispatch" =>
           \A m \in Members \ handler[h].todo :
             copies[handler[h].nonce][handler[h].input][m] > 0
    /\ AcceptedIsSent

\* The ledger forgets a nonce only for LEDGER_CAP newer ones.
ForgottenIsOld ==
    \A n \in Nonces :
        \/ told[n] = {}
        \/ \E k \in 1..Len(ledger) : ledger[k].nonce = n
        \/ Cardinality(newer[n]) >= LEDGER_CAP

\* What a handler thread is.
Threads == [stage : {"free", "admit", "dispatch"},
            nonce : Nonces \cup {"none"}, input : Inputs \cup {NoInput},
            todo : SUBSET Members]

(* A thread that was let through, or has done with a recipient, is one.    *)
LEMMA ThreadShape ==
    /\ TypeOK => handler \in [Handlers -> Threads]
    /\ \A t \in Threads :
          /\ [t EXCEPT !.stage = "dispatch"] \in Threads
          /\ \A m \in Members : [t EXCEPT !.todo = t.todo \ {m}] \in Threads
<1>1. TypeOK => handler \in [Handlers -> Threads]
  BY DEF TypeOK, Threads
<1>2. ASSUME NEW t \in Threads, NEW m \in Members
      PROVE  /\ [t EXCEPT !.stage = "dispatch"] \in Threads
             /\ [t EXCEPT !.todo = t.todo \ {m}] \in Threads
  BY DEF Threads
<1>3. ASSUME NEW t \in Threads
      PROVE  [t EXCEPT !.stage = "dispatch"] \in Threads
  BY DEF Threads
<1> QED BY <1>1, <1>2, <1>3

Dispatching(h, n) == handler[h].stage = "dispatch" /\ handler[h].nonce = n

\* Nothing was sent for n, or one input was sent to everyone.
SentWhole(n) ==
    IF told[n] = {} THEN \A i \in Inputs, m \in Members : copies[n][i][m] = 0
    ELSE \E j \in Inputs : \A i \in Inputs, m \in Members :
           copies[n][i][m] = IF i = j THEN 1 ELSE 0

\* What h has sent for its nonce is all that was sent for it.
SentBy(h, n) ==
    /\ told[n] = {}
    /\ \A i \in Inputs, m \in Members :
         copies[n][i][m] =
           IF i = handler[h].input /\ m \notin handler[h].todo THEN 1 ELSE 0

\* At most one thread dispatches n, and nobody did before it.
DispatchedByOne(n) ==
    /\ \A g, h \in Handlers : Dispatching(g, n) /\ Dispatching(h, n) => g = h
    /\ \A h \in Handlers : Dispatching(h, n) => SentBy(h, n)
    /\ (\A h \in Handlers : ~Dispatching(h, n)) => SentWhole(n)

\* That holds of a nonce nothing excuses.
OneDispatcher == \A n \in Nonces : excuse[n] = {} => DispatchedByOne(n)

SendsInv ==
    /\ TypeOK /\ LedgerIsOrdered /\ ThreadsAreBound /\ RecordsAreTold
    /\ SentBefore /\ ForgottenIsOld /\ OneDispatcher

LEMMA SendsInvInit == Init => SendsInv
<1> SUFFICES ASSUME Init PROVE SendsInv
  OBVIOUS
<1>1. Len(<<>>) = 0 /\ <<>> \in Seq(Records)
  BY EmptySeq
<1>2. TypeOK
  BY <1>1, SendsAssumption DEF Init, TypeOK, Free
<1>3. LedgerIsOrdered /\ RecordsAreTold
  BY <1>1 DEF Init, LedgerIsOrdered, RecordsAreTold
<1>4. ThreadsAreBound /\ SentBefore /\ ForgottenIsOld
  BY DEF Init, ThreadsAreBound, SentBefore, AcceptedIsSent, ForgottenIsOld, Free
<1>5. OneDispatcher
  BY DEF Init, OneDispatcher, DispatchedByOne, Dispatching, SentWhole, Free
<1> QED BY <1>2, <1>3, <1>4, <1>5 DEF SendsInv

(* What a step leaves alone of a nonce.                                    *)
LEMMA Undisturbed ==
    ASSUME NEW n \in Nonces, told'[n] = told[n], copies'[n] = copies[n],
           \A g \in Handlers : Dispatching(g, n)' <=> Dispatching(g, n),
           \A g \in Handlers : Dispatching(g, n) => handler'[g] = handler[g]
    PROVE  DispatchedByOne(n)' <=> DispatchedByOne(n)
<1>1. SentWhole(n)' <=> SentWhole(n)
  BY DEF SentWhole
<1>2. \A g \in Handlers : Dispatching(g, n) => (SentBy(g, n)' <=> SentBy(g, n))
  BY DEF SentBy
<1> QED BY <1>1, <1>2 DEF DispatchedByOne

(* A new request sends nothing.                                            *)
LEMMA RequestKeeps ==
    ASSUME SendsInv, NEW h \in Handlers, NEW n \in Nonces, NEW i \in Inputs,
           Request(h, n, i)
    PROVE  SendsInv'
<1>1. TypeOK'
  BY SendsAssumption DEF SendsInv, TypeOK, Request
<1>2. LedgerIsOrdered' /\ RecordsAreTold' /\ ForgottenIsOld'
  BY DEF SendsInv, Request, LedgerIsOrdered, RecordsAreTold, ForgottenIsOld
<1>3. ThreadsAreBound'
  BY DEF SendsInv, TypeOK, Request, ThreadsAreBound
<1>4. SentBefore'
  BY DEF SendsInv, TypeOK, Request, SentBefore, AcceptedIsSent
<1>5. OneDispatcher'
  <2> SUFFICES ASSUME NEW k \in Nonces, excuse'[k] = {}
               PROVE  DispatchedByOne(k)'
    BY DEF OneDispatcher
  <2>1. \A g \in Handlers :
          /\ Dispatching(g, k)' <=> Dispatching(g, k)
          /\ Dispatching(g, k) => handler'[g] = handler[g]
    BY DEF SendsInv, TypeOK, Request, Dispatching, Free
  <2>2. told' = told /\ copies' = copies /\ DispatchedByOne(k)
    BY DEF Request, SendsInv, OneDispatcher
  <2> QED BY <2>1, <2>2, Undisturbed
<1> QED BY <1>1, <1>2, <1>3, <1>4, <1>5 DEF SendsInv

(* A nonce the ledger does not know was never accepted, nobody dispatches  *)
(* it, or there is an excuse for the second dispatch.                      *)
LEMMA UnknownIsExcused ==
    ASSUME SendsInv, NEW h \in Handlers, handler[h].stage = "admit",
           NEW n \in Nonces, n = handler[h].nonce, Found(n) = {},
           Unknown(h, n) = {}
    PROVE  told[n] = {} /\ \A g \in Handlers : ~Dispatching(g, n)
<1>1. ~(\E k \in 1..Len(ledger) : ledger[k].nonce = n)
  BY DEF Found, Range, SendsInv, TypeOK
<1>2. ~(Cardinality(newer[n]) >= LEDGER_CAP)
  BY DEF Unknown
<1>3. \A g \in Between(n) \ {h} : handler[g].stage = "admit"
  BY DEF Unknown
<1> QED BY <1>1, <1>2, <1>3
  DEF SendsInv, ForgottenIsOld, Dispatching, Between

(* admit: what is replayed is told again, what is dispatched is new.       *)
LEMMA AdmitKeeps ==
    ASSUME SendsInv, NEW h \in Handlers, Admit(h)
    PROVE  SendsInv'
<1> DEFINE n == handler[h].nonce
           i == handler[h].input
<1>1. n \in Nonces /\ i \in Inputs /\ handler[h].stage = "admit"
  BY DEF SendsInv, ThreadsAreBound, Admit
<1>2. CASE Found(n) # {}
  <2>1. /\ told' = [told EXCEPT ![n] =
               told[n] \cup ({i} \cap {rec.digest : rec \in Found(n)})]
        /\ handler' = [handler EXCEPT ![h] = Free]
        /\ UNCHANGED <<excuse, ledger, copies, newer, requests>>
    BY <1>2 DEF Admit
  <2>2. told' = told
    <3>1. \A rec \in Found(n) : rec.digest \in told[n]
      BY DEF Found, Range, SendsInv, TypeOK, RecordsAreTold
    <3> QED BY <1>1, <2>1, <3>1 DEF SendsInv, TypeOK
  <2> HIDE DEF n, i
  <2>3. TypeOK'
    BY <2>1, <2>2 DEF SendsInv, TypeOK, Free
  <2>4. LedgerIsOrdered' /\ RecordsAreTold' /\ ForgottenIsOld'
    BY <2>1, <2>2
    DEF SendsInv, LedgerIsOrdered, RecordsAreTold, ForgottenIsOld
  <2>5. ThreadsAreBound'
    BY <2>1 DEF SendsInv, TypeOK, ThreadsAreBound, Free
  <2>6. SentBefore'
    BY <2>1, <2>2 DEF SendsInv, TypeOK, SentBefore, AcceptedIsSent, Free
  <2>7. OneDispatcher'
    <3> SUFFICES ASSUME NEW k \in Nonces, excuse'[k] = {}
                 PROVE  DispatchedByOne(k)'
      BY DEF OneDispatcher
    <3>1. \A g \in Handlers :
            /\ Dispatching(g, k)' <=> Dispatching(g, k)
            /\ Dispatching(g, k) => handler'[g] = handler[g]
      BY <1>1, <2>1 DEF SendsInv, TypeOK, Dispatching, Free
    <3>2. copies' = copies /\ DispatchedByOne(k)
      BY <2>1 DEF SendsInv, OneDispatcher
    <3> QED BY <2>2, <3>1, <3>2, Undisturbed
  <2> QED BY <2>3, <2>4, <2>5, <2>6, <2>7 DEF SendsInv
<1>3. CASE Found(n) = {}
  <2>1. /\ handler' = [handler EXCEPT ![h].stage = "dispatch"]
        /\ excuse' = [excuse EXCEPT ![n] = excuse[n] \cup Unknown(h, n)]
        /\ UNCHANGED <<told, ledger, copies, newer, requests>>
    BY <1>3 DEF Admit
  <2>2. excuse'[n] = {} =>
          /\ excuse[n] = {} /\ told[n] = {}
          /\ \A g \in Handlers : ~Dispatching(g, n)
    <3>1. excuse'[n] = excuse[n] \cup Unknown(h, n)
      BY <1>1, <2>1 DEF SendsInv, TypeOK
    <3>2. Unknown(h, n) = {} =>
            told[n] = {} /\ \A g \in Handlers : ~Dispatching(g, n)
      BY <1>1, <1>3, UnknownIsExcused
    <3> QED BY <3>1, <3>2
  <2>3. Unknown(h, n) \subseteq {"raced", "evicted"}
    BY DEF Unknown
  <2> HIDE DEF n, i
  <2>4. TypeOK'
    <3>1. handler' \in [Handlers -> Threads]
      BY <2>1, ThreadShape DEF SendsInv, TypeOK
    <3>2. excuse' \in [Nonces -> SUBSET {"raced", "evicted", "cut"}]
      BY <2>1, <2>3 DEF SendsInv, TypeOK
    <3> QED BY <2>1, <3>1, <3>2 DEF SendsInv, TypeOK, Threads
  <2>5. LedgerIsOrdered' /\ RecordsAreTold' /\ ForgottenIsOld'
    BY <2>1 DEF SendsInv, LedgerIsOrdered, RecordsAreTold, ForgottenIsOld
  <2>6. ThreadsAreBound'
    BY <1>1, <2>1 DEF SendsInv, TypeOK, ThreadsAreBound, n, i
  <2>7. SentBefore'
    <3>1. \A g \in Handlers :
            /\ g # h => handler'[g] = handler[g]
            /\ g = h => handler'[g].todo = Members
      BY <2>1, <2>2 DEF SendsInv, TypeOK, ThreadsAreBound, Admit
    <3>2. \A g \in Handlers : handler'[g].stage = "dispatch" =>
            \A m \in Members \ handler'[g].todo :
              copies[handler'[g].nonce][handler'[g].input][m] > 0
      BY <3>1 DEF SendsInv, SentBefore
    <3> QED BY <2>1, <3>2 DEF SendsInv, SentBefore, AcceptedIsSent
  <2>8. OneDispatcher'
    <3> SUFFICES ASSUME NEW k \in Nonces, excuse'[k] = {}
                 PROVE  DispatchedByOne(k)'
      BY DEF OneDispatcher
    <3>1. \A g \in Handlers :
            /\ g # h => handler'[g] = handler[g]
            /\ g = h => handler'[g].stage = "dispatch"
                        /\ handler'[g].nonce = n /\ handler'[g].todo = Members
      BY <2>1 DEF SendsInv, TypeOK, ThreadsAreBound, Admit, n
    <3>2. CASE k = n
      <4>1. DispatchedByOne(k)
        BY <2>2, <3>2 DEF SendsInv, OneDispatcher
      <4>2. \A i0 \in Inputs, m \in Members : copies[k][i0][m] = 0
        BY <2>2, <3>2, <4>1 DEF DispatchedByOne, SentWhole
      <4>3. SentBy(h, k)'
        BY <2>1, <2>2, <3>1, <3>2, <4>2 DEF SentBy
      <4>4. \A g \in Handlers : Dispatching(g, k)' <=> g = h
        BY <2>2, <3>1, <3>2 DEF Dispatching
      <4> QED BY <4>3, <4>4 DEF DispatchedByOne
    <3>3. CASE k # n
      <4>1. excuse'[k] = excuse[k]
        BY <2>1, <3>3 DEF SendsInv, TypeOK
      <4>2. DispatchedByOne(k)
        BY <4>1 DEF SendsInv, OneDispatcher
      <4>3. \A g \in Handlers :
              /\ Dispatching(g, k)' <=> Dispatching(g, k)
              /\ Dispatching(g, k) => handler'[g] = handler[g]
        BY <3>1, <3>3 DEF Dispatching, n
      <4> QED BY <2>1, <4>2, <4>3, Undisturbed
    <3> QED BY <3>2, <3>3
  <2> QED BY <2>4, <2>5, <2>6, <2>7, <2>8 DEF SendsInv
<1> QED BY <1>2, <1>3

(* One more recipient has the chat.                                        *)
LEMMA DispatchKeeps ==
    ASSUME SendsInv, NEW h \in Handlers, NEW m \in Members, Dispatch(h, m)
    PROVE  SendsInv'
<1>1. PICK n \in Nonces, i \in Inputs :
        n = handler[h].nonce /\ i = handler[h].input
  BY DEF SendsInv, ThreadsAreBound, Dispatch
<1>2. /\ handler[h].stage = "dispatch" /\ m \in handler[h].todo
      /\ handler' = [handler EXCEPT ![h].todo = handler[h].todo \ {m}]
      /\ copies' = [copies EXCEPT ![n][i][m] = copies[n][i][m] + 1]
      /\ UNCHANGED <<ledger, told, newer, excuse, requests>>
  BY <1>1 DEF Dispatch
<1>3. /\ copies \in [Nonces -> [Inputs -> [Members -> Nat]]]
      /\ copies' \in [Nonces -> [Inputs -> [Members -> Nat]]]
      /\ \A k \in Nonces, j \in Inputs, r \in Members :
           copies'[k][j][r] = IF k = n /\ j = i /\ r = m
                                THEN copies[n][i][m] + 1 ELSE copies[k][j][r]
  BY <1>2 DEF SendsInv, TypeOK
<1>4. TypeOK'
  <2>1. handler' \in [Handlers -> Threads]
    BY <1>2, ThreadShape DEF SendsInv, TypeOK
  <2> QED BY <1>2, <1>3, <2>1 DEF SendsInv, TypeOK, Threads
<1>5. LedgerIsOrdered' /\ RecordsAreTold' /\ ForgottenIsOld'
  BY <1>2 DEF SendsInv, LedgerIsOrdered, RecordsAreTold, ForgottenIsOld
<1>6. ThreadsAreBound'
  <2>1. \A g \in Handlers :
          /\ handler'[g].stage = handler[g].stage
          /\ handler'[g].nonce = handler[g].nonce
          /\ handler'[g].input = handler[g].input
          /\ g # h => handler'[g] = handler[g]
    BY <1>2 DEF SendsInv, TypeOK
  <2> QED BY <1>2, <2>1 DEF SendsInv, ThreadsAreBound
<1>7. SentBefore'
  <2>1. AcceptedIsSent'
    BY <1>2, <1>3 DEF SendsInv, TypeOK, SentBefore, AcceptedIsSent
  <2>2. ASSUME NEW g \in Handlers, handler'[g].stage = "dispatch",
               NEW r \in Members \ handler'[g].todo
        PROVE  copies'[handler'[g].nonce][handler'[g].input][r] > 0
    <3>1. /\ handler[g].stage = "dispatch"
          /\ handler'[g].nonce = handler[g].nonce
          /\ handler'[g].input = handler[g].input
          /\ r \in handler[g].todo => g = h /\ r = m
      BY <1>2, <2>2 DEF SendsInv, TypeOK
    <3>2. handler[g].nonce \in Nonces /\ handler[g].input \in Inputs
      BY <3>1 DEF SendsInv, ThreadsAreBound
    <3>3. CASE r \in handler[g].todo
      BY <1>1, <1>3, <3>1, <3>3
    <3>4. CASE r \notin handler[g].todo
      BY <1>3, <3>1, <3>2, <3>4 DEF SendsInv, SentBefore
    <3> QED BY <3>3, <3>4
  <2> QED BY <2>1, <2>2 DEF SentBefore
<1>8. OneDispatcher'
  <2> SUFFICES ASSUME NEW k \in Nonces, excuse'[k] = {}
               PROVE  DispatchedByOne(k)'
    BY DEF OneDispatcher
  <2>1. \A g \in Handlers : Dispatching(g, k)' <=> Dispatching(g, k)
    BY <1>2 DEF SendsInv, TypeOK, Dispatching
  <2>2. CASE k = n
    <3>1. Dispatching(h, k) /\ SentBy(h, k) /\ \A g \in Handlers :
            Dispatching(g, k) => g = h
      BY <1>1, <1>2, <2>2
      DEF SendsInv, OneDispatcher, DispatchedByOne, Dispatching
    <3>2. SentBy(h, k)'
      <4>1. /\ handler'[h].input = i /\ handler[h].input = i
            /\ handler'[h].todo = handler[h].todo \ {m}
        BY <1>1, <1>2 DEF SendsInv, TypeOK
      <4>2. told[k] = {} /\ \A j \in Inputs, r \in Members :
              copies[k][j][r] =
                IF j = i /\ r \notin handler[h].todo THEN 1 ELSE 0
        BY <3>1, <4>1 DEF SentBy
      <4>3. \A j \in Inputs, r \in Members :
              copies'[k][j][r] =
                IF j = i /\ r \notin handler'[h].todo THEN 1 ELSE 0
        BY <1>2, <1>3, <2>2, <4>1, <4>2
      <4> QED BY <1>2, <4>1, <4>2, <4>3 DEF SentBy
    <3> QED BY <2>1, <3>1, <3>2 DEF DispatchedByOne
  <2>3. CASE k # n
    <3>1. copies'[k] = copies[k] /\ told'[k] = told[k]
      BY <1>2, <2>3 DEF SendsInv, TypeOK
    <3>2. \A g \in Handlers : Dispatching(g, k) => handler'[g] = handler[g]
      BY <1>1, <1>2, <2>3 DEF SendsInv, TypeOK, Dispatching
    <3>3. DispatchedByOne(k)
      BY <1>2 DEF SendsInv, OneDispatcher
    <3> QED BY <2>1, <3>1, <3>2, <3>3, Undisturbed
  <2> QED BY <2>2, <2>3
<1> QED BY <1>4, <1>5, <1>6, <1>7, <1>8 DEF SendsInv

(* A nonce the ledger lost has a full ledger of newer ones.                *)
LEMMA DroppedIsOld ==
    ASSUME SendsInv, NEW n \in Nonces, NEW i \in Inputs,
           ledger' = Recorded(n, i), newer' = Newer(n),
           told' = [told EXCEPT ![n] = told[n] \cup {i}]
    PROVE  LedgerIsOrdered' /\ RecordsAreTold' /\ ForgottenIsOld'
<1>0. IsNext(ledger', n, i)
  BY RecordedIsNext DEF SendsInv, TypeOK
<1>1. /\ ledger' \in Seq(Records) /\ Len(ledger') \in 1..LEDGER_CAP
      /\ Len(ledger') \in Nat
      /\ ledger'[Len(ledger')] = [nonce |-> n, digest |-> i]
  BY <1>0, LenProperties DEF IsNext
<1>2. PICK at \in [1..(Len(ledger') - 1) -> 1..Len(ledger)] :
        /\ \A j \in 1..(Len(ledger') - 1) :
             ledger'[j] = ledger[at[j]] /\ ledger'[j].nonce # n
        /\ \A j, k \in 1..(Len(ledger') - 1) : j < k => at[j] < at[k]
        /\ \A k \in 1..Len(ledger) :
             \/ ledger[k].nonce = n
             \/ \E j \in 1..(Len(ledger') - 1) : at[j] = k
             \/ /\ Len(ledger') = LEDGER_CAP
                /\ \A j \in 1..(Len(ledger') - 1) : k < at[j]
  BY <1>0 DEF IsNext
<1>a. \A j \in 1..(Len(ledger') - 1) : at[j] \in 1..Len(ledger)
  OBVIOUS
<1>3. LEDGER_CAP \in Nat \ {0} /\ Len(ledger) \in Nat
  BY SendsAssumption, LenProperties DEF SendsInv, TypeOK
<1>4. \A k \in 1..Len(ledger) :
        ledger[k].nonce \in Nonces /\ told[ledger[k].nonce] # {}
  <2> SUFFICES ASSUME NEW k \in 1..Len(ledger)
               PROVE  ledger[k].nonce \in Nonces /\ told[ledger[k].nonce] # {}
    OBVIOUS
  <2>1. ledger[k] \in Records
    BY ElementOfSeq DEF SendsInv, TypeOK
  <2> QED BY <2>1 DEF Records, SendsInv, RecordsAreTold
<1>5. \A q \in Nonces : newer'[q] \in SUBSET Nonces
  BY DEF Newer, SendsInv, TypeOK
<1>6. \A q \in Nonces : told[q] # {} /\ q # n => newer'[q] = newer[q] \cup {n}
  BY DEF Newer
<1>7. /\ \A q \in Nonces : q # n => told'[q] = told[q]
      /\ i \in told'[n]
  BY DEF SendsInv, TypeOK
<1>8. LedgerIsOrdered'
  <2> SUFFICES ASSUME NEW k \in 1..Len(ledger'), NEW l \in 1..Len(ledger'),
                      k < l
               PROVE  /\ ledger'[k].nonce # ledger'[l].nonce
                      /\ ledger'[l].nonce \in newer'[ledger'[k].nonce]
    BY DEF LedgerIsOrdered
  <2>1. k \in 1..(Len(ledger') - 1) /\ at[k] \in 1..Len(ledger)
    <3>1. k \in 1..(Len(ledger') - 1)
      BY <1>1
    <3> QED BY <1>a, <3>1
  <2>2. /\ ledger'[k] = ledger[at[k]] /\ ledger'[k].nonce # n
        /\ newer'[ledger'[k].nonce] = newer[ledger[at[k]].nonce] \cup {n}
    BY <1>2, <1>4, <1>6, <2>1
  <2>3. CASE l = Len(ledger')
    BY <1>1, <2>2, <2>3
  <2>4. CASE l # Len(ledger')
    <3>1. l \in 1..(Len(ledger') - 1) /\ at[l] \in 1..Len(ledger)
      <4>1. l \in 1..(Len(ledger') - 1)
        BY <1>1, <2>4
      <4> QED BY <1>a, <4>1
    <3>2. at[k] < at[l] /\ ledger'[l] = ledger[at[l]]
      BY <1>2, <2>1, <3>1
    <3>3. /\ ledger[at[k]].nonce # ledger[at[l]].nonce
          /\ ledger[at[l]].nonce \in newer[ledger[at[k]].nonce]
      BY <2>1, <3>1, <3>2 DEF SendsInv, LedgerIsOrdered
    <3> QED BY <2>2, <3>2, <3>3
  <2> QED BY <2>3, <2>4
<1>9. RecordsAreTold'
  <2> SUFFICES ASSUME NEW k \in 1..Len(ledger')
               PROVE  ledger'[k].digest \in told'[ledger'[k].nonce]
    BY DEF RecordsAreTold
  <2>1. CASE k = Len(ledger')
    BY <1>1, <1>7, <2>1
  <2>2. CASE k # Len(ledger')
    <3>1. k \in 1..(Len(ledger') - 1) /\ at[k] \in 1..Len(ledger)
      <4>1. k \in 1..(Len(ledger') - 1)
        BY <1>1, <2>2
      <4> QED BY <1>a, <4>1
    <3> QED BY <1>2, <1>4, <1>7, <3>1 DEF SendsInv, RecordsAreTold
  <2> QED BY <2>1, <2>2
<1>10. ForgottenIsOld'
  <2> SUFFICES ASSUME NEW q \in Nonces, told'[q] # {},
                      ~ \E k \in 1..Len(ledger') : ledger'[k].nonce = q
               PROVE  Cardinality(newer'[q]) >= LEDGER_CAP
    BY DEF ForgottenIsOld
  <2>1. q # n
    BY <1>1
  <2>2. told[q] # {} /\ newer'[q] = newer[q] \cup {n}
    BY <1>6, <1>7, <2>1
  <2>3. IsFiniteSet(newer'[q]) /\ IsFiniteSet(newer[q])
    BY <1>5, FS_Subset, SendsAssumption DEF SendsInv, TypeOK
  <2>4. CASE Cardinality(newer[q]) >= LEDGER_CAP
    <3>1. /\ Cardinality(newer[q]) \in Nat /\ Cardinality(newer'[q]) \in Nat
          /\ Cardinality(newer[q]) <= Cardinality(newer'[q])
      BY <2>2, <2>3, FS_Subset, FS_CardinalityType
    <3> QED BY <1>3, <2>4, <3>1
  <2>5. CASE \E k \in 1..Len(ledger) : ledger[k].nonce = q
    <3>1. PICK k \in 1..Len(ledger) : ledger[k].nonce = q
      BY <2>5
    <3>2. /\ Len(ledger') = LEDGER_CAP
          /\ \A j \in 1..(LEDGER_CAP - 1) : k < at[j]
      <4>1. ASSUME NEW j \in 1..(Len(ledger') - 1)
            PROVE  at[j] # k
        <5>1. ledger'[j] = ledger[at[j]]
          BY <1>2
        <5>2. j \in 1..Len(ledger')
          BY <1>1
        <5> QED BY <3>1, <5>1, <5>2
      <4> QED BY <1>2, <2>1, <3>1, <4>1
    <3> DEFINE f == [j \in 1..LEDGER_CAP |-> ledger'[j].nonce]
    <3>3. \A j \in 1..LEDGER_CAP : f[j] \in newer'[q]
      <4> SUFFICES ASSUME NEW j \in 1..LEDGER_CAP
                   PROVE  ledger'[j].nonce \in newer[q] \cup {n}
        BY <2>2
      <4>1. CASE j = LEDGER_CAP
        BY <1>1, <3>2, <4>1
      <4>2. CASE j # LEDGER_CAP
        <5>1. j \in 1..(LEDGER_CAP - 1) /\ k < at[j] /\ at[j] \in 1..Len(ledger)
          BY <1>2, <1>3, <3>2, <4>2
        <5>2. ledger[at[j]].nonce \in newer[ledger[k].nonce]
          BY <5>1 DEF SendsInv, LedgerIsOrdered
        <5> QED BY <1>2, <3>1, <3>2, <5>1, <5>2
      <4> QED BY <4>1, <4>2
    <3>4. \A j, l \in 1..LEDGER_CAP : f[j] = f[l] => j = l
      BY <1>3, <1>8, <3>2 DEF LedgerIsOrdered
    <3>5. f \in Injection(1..LEDGER_CAP, newer'[q])
      BY <3>3, <3>4 DEF Injection, IsInjective
    <3>6. Cardinality(1..LEDGER_CAP) <= Cardinality(newer'[q])
      BY <2>3, <3>5, FS_Injection
    <3>7. Cardinality(1..LEDGER_CAP) = LEDGER_CAP
      BY <1>3, FS_Interval
    <3> QED BY <1>3, <2>3, <3>6, <3>7, FS_CardinalityType
  <2> QED BY <2>2, <2>4, <2>5 DEF SendsInv, ForgottenIsOld
<1> QED BY <1>8, <1>9, <1>10

(* A chat every recipient has is recorded, and its client told.            *)
LEMMA RecordAcceptKeeps ==
    ASSUME SendsInv, NEW h \in Handlers, RecordAccept(h)
    PROVE  SendsInv'
<1>1. PICK n \in Nonces, i \in Inputs :
        n = handler[h].nonce /\ i = handler[h].input
  BY DEF SendsInv, ThreadsAreBound, RecordAccept
<1>2. /\ handler[h].stage = "dispatch" /\ handler[h].todo = {}
      /\ ledger' = Recorded(n, i) /\ newer' = Newer(n)
      /\ told' = [told EXCEPT ![n] = told[n] \cup {i}]
      /\ handler' = [handler EXCEPT ![h] = Free]
      /\ UNCHANGED <<copies, excuse, requests>>
  BY <1>1 DEF RecordAccept
<1>3. LedgerIsOrdered' /\ RecordsAreTold' /\ ForgottenIsOld'
  BY <1>2, DroppedIsOld
<1>4. TypeOK'
  <2>1. ledger' \in Seq(Records) /\ Len(ledger') <= LEDGER_CAP
    <3>1. IsNext(ledger', n, i)
      BY <1>2, RecordedIsNext DEF SendsInv, TypeOK
    <3> QED BY <3>1, SendsAssumption DEF IsNext
  <2>2. newer' \in [Nonces -> SUBSET Nonces]
    BY <1>2 DEF Newer, SendsInv, TypeOK
  <2> QED BY <1>2, <2>1, <2>2 DEF SendsInv, TypeOK, Free
<1>5. ThreadsAreBound'
  BY <1>2 DEF SendsInv, TypeOK, ThreadsAreBound, Free
<1>6. SentBefore'
  BY <1>1, <1>2 DEF SendsInv, TypeOK, SentBefore, AcceptedIsSent, Free
<1>7. OneDispatcher'
  <2> SUFFICES ASSUME NEW k \in Nonces, excuse'[k] = {}
               PROVE  DispatchedByOne(k)'
    BY DEF OneDispatcher
  <2>1. \A g \in Handlers :
          /\ Dispatching(g, k)' <=> g # h /\ Dispatching(g, k)
          /\ g # h => handler'[g] = handler[g]
    BY <1>2 DEF SendsInv, TypeOK, Dispatching, Free
  <2>2. CASE k = n
    <3>1. SentBy(h, k) /\ \A g \in Handlers : Dispatching(g, k) => g = h
      BY <1>1, <1>2, <2>2
      DEF SendsInv, OneDispatcher, DispatchedByOne, Dispatching
    <3>2. SentWhole(k)'
      <4>1. told'[k] # {} /\ copies' = copies
        BY <1>2, <2>2 DEF SendsInv, TypeOK
      <4>2. \A j \in Inputs, m \in Members :
              copies[k][j][m] = IF j = i THEN 1 ELSE 0
        BY <1>1, <1>2, <3>1 DEF SentBy
      <4> QED BY <4>1, <4>2 DEF SentWhole
    <3> QED BY <2>1, <3>1, <3>2 DEF DispatchedByOne
  <2>3. CASE k # n
    <3>1. copies'[k] = copies[k] /\ told'[k] = told[k]
      BY <1>2, <2>3 DEF SendsInv, TypeOK
    <3>2. \A g \in Handlers : Dispatching(g, k) => g # h
      BY <1>1, <2>3 DEF Dispatching
    <3>3. DispatchedByOne(k)
      BY <1>2 DEF SendsInv, OneDispatcher
    <3> QED BY <2>1, <3>1, <3>2, <3>3, Undisturbed
  <2> QED BY <2>2, <2>3
<1> QED BY <1>3, <1>4, <1>5, <1>6, <1>7 DEF SendsInv

(* Threads that stop leave an excuse where they had sent something.        *)
LEMMA StoppedKeep ==
    ASSUME SendsInv, NEW stopped \in SUBSET Handlers,
           excuse' = Excused(stopped),
           handler' = [h \in Handlers |->
                         IF h \in stopped THEN Free ELSE handler[h]],
           UNCHANGED <<ledger, copies, told, newer, requests>>
    PROVE  SendsInv'
<1>1. \A n \in Nonces :
        /\ excuse'[n] \in SUBSET {"raced", "evicted", "cut"}
        /\ excuse'[n] = {} =>
             /\ excuse[n] = {}
             /\ \A h \in stopped : Dispatching(h, n) =>
                  handler[h].todo = Members
  BY DEF Excused, Cut, Dispatching, SendsInv, TypeOK
<1>2. TypeOK'
  BY <1>1 DEF SendsInv, TypeOK, Free, Excused
<1>3. LedgerIsOrdered' /\ RecordsAreTold' /\ ForgottenIsOld'
  BY DEF SendsInv, LedgerIsOrdered, RecordsAreTold, ForgottenIsOld
<1>4. ThreadsAreBound'
  BY DEF SendsInv, ThreadsAreBound, Free
<1>5. SentBefore'
  BY DEF SendsInv, SentBefore, AcceptedIsSent, Free
<1>6. OneDispatcher'
  <2> SUFFICES ASSUME NEW n \in Nonces, excuse'[n] = {}
               PROVE  DispatchedByOne(n)'
    BY DEF OneDispatcher
  <2>1. \A g \in Handlers :
          /\ Dispatching(g, n)' <=> g \notin stopped /\ Dispatching(g, n)
          /\ g \notin stopped => handler'[g] = handler[g]
    BY DEF Dispatching, Free
  <2>2. /\ \A f, g \in Handlers :
             Dispatching(f, n) /\ Dispatching(g, n) => f = g
        /\ \A g \in Handlers : Dispatching(g, n) => SentBy(g, n)
        /\ (\A g \in Handlers : ~Dispatching(g, n)) => SentWhole(n)
    BY <1>1 DEF SendsInv, OneDispatcher, DispatchedByOne
  <2>3. \A g \in stopped : Dispatching(g, n) /\ SentBy(g, n) => SentWhole(n)
    BY <1>1 DEF SentBy, SentWhole
  <2>4. SentWhole(n)' <=> SentWhole(n)
    BY DEF SentWhole
  <2>5. \A g \in Handlers \ stopped : SentBy(g, n)' <=> SentBy(g, n)
    BY <2>1 DEF SentBy
  <2> QED BY <2>1, <2>2, <2>3, <2>4, <2>5 DEF DispatchedByOne
<1> QED BY <1>2, <1>3, <1>4, <1>5, <1>6 DEF SendsInv

LEMMA RefuseKeeps ==
    ASSUME SendsInv, NEW h \in Handlers, Refuse(h)
    PROVE  SendsInv'
<1>1. handler' = [g \in Handlers |->
                    IF g \in {h} THEN Free ELSE handler[g]]
  BY DEF Refuse, SendsInv, TypeOK
<1> QED BY <1>1, StoppedKeep DEF Refuse

LEMMA ServerCrashKeeps ==
    ASSUME SendsInv, ServerCrash
    PROVE  SendsInv'
<1>1. handler' = [g \in Handlers |->
                    IF g \in Handlers THEN Free ELSE handler[g]]
  BY DEF ServerCrash
<1> QED BY <1>1, StoppedKeep DEF ServerCrash

LEMMA SendsInvStep == SendsInv /\ [Next]_vars => SendsInv'
<1> SUFFICES ASSUME SendsInv, [Next]_vars PROVE SendsInv'
  OBVIOUS
<1>1. ASSUME NEW h \in Handlers, NEW n \in Nonces, NEW i \in Inputs,
             Request(h, n, i)
      PROVE  SendsInv'
  BY <1>1, RequestKeeps
<1>2. ASSUME NEW h \in Handlers, Admit(h) PROVE SendsInv'
  BY <1>2, AdmitKeeps
<1>3. ASSUME NEW h \in Handlers, RecordAccept(h) PROVE SendsInv'
  BY <1>3, RecordAcceptKeeps
<1>4. ASSUME NEW h \in Handlers, Refuse(h) PROVE SendsInv'
  BY <1>4, RefuseKeeps
<1>5. ASSUME NEW h \in Handlers, NEW m \in Members, Dispatch(h, m)
      PROVE  SendsInv'
  BY <1>5, DispatchKeeps
<1>6. CASE ServerCrash
  BY <1>6, ServerCrashKeeps
<1>7. CASE UNCHANGED vars
  <2>1. TypeOK' /\ LedgerIsOrdered' /\ ThreadsAreBound' /\ RecordsAreTold'
    BY <1>7 DEF vars, SendsInv, TypeOK, LedgerIsOrdered, ThreadsAreBound,
       RecordsAreTold
  <2>2. SentBefore' /\ ForgottenIsOld'
    BY <1>7 DEF vars, SendsInv, SentBefore, AcceptedIsSent, ForgottenIsOld
  <2>3. OneDispatcher'
    BY <1>7 DEF vars, SendsInv, OneDispatcher, DispatchedByOne, Dispatching,
       SentBy, SentWhole
  <2> QED BY <2>1, <2>2, <2>3 DEF SendsInv
<1> QED BY <1>1, <1>2, <1>3, <1>4, <1>5, <1>6, <1>7 DEF Next

LEMMA SendsInvHolds == Spec => []SendsInv
BY SendsInvInit, SendsInvStep, PTL DEF Spec

-----------------------------------------------------------------------------

(* Every reachable state has the types of the model: the ledger never      *)
(* outgrows its cap.                                                       *)
THEOREM TypeCorrect == Spec => []TypeOK
<1>1. SendsInv => TypeOK
  BY DEF SendsInv
<1> QED BY <1>1, SendsInvHolds, PTL

(* A recipient gets one chat for a nonce, unless an excuse the model names *)
(* applies (server.py admits, dispatches and records without a lock).      *)
THEOREM DispatchedOnce == Spec => []OneDispatch
<1>1. SendsInv => OneDispatch
  <2> SUFFICES ASSUME SendsInv, NEW n \in Nonces, NEW i \in Inputs,
                      NEW j \in Inputs, NEW m \in Members, excuse[n] = {}
               PROVE  /\ copies[n][i][m] <= 1
                      /\ copies[n][i][m] = 1 /\ copies[n][j][m] = 1 => i = j
    BY DEF OneDispatch
  <2>1. CASE \E h \in Handlers : Dispatching(h, n)
    BY <2>1 DEF SendsInv, OneDispatcher, DispatchedByOne, SentBy
  <2>2. CASE \A h \in Handlers : ~Dispatching(h, n)
    BY <2>2 DEF SendsInv, OneDispatcher, DispatchedByOne, SentWhole
  <2> QED BY <2>1, <2>2
<1> QED BY <1>1, SendsInvHolds, PTL

(* What a client was told was accepted reached every recipient.            *)
THEOREM AcceptedWasSent == Spec => []AcceptedIsSent
<1>1. SendsInv => AcceptedIsSent
  BY DEF SendsInv, SentBefore
<1> QED BY <1>1, SendsInvHolds, PTL
=============================================================================
