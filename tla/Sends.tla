------------------------------- MODULE Sends -------------------------------
(***************************************************************************)
(* Chat sends with a client nonce: the server's handler threads look the    *)
(* nonce up in the acceptance ledger, dispatch the chat to each recipient   *)
(* and record the acceptance, with no lock across the three.               *)
(***************************************************************************)
EXTENDS Naturals, FiniteSets, SequencesExt

CONSTANTS
    Nonces,       \* idempotency keys of the clients
    Inputs,       \* digests of what a send asks for
    Members,      \* recipients of a send
    Handlers,     \* handler threads of the server
    NoInput,
    LEDGER_CAP,
    MaxRequests   \* bound: sends and retries of all clients

ASSUME SendsAssumption ==
    /\ NoInput \notin Inputs
    /\ LEDGER_CAP \in Nat \ {0}
    /\ MaxRequests \in Nat
    /\ IsFiniteSet(Nonces)

VARIABLES
    ledger,     \* the records, oldest first
    handler,    \* per thread: its request and where it stands
    copies,     \* chats delivered, per nonce, input and recipient
    told,       \* inputs a client was told were accepted
    newer,      \* nonces recorded since this one was
    excuse,     \* why a nonce may have been dispatched again
    requests

vars == <<ledger, handler, copies, told, newer, excuse, requests>>

-----------------------------------------------------------------------------

Free == [stage |-> "free", nonce |-> "none", input |-> NoInput, todo |-> {}]

Records == [nonce : Nonces, digest : Inputs]

\* lookup: the record of a nonce, if the ledger has one.
Found(n) == {rec \in Range(ledger) : rec.nonce = n}

\* Threads that looked this nonce up and have not recorded it.
Between(n) ==
    {h \in Handlers : handler[h].nonce = n /\ handler[h].stage # "free"}

Request(h, n, i) ==
    /\ handler[h] = Free
    /\ requests < MaxRequests
    /\ requests' = requests + 1
    /\ handler' = [handler EXCEPT ![h] =
                     [stage |-> "admit", nonce |-> n, input |-> i,
                      todo |-> Members]]
    /\ UNCHANGED <<ledger, copies, told, newer, excuse>>

\* What the ledger could not know when it let a nonce through.
Unknown(h, n) ==
    (IF \E g \in Between(n) \ {h} : handler[g].stage # "admit"
       THEN {"raced"} ELSE {})
    \cup (IF Cardinality(newer[n]) >= LEDGER_CAP THEN {"evicted"} ELSE {})

\* Mutant: a retry with other input is answered as the first.
AdmitAny(h) ==
    /\ handler[h].stage = "admit"
    /\ LET n == handler[h].nonce
           i == handler[h].input
       IN  IF Found(n) # {}
             THEN /\ told' = [told EXCEPT ![n] = @ \cup {i}]
                  /\ handler' = [handler EXCEPT ![h] = Free]
                  /\ UNCHANGED excuse
             ELSE /\ handler' = [handler EXCEPT ![h].stage = "dispatch"]
                  /\ excuse' = [excuse EXCEPT ![n] = @ \cup Unknown(h, n)]
                  /\ UNCHANGED told
    /\ UNCHANGED <<ledger, copies, newer, requests>>

\* admit: replayed, refused as a mismatch, or dispatched.
Admit(h) ==
    /\ handler[h].stage = "admit"
    /\ LET n == handler[h].nonce
           i == handler[h].input
       IN  IF Found(n) # {}
             THEN /\ told' = [told EXCEPT ![n] =
                       @ \cup ({i} \cap {rec.digest : rec \in Found(n)})]
                  /\ handler' = [handler EXCEPT ![h] = Free]
                  /\ UNCHANGED excuse
             ELSE /\ handler' = [handler EXCEPT ![h].stage = "dispatch"]
                  /\ excuse' = [excuse EXCEPT ![n] = @ \cup Unknown(h, n)]
                  /\ UNCHANGED told
    /\ UNCHANGED <<ledger, copies, newer, requests>>

\* dispatch_chat: one inbox file per recipient.
Dispatch(h, m) ==
    /\ handler[h].stage = "dispatch" /\ m \in handler[h].todo
    /\ handler' = [handler EXCEPT ![h].todo = @ \ {m}]
    /\ copies' = [copies EXCEPT ![handler[h].nonce][handler[h].input][m] = @ + 1]
    /\ UNCHANGED <<ledger, told, newer, excuse, requests>>

\* Mutant: the cap is applied before the new record.
KeepOneMore(records) ==
    IF Len(records) > LEDGER_CAP + 1
      THEN SubSeq(records, Len(records) - LEDGER_CAP, Len(records))
      ELSE records

\* The newest LEDGER_CAP records.
Keep(records) ==
    IF Len(records) > LEDGER_CAP
      THEN SubSeq(records, Len(records) - LEDGER_CAP + 1, Len(records))
      ELSE records

\* The other records.  A nonce never has two.
Others(n) ==
    IF \E k \in 1..Len(ledger) : ledger[k].nonce = n
      THEN RemoveAt(ledger, CHOOSE k \in 1..Len(ledger) : ledger[k].nonce = n)
      ELSE ledger

\* Mutant: the newest record is the one that does not fit.
RecordedOldest(n, i) ==
    IF Len(Others(n)) >= LEDGER_CAP THEN Others(n)
    ELSE Append(Others(n), [nonce |-> n, digest |-> i])

Recorded(n, i) == Keep(Append(Others(n), [nonce |-> n, digest |-> i]))

\* n is newer than every nonce recorded before.
Newer(n) == [k \in Nonces |-> IF k = n \/ told[k] = {} THEN {}
                                                    ELSE newer[k] \cup {n}]

\* Mutant: the acceptance is recorded before every recipient has the chat.
RecordAcceptEarly(h) ==
    /\ handler[h].stage = "dispatch"
    /\ LET n == handler[h].nonce
           i == handler[h].input
       IN  /\ ledger' = Recorded(n, i)
           /\ told' = [told EXCEPT ![n] = @ \cup {i}]
           /\ newer' = Newer(n)
    /\ handler' = [handler EXCEPT ![h] = Free]
    /\ UNCHANGED <<copies, excuse, requests>>

\* record_accept, then the client hears of it.
RecordAccept(h) ==
    /\ handler[h].stage = "dispatch" /\ handler[h].todo = {}
    /\ LET n == handler[h].nonce
           i == handler[h].input
       IN  /\ ledger' = Recorded(n, i)
           /\ told' = [told EXCEPT ![n] = @ \cup {i}]
           /\ newer' = Newer(n)
    /\ handler' = [handler EXCEPT ![h] = Free]
    /\ UNCHANGED <<copies, excuse, requests>>

Cut(h) ==
    IF handler[h].stage = "dispatch" /\ handler[h].todo # Members
      THEN {handler[h].nonce} ELSE {}

Excused(threads) ==
    [n \in Nonces |-> excuse[n] \cup
        (IF \E h \in threads : n \in Cut(h) THEN {"cut"} ELSE {})]

\* A recipient is gone from the roster: the client gets an error, the
\* recipients before it have the chat.
Refuse(h) ==
    /\ handler[h].stage = "dispatch" /\ handler[h].todo # {}
    /\ excuse' = Excused({h})
    /\ handler' = [handler EXCEPT ![h] = Free]
    /\ UNCHANGED <<ledger, copies, told, newer, requests>>

ServerCrash ==
    /\ \E h \in Handlers : handler[h] # Free
    /\ excuse' = Excused(Handlers)
    /\ handler' = [h \in Handlers |-> Free]
    /\ UNCHANGED <<ledger, copies, told, newer, requests>>

-----------------------------------------------------------------------------

Init ==
    /\ ledger = <<>>
    /\ handler = [h \in Handlers |-> Free]
    /\ copies = [n \in Nonces |-> [i \in Inputs |-> [m \in Members |-> 0]]]
    /\ told = [n \in Nonces |-> {}]
    /\ newer = [n \in Nonces |-> {}]
    /\ excuse = [n \in Nonces |-> {}]
    /\ requests = 0

Next ==
    \/ \E h \in Handlers :
         \/ \E n \in Nonces, i \in Inputs : Request(h, n, i)
         \/ Admit(h) \/ RecordAccept(h) \/ Refuse(h)
         \/ \E m \in Members : Dispatch(h, m)
    \/ ServerCrash

Spec == Init /\ [][Next]_vars

-----------------------------------------------------------------------------
(* Properties.                                                             *)

TypeOK ==
    /\ ledger \in Seq(Records) /\ Len(ledger) <= LEDGER_CAP
    /\ handler \in [Handlers ->
         [stage : {"free", "admit", "dispatch"}, nonce : Nonces \cup {"none"},
          input : Inputs \cup {NoInput}, todo : SUBSET Members]]
    /\ copies \in [Nonces -> [Inputs -> [Members -> Nat]]]
    /\ told \in [Nonces -> SUBSET Inputs]
    /\ newer \in [Nonces -> SUBSET Nonces]
    /\ excuse \in [Nonces -> SUBSET {"raced", "evicted", "cut"}]
    /\ requests \in 0..MaxRequests

\* A recipient gets one chat for a nonce, whatever is retried and with
\* whatever input, unless two requests were in flight together, one broke off
\* between its first chat and its record, or LEDGER_CAP newer sends pushed the
\* record out.
OneDispatch ==
    \A n \in Nonces, i, j \in Inputs, m \in Members :
        excuse[n] = {} =>
            /\ copies[n][i][m] <= 1
            /\ copies[n][i][m] = 1 /\ copies[n][j][m] = 1 => i = j

\* What a client is told was accepted reached every recipient: no retry is
\* answered from a record of a chat that was lost, or of another input.
AcceptedIsSent ==
    \A n \in Nonces : \A i \in told[n], m \in Members : copies[n][i][m] > 0
=============================================================================
