------------------------- MODULE PushOutbox_proofs --------------------------
(***************************************************************************)
(* Proofs about PushOutbox, for any capabilities, notifications and caps:  *)
(* type correctness, that a notification arrives once, and that a renewed  *)
(* capability outlives the refusal of an older one.                        *)
(***************************************************************************)
EXTENDS PushOutbox, TLAPS

\* A delivery in flight has a row, which is queued unless it was purged.
PostIsBound ==
    post # NoPost =>
        /\ post.key \in Keys
        /\ post.key \in excuse \/ outbox[post.key] = "queued"

\* An arrival nobody has to excuse was answered and is marked, or about to be.
ArrivalsTell ==
    \A k \in Keys \ excuse :
        /\ arrived[k] \in {0, 1}
        /\ arrived[k] = 1 =>
             \/ outbox[k] = "done"
             \/ post # NoPost /\ post.key = k /\ post.result = "ok"

\* No secret is younger than the one that is valid, and one that was refused
\* is older.
SecretsAge ==
    /\ \A s \in Subs : secret[s] <= relay[s]
    /\ post # NoPost =>
         /\ post.secret <= relay[post.key[1]]
         /\ post.result = "revoked" => post.secret < relay[post.key[1]]

\* The inductive invariant.
IInv == TypeOK /\ PostIsBound /\ ArrivalsTell /\ SecretsAge

-----------------------------------------------------------------------------
(* The inductive invariant holds initially.                                *)
LEMMA InitInv == Init => IInv
<1> SUFFICES ASSUME Init PROVE IInv
  OBVIOUS
<1>1. 0 \in 0..MaxSecret /\ 0 \in 0..MaxCopies
  BY PushAssumption
<1>2. NoPost \in Posts
  BY <1>1 DEF NoPost, Posts
<1>3. TypeOK
  BY <1>1, <1>2 DEF Init, TypeOK
<1>4. PostIsBound /\ ArrivalsTell /\ SecretsAge
  BY DEF Init, PostIsBound, ArrivalsTell, SecretsAge
<1> QED BY <1>3, <1>4 DEF IInv

(* A delivery keeps its key and secret when its result comes.              *)
LEMMA PostResult ==
    ASSUME post \in Posts, NEW r \in {"none", "ok", "bad", "revoked", "forbidden", "retry"}
    PROVE  /\ [post EXCEPT !.result = r] \in Posts
           /\ [post EXCEPT !.result = r].key = post.key
           /\ [post EXCEPT !.result = r].secret = post.secret
           /\ [post EXCEPT !.result = r].result = r
BY DEF Posts

\* What Post does, one result at a time; an answer that ends the thread does to
\* the relay and the excuses what one that is lost does.
PostArrives(r) ==
    /\ r \in {"ok", "retry"}
    /\ post.secret = relay[post.key[1]] /\ arrived[post.key] < MaxCopies
    /\ arrived' = [arrived EXCEPT ![post.key] = arrived[post.key] + 1]
    /\ excuse' = IF r = "ok" THEN excuse ELSE excuse \cup {post.key}

PostRefused(r) ==
    /\ r \in {"bad", "retry", "revoked", "forbidden"}
    /\ r = "revoked" => post.secret # relay[post.key[1]]
    /\ UNCHANGED <<arrived, excuse>>

Results == {"ok", "bad", "revoked", "forbidden", "retry"}

PostGets(r) ==
    /\ \/ post' = [post EXCEPT !.result = r]
       \/ post' = NoPost /\ r = "retry"
    /\ PostArrives(r) \/ PostRefused(r)

LEMMA PostCases ==
    ASSUME Post
    PROVE  /\ post # NoPost /\ post.result = "none"
           /\ UNCHANGED <<secret, outbox, older, age, relay>>
           /\ thread' \in {thread, "ended"}
           /\ \E r \in Results : PostGets(r)
BY 
   DEF Post, PostGets, Results, PostArrives, PostRefused, Unseen, Answers, Breaks, rows

(* A row's key names a capability.                                         *)
LEMMA KeyParts == \A k \in Keys : k[1] \in Subs /\ k[2] \in Events
BY DEF Keys

-----------------------------------------------------------------------------
(* Each action keeps the types.                                            *)
LEMMA TypeStep == TypeOK /\ PostIsBound /\ [Next]_vars => TypeOK'
<1> SUFFICES ASSUME TypeOK, PostIsBound, [Next]_vars PROVE TypeOK'
  OBVIOUS
<1>0. /\ secret \in [Subs -> 0..MaxSecret] /\ relay \in [Subs -> 0..MaxSecret]
      /\ post \in Posts /\ arrived \in [Keys -> 0..MaxCopies]
      /\ MaxSecret \in Nat /\ MaxCopies \in Nat
  BY PushAssumption DEF TypeOK
<1> USE DEF TypeOK
<1>1. ASSUME NEW s \in Subs, Issue(s) PROVE TypeOK'
  <2>1. relay[s] + 1 \in 0..MaxSecret
    BY <1>0, <1>1 DEF Issue
  <2> QED BY <1>1, <2>1 DEF Issue, rows
<1>2. ASSUME NEW s \in Subs, Expire(s) PROVE TypeOK'
  <2>1. 0 \in 0..MaxSecret
    BY <1>0
  <2> QED BY <1>2, <2>1 DEF Expire, rows
<1>3. ASSUME NEW s \in Subs, NEW k \in 1..relay[s], Register(s, k) PROVE TypeOK'
  <2>1. k \in 0..MaxSecret
    BY <1>0
  <2> QED BY <1>3, <2>1 DEF Register, rows
<1>4. ASSUME NEW e \in Events, Enqueue(e) PROVE TypeOK'
  <2>1. outbox' \in [Keys -> {"absent", "queued", "backoff", "done"}]
    BY <1>4 DEF Enqueue, Queued
  <2>2. age' \in [Keys -> {"fresh", "late", "old"}] /\ excuse' \subseteq Keys
    BY <1>4 DEF Enqueue, Rows
  <2>3. older' \in [Keys -> SUBSET Keys]
    BY <1>4 DEF Enqueue
  <2> QED BY <1>4, <2>1, <2>2, <2>3 DEF Enqueue
<1>5. ASSUME NEW k \in Keys, Age(k) \/ Due(k) PROVE TypeOK'
  BY <1>5 DEF Age, Due
<1>6. ASSUME NEW k \in Keys, Select(k) PROVE TypeOK'
  <2>1. k[1] \in Subs
    BY KeyParts
  <2>2. post' \in Posts
    BY <1>6, <2>1 DEF Select, Posts
  <2> QED BY <1>6, <2>2 DEF Select, rows
<1>7. CASE Post
  <2>1. PICK r \in Results : PostGets(r)
    BY <1>7, PostCases
  <2>0. NoPost \in Posts
    BY <1>0 DEF NoPost, Posts
  <2>2. post' \in Posts
    BY <1>0, <2>0, <2>1, PostResult DEF PostGets, Results
  <2>3. post.key \in Keys
    BY <1>7, PostCases DEF PostIsBound
  <2>4. arrived' \in [Keys -> 0..MaxCopies] /\ excuse' \subseteq Keys
    <3>1. CASE PostRefused(r)
      BY <3>1 DEF PostRefused
    <3>2. CASE PostArrives(r)
      <4>1. arrived[post.key] + 1 \in 0..MaxCopies
        BY <1>0, <2>3, <3>2 DEF PostArrives
      <4> QED BY <2>3, <3>2, <4>1 DEF PostArrives
    <3> QED BY <2>1, <3>1, <3>2 DEF PostGets
  <2> QED BY <1>7, <2>2, <2>4, PostCases
<1>8. CASE Finish
  <2>1. post.key \in Keys /\ post.key[1] \in Subs
    BY <1>8, KeyParts DEF Finish, PostIsBound
  <2>2. outbox' \in [Keys -> {"absent", "queued", "backoff", "done"}]
    BY <1>8, <2>1 DEF Finish, Marked
  <2>3. Revoked(post.key[1], post.secret) \in 0..MaxSecret
    BY <1>0, <2>1 DEF Revoked
  <2>4. NoPost \in Posts
    BY <1>0 DEF NoPost, Posts
  <2>5. older' \in [Keys -> SUBSET Keys]
    BY <1>8 DEF Finish
  <2> QED BY <1>8, <2>1, <2>2, <2>3, <2>4, <2>5 DEF Finish
<1>9. CASE MarkFails \/ Restart
  <2>1. NoPost \in Posts
    BY <1>0 DEF NoPost, Posts
  <2>2. excuse' \subseteq Keys
    BY <1>9 DEF MarkFails, Restart, Unmarked, PostIsBound, NoPost
  <2> QED BY <1>9, <2>1, <2>2 DEF MarkFails, Restart, rows
<1>10. CASE UNCHANGED vars
  BY <1>10 DEF vars
<1> QED
  BY <1>1, <1>2, <1>3, <1>4, <1>5, <1>6, <1>7, <1>8, <1>9, <1>10 DEF Next

-----------------------------------------------------------------------------
(* Each action keeps what the invariant says of deliveries and arrivals.   *)
LEMMA ArrivalStep ==
    TypeOK /\ PostIsBound /\ ArrivalsTell /\ [Next]_vars
      => PostIsBound' /\ ArrivalsTell'
<1> SUFFICES ASSUME TypeOK, PostIsBound, ArrivalsTell, [Next]_vars
             PROVE  PostIsBound' /\ ArrivalsTell'
  OBVIOUS
<1>0. /\ outbox \in [Keys -> {"absent", "queued", "backoff", "done"}]
      /\ post \in Posts /\ arrived \in [Keys -> 0..MaxCopies]
  BY DEF TypeOK
<1>1. ASSUME UNCHANGED <<outbox, post, arrived, excuse>>
      PROVE  PostIsBound' /\ ArrivalsTell'
  BY <1>1 DEF PostIsBound, ArrivalsTell
<1>2. ASSUME NEW s \in Subs, Issue(s) \/ Expire(s) PROVE UNCHANGED <<outbox, post, arrived, excuse>>
  BY <1>2 DEF Issue, Expire, rows
<1>3. ASSUME NEW s \in Subs, NEW k \in 1..relay[s], Register(s, k)
      PROVE  UNCHANGED <<outbox, post, arrived, excuse>>
  BY <1>3 DEF Register, rows
<1>4. ASSUME NEW e \in Events, Enqueue(e) PROVE PostIsBound' /\ ArrivalsTell'
  <2>1. /\ excuse \subseteq excuse' /\ UNCHANGED <<post, arrived>>
        /\ \A k \in Keys \ excuse' :
             outbox'[k] = outbox[k] \/ outbox[k] = "absent"
    BY <1>0, <1>4 DEF Enqueue, Queued
  <2>2. PostIsBound'
    <3>1. post # NoPost => post.key \in Keys
      BY DEF PostIsBound
    <3> QED BY <2>1, <3>1 DEF PostIsBound
  <2>3. ArrivalsTell'
    BY <2>1 DEF ArrivalsTell
  <2> QED BY <2>2, <2>3
<1>5. ASSUME NEW k \in Keys, Age(k)
      PROVE  UNCHANGED <<outbox, post, arrived, excuse>>
  BY <1>5 DEF Age
<1>11. ASSUME NEW k \in Keys, Due(k) PROVE PostIsBound' /\ ArrivalsTell'
  BY <1>0, <1>11 DEF Due, PostIsBound, ArrivalsTell
<1>6. ASSUME NEW k \in Keys, Select(k) PROVE PostIsBound' /\ ArrivalsTell'
  <2>1. /\ post' = [key |-> k, secret |-> secret[k[1]], result |-> "none"]
        /\ post = NoPost /\ outbox[k] = "queued"
        /\ UNCHANGED <<outbox, arrived, excuse>>
    BY <1>6 DEF Select, Sendable, rows
  <2> QED BY <2>1 DEF PostIsBound, ArrivalsTell
<1>7. ASSUME Post PROVE PostIsBound' /\ ArrivalsTell'
  <2>1. PICK r \in Results : PostGets(r)
    BY <1>7, PostCases
  <2>2. \/ post' # NoPost /\ post'.key = post.key /\ post'.result = r
        \/ post' = NoPost /\ r = "retry"
    <3>1. CASE post' = [post EXCEPT !.result = r]
      <4>1. post'.key = post.key /\ post'.result = r
        BY <1>0, <3>1, PostResult DEF Results
      <4>2. r # "none"
        BY DEF Results
      <4> QED BY <4>1, <4>2 DEF NoPost
    <3> QED BY <2>1, <3>1 DEF PostGets
  <2>3. /\ post # NoPost /\ post.result = "none" /\ UNCHANGED outbox
        /\ post.key \in Keys
        /\ post.key \in excuse \/ outbox[post.key] = "queued"
    BY <1>7, PostCases DEF PostIsBound
  <2>4. excuse \subseteq excuse'
    BY <2>1 DEF PostGets, PostArrives, PostRefused
  <2>5. PostIsBound'
    BY <2>2, <2>3, <2>4 DEF PostIsBound
  <2>7. ArrivalsTell'
    <3> SUFFICES ASSUME NEW k \in Keys, k \notin excuse'
                 PROVE  /\ arrived'[k] \in {0, 1}
                        /\ arrived'[k] = 1 =>
                             \/ outbox'[k] = "done"
                             \/ post' # NoPost /\ post'.key = k /\ post'.result = "ok"
      BY DEF ArrivalsTell
    <3>1. k \notin excuse
      BY <2>4
    <3>2. CASE PostRefused(r)
      BY <2>3, <3>1, <3>2 DEF PostRefused, ArrivalsTell
    <3>3. CASE PostArrives(r) /\ k # post.key
      BY <1>0, <2>3, <3>1, <3>3 DEF PostArrives, ArrivalsTell
    <3>4. CASE PostArrives(r) /\ k = post.key
      <4>1. r = "ok"
        BY <3>4 DEF PostArrives
      <4>2. arrived[k] = 0
        BY <2>3, <3>1, <3>4 DEF ArrivalsTell
      <4>3. arrived'[k] = 1
        BY <1>0, <3>4, <4>2 DEF PostArrives
      <4> QED BY <2>2, <3>4, <4>1, <4>3
    <3> QED BY <2>1, <3>2, <3>3, <3>4 DEF PostGets
  <2> QED BY <2>5, <2>7
<1>8. ASSUME Finish PROVE PostIsBound' /\ ArrivalsTell'
  <2>1. /\ post.key \in Keys /\ post' = NoPost
        /\ post.key \in excuse \/ outbox[post.key] = "queued"
        /\ UNCHANGED <<arrived, excuse>>
        /\ outbox' = [outbox EXCEPT ![post.key] =
             IF outbox[post.key] # "queued" THEN outbox[post.key]
             ELSE IF post.result = "retry" THEN "backoff" ELSE "done"]
    BY <1>8 DEF Finish, Marked, PostIsBound
  <2> QED BY <1>0, <2>1 DEF PostIsBound, ArrivalsTell
<1>9. ASSUME MarkFails \/ Restart PROVE PostIsBound' /\ ArrivalsTell'
  BY <1>9 DEF MarkFails, Restart, Unmarked, rows, PostIsBound, ArrivalsTell
<1>10. ASSUME UNCHANGED vars PROVE UNCHANGED <<outbox, post, arrived, excuse>>
  BY <1>10 DEF vars
<1> QED
  BY <1>1, <1>2, <1>3, <1>4, <1>5, <1>6, <1>7, <1>8, <1>9, <1>10,
     <1>11 DEF Next

(* Each action keeps the secrets in the order of their issue.              *)
LEMMA SecretStep ==
    TypeOK /\ PostIsBound /\ SecretsAge /\ [Next]_vars => SecretsAge'
<1> SUFFICES ASSUME TypeOK, PostIsBound, SecretsAge, [Next]_vars
             PROVE  SecretsAge'
  OBVIOUS
<1>0. /\ secret \in [Subs -> Int] /\ relay \in [Subs -> Int]
      /\ post \in Posts /\ post.secret \in Int
      /\ \A s \in Subs : secret[s] >= 0 /\ relay[s] >= 0
      /\ post # NoPost => post.key \in Keys /\ post.key[1] \in Subs
  BY KeyParts, PushAssumption DEF TypeOK, Posts, PostIsBound
<1>1. ASSUME NEW s \in Subs, Issue(s) PROVE SecretsAge'
  <2>1. /\ relay' = [relay EXCEPT ![s] = relay[s] + 1]
        /\ UNCHANGED <<secret, post>>
    BY <1>1 DEF Issue
  <2>2. \A u \in Subs : relay'[u] >= relay[u] /\ relay'[u] \in Int
    BY <1>0, <2>1
  <2> QED BY <1>0, <2>1, <2>2 DEF SecretsAge
<1>2. ASSUME NEW s \in Subs, Expire(s) PROVE SecretsAge'
  BY <1>0, <1>2 DEF Expire, SecretsAge
<1>3. ASSUME NEW s \in Subs, NEW k \in 1..relay[s], Register(s, k)
      PROVE  SecretsAge'
  BY <1>0, <1>3 DEF Register, SecretsAge
<1>4. ASSUME UNCHANGED <<secret, relay, post>> PROVE SecretsAge'
  BY <1>4 DEF SecretsAge
<1>5. ASSUME NEW e \in Events, Enqueue(e) PROVE UNCHANGED <<secret, relay, post>>
  BY <1>5 DEF Enqueue
<1>6. ASSUME NEW k \in Keys, Age(k) \/ Due(k) PROVE UNCHANGED <<secret, relay, post>>
  BY <1>6 DEF Age, Due
<1>7. ASSUME NEW k \in Keys, Select(k) PROVE SecretsAge'
  BY <1>0, <1>7, KeyParts DEF Select, SecretsAge
<1>8. ASSUME Post PROVE SecretsAge'
  <2>1. PICK r \in Results : PostGets(r)
    BY <1>8, PostCases
  <2>2. /\ post # NoPost /\ UNCHANGED <<secret, relay>>
        /\ r = "revoked" => post.secret # relay[post.key[1]]
    BY <1>8, <2>1, PostCases DEF PostGets, PostArrives, PostRefused
  <2>3. CASE post' = NoPost
    BY <2>2, <2>3 DEF SecretsAge
  <2>4. CASE post' = [post EXCEPT !.result = r]
    <3>1. /\ post'.key = post.key /\ post'.result = r
          /\ post'.secret = post.secret
      BY <1>0, <2>4, PostResult DEF Results
    <3> QED BY <1>0, <2>2, <3>1 DEF SecretsAge
  <2> QED BY <2>1, <2>3, <2>4 DEF PostGets
<1>9. ASSUME Finish PROVE SecretsAge'
  <2>1. post' = NoPost /\ UNCHANGED relay
    BY <1>9 DEF Finish
  <2>2. \A s \in Subs : secret'[s] = secret[s] \/ secret'[s] = 0
    BY <1>0, <1>9 DEF Finish, Revoked
  <2> QED BY <1>0, <2>1, <2>2 DEF SecretsAge
<1>10. ASSUME MarkFails \/ Restart PROVE SecretsAge'
  BY <1>10 DEF MarkFails, Restart, SecretsAge
<1>11. ASSUME UNCHANGED vars PROVE UNCHANGED <<secret, relay, post>>
  BY <1>11 DEF vars
<1> QED
  BY <1>1, <1>2, <1>3, <1>4, <1>5, <1>6, <1>7, <1>8, <1>9, <1>10, <1>11 DEF Next

(* The inductive invariant holds in every state of every behaviour.        *)
LEMMA Inductive == Spec => []IInv
<1>1. IInv /\ [Next]_vars => IInv'
  BY TypeStep, ArrivalStep, SecretStep DEF IInv
<1> QED BY <1>1, InitInv, PTL DEF Spec

(* Registrations, rows and the delivery in flight keep their types.        *)
THEOREM TypeCorrect == Spec => []TypeOK
<1>1. IInv => TypeOK
  BY DEF IInv
<1> QED BY <1>1, Inductive, PTL

(* A notification arrives once at a device, through replays, renewals and  *)
(* refusals, unless its arrival went unseen or its row was purged.         *)
THEOREM ArrivesOnce == Spec => []NotifiedOnce
<1>1. IInv => NotifiedOnce
  BY DEF IInv, ArrivalsTell, NotifiedOnce
<1> QED BY <1>1, Inductive, PTL

(* The mark of a refusal drops a capability only if it is the one refused,  *)
(* which the relay had revoked or, being valid, refused all the same.       *)
THEOREM RenewalsSurvive == Spec => RenewalSurvives
<1> DEFINE Kept ==
             \A s \in Subs :
                /\ Finish
                /\ secret[s] # 0 /\ secret[s] = relay[s]
                /\ ~(post.result = "forbidden" /\ post.key[1] = s /\ post.secret = secret[s])
                => secret'[s] = secret[s]
<1>1. IInv => Kept
  <2> SUFFICES ASSUME IInv, NEW s \in Subs, Finish, secret[s] = relay[s],
                      ~(/\ post.result = "forbidden" /\ post.key[1] = s
                        /\ post.secret = secret[s])
               PROVE  secret'[s] = secret[s]
    OBVIOUS
  <2>1. /\ post # NoPost /\ post.key[1] \in Subs
        /\ secret \in [Subs -> 0..MaxSecret]
        /\ post.secret \in Int /\ relay[s] \in Int
    BY KeyParts, PushAssumption
       DEF IInv, PostIsBound, TypeOK, Posts, Finish
  <2>2. CASE post.result \in {"revoked", "forbidden"} /\ post.key[1] = s
    <3>1. secret[s] # post.secret
      BY <2>1, <2>2 DEF IInv, SecretsAge
    <3> QED BY <2>1, <2>2, <3>1 DEF Finish, Revoked
  <2>3. CASE ~(post.result \in {"revoked", "forbidden"} /\ post.key[1] = s)
    BY <2>1, <2>3 DEF Finish, Revoked
  <2> QED BY <2>2, <2>3
<1>2. IInv /\ [Next]_vars => [Kept]_vars
  BY <1>1
<1> QED BY <1>2, Inductive, PTL DEF Spec, RenewalSurvives
=============================================================================
