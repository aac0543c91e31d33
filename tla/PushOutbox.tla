----------------------------- MODULE PushOutbox -----------------------------
(***************************************************************************)
(* The outbox of notifications: clients register delivery capabilities,     *)
(* frames of the bots are queued for each of them, and one thread posts     *)
(* them to the relay, the urgent ones first: it selects, posts and marks a  *)
(* row in three steps with the database unlocked while it posts.           *)
(***************************************************************************)
EXTENDS Integers, FiniteSets

CONSTANTS
    Subs,        \* ids of delivery capabilities
    Events,      \* identities of notifications
    Urgent,      \* prompts, whose rows go before those of final messages
    NoKey,
    MaxSecret,   \* bound: secrets a capability is registered with
    OutboxCap,   \* rows of the outbox that stop enqueue
    SubsCap,     \* subscriptions that stop register
    MaxCopies    \* bound: posts of one notification that arrive

Keys == Subs \X Events

ASSUME PushAssumption ==
    /\ NoKey \notin Keys
    /\ Urgent \subseteq Events
    /\ MaxSecret \in Nat \ {0}
    /\ OutboxCap \in Nat \ {0}
    /\ SubsCap \in Nat \ {0}
    /\ MaxCopies \in Nat \ {0}
    /\ IsFiniteSet(Subs) /\ IsFiniteSet(Events)

VARIABLES
    secret,     \* subscriptions: the secret of an id, 0 if there is none
    outbox,     \* per row: absent, queued, backoff (next_attempt is to come), done
    older,      \* per row: those that wait and were created before it
    age,        \* per row: fresh, late (past the send window), old (past a day)
    thread,     \* the delivery thread: runs, ended
    post,       \* the delivery in flight
    relay,      \* at the relay: the secret that is valid for an id
    arrived,    \* posts that reached the relay with a valid secret
    excuse      \* rows whose post may have arrived unseen, or that were purged

vars == <<secret, outbox, older, age, thread, post, relay, arrived, excuse>>
rows == <<outbox, older, age>>

-----------------------------------------------------------------------------

Posts  == [key : Keys \cup {NoKey}, secret : 0..MaxSecret,
           result : {"none", "ok", "bad", "revoked", "forbidden", "retry"}]
NoPost == [key |-> NoKey, secret |-> 0, result |-> "none"]

Rows   == {k \in Keys : outbox[k] # "absent"}
Subscribed == {s \in Subs : secret[s] # 0}
Waits  == {"queued", "backoff"}

\* A client obtains a new capability from the relay; older ones are revoked.
Issue(s) ==
    /\ relay[s] < MaxSecret
    /\ relay' = [relay EXCEPT ![s] = @ + 1]
    /\ UNCHANGED <<rows, secret, thread, post, arrived, excuse>>

\* register: the client hands over the capability it holds, or the request of
\* an older one comes late.
Register(s, k) ==
    /\ secret[s] # k
    /\ secret[s] # 0 \/ Cardinality(Subscribed) < SubsCap
    /\ secret' = [secret EXCEPT ![s] = k]
    /\ UNCHANGED <<rows, thread, post, relay, arrived, excuse>>

\* The registration expires after 90 days.
Expire(s) ==
    /\ secret[s] # 0
    /\ secret' = [secret EXCEPT ![s] = 0]
    /\ UNCHANGED <<rows, thread, post, relay, arrived, excuse>>

\* Mutant: a row that was delivered is queued again by a replay.
QueuedAgain(state) == "queued"

\* Mutant: a row is inserted without its state.
QueuedBare(state) == IF state = "absent" THEN "none" ELSE state

\* INSERT OR IGNORE.
Queued(state) == IF state = "absent" THEN "queued" ELSE state

\* enqueue, of a frame that may be a replay. Rows of a day ago go first; the
\* cap is looked at once, before one row per subscription is added.
Enqueue(e) ==
    LET old  == {k \in Rows : age[k] = "old"}
        kept == [k \in Keys |-> IF k \in old THEN "absent" ELSE outbox[k]]
        wait == {k \in Keys : kept[k] \in Waits}
    IN  /\ outbox' = IF Cardinality(Rows \ old) >= OutboxCap THEN kept
                     ELSE [k \in Keys |-> IF k[2] = e /\ secret[k[1]] # 0
                                           THEN Queued(kept[k]) ELSE kept[k]]
        /\ older' = [k \in Keys |->
             IF kept[k] # "absent" THEN older[k] \ old
             ELSE IF outbox'[k] = "absent" THEN {} ELSE wait]
        /\ age' = [k \in Keys |-> IF k \in old THEN "fresh" ELSE age[k]]
        /\ excuse' = excuse \cup old
        /\ UNCHANGED <<secret, thread, post, relay, arrived>>

\* An hour passes, and a day: a row leaves the send window, then the outbox.
Age(k) ==
    /\ k \in Rows /\ age[k] # "old"
    /\ age' = [age EXCEPT ![k] = IF @ = "fresh" THEN "late" ELSE "old"]
    /\ UNCHANGED <<secret, outbox, older, thread, post, relay, arrived, excuse>>

\* The next attempt of a row is due.
Due(k) ==
    /\ outbox[k] = "backoff"
    /\ outbox' = [outbox EXCEPT ![k] = "queued"]
    /\ UNCHANGED <<secret, older, age, thread, post, relay, arrived, excuse>>

\* The rows deliver_one may take, and the order in which it takes them: by
\* priority, then by the time of their creation.
Sendable  == {k \in Keys : outbox[k] = "queued" /\ age[k] = "fresh" /\ secret[k[1]] # 0}
Before(o, k) == \/ o[2] \in Urgent /\ k[2] \notin Urgent
                \/ (o[2] \in Urgent <=> k[2] \in Urgent) /\ o \in older[k]

\* deliver_one selects the first row with the secret registered now.
Select(k) ==
    /\ thread = "runs" /\ post = NoPost
    /\ k \in Sendable /\ \A o \in Sendable : ~Before(o, k)
    /\ post' = [key |-> k, secret |-> secret[k[1]], result |-> "none"]
    /\ UNCHANGED <<rows, secret, thread, relay, arrived, excuse>>

\* What the relay does of a post: it delivers it if the secret is valid, and its
\* answer arrives or does not; it refuses the secret, or one that is valid; it
\* rejects the message, is busy or is not reached.
Answers(r) ==
    LET k == post.key
        valid == post.secret = relay[k[1]]
    IN  /\ r \in {"ok", "revoked", "forbidden"} => (valid <=> r # "revoked")
        /\ post' = [post EXCEPT !.result = r]
        /\ UNCHANGED thread

\* An answer that is no HTTP is caught neither by deliver_one nor by run.
Breaks == post' = NoPost /\ thread' = "ended"

Unseen  == Breaks \/ Answers("retry")

Post ==
    /\ post # NoPost /\ post.result = "none"
    /\ \/ /\ post.secret = relay[post.key[1]] /\ arrived[post.key] < MaxCopies
          /\ arrived' = [arrived EXCEPT ![post.key] = @ + 1]
          /\ \/ Answers("ok") /\ UNCHANGED excuse
             \/ Unseen /\ excuse' = excuse \cup {post.key}
       \/ /\ Unseen \/ \E r \in {"bad", "revoked", "forbidden"} : Answers(r)
          /\ UNCHANGED <<arrived, excuse>>
    /\ UNCHANGED <<rows, secret, relay>>

\* Mutant: a rejection drops the subscription, whatever its secret.
RevokedAny(s, used) == 0

\* The subscription goes only if it still has the secret that was refused.
Revoked(s, used) == IF secret[s] = used THEN 0 ELSE secret[s]

\* Mutant: a post that was answered stays queued.
MarkedLost(k) == outbox

\* A row that was purged meanwhile is not there to be marked.
Marked(k) ==
    [outbox EXCEPT ![k] =
       IF @ # "queued" THEN @ ELSE IF post.result = "retry" THEN "backoff" ELSE "done"]

Finish ==
    /\ post # NoPost /\ post.result # "none"
    /\ secret' = IF post.result \in {"revoked", "forbidden"}
                   THEN [secret EXCEPT ![post.key[1]] =
                           Revoked(post.key[1], post.secret)]
                   ELSE secret
    /\ outbox' = Marked(post.key)
    /\ older' = [k \in Keys |-> {o \in older[k] : outbox'[o] \in Waits}]
    /\ post' = NoPost
    /\ UNCHANGED <<age, thread, relay, arrived, excuse>>

\* What was answered and is not marked.
Unmarked == excuse' = IF post.result = "ok" THEN excuse \cup {post.key} ELSE excuse

\* The mark fails, and run goes on with the row as it was.
MarkFails ==
    /\ post # NoPost /\ post.result # "none"
    /\ Unmarked /\ post' = NoPost
    /\ UNCHANGED <<rows, secret, thread, relay, arrived>>

\* The server stops, maybe between the post and the mark; one that starts has a
\* new thread.
Restart ==
    /\ post # NoPost \/ thread = "ended"
    /\ Unmarked /\ post' = NoPost /\ thread' = "runs"
    /\ UNCHANGED <<rows, secret, relay, arrived>>

-----------------------------------------------------------------------------

Init ==
    /\ secret = [s \in Subs |-> 0]
    /\ outbox = [k \in Keys |-> "absent"]
    /\ older = [k \in Keys |-> {}]
    /\ age = [k \in Keys |-> "fresh"]
    /\ thread = "runs"
    /\ post = NoPost
    /\ relay = [s \in Subs |-> 0]
    /\ arrived = [k \in Keys |-> 0]
    /\ excuse = {}

Next ==
    \/ \E s \in Subs : \/ Issue(s) \/ Expire(s)
                      \/ \E k \in 1..relay[s] : Register(s, k)
    \/ \E e \in Events : Enqueue(e)
    \/ \E k \in Keys : Age(k) \/ Due(k) \/ Select(k)
    \/ Post \/ Finish \/ MarkFails \/ Restart

Spec == Init /\ [][Next]_vars

\* The thread, while it runs, takes its steps, and time passes until a row is due
\* again. A row that is posted again and again is answered at last, and one of the
\* answers is marked. Nobody has to start the server again, and a row has to wait
\* for its turn.
Settled(k)  == post.key = k /\ post.result # "retry" /\ Finish
Answered(k) == []<>(post.key = k) => []<><<Settled(k)>>_vars

FairSpec ==
    /\ Spec
    /\ WF_vars(\E k \in Keys : Select(k)) /\ WF_vars(Post) /\ WF_vars(Finish)
    /\ \A k \in Keys : WF_vars(Due(k)) /\ Answered(k)

-----------------------------------------------------------------------------
(* Properties.                                                             *)

TypeOK ==
    /\ secret \in [Subs -> 0..MaxSecret] /\ relay \in [Subs -> 0..MaxSecret]
    /\ outbox \in [Keys -> {"absent", "queued", "backoff", "done"}]
    /\ older \in [Keys -> SUBSET Keys]
    /\ age \in [Keys -> {"fresh", "late", "old"}]
    /\ thread \in {"runs", "ended"}
    /\ post \in Posts
    /\ arrived \in [Keys -> 0..MaxCopies]
    /\ excuse \subseteq Keys

\* A notification arrives once at a device, however often its frame is
\* replayed and its delivery retried, unless the relay's answer was lost or
\* ended the thread, the server stopped before it marked the row or the mark
\* failed, or the row was purged after a day.
NotifiedOnce == \A k \in Keys : arrived[k] > 1 => k \in excuse

\* A capability the client renewed while an older one was being refused stays
\* registered; one that is valid goes only if the relay refused that very one.
RenewalSurvives ==
    [][\A s \in Subs :
         /\ Finish
         /\ secret[s] # 0 /\ secret[s] = relay[s]
         /\ ~(post.result = "forbidden" /\ post.key[1] = s /\ post.secret = secret[s])
         => secret'[s] = secret[s]]_vars

\* A row waits while one that is more urgent can be sent.
Overtaken(k) ==
    k \in Sendable /\ \E u \in Sendable : u[2] \in Urgent /\ k[2] \notin Urgent

\* A queued notification is settled, unless it grows old or its capability goes:
\* failing rows before it back off, and a thread that ended is followed by that
\* of a server that starts. Urgent rows that come for ever pass it over, and a
\* thread that ended for good sends nothing.
EveryRowIsSettled ==
    \A k \in Keys :
        \/ <>[](thread = "ended")
        \/ []<>Overtaken(k)
        \/ (outbox[k] \in Waits) ~>
              (outbox[k] \notin Waits \/ age[k] # "fresh" \/ secret[k[1]] = 0)
=============================================================================
