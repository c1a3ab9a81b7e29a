--------------------------- MODULE WebhookOutbox ---------------------------
(***************************************************************************)
(* The outbox of webhooks: the Deliverer inserts a row per event it hears  *)
(* of, and a worker in every replica of the API polls the rows that are    *)
(* due, posts them one by one and records each outcome                     *)
(* (internal/webhook/outbox.go, deliverer.go, worker.go).                  *)
(*                                                                         *)
(* next_attempt_at is abstracted to the order in which rows come due: due  *)
(* lists the rows whose time has come, earliest first, and a row leaves it *)
(* when its backoff starts or it is no longer pending.                     *)
(***************************************************************************)
EXTENDS Naturals, Sequences, FiniteSets

CONSTANTS
  Events,
  Workers,      \* one per replica of the API
  BatchSize,    \* defaultBatchSize
  MaxAttempts,  \* maxAttempts
  Garbled,      \* events answered with a body that is no UTF-8 text once cut at 4 KB
  MaxCrashes,   \* bound on the restarts of replicas
  MaxConfig     \* bound on the changes of the client's URL

ASSUME OutboxAssumption ==
  /\ BatchSize \in Nat \ {0} /\ MaxAttempts \in Nat \ {0}
  /\ MaxCrashes \in Nat /\ MaxConfig \in Nat
  /\ Garbled \subseteq Events

VARIABLES
  row,      \* webhook_deliveries: [status, attempts] of each event
  due,      \* pending rows whose next_attempt_at has come, by next_attempt_at
  url,      \* whether the client has a webhook_url
  pc,       \* "idle", "claiming", "posting" or "recording"
  batch,    \* rows a worker has claimed and not dealt with
  outcome,  \* the claim last posted and what came of it
  got,      \* events the client has accepted
  posts,    \* POSTs of each event, up to MaxAttempts
  crashes, configs

vars == <<row, due, url, pc, batch, outcome, got, posts, crashes, configs>>

NoRow == [status |-> "none", attempts |-> 0]
Statuses == {"none", "pending", "delivered", "failed", "dead"}
Outcomes == {"ok", "lost", "retry", "down", "refused", "nourl"}

\* The rows of a batch are dealt with in the order of the claim.
Current(w, b) == b \in batch[w] /\ \A c \in batch[w] : b.pos <= c.pos

\* Rows locked by a claim that has not committed.
Locked == {b.event : b \in UNION {batch[w] : w \in {v \in Workers : pc[v] = "claiming"}}}

Pending == {e \in Events : row[e].status = "pending"}
DueAt(e) == {i \in DOMAIN due : due[i] = e}
Without(e) == SelectSeq(due, LAMBDA f : f # e)

-----------------------------------------------------------------------------
(* Into the outbox. *)

\* handleDetection, handleRetracted, SendTest: a client without a URL is skipped.
Enqueue(e) ==
  /\ row[e].status = "none" /\ url
  /\ row' = [row EXCEPT ![e] = [status |-> "pending", attempts |-> 0]]
  /\ due' = Append(due, e)
  /\ UNCHANGED <<url, pc, batch, outcome, got, posts, crashes, configs>>

\* The operator clears the URL or sets it again.
Configure ==
  /\ configs < MaxConfig
  /\ configs' = configs + 1
  /\ url' = ~ url
  /\ UNCHANGED <<row, due, pc, batch, outcome, got, posts, crashes>>

\* The backoff of a row has elapsed.
Elapse(e) ==
  /\ e \in Pending /\ DueAt(e) = {}
  /\ due' = Append(due, e)
  /\ UNCHANGED <<row, url, pc, batch, outcome, got, posts, crashes, configs>>

-----------------------------------------------------------------------------
(* The worker. *)

\* The rows a claim may return: SKIP LOCKED passes over those of another claim.
Claimable == {e \in Pending \ Locked : DueAt(e) # {}}

\* SELECT ... ORDER BY next_attempt_at LIMIT batchSize FOR UPDATE SKIP LOCKED.
Claim(w) ==
  /\ pc[w] = "idle"
  /\ \E S \in SUBSET Claimable :
       /\ S # {}
       /\ Cardinality(S) <= BatchSize
       /\ Cardinality(S) < BatchSize => S = Claimable
       /\ \A e \in S, f \in Claimable \ S : \A i \in DueAt(e), j \in DueAt(f) : i < j
       /\ batch' = [batch EXCEPT ![w] =
            {[event |-> e, attempts |-> row[e].attempts, url |-> url,
              pos |-> CHOOSE i \in DueAt(e) : TRUE] : e \in S}]
  /\ pc' = [pc EXCEPT ![w] = "claiming"]
  /\ UNCHANGED <<row, due, url, outcome, got, posts, crashes, configs>>

\* The locks go with the commit; the rows stay pending.
CommitClaim(w) ==
  /\ pc[w] = "claiming"
  /\ pc' = [pc EXCEPT ![w] = "posting"]
  /\ UNCHANGED <<row, due, url, batch, outcome, got, posts, crashes, configs>>

FailClaim(w) ==
  /\ pc[w] = "claiming"
  /\ pc' = [pc EXCEPT ![w] = "idle"]
  /\ batch' = [batch EXCEPT ![w] = {}]
  /\ UNCHANGED <<row, due, url, outcome, got, posts, crashes, configs>>

\* Of a claim without a URL nothing is posted.  An answer 2xx may be lost on its
\* way: the client has the event, the worker an error.
Post(w) ==
  /\ pc[w] = "posting"
  /\ \E b \in batch[w], o \in Outcomes :
       /\ Current(w, b)
       /\ o = "nourl" <=> ~ b.url
       /\ outcome' = [outcome EXCEPT ![w] = {[of |-> b, is |-> o]}]
       /\ got' = IF o \in {"ok", "lost"} THEN got \cup {b.event} ELSE got
       /\ posts' = [posts EXCEPT ![b.event] = IF b.url /\ @ < MaxAttempts THEN @ + 1 ELSE @]
  /\ pc' = [pc EXCEPT ![w] = "recording"]
  /\ UNCHANGED <<row, due, url, batch, crashes, configs>>

\* Mutant: the schedule is one attempt short.
AfterOneLess(b, o) ==
  CASE o = "ok" -> "delivered"
    [] o = "refused" -> "failed"
    [] o = "nourl" -> "dead"
    [] OTHER -> IF b.attempts + 2 >= MaxAttempts THEN "dead" ELSE "pending"

\* Mutant: the answer to a refused POST counts as a delivery.
AfterAnyAnswer(b, o) ==
  CASE o \in {"ok", "refused"} -> "delivered"
    [] o = "nourl" -> "dead"
    [] OTHER -> IF b.attempts + 1 >= MaxAttempts THEN "dead" ELSE "pending"

\* deliver and scheduleRetryOrDead: the status the outcome o of claim b leads to.
After(b, o) ==
  CASE o = "ok" -> "delivered"
    [] o = "refused" -> "failed"
    [] o = "nourl" -> "dead"
    [] OTHER -> IF b.attempts + 1 >= MaxAttempts THEN "dead" ELSE "pending"

\* On with the batch, whatever the UPDATE returned.
Proceed(w, b) ==
  /\ batch' = [batch EXCEPT ![w] = @ \ {b}]
  /\ pc' = [pc EXCEPT ![w] = IF batch[w] \subseteq {b} THEN "idle" ELSE "posting"]
  /\ outcome' = [outcome EXCEPT ![w] = {}]
  /\ UNCHANGED <<url, got, posts, crashes, configs>>

\* UPDATE ... WHERE id = $1, whatever the status is by now.  A retry stores the
\* count of the claim plus one, the others add one to the count of the row.  An
\* error of the client is stored without a body.
Record(w) ==
  \E o \in outcome[w] :
    LET e == o.of.event
        status == After(o.of, o.is)
    IN /\ e \notin Locked
       /\ e \in Garbled => o.is \in {"lost", "down", "nourl"}
       /\ row' = [row EXCEPT ![e] =
            [status |-> status,
             attempts |-> (IF status = "pending" THEN o.of.attempts ELSE @.attempts) + 1]]
       /\ due' = Without(e)
       /\ Proceed(w, o.of)

\* The UPDATE fails: logged, and the row stays as it was.  One that stores a
\* garbled body always fails.
RecordFails(w) ==
  /\ \E o \in outcome[w] : Proceed(w, o.of)
  /\ UNCHANGED <<row, due>>

\* The replica restarts: batch and outcome are lost, an open claim rolls back.
Crash(w) ==
  /\ crashes < MaxCrashes /\ pc[w] # "idle"
  /\ crashes' = crashes + 1
  /\ pc' = [pc EXCEPT ![w] = "idle"]
  /\ batch' = [batch EXCEPT ![w] = {}]
  /\ outcome' = [outcome EXCEPT ![w] = {}]
  /\ UNCHANGED <<row, due, url, got, posts, configs>>

-----------------------------------------------------------------------------
Init ==
  /\ row = [e \in Events |-> NoRow] /\ due = << >>
  /\ url = TRUE
  /\ pc = [w \in Workers |-> "idle"]
  /\ batch = [w \in Workers |-> {}]
  /\ outcome = [w \in Workers |-> {}]
  /\ got = {} /\ posts = [e \in Events |-> 0]
  /\ crashes = 0 /\ configs = 0

Work(w) == Claim(w) \/ CommitClaim(w) \/ Post(w) \/ Record(w)

Next ==
  \/ \E e \in Events : Enqueue(e) \/ Elapse(e)
  \/ Configure
  \/ \E w \in Workers : Work(w) \/ FailClaim(w) \/ RecordFails(w) \/ Crash(w)

\* The ticker and the clock never stop, and a database that fails now and then
\* does not fail forever.
Fairness ==
  /\ \A e \in Events : WF_vars(Elapse(e))
  /\ \A w \in Workers : /\ WF_vars(Claim(w)) /\ SF_vars(CommitClaim(w))
                        /\ WF_vars(Post(w))
                        /\ SF_vars(Record(w)) /\ WF_vars(Record(w) \/ RecordFails(w))

Spec == Init /\ [][Next]_vars /\ Fairness

-----------------------------------------------------------------------------
(* Properties. *)

Fate(e) ==
  CASE row[e].status = "none" -> "none"
    [] row[e].status = "pending" -> "owed"
    [] row[e].status = "delivered" -> "delivered"
    [] OTHER -> "abandoned"

D == INSTANCE Delivery WITH fate <- [e \in Events |-> Fate(e)], got <- got

\* The outbox delivers at least once, or gives up, and sticks to it: a row that
\* is settled is not posted again nor settled otherwise, none is called delivered
\* that the client never accepted, and none stays pending for ever ("at-least-once
\* delivery is the contract", worker.go:158).
ImplementsDelivery == D!Spec

\* An event is given up only after every attempt of the schedule was made, unless
\* the client refused it or has no URL: a crash, a lost answer and a failed UPDATE
\* cost a repeated POST, never an attempt.
NoEarlyDeath ==
  \A e \in Events : row[e].status = "dead" => posts[e] = MaxAttempts \/ configs > 0

\* Two workers never hold the same row ("o SKIP LOCKED evita disputa pela mesma
\* linha", docs/features/webhooks.md:36).
NoDispute ==
  \A v, w \in Workers : \A b \in batch[v], c \in batch[w] : v # w => b.event # c.event

\* Every row leaves the pending state ("After 5 attempts the delivery is moved to
\* the DLQ", worker.go:24).
PendingEnds == \A e \in Events : e \in Pending ~> e \notin Pending
=============================================================================
