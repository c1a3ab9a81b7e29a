------------------------ MODULE WebhookOutboxProofs ------------------------
(***************************************************************************)
(* With one replica the outbox implements the safety part of Delivery, for *)
(* any events, batch size, schedule, crashes and garbled answers: between  *)
(* the claim of a row and the record of its outcome nobody else settles it.*)
(* With any number of replicas it settles rows twice, but it never gives   *)
(* an event up before the attempts of its schedule were made.              *)
(***************************************************************************)
EXTENDS WebhookOutbox, TLAPS

OneReplica == \A v, w \in Workers : v = w

-----------------------------------------------------------------------------
(* The inductive invariant. *)

RowsTyped == row \in [Events -> [status : Statuses, attempts : Nat]]

WorkersTyped ==
  /\ DOMAIN batch = Workers /\ DOMAIN outcome = Workers /\ DOMAIN pc = Workers
  /\ \A w \in Workers : \A b \in batch[w] : b.event \in Events /\ b.attempts \in Nat

\* A claimed row is pending and claimed once.
Exclusive ==
  \A w \in Workers : \A b \in batch[w] :
    /\ row[b.event].status = "pending"
    /\ \A c \in batch[w] : b.event = c.event => b = c

\* The outcome held is that of a claim of the batch, and an "ok" is the client's.
Honest ==
  \A w \in Workers : \A o \in outcome[w] :
    /\ o.of \in batch[w] /\ o.is \in Outcomes
    /\ o.is = "ok" => o.of.event \in got

\* An idle worker has no batch, and only the recording worker has an outcome.
Phases ==
  \A w \in Workers : /\ pc[w] = "idle" => batch[w] = {}
                     /\ pc[w] # "recording" => outcome[w] = {}

IInv == RowsTyped /\ WorkersTyped /\ Exclusive /\ Honest /\ Phases

-----------------------------------------------------------------------------

LEMMA AfterType ==
  ASSUME NEW b, NEW o PROVE After(b, o) \in Statuses \ {"none"}
BY DEF After, Statuses

\* The outcomes are those of rows that are pending, and the invariant holds from
\* the start.
LEMMA InitIInv == Init => IInv
BY DEF Init, IInv, RowsTyped, WorkersTyped, Exclusive, Honest, Phases, NoRow, Statuses

LEMMA NextIInv ==
  ASSUME OneReplica PROVE IInv /\ [Next]_vars => IInv'
<1> SUFFICES ASSUME IInv, [Next]_vars PROVE IInv'
  OBVIOUS
<1> USE DEF IInv, RowsTyped, WorkersTyped, Exclusive, Honest, Phases
<1>1. ASSUME NEW e \in Events, Enqueue(e) PROVE IInv'
  <2>1. RowsTyped'
    BY <1>1 DEF Enqueue, Statuses
  <2>2. \A f \in Events : row[f].status = "pending" => row'[f].status = "pending"
    BY <1>1 DEF Enqueue
  <2>3. QED
    BY <1>1, <2>1, <2>2 DEF Enqueue
<1>2. ASSUME NEW e \in Events, Elapse(e) PROVE IInv'
  BY <1>2 DEF Elapse
<1>3. CASE Configure
  BY <1>3 DEF Configure
<1>4. ASSUME NEW w \in Workers, Claim(w) PROVE IInv'
  <2> DEFINE ClaimOf(e) == [event |-> e, attempts |-> row[e].attempts, url |-> url,
                            pos |-> CHOOSE i \in DueAt(e) : TRUE]
  <2>1. PICK S \in SUBSET Claimable : batch' = [batch EXCEPT ![w] = {ClaimOf(e) : e \in S}]
    BY <1>4 DEF Claim
  <2>2. S \subseteq Events /\ \A e \in S : row[e].status = "pending"
    BY DEF Claimable, Pending
  <2>3. batch'[w] = {ClaimOf(e) : e \in S}
    BY <2>1
  <2>4. \A e \in S : ClaimOf(e).event = e /\ ClaimOf(e).attempts = row[e].attempts
    OBVIOUS
  <2> HIDE DEF ClaimOf
  <2>5. \A b \in batch'[w] : b.event \in S /\ b.attempts = row[b.event].attempts
    BY <2>3, <2>4
  <2>6. \A b, c \in batch'[w] : b.event = c.event => b = c
    BY <2>3, <2>4
  <2>7. outcome[w] = {}
    BY <1>4 DEF Claim
  <2>8. \A v \in Workers : v # w => batch'[v] = batch[v]
    BY <2>1
  <2>9. WorkersTyped' /\ Exclusive'
    BY <1>4, <2>1, <2>2, <2>5, <2>6, <2>8 DEF Claim
  <2>10. Honest' /\ Phases'
    BY <1>4, <2>1, <2>7, <2>8 DEF Claim
  <2> QED
    BY <1>4, <2>9, <2>10 DEF Claim
<1>5. ASSUME NEW w \in Workers, CommitClaim(w) PROVE IInv'
  BY <1>5 DEF CommitClaim
<1>6. ASSUME NEW w \in Workers, FailClaim(w) PROVE IInv'
  BY <1>6 DEF FailClaim
<1>7. ASSUME NEW w \in Workers, Post(w) PROVE IInv'
  <2>1. PICK b \in batch[w], o \in Outcomes :
          /\ outcome' = [outcome EXCEPT ![w] = {[of |-> b, is |-> o]}]
          /\ got' = IF o \in {"ok", "lost"} THEN got \cup {b.event} ELSE got
    BY <1>7 DEF Post
  <2>2. RowsTyped' /\ WorkersTyped' /\ Exclusive' /\ Phases'
    BY <1>7, <2>1 DEF Post
  <2>3. outcome'[w] = {[of |-> b, is |-> o]} /\ o = "ok" => b.event \in got'
    BY <2>1
  <2>4. \A v \in Workers : v # w => outcome'[v] = outcome[v]
    BY <2>1
  <2>5. got \subseteq got' /\ batch' = batch
    BY <1>7, <2>1 DEF Post
  <2>6. Honest'
    BY <2>1, <2>3, <2>4, <2>5
  <2> QED
    BY <2>2, <2>6
<1>8. ASSUME NEW w \in Workers, NEW b, b \in batch[w], Proceed(w, b), outcome[w] # {},
             RowsTyped', \A f \in Events \ {b.event} : row'[f] = row[f]
      PROVE  IInv'
  <2>1. \A v \in Workers : v = w
    BY OneReplica DEF OneReplica
  <2>2. batch'[w] = batch[w] \ {b} /\ outcome'[w] = {} /\ got' = got
    BY <1>8 DEF Proceed
  <2>3. WorkersTyped'
    BY <1>8, <2>1, <2>2 DEF Proceed
  <2>4. \A c \in batch'[w] : c.event \in Events \ {b.event}
    BY <1>8, <2>2
  <2>5. Exclusive'
    BY <1>8, <2>1, <2>2, <2>4
  <2>6. Phases'
    BY <1>8, <2>1, <2>2 DEF Proceed
  <2> QED
    BY <1>8, <2>1, <2>2, <2>3, <2>5, <2>6
<1>9. ASSUME NEW w \in Workers, Record(w) PROVE IInv'
  <2>1. PICK o \in outcome[w] :
          /\ row' = [row EXCEPT ![o.of.event] =
               [status |-> After(o.of, o.is),
                attempts |-> (IF After(o.of, o.is) = "pending" THEN o.of.attempts
                              ELSE @.attempts) + 1]]
          /\ Proceed(w, o.of)
    BY <1>9 DEF Record
  <2>2. o.of \in batch[w] /\ o.of.event \in Events /\ o.of.attempts \in Nat
    BY <2>1
  <2>3. After(o.of, o.is) \in Statuses
    BY AfterType
  <2>4. RowsTyped'
    BY <2>1, <2>2, <2>3
  <2>5. \A f \in Events \ {o.of.event} : row'[f] = row[f]
    BY <2>1, <2>2
  <2> QED
    BY <1>8, <2>1, <2>2, <2>4, <2>5
<1>10. ASSUME NEW w \in Workers, RecordFails(w) PROVE IInv'
  <2>1. PICK o \in outcome[w] : Proceed(w, o.of)
    BY <1>10 DEF RecordFails
  <2> QED
    BY <1>8, <1>10, <2>1 DEF RecordFails
<1>11. ASSUME NEW w \in Workers, Crash(w) PROVE IInv'
  BY <1>11 DEF Crash
<1>12. CASE UNCHANGED vars
  BY <1>12 DEF vars
<1> QED
  BY <1>1, <1>2, <1>3, <1>4, <1>5, <1>6, <1>7, <1>9, <1>10, <1>11, <1>12 DEF Next, Work

\* Every step of the outbox is a step of Delivery or changes nothing of it.
LEMMA StepSimulation ==
  ASSUME OneReplica PROVE IInv /\ [Next]_vars => [D!Next]_(D!vars)
<1> SUFFICES ASSUME IInv, [Next]_vars PROVE [D!Next]_(D!vars)
  OBVIOUS
<1> DEFINE fate == [e \in Events |-> Fate(e)]
<1> USE DEF IInv, RowsTyped, WorkersTyped, Exclusive, Honest, Phases
<1>1. ASSUME row' = row, got' = got PROVE D!vars' = D!vars
  BY <1>1 DEF D!vars, Fate
<1>2. ASSUME NEW e \in Events, Enqueue(e) PROVE D!Owe(e)
  BY <1>2 DEF Enqueue, D!Owe, Fate
<1>3. ASSUME NEW w \in Workers, Post(w) PROVE [D!Next]_(D!vars)
  <2>1. PICK b \in batch[w], o \in Outcomes :
          got' = IF o \in {"ok", "lost"} THEN got \cup {b.event} ELSE got
    BY <1>3 DEF Post
  <2>2. row' = row
    BY <1>3 DEF Post
  <2>3. CASE got' = got
    BY <1>1, <2>2, <2>3
  <2>4. CASE got' = got \cup {b.event}
    <3>1. b.event \in Events /\ Fate(b.event) = "owed"
      BY DEF Fate
    <3>2. D!Receive(b.event)
      BY <2>2, <2>4, <3>1 DEF D!Receive, Fate
    <3> QED
      BY <3>1, <3>2 DEF D!Next
  <2> QED
    BY <2>1, <2>3, <2>4
<1>4. ASSUME NEW w \in Workers, Record(w) PROVE [D!Next]_(D!vars)
  <2>1. PICK o \in outcome[w] :
          /\ row' = [row EXCEPT ![o.of.event] =
               [status |-> After(o.of, o.is),
                attempts |-> (IF After(o.of, o.is) = "pending" THEN o.of.attempts
                              ELSE @.attempts) + 1]]
          /\ Proceed(w, o.of)
    BY <1>4 DEF Record
  <2> DEFINE e == o.of.event
             s == After(o.of, o.is)
  <2>2. e \in Events /\ row[e].status = "pending" /\ (o.is = "ok" => e \in got)
    BY <2>1
  <2>3. got' = got
    BY <2>1 DEF Proceed
  <2>4. s \in Statuses \ {"none"} /\ (s = "delivered" => o.is = "ok")
    BY <2>1 DEF After, Statuses
  <2>5. row'[e].status = s /\ \A f \in Events \ {e} : row'[f] = row[f]
    BY <2>1, <2>2
  <2> HIDE DEF e, s
  <2>6. \A f \in Events \ {e} : Fate(f)' = Fate(f)
    BY <2>5 DEF Fate
  <2>7. Fate(e) = "owed"
    BY <2>2 DEF Fate
  <2>8. CASE s = "pending"
    <3>1. Fate(e)' = Fate(e)
      BY <2>5, <2>7, <2>8 DEF Fate
    <3> QED
      BY <2>3, <2>6, <3>1 DEF D!vars
  <2>9. CASE s # "pending"
    <3>1. Fate(e)' = IF s = "delivered" THEN "delivered" ELSE "abandoned"
      BY <2>4, <2>5, <2>9 DEF Fate, Statuses
    <3>2. fate' = [fate EXCEPT ![e] = IF s = "delivered" THEN "delivered" ELSE "abandoned"]
      BY <2>2, <2>6, <3>1
    <3>3. s = "delivered" => e \in got
      BY <2>2, <2>4
    <3>4. D!Settle(e)
      BY <2>2, <2>3, <2>7, <3>2, <3>3 DEF D!Settle
    <3> QED
      BY <2>2, <3>4 DEF D!Next
  <2> QED
    BY <2>8, <2>9
<1>5. ASSUME NEW w \in Workers, RecordFails(w) PROVE row' = row /\ got' = got
  BY <1>5 DEF RecordFails, Proceed
<1> QED
  BY <1>1, <1>2, <1>3, <1>4, <1>5
     DEF Next, Work, D!Next, Elapse, Configure, Claim, CommitClaim, FailClaim, Crash, vars

\* With one replica the outbox delivers an event at least once or gives it up, and
\* never takes either back (worker.go): the safety part of Delivery.
THEOREM OutboxImplementsDelivery ==
  ASSUME OneReplica PROVE Spec => D!Safe
<1>1. Init => D!Init
  BY DEF Init, D!Init, Fate, NoRow
<1>2. Spec => []IInv
  BY InitIInv, NextIInv, PTL DEF Spec
<1> QED
  BY <1>1, <1>2, StepSimulation, PTL DEF Spec, D!Safe
-----------------------------------------------------------------------------
(* The schedule of attempts, with any number of replicas.  Rows may be claimed   *)
(* twice and settled twice, but while the client keeps its URL nobody counts an   *)
(* attempt that was not posted.                                                   *)

CountersTyped ==
  /\ posts \in [Events -> 0..MaxAttempts] /\ configs \in Nat /\ MaxAttempts \in Nat \ {0}
  /\ configs = 0 => url = TRUE

\* The attempts of a row that will be tried again were all posted.
RowsPosted ==
  \A e \in Events : configs = 0 /\ row[e].status = "pending" =>
    row[e].attempts <= posts[e] /\ row[e].attempts < MaxAttempts

\* So were those a worker read when it claimed the row, however stale by now.
ClaimsPosted ==
  \A w \in Workers : \A b \in batch[w] : configs = 0 =>
    b.url = TRUE /\ b.attempts <= posts[b.event] /\ b.attempts < MaxAttempts

\* An outcome is that of one POST more.
OutcomesPosted ==
  \A w \in Workers : \A o \in outcome[w] :
    /\ o.of.event \in Events /\ o.of.attempts \in Nat
    /\ configs = 0 => /\ o.is # "nourl" /\ o.of.attempts < MaxAttempts
                      /\ o.of.attempts + 1 <= posts[o.of.event]

ScheduleInv ==
  /\ RowsTyped /\ WorkersTyped /\ CountersTyped
  /\ RowsPosted /\ ClaimsPosted /\ OutcomesPosted /\ NoEarlyDeath

LEMMA InitSchedule == Init => ScheduleInv
BY OutboxAssumption
   DEF Init, ScheduleInv, RowsTyped, WorkersTyped, CountersTyped, RowsPosted, ClaimsPosted,
       OutcomesPosted, NoEarlyDeath, NoRow, Statuses

LEMMA ClaimSchedule ==
  ASSUME ScheduleInv, NEW w \in Workers, Claim(w) PROVE ScheduleInv'
<1> USE DEF ScheduleInv, RowsTyped, WorkersTyped, CountersTyped, RowsPosted, ClaimsPosted,
            OutcomesPosted, NoEarlyDeath
<1> DEFINE ClaimOf(e) == [event |-> e, attempts |-> row[e].attempts, url |-> url,
                          pos |-> CHOOSE i \in DueAt(e) : TRUE]
<1>1. PICK S \in SUBSET Claimable : batch' = [batch EXCEPT ![w] = {ClaimOf(e) : e \in S}]
  BY DEF Claim
<1>2. \A e \in S : e \in Events /\ row[e].status = "pending"
  BY DEF Claimable, Pending
<1>3. batch'[w] = {ClaimOf(e) : e \in S} /\ \A v \in Workers : v # w => batch'[v] = batch[v]
  BY <1>1
<1>4. \A e \in S : /\ ClaimOf(e).event = e /\ ClaimOf(e).attempts = row[e].attempts
                   /\ ClaimOf(e).url = url
  OBVIOUS
<1> HIDE DEF ClaimOf
<1>5. \A b \in batch'[w] : b.event \in S /\ b.attempts = row[b.event].attempts /\ b.url = url
  BY <1>3, <1>4
<1>6. WorkersTyped'
  BY <1>1, <1>2, <1>3, <1>5 DEF Claim
<1>7. ClaimsPosted'
  BY <1>2, <1>3, <1>5 DEF Claim
<1> QED
  BY <1>6, <1>7 DEF Claim

LEMMA PostSchedule ==
  ASSUME ScheduleInv, NEW w \in Workers, Post(w) PROVE ScheduleInv'
<1> USE DEF ScheduleInv, RowsTyped, WorkersTyped, CountersTyped, RowsPosted, ClaimsPosted,
            OutcomesPosted, NoEarlyDeath
<1>1. PICK b \in batch[w], o \in Outcomes :
        /\ o = "nourl" <=> ~ b.url
        /\ outcome' = [outcome EXCEPT ![w] = {[of |-> b, is |-> o]}]
        /\ posts' = [posts EXCEPT ![b.event] =
                       IF b.url /\ @ < MaxAttempts THEN @ + 1 ELSE @]
  BY DEF Post
<1>2. b.event \in Events /\ b.attempts \in Nat
  OBVIOUS
<1>3. CountersTyped'
  BY <1>1, <1>2 DEF Post
<1>4. \A e \in Events : posts[e] <= posts'[e]
  BY <1>1, <1>2
<1>5. configs = 0 => b.attempts + 1 <= posts'[b.event] /\ o # "nourl" /\ b.attempts < MaxAttempts
  BY <1>1, <1>2
<1>6. row' = row /\ batch' = batch /\ configs' = configs
  BY DEF Post
<1>7. RowsPosted' /\ ClaimsPosted'
  BY <1>3, <1>4, <1>6
<1>8. \A p \in outcome'[w] : p.of = b /\ p.is = o
  BY <1>1
<1>9. \A v \in Workers : v # w => outcome'[v] = outcome[v]
  BY <1>1
<1>10. OutcomesPosted'
  <2> SUFFICES ASSUME NEW v \in Workers, NEW p \in outcome'[v]
               PROVE  /\ p.of.event \in Events /\ p.of.attempts \in Nat
                      /\ configs = 0 => /\ p.is # "nourl" /\ p.of.attempts < MaxAttempts
                                        /\ p.of.attempts + 1 <= posts'[p.of.event]
    BY <1>6
  <2>1. CASE v = w
    BY <1>2, <1>5, <1>8, <2>1
  <2>2. CASE v # w
    BY <1>3, <1>4, <1>9, <2>2
  <2> QED
    BY <2>1, <2>2
<1>11. NoEarlyDeath'
  BY <1>3, <1>4, <1>6
<1>12. RowsTyped' /\ WorkersTyped'
  BY <1>1, <1>6 DEF Post
<1> QED
  BY <1>3, <1>7, <1>10, <1>11, <1>12

LEMMA RecordSchedule ==
  ASSUME ScheduleInv, NEW w \in Workers, Record(w) PROVE ScheduleInv'
<1> USE DEF ScheduleInv, RowsTyped, WorkersTyped, CountersTyped, RowsPosted, ClaimsPosted,
            OutcomesPosted, NoEarlyDeath
<1>1. PICK o \in outcome[w] :
        /\ row' = [row EXCEPT ![o.of.event] =
             [status |-> After(o.of, o.is),
              attempts |-> (IF After(o.of, o.is) = "pending" THEN o.of.attempts
                            ELSE @.attempts) + 1]]
        /\ Proceed(w, o.of)
  BY DEF Record
<1> DEFINE e == o.of.event
           s == After(o.of, o.is)
<1>2. e \in Events /\ o.of.attempts \in Nat
  OBVIOUS
<1>3. s \in Statuses
  BY AfterType
<1>4. configs = 0 /\ s = "pending" => o.of.attempts + 1 < MaxAttempts
  BY <1>2 DEF After
<1>5. configs = 0 /\ s = "dead" => posts[e] = MaxAttempts
  <2>1. configs = 0 /\ s = "dead" => o.of.attempts + 1 >= MaxAttempts
    BY <1>2 DEF After
  <2>2. e \in Events /\ posts[e] \in 0..MaxAttempts /\ MaxAttempts \in Nat
    BY <1>2
  <2>3. configs = 0 => o.of.attempts + 1 <= posts[e]
    OBVIOUS
  <2>4. ASSUME NEW n \in Nat, NEW m \in Nat, NEW p \in 0..m, n + 1 <= p, n + 1 >= m PROVE p = m
    BY <2>4
  <2> QED
    BY <1>2, <2>1, <2>2, <2>3, <2>4
<1>6. /\ row'[e].status = s /\ (s = "pending" => row'[e].attempts = o.of.attempts + 1)
      /\ \A f \in Events \ {e} : row'[f] = row[f]
  BY <1>1, <1>2
<1>7. RowsTyped'
  BY <1>1, <1>2, <1>3
<1> HIDE DEF s
<1>8. posts' = posts /\ configs' = configs /\ url' = url
  BY <1>1 DEF Proceed
<1>9. \A v \in Workers : batch'[v] \subseteq batch[v] /\ outcome'[v] \subseteq outcome[v]
  BY <1>1 DEF Proceed
<1>10. RowsPosted'
  BY <1>2, <1>4, <1>6, <1>8
<1>11. NoEarlyDeath'
  BY <1>5, <1>6, <1>8
<1>12. WorkersTyped'
  BY <1>1, <1>9 DEF Proceed
<1>13. ClaimsPosted' /\ OutcomesPosted' /\ CountersTyped'
  BY <1>8, <1>9
<1> QED
  BY <1>7, <1>10, <1>11, <1>12, <1>13

LEMMA NextSchedule == ScheduleInv /\ [Next]_vars => ScheduleInv'
<1> SUFFICES ASSUME ScheduleInv, [Next]_vars PROVE ScheduleInv'
  OBVIOUS
<1> USE DEF ScheduleInv, RowsTyped, WorkersTyped, CountersTyped, RowsPosted, ClaimsPosted,
            OutcomesPosted, NoEarlyDeath
<1>1. ASSUME NEW e \in Events, Enqueue(e) PROVE ScheduleInv'
  BY <1>1 DEF Enqueue, Statuses
<1>2. ASSUME NEW e \in Events, Elapse(e) PROVE ScheduleInv'
  BY <1>2 DEF Elapse
<1>3. CASE Configure
  <2>1. configs' \in Nat \ {0}
    BY <1>3 DEF Configure
  <2> QED
    BY <1>3, <2>1 DEF Configure
<1>4. ASSUME NEW w \in Workers, CommitClaim(w) \/ FailClaim(w) \/ RecordFails(w) \/ Crash(w)
      PROVE  ScheduleInv'
  <2>1. /\ row' = row /\ posts' = posts /\ configs' = configs /\ url' = url
        /\ \A v \in Workers : batch'[v] \subseteq batch[v] /\ outcome'[v] \subseteq outcome[v]
        /\ DOMAIN batch' = Workers /\ DOMAIN outcome' = Workers /\ DOMAIN pc' = Workers
    BY <1>4 DEF CommitClaim, FailClaim, RecordFails, Proceed, Crash
  <2> QED
    BY <2>1
<1>5. CASE UNCHANGED vars
  BY <1>5 DEF vars
<1> QED
  BY <1>1, <1>2, <1>3, <1>4, <1>5, ClaimSchedule, PostSchedule, RecordSchedule DEF Next, Work

\* However many replicas share the outbox, whatever crashes, answer or UPDATE is
\* lost, and however often a row is settled twice: while the client keeps its URL no
\* event is dead before MaxAttempts POSTs of it (worker.go, scheduleRetryOrDead).
THEOREM OutboxNoEarlyDeath == Spec => []NoEarlyDeath
<1>1. ScheduleInv => NoEarlyDeath
  BY DEF ScheduleInv
<1> QED
  BY <1>1, InitSchedule, NextSchedule, PTL DEF Spec
=============================================================================
