----------------------- MODULE DistributionEditorProofs -----------------------
(***************************************************************************)
(* For every grid, every set of rules and overrides, and any number of     *)
(* clicks, requests and faults:                                            *)
(*   - a draft leaves the grid only when the user discards it or the       *)
(*     server has taken exactly its count;                                 *)
(*   - when nothing is under way the screen shows the server's data.       *)
(*                                                                         *)
(* The second rests on what each key of the cache owes the server (Fresh): *)
(* unless a mutation the server has taken still waits for its answer, a    *)
(* read under way carries the server's data, and a key without one either  *)
(* holds it or is marked.  A marked key is never on the screen without a   *)
(* read (Marked), because a mutation asks again for what is on the screen  *)
(* and a change of month asks for what was marked.                         *)
(***************************************************************************)
EXTENDS DistributionEditor, TLAPS

Ops == {"upsert", "delete", "create", "update", "remove"}

\* What the client knows of a request.
IsCall(call) == /\ "op" \in DOMAIN call /\ "served" \in DOMAIN call
                /\ call.op \in Ops /\ call.served \in BOOLEAN

CacheOK == /\ DOMAIN cache = Queries /\ DOMAIN fetch = Queries
           /\ \A call \in calls : IsCall(call)

\* A mutation the server has taken and the client does not know of yet.
Owed(q) == \E call \in calls : call.served /\ q \in KeysOf(call)

Fresh(q) ==
  q \notin blind /\ ~Owed(q) =>
    IF fetch[q] = Idle THEN q \notin stale => cache[q] = ServerData(q)
    ELSE fetch[q] = Read(q)

Marked(q) == Mounted(q, month) /\ fetch[q] = Idle /\ q \notin blind => q \notin stale

GridInv == CacheOK /\ \A q \in Queries : Fresh(q) /\ Marked(q)

---------------------------------------------------------------------------
(* The keys of the queries and of the mutations. *)

LEMMA QueryKinds ==
  ASSUME NEW q \in Queries
  PROVE  q[1] \in {"rules", "overrides", "summary"}
BY DEF Queries

\* A mutation leaves alone the answers of the keys it does not invalidate.
LEMMA ServedKeeps ==
  ASSUME NEW call, IsCall(call), Served(call), NEW q \in Queries, q \notin KeysOf(call)
  PROVE  ServerData(q)' = ServerData(q)
<1>1. CASE call.op \in {"upsert", "delete"}
  <2>1. rules' = rules
    BY <1>1 DEF Served
  <2>2. q[1] = "rules"
    BY <1>1, QueryKinds DEF KeysOf, OverrideKeys
  <2> QED BY <2>1, <2>2 DEF ServerData, DataOf
<1>2. CASE call.op \in {"create", "update", "remove"}
  <2>1. overrides' = overrides
    BY <1>2 DEF Served
  <2>2. q[1] = "overrides"
    BY <1>2, QueryKinds DEF KeysOf, RuleKeys
  <2> QED BY <2>1, <2>2 DEF ServerData, DataOf
<1> QED BY <1>1, <1>2 DEF IsCall, Ops

\* A request that leaves has not been served.
Leaves(call) == IsCall(call) /\ call.served = FALSE

LEMMA UpsertIsCall ==
  ASSUME NEW who, NEW c, NEW n, NEW w
  PROVE  Leaves(UpsertCall(who, c, n, w))
BY DEF Leaves, IsCall, UpsertCall, Ops

---------------------------------------------------------------------------
(* The invariant of the grid, action by action. *)

screen == <<rules, overrides, cache, stale, fetch, blind, month>>

\* New requests owe nothing yet.
LEMMA CallsOnly ==
  ASSUME GridInv, UNCHANGED screen,
         \A call \in calls' : call \in calls \/ Leaves(call),
         calls \subseteq calls'
  PROVE  GridInv'
<1>1. CacheOK'
  BY DEF GridInv, CacheOK, screen, Leaves
<1>2. ASSUME NEW q \in Queries
      PROVE  Owed(q)' <=> Owed(q)
  BY DEF Owed, Leaves
<1>3. ASSUME NEW q \in Queries
      PROVE  ServerData(q)' = ServerData(q) /\ Read(q)' = Read(q)
  BY DEF ServerData, Read, screen
<1>4. ASSUME NEW q \in Queries
      PROVE  Fresh(q)' /\ Marked(q)'
  BY <1>2, <1>3 DEF GridInv, Fresh, Marked, screen
<1> QED BY <1>1, <1>4 DEF GridInv

LEMMA InitGrid == ASSUME Init PROVE GridInv
<1>1. calls = {} /\ blind = {} /\ month = FirstMonth
  BY DEF Init
<1>2. CacheOK
  BY <1>1 DEF Init, CacheOK
<1>3. ASSUME NEW q \in Queries
      PROVE  Fresh(q) /\ Marked(q)
  BY <1>1 DEF Init, Fresh, Marked
<1> QED BY <1>2, <1>3 DEF GridInv

\* Clicks and continuations that change no key.
LEMMA ClientGrid ==
  ASSUME GridInv,
         \/ InlineStep \/ DiscardDrafts \/ CommitDrafts \/ PopoverApply \/ PopoverRevert
         \/ SubmitRules \/ EditRule \/ Handlers \/ UNCHANGED vars
  PROVE  GridInv'
<1>1. UNCHANGED screen
  BY DEF InlineStep, DiscardDrafts, CommitDrafts, PopoverApply, PopoverRevert, SubmitRules, EditRule,
         Handlers, CommitNext, CommitDone, PopoverReplicates, PopoverCloses, SubmitNext,
         vars, server, query, client, screen
<1>2. CASE \/ InlineStep \/ DiscardDrafts \/ CommitDrafts \/ SubmitRules \/ CommitDone
           \/ PopoverCloses \/ UNCHANGED vars
  <2>1. calls' = calls
    BY <1>2 DEF InlineStep, DiscardDrafts, CommitDrafts, SubmitRules, CommitDone, PopoverCloses, vars
  <2> QED BY <1>1, <2>1, CallsOnly
<1>3. CASE PopoverApply \/ CommitNext
  <2>1. calls' = calls \/ \E who, c, n, w : calls' = calls \cup {UpsertCall(who, c, n, w)}
    BY <1>3 DEF PopoverApply, CommitNext
  <2> QED BY <1>1, <2>1, UpsertIsCall, CallsOnly
<1>4. CASE PopoverReplicates
  <2>1. calls' = calls \cup
          {UpsertCall("popover", o.cell, o.plays, popover.window) : o \in popover.others}
    BY <1>4 DEF PopoverReplicates
  <2> QED BY <1>1, <2>1, UpsertIsCall, CallsOnly
<1>5. CASE PopoverRevert
  <2>1. PICK c : calls' = calls \cup {[who |-> "popover", op |-> "delete", cell |-> c, served |-> FALSE]}
    BY <1>5 DEF PopoverRevert
  <2> DEFINE new == [who |-> "popover", op |-> "delete", cell |-> c, served |-> FALSE]
  <2>2. Leaves(new)
    BY DEF Leaves, IsCall, Ops
  <2> HIDE DEF new
  <2> QED BY <1>1, <2>1, <2>2, CallsOnly DEF new
<1>6. CASE SubmitNext
  <2>1. \/ calls' = calls
        \/ \E s : calls' = calls \cup {[who |-> "panel", op |-> "create", shape |-> s, served |-> FALSE]}
    BY <1>6 DEF SubmitNext
  <2>2. \A s : LET new == [who |-> "panel", op |-> "create", shape |-> s, served |-> FALSE]
               IN  Leaves(new)
    BY DEF Leaves, IsCall, Ops
  <2> QED BY <1>1, <2>1, <2>2, CallsOnly
<1>7. CASE EditRule
  <2>1. PICK id, s :
          calls' = calls \cup {[who |-> "panel", op |-> IF s = None THEN "remove" ELSE "update",
                                id |-> id, shape |-> s, served |-> FALSE]}
    BY <1>7 DEF EditRule
  <2> DEFINE new == [who |-> "panel", op |-> IF s = None THEN "remove" ELSE "update",
                     id |-> id, shape |-> s, served |-> FALSE]
  <2>2. Leaves(new)
    BY DEF Leaves, IsCall, Ops
  <2> HIDE DEF new
  <2> QED BY <1>1, <2>1, <2>2, CallsOnly DEF new
<1> QED BY <1>2, <1>3, <1>4, <1>5, <1>6, <1>7 DEF Handlers

\* The month's marked keys are asked for.
LEMMA GoToMonthGrid == ASSUME GridInv, GoToMonth PROVE GridInv'
<1>1. PICK m \in Months, old \in BOOLEAN :
        LET asks == {q \in {"overrides", "summary"} \X {m} : fetch[q] = Idle /\ (old \/ q \in stale)}
        IN  /\ month' = m
            /\ fetch' = [q \in Queries |-> IF q \in asks THEN Read(q) ELSE fetch[q]]
            /\ blind' = blind \ asks
            /\ UNCHANGED <<rules, overrides, cache, stale, calls>>
  BY DEF GoToMonth, server
<1> DEFINE asks == {q \in {"overrides", "summary"} \X {m} : fetch[q] = Idle /\ (old \/ q \in stale)}
<1>2. /\ month' = m /\ blind' = blind \ asks /\ UNCHANGED <<rules, overrides, cache, stale, calls>>
      /\ fetch' = [q \in Queries |-> IF q \in asks THEN Read(q) ELSE fetch[q]]
  BY <1>1
<1>3. CacheOK'
  BY <1>2 DEF GridInv, CacheOK
<1>4. ASSUME NEW q \in Queries
      PROVE  Fresh(q)' /\ Marked(q)'
  <2>1. ServerData(q)' = ServerData(q) /\ Read(q)' = Read(q) /\ (Owed(q)' <=> Owed(q))
    BY <1>2 DEF ServerData, Read, Owed
  <2>2. Read(q) # Idle
    BY DEF Read, Idle
  <2>3. CASE q \in asks
    <3>1. fetch'[q] = Read(q)
      BY <1>2, <2>3
    <3> QED BY <2>1, <2>2, <3>1 DEF Fresh, Marked
  <2>4. CASE q \notin asks
    <3>1. fetch'[q] = fetch[q] /\ (q \in blind' <=> q \in blind)
      BY <1>2, <2>4
    <3>2. Fresh(q)'
      BY <1>2, <2>1, <3>1 DEF GridInv, Fresh
    <3>3. Marked(q)'
      <4>1. CASE q[1] = "rules"
        BY <1>2, <3>1, <4>1 DEF GridInv, Marked, Mounted
      <4>2. CASE q[1] # "rules" /\ q[2] = m
        <5>1. q \in {"overrides", "summary"} \X {m}
          BY <4>2 DEF Queries
        <5>2. fetch[q] = Idle => q \notin stale
          BY <2>4, <5>1
        <5> QED BY <1>2, <3>1, <5>2 DEF Marked
      <4>3. CASE q[1] # "rules" /\ q[2] # m
        BY <1>2, <4>3 DEF Marked, Mounted
      <4> QED BY <4>1, <4>2, <4>3
    <3> QED BY <3>2, <3>3
  <2> QED BY <2>3, <2>4
<1> QED BY <1>3, <1>4 DEF GridInv

\* What the server takes is owed to the keys it changes.
LEMMA ServeGrid == ASSUME GridInv, Serve PROVE GridInv'
<1>1. PICK call \in calls :
        /\ ~call.served /\ Served(call)
        /\ calls' = (calls \ {call}) \cup {[call EXCEPT !.served = TRUE]}
        /\ UNCHANGED <<cache, stale, fetch, blind, month>>
  BY DEF Serve, query, client
<1> DEFINE done == [call EXCEPT !.served = TRUE]
<1>2. IsCall(call)
  BY DEF GridInv, CacheOK
<1>3. IsCall(done) /\ done.served = TRUE /\ done.op = call.op
  BY <1>2 DEF IsCall
<1>4. KeysOf(done) = KeysOf(call)
  BY <1>3 DEF KeysOf
<1> HIDE DEF done
<1>5. calls' = (calls \ {call}) \cup {done}
  BY <1>1 DEF done
<1>6. CacheOK'
  BY <1>1, <1>3, <1>5 DEF GridInv, CacheOK
<1>7. ASSUME NEW q \in Queries
      PROVE  Fresh(q)' /\ Marked(q)'
  <2>1. Marked(q)'
    BY <1>1 DEF GridInv, Marked
  <2>2. CASE q \in KeysOf(call)
    <3>1. Owed(q)'
      BY <1>3, <1>4, <1>5, <2>2 DEF Owed
    <3> QED BY <2>1, <3>1 DEF Fresh
  <2>3. CASE q \notin KeysOf(call)
    <3>1. ServerData(q)' = ServerData(q)
      BY <1>1, <1>2, <2>3, ServedKeeps
    <3>2. Owed(q) => Owed(q)'
      BY <1>1, <1>5 DEF Owed
    <3> QED BY <1>1, <2>1, <3>1, <3>2 DEF GridInv, Fresh, Read
  <2> QED BY <2>2, <2>3
<1> QED BY <1>6, <1>7 DEF GridInv

\* The answer marks the keys it changed, and asks again for those on the screen.
LEMMA AnswerGrid == ASSUME GridInv, Answer PROVE GridInv'
<1>1. PICK call \in calls :
        /\ call.served /\ calls' = calls \ {call} /\ Invalidate(KeysOf(call))
        /\ UNCHANGED <<rules, overrides, month>>
  BY DEF Answer, server
<1> DEFINE qs == KeysOf(call)
<1>2. /\ stale' = stale \cup qs /\ cache' = cache
      /\ fetch' = [q \in Queries |-> IF q \in qs /\ Mounted(q, month) THEN Read(q) ELSE fetch[q]]
      /\ blind' = (blind \ {q \in qs : Mounted(q, month)})
                    \cup {q \in qs : ~Mounted(q, month) /\ fetch[q] # Idle}
  BY <1>1 DEF Invalidate
<1> HIDE DEF qs
<1>3. CacheOK'
  BY <1>1, <1>2 DEF GridInv, CacheOK
<1>4. ASSUME NEW q \in Queries
      PROVE  Fresh(q)' /\ Marked(q)'
  <2>1. ServerData(q)' = ServerData(q) /\ Read(q)' = Read(q)
    BY <1>1 DEF ServerData, Read
  <2>2. Read(q) # Idle
    BY DEF Read, Idle
  <2>3. CASE q \in qs /\ Mounted(q, month)
    <3>1. fetch'[q] = Read(q)
      BY <1>2, <2>3
    <3> QED BY <2>1, <2>2, <3>1 DEF Fresh, Marked
  <2>4. CASE q \in qs /\ ~Mounted(q, month)
    <3>1. fetch'[q] = fetch[q] /\ q \in stale' /\ (fetch[q] # Idle => q \in blind')
      BY <1>2, <2>4
    <3> QED BY <1>1, <2>4, <3>1 DEF Fresh, Marked
  <2>5. CASE q \notin qs
    <3>1. /\ fetch'[q] = fetch[q] /\ (q \in stale' <=> q \in stale) /\ (q \in blind' <=> q \in blind)
      BY <1>2, <2>5
    <3>2. Owed(q) => Owed(q)'
      BY <1>1, <2>5 DEF Owed, qs
    <3> QED BY <1>1, <1>2, <2>1, <3>1, <3>2 DEF GridInv, Fresh, Marked
  <2> QED BY <2>3, <2>4, <2>5
<1> QED BY <1>3, <1>4 DEF GridInv

\* A lost answer leaves its keys blind.
LEMMA FailGrid == ASSUME GridInv, Fail PROVE GridInv'
<1>1. PICK call \in calls :
        /\ calls' = calls \ {call}
        /\ blind' = IF call.served THEN blind \cup KeysOf(call) ELSE blind
        /\ UNCHANGED <<rules, overrides, cache, stale, fetch, month>>
  BY DEF Fail, server
<1>2. CacheOK'
  BY <1>1 DEF GridInv, CacheOK
<1>3. ASSUME NEW q \in Queries
      PROVE  Fresh(q)' /\ Marked(q)'
  <2>1. ServerData(q)' = ServerData(q) /\ Read(q)' = Read(q)
    BY <1>1 DEF ServerData, Read
  <2>2. q \notin blind' => q \notin blind /\ (Owed(q) => Owed(q)')
    BY <1>1 DEF Owed
  <2> QED BY <1>1, <2>1, <2>2 DEF GridInv, Fresh, Marked
<1> QED BY <1>2, <1>3 DEF GridInv

LEMMA ReadArrivesGrid == ASSUME GridInv, ReadArrives PROVE GridInv'
<1>1. PICK r \in Queries :
        /\ fetch[r] # Idle /\ stale' = stale \ {r}
        /\ cache' = [cache EXCEPT ![r] = fetch[r][1]] /\ fetch' = [fetch EXCEPT ![r] = Idle]
        /\ UNCHANGED <<rules, overrides, blind, month, calls>>
  BY DEF ReadArrives, server, client
<1>2. CacheOK'
  BY <1>1 DEF GridInv, CacheOK
<1>3. ASSUME NEW q \in Queries
      PROVE  Fresh(q)' /\ Marked(q)'
  <2>1. ServerData(q)' = ServerData(q) /\ Read(q)' = Read(q) /\ (Owed(q)' <=> Owed(q))
    BY <1>1 DEF ServerData, Read, Owed
  <2>2. CASE q = r
    <3>1. fetch'[q] = Idle /\ cache'[q] = fetch[q][1] /\ q \notin stale'
      BY <1>1, <2>2 DEF GridInv, CacheOK
    <3>2. q \notin blind /\ ~Owed(q) => fetch[q][1] = ServerData(q)
      BY <1>1, <2>2 DEF GridInv, Fresh, Read
    <3> QED BY <1>1, <2>1, <3>1, <3>2 DEF Fresh, Marked
  <2>3. CASE q # r
    <3>1. fetch'[q] = fetch[q] /\ cache'[q] = cache[q] /\ (q \in stale' <=> q \in stale)
      BY <1>1, <2>3 DEF GridInv, CacheOK
    <3> QED BY <1>1, <2>1, <3>1 DEF GridInv, Fresh, Marked
  <2> QED BY <2>2, <2>3
<1> QED BY <1>2, <1>3 DEF GridInv

\* For any number of edits, months, reads and faults: when nothing is under way
\* the rules, overrides and counts on the screen are the server's, but for what
\* an answer the client never saw has changed (api/hooks.js).
THEOREM GridAlwaysShowsServer == Spec => []GridShowsServer
<1>1. GridInv => GridShowsServer
  BY DEF GridInv, Fresh, Marked, Owed, GridShowsServer
<1>2. GridInv /\ [Next]_vars => GridInv'
  BY ClientGrid, GoToMonthGrid, ServeGrid, AnswerGrid, FailGrid, ReadArrivesGrid
     DEF Next, UserClicks, Network
<1> QED BY <1>1, <1>2, InitGrid, PTL DEF Spec

---------------------------------------------------------------------------
(* The drafts. *)

DraftsOK == drafts \in [Cells -> Nat \cup {None}]

Kept(c) ==
  drafts[c] # None /\ drafts'[c] = None =>
    \/ DiscardDrafts
    \/ \E call \in calls :
         call.who = "commit" /\ call.served /\ call.cell = c /\ call.plays = drafts[c]

LEMMA InlineStepKeeps ==
  ASSUME DraftsOK, InlineStep
  PROVE  DraftsOK' /\ \A c \in Cells : drafts[c] # None => drafts'[c] # None
<1>1. PICK c \in Cells, next \in 0..MaxPlays : drafts' = [drafts EXCEPT ![c] = next]
  BY DEF InlineStep, CellsOf
<1>2. next \in Nat /\ next # None
  BY CountsOK
<1> QED BY <1>1, <1>2 DEF DraftsOK

\* The continuation of a commit takes away only the draft it has sent.
LEMMA AnswerKeeps ==
  ASSUME DraftsOK, Answer
  PROVE  DraftsOK' /\ \A c \in Cells : Kept(c)
<1>1. PICK call \in calls :
        /\ call.served
        /\ drafts' = IF call.who = "commit" THEN DraftsAfter(call.cell, call.plays) ELSE drafts
  BY DEF Answer, Resolve
<1>2. CASE drafts' = drafts
  BY <1>2 DEF DraftsOK, Kept
<1>3. CASE drafts' # drafts
  <2>1. /\ call.who = "commit" /\ drafts[call.cell] = call.plays
        /\ drafts' = [drafts EXCEPT ![call.cell] = None]
    BY <1>1, <1>3 DEF DraftsAfter
  <2>2. \A c \in Cells : c # call.cell => drafts'[c] = drafts[c]
    BY <2>1 DEF DraftsOK
  <2>3. \A c \in Cells : Kept(c)
    BY <1>1, <2>1, <2>2 DEF Kept
  <2> QED BY <2>1, <2>3 DEF DraftsOK
<1> QED BY <1>2, <1>3

LEMMA NextKeepsDrafts ==
  ASSUME DraftsOK, [Next]_vars
  PROVE  DraftsOK' /\ \A c \in Cells : Kept(c)
<1>1. CASE InlineStep
  BY <1>1, InlineStepKeeps DEF Kept
<1>2. CASE DiscardDrafts
  BY <1>2 DEF DiscardDrafts, DraftsOK, Kept
<1>3. CASE \/ GoToMonth \/ CommitDrafts \/ PopoverApply \/ PopoverRevert \/ SubmitRules \/ EditRule
           \/ Handlers \/ Serve \/ Fail \/ ReadArrives \/ UNCHANGED vars
  <2>1. drafts' = drafts
    BY <1>3 DEF GoToMonth, CommitDrafts, PopoverApply, PopoverRevert, SubmitRules, EditRule, Handlers,
                CommitNext, CommitDone, PopoverReplicates, PopoverCloses, SubmitNext, Serve, Fail,
                ReadArrives, client, vars
  <2> QED BY <2>1 DEF DraftsOK, Kept
<1> QED BY <1>1, <1>2, <1>3, AnswerKeeps DEF Next, UserClicks, Network

\* For any number of clicks and any order of answers: a draft leaves the grid
\* only because it was discarded or because the server took exactly its count
\* (commitDrafts: the snapshot and the test of the value after the await).
THEOREM NeverALostDraft == Spec => NoLostDraft
<1>1. Init => DraftsOK
  BY DEF Init, DraftsOK
<1>2. DraftsOK /\ [Next]_vars => DraftsOK'
  BY NextKeepsDrafts
<1>3. DraftsOK /\ [Next]_vars =>
        [\A c \in Cells :
           drafts[c] # None /\ drafts'[c] = None =>
             \/ DiscardDrafts
             \/ \E call \in calls :
                  call.who = "commit" /\ call.served /\ call.cell = c /\ call.plays = drafts[c]]_vars
  BY NextKeepsDrafts DEF Kept
<1> QED BY <1>1, <1>2, <1>3, PTL DEF Spec, NoLostDraft
=============================================================================
