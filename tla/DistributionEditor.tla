------------------------- MODULE DistributionEditor -------------------------
(***************************************************************************)
(* Step 4 of the campaign wizard, in the browser: the grid of a month, the *)
(* drafts its +/- buttons stage, "Confirmar", the override popover and the *)
(* rule panel (frontend DistributionStep.jsx, OverridePopover.jsx,         *)
(* RuleSidePanel.jsx), over react-query's cache (api/hooks.js).            *)
(*                                                                         *)
(* What makes it hard: every handler reads what the last render captured,  *)
(* awaits a request and goes on with the captured values, while the user   *)
(* keeps clicking; the cache is refilled later, and only for the month on  *)
(* the screen.  A request is served and answered in two steps.  A read     *)
(* carries the server's data of the moment it is asked for, the oldest it  *)
(* may carry, and arrives at any time.                                     *)
(*                                                                         *)
(* A cell stands for (station, type, date); MonthOf and TypeOf give its    *)
(* month and type.  A rule covers a set of cells with one window and one   *)
(* daily count.  The order in which a commit takes its drafts is free      *)
(* (the code takes them in the order they were first staged).              *)
(***************************************************************************)
EXTENDS Integers, FiniteSets, Folds

CONSTANTS
  Cells, Months,
  MonthOf,       \* [Cells -> Months]
  TypeOf,        \* [Cells -> types]
  Shapes,        \* rules the panel may save: [cells, window, plays]
  RuleIds,       \* Bound: identities of rules ever saved
  FirstRules,    \* the rules of the campaign when the step opens
  FirstOverrides,
  Picks,         \* Bound: what the popover may apply: [plays, window]
  MaxPlays,      \* Bound: the count a draft may reach
  MaxClicks,     \* Bound: user operations
  MaxFaults,     \* Bound: requests that fail
  None

ASSUME CountsOK == MaxPlays \in Nat /\ None \notin Nat

VARIABLES
  rules, overrides,           \* the server
  cache, stale, fetch,        \* react-query: data, isInvalidated, reads in flight
  blind,                      \* reads the client cannot know to be out of date
  month, drafts,              \* component state
  commit, popover, panel,     \* the three handlers that await
  calls,                      \* mutations in flight
  clicks, faults

server == <<rules, overrides>>
client == <<month, drafts, commit, popover, panel>>
query  == <<cache, stale, fetch, blind>>
vars == <<server, client, query, calls, clicks, faults>>

---------------------------------------------------------------------------
(* The server's answers, one data set per query key. *)

Queries == {<<"rules">>} \cup ({"overrides", "summary"} \X Months)

OverrideOf(ovs, c) ==
  IF \E o \in ovs : o.cell = c THEN CHOOSE o \in ovs : o.cell = c ELSE None

Expected(rs, ovs, c) ==
  LET ov == OverrideOf(ovs, c)
  IN  IF ov # None THEN ov.plays
      ELSE MapThenFoldSet(LAMBDA a, b : a + b, 0, LAMBDA r : r.plays,
                          LAMBDA S : CHOOSE r \in S : TRUE,
                          {r \in rs : c \in r.cells})

CellsOf(m) == {c \in Cells : MonthOf[c] = m}

DataOf(rs, ovs, q) ==
  CASE q[1] = "rules"     -> rs
    [] q[1] = "overrides" -> {o \in ovs : MonthOf[o.cell] = q[2]}
    [] q[1] = "summary"   -> {[cell |-> c, plays |-> Expected(rs, ovs, c)] : c \in CellsOf(q[2])}

ServerData(q) == DataOf(rules, overrides, q)

\* A read under way is the data it carries; there is none (Idle) or one.
Idle    == << >>
Read(q) == <<ServerData(q)>>

\* useQuery is mounted for the rules and for the month on the screen.
Mounted(q, m) == q[1] = "rules" \/ q[2] = m

(* A mutation's onSuccess: every matching key is marked; the mounted ones   *)
(* drop the read they were waiting for and ask again.  A read of a key that *)
(* is not on the screen goes on, and will overwrite the mark.               *)
Invalidate(qs) ==
  /\ stale' = stale \cup qs
  /\ fetch' = [q \in Queries |-> IF q \in qs /\ Mounted(q, month) THEN Read(q) ELSE fetch[q]]
  /\ blind' = (blind \ {q \in qs : Mounted(q, month)})
                \cup {q \in qs : ~Mounted(q, month) /\ fetch[q] # Idle}
  /\ UNCHANGED cache

RuleKeys     == {q \in Queries : q[1] \in {"rules", "summary"}}
OverrideKeys == {q \in Queries : q[1] \in {"overrides", "summary"}}

\* Mutant: a rule mutation forgets the counts it changes.
KeysOfNoSummary(call) == IF call.op \in {"upsert", "delete"} THEN OverrideKeys ELSE {<<"rules">>}

\* The keys each mutation hook invalidates.
KeysOf(call) == IF call.op \in {"upsert", "delete"} THEN OverrideKeys ELSE RuleKeys

\* The answer arrives and fills the cache, mounted or not.
ReadArrives ==
  \E q \in Queries :
    /\ fetch[q] # Idle
    /\ cache' = [cache EXCEPT ![q] = fetch[q][1]]
    /\ stale' = stale \ {q}
    /\ fetch' = [fetch EXCEPT ![q] = Idle]
    /\ UNCHANGED <<server, client, blind, calls, clicks, faults>>

---------------------------------------------------------------------------
(* What the component computes from the cache. *)

Overrides(m) == cache[<<"overrides", m>>]
Summary(m)   == cache[<<"summary", m>>]
Rules        == cache[<<"rules">>]

RuleWindowsForCell(rs, c) == {r \in rs : c \in r.cells}

\* cellData.get(key)?.expected ?? 0
Shown(c) ==
  LET rows == {s \in Summary(MonthOf[c]) : s.cell = c}
  IN  IF rows = {} THEN 0 ELSE (CHOOSE s \in rows : TRUE).plays

Clicks == clicks < MaxClicks /\ clicks' = clicks + 1

UpsertCall(who, c, n, w) ==
  [who |-> who, op |-> "upsert", cell |-> c, plays |-> n, window |-> w, served |-> FALSE]

---------------------------------------------------------------------------
(* The user at the grid. *)

\* The month's queries are asked for when they were marked, or when they are
\* older than staleTime.
GoToMonth ==
  \E m \in Months \ {month}, old \in BOOLEAN :
    /\ Clicks
    /\ month' = m
    /\ LET asks == {q \in {"overrides", "summary"} \X {m} :
                      fetch[q] = Idle /\ (old \/ q \in stale)}
       IN  /\ fetch' = [q \in Queries |-> IF q \in asks THEN Read(q) ELSE fetch[q]]
           /\ blind' = blind \ asks
    /\ UNCHANGED <<server, cache, stale, drafts, commit, popover, panel, calls, faults>>

\* handleInlineStep: stages only where the window has one clear source, and
\* opens the popover elsewhere (no state to keep here).
InlineStep ==
  \E c \in CellsOf(month), delta \in {-1, 1} :
    LET now  == IF drafts[c] # None THEN drafts[c] ELSE Shown(c)
        next == IF now + delta < 0 THEN 0 ELSE now + delta
    IN  /\ Clicks
        /\ next \in 0..MaxPlays
        /\ \/ OverrideOf(Overrides(month), c) # None
           \/ Cardinality(RuleWindowsForCell(Rules, c)) = 1
        /\ drafts' = [drafts EXCEPT ![c] = next]
        /\ UNCHANGED <<server, query, month, commit, popover, panel, calls, faults>>

\* discardDrafts (the button is disabled during a commit).
DiscardDrafts ==
  /\ Clicks
  /\ commit = None
  /\ \E c \in Cells : drafts[c] # None
  /\ drafts' = [c \in Cells |-> None]
  /\ UNCHANGED <<server, query, month, commit, popover, panel, calls, faults>>

\* commitDrafts up to its loop: the drafts, and the rules and overrides of
\* the render the click happened in, are captured for the whole loop.
CommitDrafts ==
  LET todo == {c \in Cells : drafts[c] # None}
  IN  /\ Clicks
      /\ commit = None
      /\ todo # {}
      /\ commit' = [todo |-> todo, values |-> drafts, at |-> None,
                    rules |-> Rules, overrides |-> Overrides(month)]
      /\ UNCHANGED <<server, query, month, drafts, popover, panel, calls, faults>>

CommitWindow(c) ==
  LET ov == OverrideOf(commit.overrides, c)
      rs == RuleWindowsForCell(commit.rules, c)
  IN  IF ov # None THEN ov.window
      ELSE IF Cardinality(rs) = 1 THEN (CHOOSE r \in rs : TRUE).window
      ELSE None

\* One turn of the loop: the request, or `continue` when no window is clear.
CommitNext ==
  /\ commit # None
  /\ commit.at = None
  /\ \E c \in commit.todo :
       LET w == CommitWindow(c)
       IN  IF w = None
           THEN /\ commit' = [commit EXCEPT !.todo = @ \ {c}]
                /\ UNCHANGED calls
           ELSE /\ commit' = [commit EXCEPT !.todo = @ \ {c}, !.at = c]
                /\ calls' = calls \cup {UpsertCall("commit", c, commit.values[c], w)}
  /\ UNCHANGED <<server, query, month, drafts, popover, panel, clicks, faults>>

CommitDone ==
  /\ commit # None
  /\ commit.at = None
  /\ commit.todo = {}
  /\ commit' = None
  /\ UNCHANGED <<server, query, month, drafts, popover, panel, calls, clicks, faults>>

\* Mutant: the draft goes whatever it holds by now.
DraftsAfterAny(c, n) == [drafts EXCEPT ![c] = None]

\* setPendingDrafts after the await: only a draft that still has the value
\* that was sent.
DraftsAfter(c, n) == IF drafts[c] = n THEN [drafts EXCEPT ![c] = None] ELSE drafts

---------------------------------------------------------------------------
(* The popover: one cell, and on demand the month's other overrides of the  *)
(* type, whose counts are the captured ones.  One open await at a time.     *)

PopoverApply ==
  \E c \in CellsOf(month), pick \in Picks, replicate \in BOOLEAN :
    /\ Clicks
    /\ popover = None
    /\ popover' = [waits |-> {c}, window |-> pick.window,
                   others |-> IF ~replicate THEN {}
                              ELSE {o \in Overrides(month) :
                                      TypeOf[o.cell] = TypeOf[c] /\ o.cell # c}]
    /\ calls' = calls \cup {UpsertCall("popover", c, pick.plays, pick.window)}
    /\ UNCHANGED <<server, query, month, drafts, commit, panel, faults>>

PopoverRevert ==
  \E c \in CellsOf(month) :
    /\ Clicks
    /\ popover = None
    /\ OverrideOf(Overrides(month), c) # None
    /\ popover' = [waits |-> {c}, window |-> None, others |-> {}]
    /\ calls' = calls \cup {[who |-> "popover", op |-> "delete", cell |-> c, served |-> FALSE]}
    /\ UNCHANGED <<server, query, month, drafts, commit, panel, faults>>

\* After the first await the replicas leave together (Promise.all).
PopoverReplicates ==
  /\ popover # None
  /\ popover.waits = {}
  /\ popover.others # {}
  /\ calls' = calls \cup
       {UpsertCall("popover", o.cell, o.plays, popover.window) : o \in popover.others}
  /\ popover' = [popover EXCEPT !.waits = {o.cell : o \in popover.others}, !.others = {}]
  /\ UNCHANGED <<server, query, month, drafts, commit, panel, clicks, faults>>

PopoverCloses ==
  /\ popover # None
  /\ popover.waits = {} /\ popover.others = {}
  /\ popover' = None
  /\ UNCHANGED <<server, query, month, drafts, commit, panel, calls, clicks, faults>>

---------------------------------------------------------------------------
(* The rule panel: one POST per selected type, in sequence; an edit is one  *)
(* PUT, a deletion one DELETE.  Submit is disabled while one is pending.    *)

SubmitRules ==
  \E ss \in SUBSET Shapes \ {{}} :
    /\ Clicks
    /\ panel = None
    /\ Cardinality(ss) + Cardinality(rules) <= Cardinality(RuleIds)
    /\ panel' = [todo |-> ss, at |-> FALSE]
    /\ UNCHANGED <<server, query, month, drafts, commit, popover, calls, faults>>

SubmitNext ==
  /\ panel # None
  /\ ~panel.at
  /\ IF panel.todo = {}
     THEN panel' = None /\ UNCHANGED calls
     ELSE \E s \in panel.todo :
            /\ panel' = [todo |-> panel.todo \ {s}, at |-> TRUE]
            /\ calls' = calls \cup {[who |-> "panel", op |-> "create", shape |-> s, served |-> FALSE]}
  /\ UNCHANGED <<server, query, month, drafts, commit, popover, clicks, faults>>

EditRule ==
  \E r \in Rules, s \in Shapes \cup {None} :
    /\ Clicks
    /\ panel = None
    /\ r.id \in {x.id : x \in rules}   \* a rule already gone answers 404: no step
    /\ panel' = [todo |-> {}, at |-> TRUE]
    /\ calls' = calls \cup {[who |-> "panel", op |-> IF s = None THEN "remove" ELSE "update",
                             id |-> r.id, shape |-> s, served |-> FALSE]}
    /\ UNCHANGED <<server, query, month, drafts, commit, popover, faults>>

---------------------------------------------------------------------------
(* Requests. *)

Rule(id, s) == [id |-> id, cells |-> s.cells, window |-> s.window, plays |-> s.plays]

Served(call) ==
  CASE call.op = "upsert" ->
         /\ overrides' = {o \in overrides : o.cell # call.cell}
              \cup {[cell |-> call.cell, plays |-> call.plays, window |-> call.window]}
         /\ UNCHANGED rules
    [] call.op = "delete" ->
         /\ overrides' = {o \in overrides : o.cell # call.cell}
         /\ UNCHANGED rules
    [] call.op = "create" ->
         /\ \E id \in RuleIds \ {r.id : r \in rules} :
              rules' = rules \cup {Rule(id, call.shape)}
         /\ UNCHANGED overrides
    [] call.op = "update" ->
         /\ rules' = {IF r.id = call.id THEN Rule(r.id, call.shape) ELSE r : r \in rules}
         /\ UNCHANGED overrides
    [] call.op = "remove" ->
         /\ rules' = {r \in rules : r.id # call.id}
         /\ UNCHANGED overrides

Serve ==
  \E call \in calls :
    /\ ~call.served
    /\ Served(call)
    /\ calls' = (calls \ {call}) \cup {[call EXCEPT !.served = TRUE]}
    /\ UNCHANGED <<client, query, clicks, faults>>

\* The continuation of each handler after its await.
Resolve(call) ==
  /\ drafts' = IF call.who = "commit" THEN DraftsAfter(call.cell, call.plays) ELSE drafts
  /\ commit' = IF call.who = "commit" THEN [commit EXCEPT !.at = None] ELSE commit
  /\ popover' = IF call.who = "popover"
                THEN [popover EXCEPT !.waits = @ \ {call.cell}] ELSE popover
  /\ panel' = IF call.who = "panel" THEN [panel EXCEPT !.at = FALSE] ELSE panel

Answer ==
  \E call \in calls :
    /\ call.served
    /\ calls' = calls \ {call}
    /\ Invalidate(KeysOf(call))
    /\ Resolve(call)
    /\ UNCHANGED <<server, month, clicks, faults>>

\* Mutant: the catch returns without clearing `committing`.
RejectStillCommitting(call) ==
  /\ UNCHANGED commit
  /\ panel' = IF call.who = "panel" THEN None ELSE panel
  /\ popover' = IF call.who = "popover"
                THEN [popover EXCEPT !.waits = @ \ {call.cell}, !.others = {}] ELSE popover

\* A rejected await: the commit stops where it is, the fan-out of the panel
\* stops and the panel stays open, the popover's handler throws and leaves the
\* popover open (the user closes it).
Reject(call) ==
  /\ commit' = IF call.who = "commit" THEN None ELSE commit
  /\ panel' = IF call.who = "panel" THEN None ELSE panel
  /\ popover' = IF call.who = "popover"
                THEN [popover EXCEPT !.waits = @ \ {call.cell}, !.others = {}] ELSE popover

\* The request never reached the server, or only its answer was lost.
Fail ==
  \E call \in calls :
    /\ faults < MaxFaults
    /\ faults' = faults + 1
    /\ calls' = calls \ {call}
    /\ Reject(call)
    /\ blind' = IF call.served THEN blind \cup KeysOf(call) ELSE blind
    /\ UNCHANGED <<server, cache, stale, fetch, month, drafts, clicks>>

---------------------------------------------------------------------------
FirstMonth == CHOOSE m \in Months : \E c \in Cells : MonthOf[c] = m

Init ==
  /\ rules = FirstRules /\ overrides = FirstOverrides
  /\ month = FirstMonth
  /\ cache = [q \in Queries |-> IF Mounted(q, FirstMonth) THEN ServerData(q) ELSE {}]
  /\ stale = {q \in Queries : ~Mounted(q, FirstMonth)}
  /\ fetch = [q \in Queries |-> Idle]
  /\ blind = {}
  /\ drafts = [c \in Cells |-> None]
  /\ commit = None /\ popover = None /\ panel = None
  /\ calls = {} /\ clicks = 0 /\ faults = 0

UserClicks ==
  \/ GoToMonth \/ InlineStep \/ DiscardDrafts \/ CommitDrafts
  \/ PopoverApply \/ PopoverRevert \/ SubmitRules \/ EditRule

Handlers ==
  \/ CommitNext \/ CommitDone \/ PopoverReplicates \/ PopoverCloses \/ SubmitNext

Network == Serve \/ Answer \/ Fail \/ ReadArrives

Next == UserClicks \/ Handlers \/ Network

\* The browser runs its continuations and requests end; nobody has to click.
Fairness == WF_vars(Handlers) /\ WF_vars(Serve \/ Answer) /\ WF_vars(ReadArrives)

Spec == Init /\ [][Next]_vars /\ Fairness

---------------------------------------------------------------------------
\* A draft leaves the grid only because the user discards it or because the
\* server has taken exactly that count for its cell: a click that lands while a
\* commit is waiting is never lost (the snapshot and the value test of
\* commitDrafts).
NoLostDraft ==
  [][\A c \in Cells :
       drafts[c] # None /\ drafts'[c] = None =>
         \/ DiscardDrafts
         \/ \E call \in calls :
              call.who = "commit" /\ call.served /\ call.cell = c /\ call.plays = drafts[c]]_vars

\* When nothing is under way, the rules, overrides and counts on the screen
\* are the server's, after any sequence of edits, months and reads (the keys
\* each mutation invalidates in api/hooks.js); the exceptions are answers the
\* client never saw.
GridShowsServer ==
  calls = {} =>
    \A q \in Queries :
      Mounted(q, month) /\ fetch[q] = Idle /\ q \notin blind => cache[q] = ServerData(q)

\* Confirmar and Descartar are disabled during a commit: a commit always ends,
\* also when a request fails or every draft is skipped.
CommitEnds == commit # None ~> commit = None

\* A commit changes how many plays an override asks for, never its window
\* ("override existente -> regra única -> bloqueia draft", commitDrafts).
CommitKeepsWindow ==
  [][\A call \in calls :
       call.who = "commit" /\ ~call.served /\ [call EXCEPT !.served = TRUE] \in calls' =>
         \A o \in overrides : o.cell = call.cell => o.window = call.window]_vars
=============================================================================
