------------------------------ MODULE CellDay ------------------------------
(***************************************************************************)
(* How a detection's category stays right while detections are inserted,   *)
(* retracted, ignored, rejected, restored, reattributed and recategorised  *)
(* concurrently (internal/catalog/detections.go, manual_batches.go,        *)
(* distribution_rules.go, projection_reconcile.go, evidence/service.go).   *)
(*                                                                         *)
(* With a daily quota the category of one play depends on all the others   *)
(* of its cell-day, so every transaction that changes the approved set     *)
(* rereads the whole cell, settles it and rewrites what changed, under a   *)
(* transaction-scoped advisory lock on (campaign, station, day).           *)
(*                                                                         *)
(* One station is modelled: every key, cell and rule carries the same      *)
(* station id, and a detection never changes station.  A transaction is    *)
(* three kinds of step: take one lock, read and settle (the rows it will   *)
(* write are staged, invisible to the others), commit.                     *)
(***************************************************************************)
EXTENDS Settlement, Sequences

CONSTANTS
  Detections,  \* physical plays, numbered in (detected_at, id) order
  Campaigns,   \* numbered in the lexicographic order of their ids
  Types,       \* material types
  Days,        \* local days, in order
  Recent,      \* days the projection reconciler still looks back at
  DayOf,       \* [Detections -> Days]
  Window,      \* set of <<d, cell>>: d falls in a slot of the cell
  Expired,     \* set of <<d, cell>>: d is outside the cell's dates
  Goals,       \* values an operator gives a cell's daily goal
  Quota0,      \* the goal every cell starts with
  Txs,         \* concurrent requests and goroutines
  NoTx,
  Ops,         \* the kinds of operation issued, a subset of AllOps
  MaxBatch,    \* bound on the lines of a manual batch
  MaxOps       \* bound on the operations started

AllOps == {"insert", "fanout", "mutate", "reattribute", "unreject",
           "override", "recat", "heal", "lost"}
Cells  == Campaigns \X Types \X Days
Keys   == Campaigns \X Days
Reasons == {"retracted", "ignored", "audit_rejected", "ambiguous"}

ASSUME CellDayAssumption ==
  /\ Detections \subseteq Nat /\ IsFiniteSet(Detections)
  /\ Campaigns \subseteq Nat \ {0} /\ Types \subseteq Nat \ {0}
  /\ Days \subseteq Nat /\ Recent \subseteq Days
  /\ DayOf \in [Detections -> Days]
  /\ Goals \subseteq Nat /\ Quota0 \in Goals
  /\ NoTx \notin Txs
  /\ Ops \subseteq AllOps
  /\ MaxBatch \in Nat \ {0} /\ MaxOps \in Nat

NoType == 0
NoHome == <<0, 0>>
NoCell == <<0, 0, 0>>
NoCat == "none"
Key(cell) == <<cell[1], cell[3]>>
Before(k, l) == k[1] < l[1] \/ (k[1] = l[1] /\ k[2] < l[2])

VARIABLES
  home,     \* detections: <<campaign_id, type of commercial_id>>, or NoHome
  baseCat,  \* detections.category
  out,      \* why the row is outside the approved set (empty = approved)
  proj,     \* detection_campaigns: type of the material projected, or NoType
  cat,      \* detection_campaigns.category
  quota,    \* daily goal of a cell (override or rules)
  lock,     \* advisory lock: holder of a key, or NoTx
  pc,       \* idle, lock, settle, base, commit, project
  job,      \* what the request or goroutine is doing
  need,     \* keys still to take before the next read
  verdict,  \* categories staged per play and campaign, or NoCat
  budget    \* operations that may still start

db   == <<home, baseCat, out, proj, cat>>
ctl  == <<lock, pc, job, need, verdict>>
vars == <<db, quota, ctl, budget>>

NoPut     == [d \in Detections |-> NoCell]
NoVerdict == [d \in Detections |-> [c \in Campaigns |-> NoCat]]

\* put maps the plays a transaction inserts, moves or counts in advance to
\* their cell; held are the detections rows its first UPDATE locked.
NoJob == [op |-> "none", d |-> 0, to |-> NoCell, from |-> NoCell, todo |-> << >>,
          cells |-> {}, put |-> NoPut, add |-> {}, del |-> {}, held |-> {}]

-----------------------------------------------------------------------------
(* Reading the tables. *)

\* loadCellDayPlays: approved rows projected in the cell, given the tables.
PlaysIn(pr, ou, cell) ==
  {d \in Detections : /\ DayOf[d] = cell[3]
                      /\ pr[d][cell[1]] = cell[2]
                      /\ ou[d] = {}}
Plays(cell) == PlaysIn(proj, out, cell)

SettleCell(cell, P) ==
  Settle(quota[cell], P, {d \in P : <<d, cell>> \in Window},
                         {d \in P : <<d, cell>> \in Expired})

Settled(cell) ==
  \A d \in Plays(cell) : cat[d][cell[1]] = SettleCell(cell, Plays(cell))[d]

Exists(d) == home[d] # NoHome
CanonicalCell(d) == <<home[d][1], home[d][2], DayOf[d]>>

\* affectedCells: one cell per projection of the row.
AffectedCells(d) ==
  {cell \in Cells : DayOf[d] = cell[3] /\ proj[d][cell[1]] = cell[2]}

-----------------------------------------------------------------------------
(* What a transaction has staged: its own view of the tables. *)

Places(t) == job[t].op \in {"insert", "reattribute", "unreject"}
Moves(t)  == job[t].op \in {"reattribute", "unreject"}

ProjAfter(t) ==
  LET j == job[t] IN
  [d \in Detections |-> [c \in Campaigns |->
     IF Places(t) /\ j.put[d][1] = c THEN j.put[d][2]
     ELSE IF Moves(t) /\ d = j.d /\ c = j.from[1] THEN NoType
     ELSE proj[d][c]]]

\* Mutant: campaign_id is written and commercial_id forgotten.
HomeKeepsMaterial(t) ==
  [d \in Detections |->
     IF Places(t) /\ job[t].put[d] # NoCell
     THEN <<job[t].put[d][1], home[d][2]>> ELSE home[d]]

HomeAfter(t) ==
  [d \in Detections |->
     IF Places(t) /\ job[t].put[d] # NoCell
     THEN <<job[t].put[d][1], job[t].put[d][2]>> ELSE home[d]]

OutAfter(t) ==
  [d \in Detections |->
     IF d = job[t].d THEN (out[d] \cup job[t].add) \ job[t].del ELSE out[d]]

\* The cell in which d counts for campaign c, the plays of `put` sitting where
\* `put` sends them (replacingID takes them out of the set that is loaded).
Seat(t, d, c, put) ==
  <<c, IF put[d][1] = c THEN put[d][2] ELSE ProjAfter(t)[d][c],
    DayOf[d]>>

\* The set a closing reads: approved plays, and those of `put` whatever their
\* flags (includeNewPlay).
Read(t, cell, put) ==
  {d \in Detections : /\ Seat(t, d, cell[1], put) = cell
                      /\ OutAfter(t)[d] = {} \/ put[d] = cell}

\* Mutant: the play that arrives is classified alone, the others keep theirs.
ClassifyAlone(t, cells, put) ==
  [d \in Detections |-> [c \in Campaigns |->
     LET cell == Seat(t, d, c, put)
     IN  IF cell \in cells /\ put[d] = cell
         THEN SettleCell(cell, Read(t, cell, put))[d] ELSE NoCat]]

\* settleCellDay: the verdict on every play read in the cells.
Close(t, cells, put) ==
  [d \in Detections |-> [c \in Campaigns |->
     LET cell == Seat(t, d, c, put)
     IN  IF cell \in cells /\ d \in Read(t, cell, put)
         THEN SettleCell(cell, Read(t, cell, put))[d] ELSE NoCat]]

\* Verdicts computed one after the other: what v says replaces what w said.
Over(v, w) ==
  [d \in Detections |-> [c \in Campaigns |-> IF v[d][c] # NoCat THEN v[d][c] ELSE w[d][c]]]

-----------------------------------------------------------------------------
(* Beginning an operation. *)

Idle(t) == pc[t] = "idle"
Spend   == budget > 0 /\ budget' = budget - 1

\* Mutant: nobody takes the advisory locks.
StartUnlocked(t, j, keys) ==
  /\ Idle(t)
  /\ job' = [job EXCEPT ![t] = j]
  /\ pc' = [pc EXCEPT ![t] = "settle"]
  /\ UNCHANGED <<db, lock, need, verdict>>

\* Mutant: only the destination of a move is locked.
StartOneKey(t, j, keys) ==
  /\ Idle(t)
  /\ job' = [job EXCEPT ![t] = j]
  /\ need' = [need EXCEPT ![t] = IF j.op = "reattribute" THEN {Key(j.to)} ELSE keys]
  /\ pc' = [pc EXCEPT ![t] = IF keys = {} THEN "settle" ELSE "lock"]
  /\ UNCHANGED <<db, lock, verdict>>

\* The first step after Begin: take the keys, or read at once when there is none.
Start(t, j, keys) ==
  /\ Idle(t)
  /\ job' = [job EXCEPT ![t] = j]
  /\ need' = [need EXCEPT ![t] = keys]
  /\ pc' = [pc EXCEPT ![t] = IF keys = {} THEN "settle" ELSE "lock"]
  /\ UNCHANGED <<db, lock, verdict>>

\* Rows a transaction is about to insert: their ids are still unknown to others.
Claimed(d) == \E t \in Txs : /\ job[t].op = "insert"
                             /\ \/ job[t].put[d] # NoCell
                                \/ \E i \in DOMAIN job[t].todo : job[t].todo[i][1] = d
Fresh(d) == ~ Exists(d) /\ ~ Claimed(d)

Lines == {l \in Detections \X Cells : DayOf[l[1]] = l[2][3]}
IsBatch(ls) == /\ \A i \in DOMAIN ls : Fresh(ls[i][1]) /\ ls[i][2][1] = ls[1][2][1]
               /\ \A i, k \in DOMAIN ls : ls[i][1] = ls[k][1] => i = k

\* Create, CreateManual (one line) and CreateManualBatch (several, of one
\* campaign, on any of the days); `fan` is the second campaign of F-119.
BeginInsert(t) ==
  \E n \in 1..MaxBatch : \E ls \in [1..n -> Lines] : \E fan \in Cells \cup {NoCell} :
    /\ "insert" \in Ops /\ Spend
    /\ IsBatch(ls)
    /\ fan # NoCell => /\ "fanout" \in Ops /\ n = 1
                       /\ fan[1] # ls[1][2][1] /\ fan[3] = DayOf[ls[1][1]]
    /\ Start(t, [NoJob EXCEPT !.op = "insert", !.to = fan, !.todo = ls],
             {Key(ls[1][2])})
    /\ UNCHANGED quota

\* The one goroutine that follows d from its event to its evidence is at work:
\* handle inserts and fans out, then processEvidence rejects, marks or moves.
Followed(d) == \E t \in Txs :
  /\ job[t].d = d
  /\ \/ job[t].op \in {"insert", "categorize", "resettle", "reattribute", "unreject"}
     \/ job[t].add \cap {"audit_rejected", "ambiguous"} # {}

\* What mutateApprovedSet's callers write in the row.  ClearRetraction is also
\* how RestoreDisplacedShorterCut gives the airing back to the shorter cut.
RetractByID     == [add |-> {"retracted"}, del |-> {}]
ClearRetraction == [add |-> {}, del |-> {"retracted"}]
Ignore          == [add |-> {"ignored"}, del |-> {}]
Restore         == [add |-> {}, del |-> {"ignored"}]
UpdateEvidence  == [add |-> {"audit_rejected"}, del |-> {"ambiguous"}]
MarkAmbiguous   == [add |-> {"ambiguous", "retracted"}, del |-> {"audit_rejected"}]
Changes == {RetractByID, ClearRetraction, Ignore, Restore, UpdateEvidence, MarkAmbiguous}

\* The cells and their keys are read here, before any lock is taken.
BeginMutate(t) ==
  \E d \in Detections, ch \in Changes :
    /\ "mutate" \in Ops /\ Spend
    /\ Exists(d)
    /\ (out[d] \cup ch.add) \ ch.del # out[d]
    /\ ch.add \cap {"audit_rejected", "ambiguous"} # {} => ~ Followed(d)
    /\ Start(t, [NoJob EXCEPT !.op = "mutate", !.d = d, !.cells = AffectedCells(d),
                              !.add = ch.add, !.del = ch.del],
             {Key(cell) : cell \in AffectedCells(d)})
    /\ UNCHANGED quota

Movable(d, to) ==
  /\ Exists(d) /\ ~ Followed(d)
  /\ to[3] = DayOf[d] /\ to # CanonicalCell(d)

\* ReattributeDetection: the old identity is read before the two locks.
BeginReattribute(t) ==
  \E d \in Detections, to \in Cells :
    /\ "reattribute" \in Ops /\ Spend
    /\ Movable(d, to)
    /\ "audit_rejected" \notin out[d]
    /\ Start(t, [NoJob EXCEPT !.op = "reattribute", !.d = d, !.to = to,
                              !.from = CanonicalCell(d), !.put[d] = to],
             {Key(CanonicalCell(d)), Key(to)})
    /\ UNCHANGED quota

\* ReattributeRejectedDetection: one lock, the destination's.
BeginUnreject(t) ==
  \E d \in Detections, to \in Cells :
    /\ "unreject" \in Ops /\ Spend
    /\ Movable(d, to)
    /\ "audit_rejected" \in out[d]
    /\ Start(t, [NoJob EXCEPT !.op = "unreject", !.d = d, !.to = to,
                              !.from = CanonicalCell(d), !.put[d] = to,
                              !.del = {"audit_rejected"}],
             {Key(to)})
    /\ UNCHANGED quota

\* The override is saved (its own statement), then RecategorizeForOverride.
BeginOverride(t) ==
  \E cell \in Cells, n \in Goals :
    /\ "override" \in Ops /\ Spend
    /\ n # quota[cell]
    /\ quota' = [quota EXCEPT ![cell] = n]
    /\ Start(t, [NoJob EXCEPT !.op = "override", !.to = cell, !.cells = {cell}],
             {Key(cell)})

\* recategorizeScope over a campaign: no advisory lock.
BeginRecat(t) ==
  \E c \in Campaigns :
    /\ "recat" \in Ops /\ Spend
    /\ Start(t, [NoJob EXCEPT !.op = "recat",
                              !.cells = {cell \in Cells : cell[1] = c}], {})
    /\ UNCHANGED quota

\* Mutant: a single drifting cell is not reported.
HealWhenTwo(t) ==
  /\ "heal" \in Ops
  /\ \A u \in Txs : job[u].op # "heal"
  /\ \E cell, e \in Cells : /\ cell # e /\ {cell[3], e[3]} \subseteq Recent
                            /\ ~ Settled(cell) /\ ~ Settled(e)
  /\ Start(t, [NoJob EXCEPT !.op = "heal",
                            !.cells = {cell \in Cells : cell[3] \in Recent}], {})
  /\ UNCHANGED <<quota, budget>>

\* projrecon.RunOnce: drift found in the window, heal the whole window.  The
\* reconciler is one goroutine; it is not bounded by MaxOps.
BeginHeal(t) ==
  /\ "heal" \in Ops
  /\ \A u \in Txs : job[u].op # "heal"
  /\ \E cell \in Cells : cell[3] \in Recent /\ ~ Settled(cell)
  /\ Start(t, [NoJob EXCEPT !.op = "heal",
                            !.cells = {cell \in Cells : cell[3] \in Recent}], {})
  /\ UNCHANGED <<quota, budget>>

-----------------------------------------------------------------------------
(* The steps of a transaction. *)

\* lockCellDayKeys: the next key in lexicographic order.
Least(keys) == CHOOSE k \in keys : \A l \in keys \ {k} : Before(k, l)

\* Mutant: the keys are taken in the order the caller lists them.
LockUnsorted(t) ==
  LET origin == Key(job[t].from)
      k == IF origin \in need[t] THEN origin ELSE Least(need[t])
  IN
  /\ pc[t] = "lock"
  /\ lock[k] \in {NoTx, t}
  /\ lock' = [lock EXCEPT ![k] = t]
  /\ need' = [need EXCEPT ![t] = @ \ {k}]
  /\ pc' = [pc EXCEPT ![t] = IF need'[t] = {} THEN "settle" ELSE "lock"]
  /\ UNCHANGED <<db, quota, job, verdict, budget>>

Lock(t) ==
  LET k == Least(need[t]) IN
  /\ pc[t] = "lock"
  /\ lock[k] \in {NoTx, t}
  /\ lock' = [lock EXCEPT ![k] = t]
  /\ need' = [need EXCEPT ![t] = @ \ {k}]
  /\ pc' = [pc EXCEPT ![t] = IF need'[t] = {} THEN "settle" ELSE "lock"]
  /\ UNCHANGED <<db, quota, job, verdict, budget>>

\* One line of an insert: close its cell with the play in it, stage the row,
\* go on to the next line, whose key is locked only now.
SettleLine(t) ==
  LET j    == job[t]
      line == Head(j.todo)
      j2   == [j EXCEPT !.put[line[1]] = line[2], !.d = line[1],
                        !.cells = @ \cup {line[2]}, !.todo = Tail(@)]
  IN
  /\ pc[t] = "settle" /\ j.op = "insert"
  /\ job' = [job EXCEPT ![t] = j2]
  /\ verdict' = [verdict EXCEPT ![t] = Over(Close(t, {line[2]}, j2.put), @)]
  /\ need' = [need EXCEPT ![t] = IF j2.todo = << >> THEN {} ELSE {Key(Head(j2.todo)[2])}]
  /\ pc' = [pc EXCEPT ![t] = IF j2.todo = << >> THEN "commit" ELSE "lock"]
  /\ UNCHANGED <<db, quota, lock, budget>>

\* Every other closing.  A reattribution closes the destination, writes, and
\* closes the origin last; the recategoriser writes detections before it
\* writes detection_campaigns.
SettleCells(t) ==
  LET j == job[t] IN
  /\ pc[t] = "settle" /\ j.op # "insert"
  /\ verdict' = [verdict EXCEPT ![t] =
       CASE j.op = "reattribute" -> Over(Close(t, {j.from}, NoPut), Close(t, {j.to}, j.put))
         [] j.op \in {"unreject", "categorize"} -> Close(t, {j.to}, j.put)
         [] OTHER -> Close(t, j.cells, NoPut)]
  /\ pc' = [pc EXCEPT ![t] = IF j.op \in {"recat", "heal", "override"} THEN "base" ELSE "commit"]
  /\ UNCHANGED <<db, quota, lock, job, need, budget>>

\* Mutant: a secondary campaign's verdict reaches the base row too.
AnyCampaignBase(t, d) ==
  IF \E c \in Campaigns : verdict[t][d][c] # NoCat
  THEN verdict[t][d][CHOOSE c \in Campaigns : verdict[t][d][c] # NoCat] ELSE baseCat[d]

\* The base category the transaction writes: only through the projection of
\* the campaign that owns the row, and only when it changes.
NewBase(t, d) ==
  LET c == HomeAfter(t)[d][1]
  IN  IF c \in Campaigns /\ verdict[t][d][c] # NoCat THEN verdict[t][d][c] ELSE baseCat[d]

\* detections rows the transaction locks by writing them.
BaseWrites(t) == {d \in Detections : NewBase(t, d) # baseCat[d]}
RowFree(t, d) == \A u \in Txs \ {t} : d \notin job[u].held

\* recatApplyBaseSQL: the rows whose category differs are written and stay
\* locked until the commit; the others are not touched.
ApplyBase(t) ==
  /\ pc[t] = "base"
  /\ \A d \in BaseWrites(t) : RowFree(t, d)
  /\ job' = [job EXCEPT ![t].held = BaseWrites(t)]
  /\ pc' = [pc EXCEPT ![t] = "commit"]
  /\ UNCHANGED <<db, quota, lock, need, verdict, budget>>

Release(t) == lock' = [k \in Keys |-> IF lock[k] = t THEN NoTx ELSE lock[k]]

End(t) == /\ pc' = [pc EXCEPT ![t] = "idle"]
          /\ job' = [job EXCEPT ![t] = NoJob]
          /\ need' = [need EXCEPT ![t] = {}]
          /\ verdict' = [verdict EXCEPT ![t] = NoVerdict]

Recategorises(t) == job[t].op \in {"recat", "heal", "override"}

\* The rows and the categories of the transaction become visible.
Commit(t) ==
  LET j == job[t]
      own == IF j.op \in {"mutate", "reattribute", "unreject"} THEN {j.d} ELSE {}
  IN
  /\ pc[t] = "commit"
  /\ Recategorises(t) \/ \A d \in BaseWrites(t) \cup own : RowFree(t, d)
  /\ home' = HomeAfter(t)
  /\ proj' = ProjAfter(t)
  /\ out' = OutAfter(t)
  /\ cat' = [d \in Detections |-> [c \in Campaigns |->
               IF proj'[d][c] = NoType THEN NoCat
               ELSE IF verdict[t][d][c] # NoCat THEN verdict[t][d][c] ELSE cat[d][c]]]
  /\ baseCat' = [d \in Detections |-> IF Recategorises(t) => d \in j.held
                                      THEN NewBase(t, d) ELSE baseCat[d]]
  /\ Release(t)
  /\ IF j.op = "insert" /\ j.to # NoCell
     THEN /\ job' = [job EXCEPT ![t] = [NoJob EXCEPT !.op = "categorize", !.d = j.d,
                                          !.to = j.to, !.put[j.d] = j.to]]
          /\ need' = [need EXCEPT ![t] = {Key(j.to)}]
          /\ pc' = [pc EXCEPT ![t] = "lock"]
          /\ verdict' = [verdict EXCEPT ![t] = NoVerdict]
     ELSE IF j.op = "categorize"
     THEN /\ pc' = [pc EXCEPT ![t] = "project"]
          /\ UNCHANGED <<job, need, verdict>>
     ELSE End(t)
  /\ UNCHANGED <<quota, budget>>

\* InsertProjections, outside any transaction: ON CONFLICT DO NOTHING.
Project(t) ==
  LET d == job[t].d
      c == job[t].to[1]
      new == IF verdict[t][d][c] # NoCat THEN verdict[t][d][c] ELSE "bonus"
  IN
  /\ pc[t] = "project"
  /\ IF proj[d][c] = NoType
     THEN /\ proj' = [proj EXCEPT ![d][c] = job[t].to[2]]
          /\ cat' = [cat EXCEPT ![d][c] = new]
     ELSE UNCHANGED <<proj, cat>>
  /\ End(t)
  /\ UNCHANGED <<home, baseCat, out, quota, lock, budget>>

\* It failed: ResettleCellDay closes the cell again without the play.
ProjectFails(t) ==
  /\ pc[t] = "project"
  /\ job' = [job EXCEPT ![t] = [NoJob EXCEPT !.op = "resettle", !.d = job[t].d,
                                  !.to = job[t].to, !.cells = {job[t].to}]]
  /\ need' = [need EXCEPT ![t] = {Key(job[t].to)}]
  /\ pc' = [pc EXCEPT ![t] = "lock"]
  /\ verdict' = [verdict EXCEPT ![t] = NoVerdict]
  /\ UNCHANGED <<db, quota, lock, budget>>

InTx(t) == pc[t] \in {"lock", "settle", "base", "commit"}

\* The transaction fails (a statement, the deadlock detector, the commit) and
\* rolls back.  The callers log it and go on: the insert is lost, the projection
\* of a fan-out is born bonus, the others leave the cells as they were.  Where
\* the cells were already stale the failure is one only the reconciler repairs.
\* Its own failures are bounded with the operations.
Abort(t) ==
  /\ InTx(t)
  /\ job[t].op \in {"override", "categorize", "resettle"} => "lost" \in Ops
  /\ Release(t)
  /\ IF job[t].op = "categorize"
     THEN /\ pc' = [pc EXCEPT ![t] = "project"]
          /\ need' = [need EXCEPT ![t] = {}]
          /\ verdict' = [verdict EXCEPT ![t] = NoVerdict]
          /\ UNCHANGED job
     ELSE End(t)
  /\ IF job[t].op = "heal" THEN Spend ELSE UNCHANGED budget
  /\ UNCHANGED <<db, quota>>

\* The process dies between CategorizeFor's commit and InsertProjections.
Crash(t) ==
  /\ pc[t] = "project" /\ "lost" \in Ops
  /\ End(t)
  /\ UNCHANGED <<db, quota, lock, budget>>

-----------------------------------------------------------------------------
Init ==
  /\ home = [d \in Detections |-> NoHome]
  /\ baseCat = [d \in Detections |-> NoCat]
  /\ out = [d \in Detections |-> {}]
  /\ proj = [d \in Detections |-> [c \in Campaigns |-> NoType]]
  /\ cat = [d \in Detections |-> [c \in Campaigns |-> NoCat]]
  /\ quota = [cell \in Cells |-> Quota0]
  /\ lock = [k \in Keys |-> NoTx]
  /\ pc = [t \in Txs |-> "idle"]
  /\ job = [t \in Txs |-> NoJob]
  /\ need = [t \in Txs |-> {}]
  /\ verdict = [t \in Txs |-> NoVerdict]
  /\ budget = MaxOps

Begin(t) == \/ BeginInsert(t) \/ BeginMutate(t) \/ BeginReattribute(t)
            \/ BeginUnreject(t) \/ BeginOverride(t) \/ BeginRecat(t) \/ BeginHeal(t)

Step(t) == \/ Lock(t) \/ SettleLine(t) \/ SettleCells(t) \/ ApplyBase(t)
           \/ Commit(t) \/ Project(t) \/ ProjectFails(t)

Next == \E t \in Txs : Begin(t) \/ Step(t) \/ Abort(t) \/ Crash(t)

Spec == Init /\ [][Next]_vars

\* A statement that can run eventually runs, and the ticker of the reconciler
\* keeps firing.  Clients and failures are under no obligation.
Fairness == \A t \in Txs : WF_vars(Step(t)) /\ WF_vars(BeginHeal(t))

FairSpec == Spec /\ Fairness

-----------------------------------------------------------------------------
(* Properties. *)

JobType ==
  [op : {"none", "insert", "categorize", "resettle", "mutate", "reattribute",
         "unreject", "override", "recat", "heal"},
   d : Detections \cup {NoJob.d}, to : Cells \cup {NoCell}, from : Cells \cup {NoCell},
   todo : Seq(Lines), cells : SUBSET Cells,
   put : [Detections -> Cells \cup {NoCell}],
   add : SUBSET Reasons, del : SUBSET Reasons, held : SUBSET Detections]

\* The tables hold what their columns allow, and so do the transactions.
TypeOK ==
  /\ home \in [Detections -> (Campaigns \X Types) \cup {NoHome}]
  /\ baseCat \in [Detections -> Categories \cup {NoCat}]
  /\ out \in [Detections -> SUBSET Reasons]
  /\ proj \in [Detections -> [Campaigns -> Types \cup {NoType}]]
  /\ cat \in [Detections -> [Campaigns -> Categories \cup {NoCat}]]
  /\ quota \in [Cells -> Goals]
  /\ lock \in [Keys -> Txs \cup {NoTx}]
  /\ pc \in [Txs -> {"idle", "lock", "settle", "base", "commit", "project"}]
  /\ job \in [Txs -> JobType]
  /\ need \in [Txs -> SUBSET Keys]
  /\ verdict \in [Txs -> [Detections -> [Campaigns -> Categories \cup {NoCat}]]]
  /\ budget \in 0..MaxOps

\* An override is saved and its recategorisation has not read the cell yet.
OverridePending(cell) ==
  \E t \in Txs : job[t].op = "override" /\ job[t].to = cell /\ InTx(t)

\* A cell-day whose transactions are all locked is settled whenever they are at
\* rest: every approved play has the category the quota gives it, given all the
\* others (mutateApprovedSet and settleCellDay; "categorias ficam erradas PRA
\* SEMPRE" is what happens otherwise).
AllSettled == \A cell \in Cells : Settled(cell) \/ OverridePending(cell)

InSlotPlays(cell) == {d \in Plays(cell) : cat[d][cell[1]] = "in_slot"}

\* A cell-day never credits more plays than its goal: two closings that read the
\* same set would both take the last place ("fecha com in_slot > N").
WithinQuota ==
  \A cell \in Cells : Cardinality(InSlotPlays(cell)) <= quota[cell] \/ OverridePending(cell)

\* The row and its canonical projection go together through every writer, the
\* reattributions included (incident of 2026-06-30 in syncCanonicalProjection).
BaseMirrorsCanonical ==
  \A d \in Detections : Exists(d) =>
    /\ proj[d][home[d][1]] = home[d][2]
    /\ cat[d][home[d][1]] = baseCat[d]

\* The transaction t waits for a lock that u holds.
Waits(t, u) == pc[t] = "lock" /\ u # t /\ lock[Least(need[t])] = u

\* No set of transactions all wait for one another (lockCellDayKeys sorts).
NoLockCycle ==
  \A S \in (SUBSET Txs) \ {{}} : \E t \in S : \A u \in S : ~ Waits(t, u)

\* Whoever changes the stored category of a play of a cell-day has held the key
\* of that cell-day since it read the cell, whatever operation it runs, and lets
\* go of it with the write (the reason of settleCellDay's first statement).
WritesUnderLock ==
  [][\A d \in Detections, c \in Campaigns :
       LET k == <<c, DayOf[d]>>
       IN  /\ {cat[d][c], cat'[d][c]} \subseteq Categories
           /\ cat'[d][c] # cat[d][c]
           => lock[k] # NoTx /\ lock'[k] = NoTx]_vars

\* A reattribution out of a rejection changes the approved set of one cell-day
\* only, its destination ("Só UMA célula-dia muda aqui", detections.go:2053).
UnrejectTouchesOneCell ==
  [][\A t \in Txs, cell \in Cells :
       job[t].op = "unreject" /\ job'[t] # job[t] /\ cell # job[t].to
         => Plays(cell)' = Plays(cell)]_vars

\* Once no client starts anything any more, every cell-day the reconciler looks
\* back at ends up settled, whatever was lost or raced before.
Converges == <>[](\A cell \in Cells : cell[3] \in Recent => Settled(cell))

\* And no row is left with a category its canonical projection does not have,
\* although the reconciler counts the drift of the projections alone.
BaseConverges ==
  <>[](\A d \in Detections : Exists(d) /\ out[d] = {} =>
         baseCat[d] = cat[d][home[d][1]])
=============================================================================
