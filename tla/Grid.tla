-------------------------------- MODULE Grid --------------------------------
(***************************************************************************)
(* The distribution grid of one campaign on one station and the categories *)
(* it gives: rules and daily overrides are edited while plays arrive,      *)
(* leave the approved set and come back.  A closing takes the advisory     *)
(* lock of its day, reads the rules, the override and the plays one after  *)
(* the other, and commits what the Go engine says.  An edit is saved first *)
(* and recategorised later, with the SQL engine: one statement reads, and  *)
(* the commit comes later.  The recategorisation of an override takes the  *)
(* lock of its day; those of a rule and of the campaign take none          *)
(* (internal/api/handlers/distribution_rules.go, distribution_overrides.go *)
(* internal/catalog/distribution_rules.go and detections.go).              *)
(***************************************************************************)
EXTENDS Categorizer, Sequences

CONSTANTS
  Plays,
  Moving,     \* those that arrive, leave and return in the run; the others are there
  TypeOf,     \* type_id of each material
  Days,
  Period,     \* the campaign's dates
  Bodies,     \* rules an operator may write
  Overrides,  \* overrides an operator may write
  Retypes,    \* whether an edit may change the type of a rule
  MaxRules,   \* bound on the rules created
  MaxEdits,   \* bound on the edits of rules and overrides
  MaxFlights, \* bound on the transactions in flight
  Failures    \* whether a recategorisation may fail

Types == {TypeOf[p.mat] : p \in Plays}
Cells == Types \X Days
CellOf(p) == <<TypeOf[p.mat], p.day>>

ASSUME GridAssumption ==
  /\ IsFiniteSet(Plays) /\ Moving \subseteq Plays /\ Days \subseteq Int /\ {Period.from, Period.to} \subseteq Int
  /\ \A p \in Plays : p.id \in Nat /\ p.at \in Nat /\ p.day \in Days
  /\ \A p, q \in Plays : p.id = q.id => p = q
  /\ \A p, q \in Plays : CellOf(p) = CellOf(q) /\ p # q => p.at # q.at
  /\ \A b \in Bodies : {b.from, b.to, b.start, b.end} \subseteq Int /\ b.n \in Nat
  /\ \A o \in Overrides : {o.start, o.end} \subseteq Int /\ o.start < o.end /\ o.n \in Nat
  /\ {MaxRules, MaxEdits, MaxFlights} \subseteq Nat

VARIABLES
  rules,    \* distribution_rules: rows by id
  over,     \* distribution_overrides: rows by cell-day
  born,     \* plays inserted
  present,  \* those in the approved set
  cat,      \* their stored category
  closing,  \* closings in flight, by the day whose lock they hold
  asked,    \* recategorisations asked and not started, by edit
  running,  \* those between their snapshot and their commit
  exposed,  \* history: cell-days whose last write is in doubt (see Meet)
  made,     \* rules created so far: ids are never reused
  edits

grid == <<rules, over, made, edits>>
detections == <<born, present, cat>>
vars == <<grid, detections, closing, asked, running, exposed>>

NoCat == "none"

-----------------------------------------------------------------------------
(* Reading the tables. *)

LoadRules(cell) == Restrict(rules, {i \in DOMAIN rules : rules[i].type = cell[1]})
LoadOverride(cell) == {over[c] : c \in DOMAIN over \cap {cell}}

PlaysOf(cell, P) == {p \in P : CellOf(p) = cell}
\* loadCellDayPlays orders by (detected_at, id): the k-th row has k-1 before it.
Loaded(cell, P) ==
  LET Q == PlaysOf(cell, P)
  IN  [k \in 1..Cardinality(Q) |->
         CHOOSE p \in Q : Cardinality({q \in Q : Earlier(q, p)}) = k - 1]

Go(cell, s) == GoSettle(cell[2], s, Period, LoadRules(cell), LoadOverride(cell))
Sql(p, P) == LET cell == CellOf(p)
             IN  Classified(p, PlaysOf(cell, P), Period, LoadRules(cell), LoadOverride(cell))

-----------------------------------------------------------------------------
(* Transactions.  A closing and a recategorisation of an override write one *)
(* cell-day each, under the lock of its day; a wide one writes many.        *)

Put(f, k, v) == [x \in DOMAIN f \cup {k} |-> IF x = k THEN v ELSE f[x]]
Drop(f, k) == Restrict(f, DOMAIN f \ {k})

InFlight == {closing[d] : d \in DOMAIN closing} \cup {running[k] : k \in DOMAIN running}

MayBegin == Cardinality(DOMAIN closing) + Cardinality(DOMAIN running) < MaxFlights

\* The advisory lock of a day (its type is left out of the key).
Unlocked(day) == day \notin DOMAIN closing /\ \A k \in DOMAIN running : day \notin running[k].keys

\* Bookkeeping for the properties, read by no guard.  A transaction notes the
\* cells it shares with another one in flight when either of them is wide; so
\* does every transaction in flight when a recategorisation fails.  A commit
\* leaves in doubt the cells it has noted, and clears the others it wrote.
Meet(x, cells, wide) ==
  [x EXCEPT !.met = @ \cup (IF wide \/ x.wide THEN cells \cap x.cells ELSE {})]
AllMeet(f, cells, wide) == [k \in DOMAIN f |-> Meet(f[k], cells, wide)]
Met(cells, wide) == UNION {cells \cap x.cells : x \in {y \in InFlight : wide \/ y.wide}}
Settles(x) == exposed' = (exposed \ x.cells) \cup x.met

-----------------------------------------------------------------------------
(* Closings: settleCellDay, called by an insert or by a change of the       *)
(* approved set.                                                            *)

\* The lock, the change of the row, which the others do not see, and the rules.
Open(op, p) ==
  /\ MayBegin /\ Unlocked(p.day)
  /\ \/ op = "insert" /\ p \notin born
     \/ op = "leave" /\ p \in present
     \/ op = "return" /\ p \in born \ present
  /\ LET cell == CellOf(p)
     IN  /\ closing' = Put(closing, p.day,
              [op |-> op, play |-> p, cells |-> {cell}, wide |-> FALSE,
               met |-> Met({cell}, FALSE), next |-> "override",
               rules |-> LoadRules(cell), over |-> {}, seen |-> << >>])
         /\ running' = AllMeet(running, {cell}, FALSE)
  /\ UNCHANGED <<grid, detections, asked, exposed>>

ReadOverride(d) ==
  /\ closing[d].next = "override"
  /\ closing' = [closing EXCEPT ![d].next = "plays", ![d].over = LoadOverride(CellOf(closing[d].play))]
  /\ UNCHANGED <<grid, detections, asked, running, exposed>>

\* The approved plays stored, as the transaction sees them.
Stored(x) == CASE x.op = "leave" -> present \ {x.play}
               [] x.op = "return" -> present \cup {x.play}
               [] OTHER -> present

\* Read with their categories.
ReadPlays(d) ==
  LET x == closing[d]
  IN  /\ x.next = "plays"
      /\ closing' = [closing EXCEPT ![d].next = "commit",
                       ![d].seen = [p \in PlaysOf(CellOf(x.play), Stored(x)) |-> cat[p]]]
      /\ UNCHANGED <<grid, detections, asked, running, exposed>>

\* The new play has no id yet: it is appended to those read.
Listed(x) == LET s == Loaded(CellOf(x.play), DOMAIN x.seen)
             IN  IF x.op = "insert" THEN Append(s, x.play) ELSE s

\* rewriteCategories leaves the rows alone whose category, as read, is the verdict.
Commit(d) ==
  LET x == closing[d]
      s == Listed(x)
      verdict == GoSettle(d, s, Period, x.rules, x.over)
      at(p) == CHOOSE i \in DOMAIN s : s[i] = p
  IN  /\ x.next = "commit"
      /\ born' = born \cup {x.play}
      /\ present' = IF x.op = "leave" THEN present \ {x.play} ELSE present \cup {x.play}
      /\ cat' = [p \in Plays |->
                   IF \E i \in DOMAIN s : s[i] = p /\ (p \in DOMAIN x.seen => x.seen[p] # verdict[i])
                   THEN verdict[at(p)] ELSE cat[p]]
      /\ closing' = Drop(closing, d)
      /\ Settles(x)
      /\ UNCHANGED <<grid, asked, running>>

\* An error at any statement, or a crash: nothing was done.
Rollback(d) ==
  /\ closing' = Drop(closing, d)
  /\ UNCHANGED <<grid, detections, asked, running, exposed>>

-----------------------------------------------------------------------------
(* Edits, each saved by a statement of its own. *)

Edit(r) ==
  /\ edits < MaxEdits /\ edits' = edits + 1
  /\ asked' = Put(asked, edits', r)
  /\ UNCHANGED <<detections, closing, running, exposed>>

CreateRule(b) ==
  /\ made < MaxRules /\ made' = made + 1
  /\ rules' = Put(rules, made', b)
  /\ Edit(<<"rule", made'>>)
  /\ UNCHANGED over

UpdateRule(i, b) ==
  /\ b # rules[i] /\ (b.type = rules[i].type \/ Retypes)
  /\ rules' = [rules EXCEPT ![i] = b]
  /\ Edit(<<"rule", i>>)
  /\ UNCHANGED <<over, made>>

DeleteRule(i) ==
  /\ rules' = Drop(rules, i)
  /\ Edit(<<"campaign", 0>>)
  /\ UNCHANGED <<over, made>>

UpsertOverride(cell, o) ==
  /\ over' = Put(over, cell, o)
  /\ Edit(<<"cell", cell>>)
  /\ UNCHANGED <<rules, made>>

DeleteOverride(cell) ==
  /\ over' = Drop(over, cell)
  /\ Edit(<<"cell", cell>>)
  /\ UNCHANGED <<rules, made>>

-----------------------------------------------------------------------------
(* Recategorisation. *)

\* RecategorizeForOverride, ForCampaign, ForRule: the cell-days rewritten.  A
\* rule that is gone by then yields an error and nothing else.
Scope(r) ==
  CASE r[1] = "cell" -> {r[2]}
    [] r[1] = "campaign" -> {cell \in Cells : cell[2] \in Period.from..Period.to}
    [] OTHER -> {cell \in Cells : /\ r[2] \in DOMAIN rules
                                  /\ cell[1] = rules[r[2]].type
                                  /\ cell[2] \in Period.from..Period.to}

\* Mutant: the recategorisation of an override takes no lock either.
NoKeys(r) == {}

\* RecategorizeForOverride locks its day; the others "touch thousands of
\* cell-days" and lock none.
RecatKeys(r) == IF r[1] = "cell" THEN {r[2][2]} ELSE {}
Wide(r) == r[1] # "cell"

\* The lock, then one statement that reads rules, overrides and plays.
Classify(k) ==
  LET r == asked[k]
      S == Scope(r)
  IN  /\ MayBegin /\ \A d \in RecatKeys(r) : Unlocked(d)
      /\ asked' = Drop(asked, k)
      /\ running' = Put(AllMeet(running, S, Wide(r)), k,
           [cells |-> S, wide |-> Wide(r), met |-> Met(S, Wide(r)), keys |-> RecatKeys(r),
            verdict |-> [p \in {q \in present : CellOf(q) \in S} |-> Sql(p, present)]])
      /\ closing' = AllMeet(closing, S, Wide(r))
      /\ UNCHANGED <<grid, detections, exposed>>

Apply(k) ==
  LET x == running[k]
  IN  /\ cat' = [p \in Plays |-> IF p \in DOMAIN x.verdict THEN x.verdict[p] ELSE cat[p]]
      /\ running' = Drop(running, k)
      /\ Settles(x)
      /\ UNCHANGED <<grid, born, present, closing, asked>>

\* Best effort: an error or the timeout of 30 s is counted and logged, a crash
\* not even that, and nobody retries.
Lose(cells) ==
  /\ Failures
  /\ exposed' = exposed \cup cells
  /\ closing' = AllMeet(closing, cells, TRUE)
  /\ UNCHANGED <<grid, detections>>

NeverStarts(k) ==
  /\ Lose(Scope(asked[k]))
  /\ asked' = Drop(asked, k)
  /\ running' = AllMeet(running, Scope(asked[k]), TRUE)

NeverCommits(k) ==
  /\ Lose(running[k].cells)
  /\ running' = Drop(AllMeet(running, running[k].cells, TRUE), k)
  /\ UNCHANGED asked

-----------------------------------------------------------------------------
Init ==
  /\ rules = << >> /\ over = << >>
  /\ born = Plays \ Moving /\ present = born
  /\ cat = [p \in Plays |-> IF p \in present THEN Sql(p, present) ELSE NoCat]
  /\ closing = << >> /\ asked = << >> /\ running = << >> /\ exposed = {}
  /\ made = 0 /\ edits = 0

Next ==
  \/ \E p \in Moving : Open("insert", p) \/ Open("leave", p) \/ Open("return", p)
  \/ \E d \in DOMAIN closing : ReadOverride(d) \/ ReadPlays(d) \/ Commit(d) \/ Rollback(d)
  \/ \E b \in Bodies : CreateRule(b) \/ \E i \in DOMAIN rules : UpdateRule(i, b)
  \/ \E i \in DOMAIN rules : DeleteRule(i)
  \/ \E cell \in Cells, o \in Overrides : UpsertOverride(cell, o)
  \/ \E cell \in DOMAIN over : DeleteOverride(cell)
  \/ \E k \in DOMAIN asked : Classify(k) \/ NeverStarts(k)
  \/ \E k \in DOMAIN running : Apply(k) \/ NeverCommits(k)

Spec == Init /\ [][Next]_vars

-----------------------------------------------------------------------------
(* Properties. *)

\* On whatever the tables hold the two engines give every play of a cell-day
\* the same category ("DEVEM concordar bit a bit", distribution_rules.go:290):
\* otherwise the reconciler rewrites what the insert has just stored.
EnginesAgree ==
  \A cell \in Cells :
    LET plays == Loaded(cell, present)
        verdict == Go(cell, plays)
    IN  \A i \in DOMAIN plays : verdict[i] = Sql(plays[i], present)

\* And that category is the one Settlement gives the ranks of the plays, which
\* is what CellDay and its proofs know of the engines.
EnginesImplementSettle ==
  \A cell \in Cells :
    LET plays == Loaded(cell, present)
        R == LoadRules(cell)
        ov == LoadOverride(cell)
        P == DOMAIN plays
        X == {i \in P : OutDate(plays[i], Period, R)}
        W == {i \in P : InAnyWindow(plays[i], R, ov)}
    IN  Go(cell, plays) = Settle(Goal(cell[2], R, ov), P, W, X)

\* A recategorisation of the cell-day has been asked or is in flight.
Pending(cell) ==
  \/ \E k \in DOMAIN asked : cell \in Scope(asked[k])
  \/ \E k \in DOMAIN running : cell \in running[k].cells

\* A stored category that is not the one the rules and overrides of the moment
\* give has its recategorisation on the way, or a failed one, or was written
\* while a recategorisation that takes no lock ran alongside (the RISCO RESIDUAL
\* of distribution_rules.go:602).  Nothing else leaves a stale category behind:
\* no order of edits, closings and recategorisations of overrides does.
StaleIsPending ==
  \A p \in present :
    cat[p] = Sql(p, present) \/ Pending(CellOf(p)) \/ CellOf(p) \in exposed

\* The same without the doubt: with no failure, whatever is stale is about to be
\* put right.  The code does not promise it, and it does not hold.
StaleIsOnTheWay ==
  \A p \in present : cat[p] = Sql(p, present) \/ Pending(CellOf(p))
=============================================================================
