# E-monitor: a verification development

E-monitor listens to radio stations, recognises the commercials of its clients'
campaigns, stores one *detection* per airing with its audio evidence, and tells
each client how much of the contracted distribution was delivered. These modules
model the Go workers (`src/workers`) and the campaign wizard of the browser client
(`src/frontend`) with TLA+, check the models with TLC and prove the main results
with TLAPS. Paths below are relative to `src/workers/internal` unless they start
with `src/`; names ending in `.jsx` or `.js` are under `src/frontend/src`.

## 1. Inventory

| Component | State it keeps | Operations | What makes it correct | Status |
|---|---|---|---|---|
| Quota rule (`categorizer`, the `recatClassifiedCTE` SQL) | none | `Settle`; the CTE pipeline | two implementations of one rule agree; never more than N plays `in_slot` | `Settlement`, `Categorizer` |
| Cell-day settlement (`catalog/detections.go`, `manual_batches.go`, `detection_campaigns.go`) | `detections`, `detection_campaigns`, advisory locks | create, manual create, batch, retract, ignore, restore, reject, mark ambiguous, reattribute, un-reject, fan out | a cell-day is settled whenever its writers are at rest; base row = canonical projection | `CellDay` |
| Recategoriser (`catalog/distribution_rules.go`) | none | rule, campaign, override scopes | converges; does not undo a closing | `CellDay`, `Grid` |
| Projection reconciler (`projrecon`, `catalog/projection_reconcile.go`) | ticker | count drift, heal the window | everything in its window ends up settled | `CellDay` |
| Distribution grid (`api/handlers/distribution_*.go`) | `distribution_rules`, `distribution_overrides` | create, edit, delete, upsert; each starts a recategorisation | a stale category has its recategorisation on the way, unless one failed or an unlocked one ran alongside | `Grid` |
| Webhook outbox (`webhook`) | `webhook_deliveries` rows | enqueue, claim, post, retry, dead letter | at least once or given up; what is settled stays settled; no attempt is lost to a crash | `Delivery`, `WebhookOutbox` |
| Cut disambiguation (`supervisor/disambiguation.go`, `dedup_buffer.go`) | recent detections per station | submit, displace, retract, replace | one of several cuts of one airing counts | `CutDisambiguation` |
| Evidence service and audit (`evidence`) | one goroutine per detection | persist, fan out, audit, compare, retract, reattribute, upload, recover | the row that counts is that of the cut that aired | `CutDisambiguation`, fan-out in `CellDay` |
| Distribution editor (`DistributionStep.jsx`, `OverridePopover.jsx`, `RuleSidePanel.jsx`, `api/hooks.js`) | drafts of the +/- buttons, cached month | step, commit, discard, apply, replicate, revert, save rules | no click lost; the grid shows what the server has | `DistributionEditor` |
| Campaign wizard (`CampaignWizardPage.jsx`, `BasicDataStep.jsx`, `StationsStep.jsx`, `utils/stationsSavePlan.js`) | form, check of the hub code, selection with its autosave | type, check, link, toggle, navigate, save | the verdict is about what is in the form; no station lost, no save unasked | `CampaignWizard` |
| Material upload (`MaterialsStep.jsx`, `utils/uploadOutcome.js`, `api/handlers/materials.go`, `similarity`, the fingerprint daemon) | drawer queue, master files, materials, links | upload, dedup, fingerprint, compare, decide, link, retry | a retry or a reuse changes no scope and skips no question | `MaterialUpload` |
| Evidence tiering and prune (`evidence/tiering.go`, `prune.go`) | object keys, cold flag | move to cold, expire | the key of a row names an object that exists | planned |
| Supervisor fleet (`supervisor`) | worker map, connection states, stall timers | start, pause, restore, reconcile, lifecycle | at most one worker per station, none for a paused one | planned |
| Match state machine (`match/statemachine.go`) | candidate states per material | feed, confirm, cool down | one airing confirms once | planned |
| Health events, campaign lifecycle (`catalog/health_events.go`, `campaigns.go`) | open outages, campaign status | open, close, promote, demote | one open outage per station | planned |
| Ingestor, fingerprint signal processing (`src/fingerprint`), the other screens, reports and list queries | streams, none | decoding, matching, rendering, reading | numeric or pure reads | not modelled |

**How they interact.** The ingestor feeds PCM to the match state machine, which
confirms candidates to the supervisor; the disambiguator publishes the winning
cut on NATS; the evidence service turns the event into a detection
(`Detections.Create`), fans it out to secondary campaigns and follows it in a
goroutine through audio, audit and recovery. Operators (HTTP) insert plays by
hand, ignore and restore them and edit the grid; each edit starts a
recategorisation. A ticker reconciles the last 48 hours. All meet in two tables,
`detections` (the airing, with the category of its own campaign) and
`detection_campaigns` (one *projection* per campaign the airing counts for, with
that campaign's category), and nothing but PostgreSQL serialises them. The
deliverer hears of the same detections on NATS and puts one row per event in the
outbox, from which a worker in each replica posts to the client's URL. What the
workers count against comes from the wizard: its first step names the campaign
and checks its code at the hub, the second picks stations, the third uploads the
masters the matcher will listen for (and the fingerprint daemon prepares), the
fourth fills the grid.

**Why it is hard.** A day has a goal of N plays, so the category of a play
(`in_slot`, `out_slot`, `bonus`, `out_date`) depends on every other approved play
of its *cell-day* (campaign, material type, station, local day). Each writer must
read the whole cell, settle it, and write what changed, and under READ COMMITTED
two of them share no row unless they share a lock. The code uses
`pg_advisory_xact_lock` on (campaign, station, day); some paths take it before
they read, some after, one by line, and one (the wide recategorisation) never.
Failures are logged and dropped on purpose, and the reconciler is the net below.
The corrections of the evidence service run one goroutine per row and decide from
rows that another goroutine, or the supervisor, is about to change. In the browser
each handler goes on after an `await` with the values of the render it started in,
over a cache that answers and invalidations rewrite meanwhile.

The hazards, each with its line and the properties that cover it, are in
`PROJECT.json`.

## 2. Plan

1. `Settlement` — the quota rule, and `SettlementProofs`. **Done.**
2. `CellDay` — settlement under concurrency (`MCCellDay`) and `CellDayProofs`. **Done.**
3. `Categorizer`, `Grid` (`MCGrid`) and `GridProofs` — both engines, and the edits of
   the grid. **Done.**
4. `Delivery`, `WebhookOutbox` and `WebhookOutboxProofs` — at-least-once delivery,
   the outbox that implements it, liveness. **Done.**
5. `CutDisambiguation` (`MCCuts`) and `CutsProofs` — supervisor, evidence service and
   audits on the cuts of one airing. **Done.**
6. `DistributionEditor` (`MCEditor`), `CampaignWizard`, `MaterialUpload` (`MCUpload`)
   and their proofs — the wizard over its cache. **Done.**
7. `EvidenceTiering` — hot and cold object, row key, prune; crash between steps.
8. `Supervisor` — start/stop/restore/reconcile of station workers.
9. `MatchSM` — the candidate state machine against a reference of airings, composed
   with 5, which takes the confirmations of an airing as given.
10. `HealthEvents`, campaign lifecycle, date edits and their missing recategorisation.

Abstract specifications: *settled cell* (the categories are a function of the
approved set), which `CellDay`'s locked operations keep; *at-least-once delivery*
(`Delivery`), which `WebhookOutbox` refines; *each airing counted once*, the
invariants of `CutDisambiguation`. Every invariant and action property that a
passing run checks is a theorem, under the hypotheses of section 5; new ones come with
the modules of steps 7 to 10.

## 3. The modules

### Settlement

`Settle(n, P, W, X)`: plays are numbered in (detected_at, id) order, P is the
approved set, W those inside a slot, X those outside the dates. It is the `CASE`
of the CTE (`catalog/distribution_rules.go:405-461`).

### CellDay

One station; a cell is <<campaign, type, day>>, a lock key <<campaign, day>>
(the code leaves the type out on purpose, and so does the model). The data:

| Variable | Code |
|---|---|
| `home`, `baseCat`, `out` | `detections.campaign_id` and the type of `commercial_id`; `category`; the four reasons of `ApprovedDetectionsFilter` |
| `proj`, `cat` | the rows of `detection_campaigns`: type of the material projected, category |
| `quota` | the goal of a cell, from an override or the rules |
| `lock` | the transaction-scoped advisory locks |
| `pc`, `job`, `need`, `verdict` | where each transaction is, what it is doing, the keys it still wants, the categories it has staged |

A transaction is a sequence of steps that others interleave with: *Begin* (reads
what the code reads before its locks), *Lock* one key at a time in lexicographic
order, *settle* (the read of the cell and the verdict, one snapshot, with the
transaction's own writes visible), *base* for the recategoriser's first UPDATE
with its row locks, *commit*. Between a fan-out's `CategorizeFor` and its
`InsertProjections` there is a step of its own, `project`, outside any
transaction, where the process may die. Operations: `BeginInsert` (`Create`,
`CreateManual`, `CreateManualBatch`, with an optional secondary campaign),
`BeginMutate` (`RetractByID`, `ClearRetraction`, `Ignore`, `Restore`,
`UpdateEvidence`, `MarkAmbiguous`), `BeginReattribute`, `BeginUnreject`,
`BeginOverride`, `BeginRecat`, `BeginHeal`. `Abort` is a rollback at any step,
with what the caller then does.

`Ops` says which kinds of operation a run issues. "fanout" and "lost" (a failure
that only the reconciler repairs) are options of the others.

### Categorizer and Grid

`Categorizer` states both engines separately, each from its own source:
`GoSettle` (fold over the sorted plays, stable sort, whole seconds) and
`Classified` (row numbers and counts, fractions of a second kept). `Grid` is the
state machine that produces their inputs: operators create, edit and delete rules
and overrides while plays arrive, leave and return. In `CellDay` the goal of a
cell-day never changes; here it does, so both kinds of writer are transactions:

* a *closing* (`closing`, one per locked day) takes the lock and reads the rules
  (`Open`), then the override (`ReadOverride`), then the plays with their
  categories (`ReadPlays`), and commits what the Go engine says of what it read
  (`Commit`), or rolls back;
* an *edit* is saved by a statement of its own and asks for a recategorisation
  (`asked`), which runs later, in any order: one statement reads rules, overrides
  and plays of the moment (`Classify`, `running`), and the commit comes later
  (`Apply`). The one of an override holds the lock of its day meanwhile, those of
  a rule and of the campaign hold none. It may fail before or after its read, or
  be cut off by a restart, and nobody retries.

`exposed` is history, read by no guard: the cell-days whose last writer met, while
both were in flight, another one of the same cell-day with no lock between them,
and those of a recategorisation that failed. The two UPDATEs of a recategorisation
and its commit are one step (they are apart in `CellDay`), and so are the reading of
the rule by its id and the snapshot.

`EnginesImplementSettle` ties the two levels: on every state of `Grid` the Go
engine's result is `Settlement!Settle` of the ranks, so what `CellDay` and its
proofs know of the engines is what the engines do.

### Delivery and WebhookOutbox

`Delivery` is the promise: an event that is owed is delivered (only if the client
has accepted it) or abandoned, once, and not left owed for ever. `WebhookOutbox`
is the code. `row` is a row of `webhook_deliveries`, `due` the rows whose
`next_attempt_at` has come, in that order (a backoff is the absence of the row
from `due`; `Elapse` brings it back). A worker claims a batch (`FOR UPDATE SKIP
LOCKED`, locks held until `CommitClaim`, the rows stay pending), posts its rows
one by one, and records each outcome with an UPDATE that does not look at the
status. `Post` chooses among the answers the code tells apart; `"lost"` is a 2xx
whose response never arrives. `FailClaim`, `RecordFails` and `Crash` are the
failures; `Garbled` events get an answer whose first 4 KB are no UTF-8 text, which
the UPDATE can never store. `ImplementsDelivery` is the refinement, with
`fate` read off the status of the row.

### CutDisambiguation

One airing on one station, and the masters of one client that may be confirmed
for it (`world`: which fire, when each seems to start, what the clip covers, what
its audit says). `pending` and `confirmed` are the two NATS subjects, `buffer` the
dedup buffer, `swap` the supervisor between the retraction of a displaced cut and
the publication of the new one. Each row has a goroutine (`job`) whose steps are
the places where it reads and where it writes: audit, comparison, co-fire guard
(two transactions), reattribution, upload, the restoration of a displaced cut, the
recovery of a rejected row. The winner of a comparison (`Winners`) folds the
siblings in any order, as the query has no order of its own. Faults (a failed
look-up, insert, encode or audit, a restart) happen at most once of each kind.

### DistributionEditor

`cache`, `stale` and `fetch` are react-query's data, marks and reads in flight per
key; `blind` holds the reads the client has no way to know to be old (a write
whose answer was lost, a read that overwrote a mark). The handlers that await are
records of what they captured: `commit` (snapshot of the drafts, rules and
overrides), `popover` (the cells it waits for, the replicas to send), `panel` (the
types left to post). A request is served (`Serve`) and answered (`Answer`) in two
steps, or fails before or after being served.

### CampaignWizard

The page with its form and completed steps, step 1 (`conf` is the state of the
check of the hub code, `checks` and `linking` the requests in flight), step 2
(`catalog` says whether the stations are loaded, `selected`, `dirty` for `dirtyRef`,
`pending` for the list the 500 ms timer will send). The link of the code's owner has
two sides on the server: `holder`, the client here with the owner's id, and `owner`,
the client the hub points to. An answer of the check carries a verdict about the link
or none (`CodeFound`: no client sent, no table, a slow or failed look-up, a client out
of scope); without one the screen compares `owner` with the form and shows green
(`Verdict`), as its comment says it should. `holder`, `owner` and `landed` in `conf`
are history for the properties: what was true when the answer was given, and whether
the link came from `ligar` to an answer that had none. React's effects run in the action that changes their inputs
(`FormEffects`, `StationsRerender`, `SaveEffect`). The name stands for the name
and both dates. Campaigns are those of one browser.

### MaterialUpload

The drawer is a queue of files and one entry under way (`cur`), whose stage is
that of the code: uploading, fingerprinting, verifying, headsup, deciding,
linking. A file is <<audio, extension>>; a master on disk is named by both, and
by no client. On the server a handler stores the file, looks for the same audio
among its client's rows, and adds a row or removes the file; the fingerprint
daemon and the similarity check work through `jobs`. `known` is the list of links
captured when the run starts. Lists are read when their answer arrives.

## 4. Runs

All bounds are constants: `MaxOps` (operations started), `MaxBatch` (lines of a
batch), `MaxRules`, `MaxEdits`, and the sets of plays, campaigns, types and days.

| Run | Operations and bounds | Result |
|---|---|---|
| `locked` | insert (batches of 2), mutate, override; 3 plays (one outside the slot, one out of date for type 2), 2 types, 2 transactions, 4 operations | `TypeOK`, `AllSettled`, `WithinQuota` hold |
| `fanout` | insert, mutate, override, reattributions, fan-outs, un-rejections, crashes; 2 plays, 2 campaigns, 2 transactions, 4 operations | `BaseMirrorsCanonical`, `NoLockCycle`, `WritesUnderLock` hold |
| `heal` | fan-outs, wide recategorisations, lost resettlements, the reconciler | `Converges` holds |
| `grid_edits` | rules with a carve-out, an override, two edits, two transactions in flight, failures; five plays on both sides of the tolerance and outside the dates of the campaign and of the carve-out, two of which come and go | `EnginesAgree`, `EnginesImplementSettle`, `StaleIsPending` hold |
| `outbox` | 2 events, one worker, batches of 2, 3 attempts, 1 crash, 2 changes of the URL | `NoEarlyDeath` and the refinement `ImplementsDelivery`, liveness included, hold |
| `cuts` | a 15 s cut and two 30 s cuts, two confirmations, 3 levels of coverage, both flags on, one fault | `AtMostOnce`, `RightCut`, `LostOnlyBySkip`, `CofireKeepsOne` hold |
| `editor` | 2 months, 3 cells, a rule, an override, 3 clicks, 1 failed request | `GridShowsServer`, `NoLostDraft`, `CommitEnds` hold |
| `wizard` | a new campaign and an old one with a hidden station, 2 clients, 2 stations, every state of the link, answers with and without it, a catalogue that may be late, 5 clicks, 1 refused write | `GreenIsTrue`, `NoUnaskedPut`, `PickerShowsServer`, `HiddenSurvive`, `CheckEnds` hold |
| `upload` | 2 files in the drawer, 2 materials, 2 stations, another client, 5 clicks, 1 fault | `ScopeKept`, `AskedOnce`, `SimilarAsked` hold |
| `batch`, `cuts_lost`, `masters` | the smallest instance that shows a divergence | violated; see section 7 |

`TypeOK` of `CutDisambiguation` and of `MaterialUpload` states the types of their
variables; it holds with the constants of `cuts` and `upload`, and the proofs rest on it.

Section 7 also names further configurations, kept beside these, that show one
divergence each.

**Why the bounds are enough.** A quota of 1 or 2 with three plays has a winner, a
loser and one whose verdict depends on whether the goal is open. Two transactions
suffice for every race and for a cycle of waits over two keys. Play numbers are
the order of `detected_at`, and plays may arrive in any order, so late
(retroactive) plays happen. Four operations give insert, insert, change, change.
Two campaigns give a canonical and a secondary one. In `Grid` the plays at
seconds 5 and 6 lie on and past the edge of the slot 2–4 with a tolerance of 1;
the two plays that move (`Moving`) are of one day, one before the other, and two
transactions (`MaxFlights`) are a closing and a recategorisation, or two of either.
Three attempts give a first, a middle and a last one, and a batch of two a row
that waits for the other's POST. Coverage levels 0, 2 and 3 are nothing, an
overlap below the threshold, and a master that is beyond doubt by the ratio of 1.5.
Three clicks of the editor stage a draft, commit it, and click the same cell
again while the request is out; five of the wizard type a code, pick a client,
change it, and leave and come back. Five of the upload open the drawer, add two
files, submit, and submit again after a failure.

`CHECK_DEADLOCK FALSE` in the `CellDay` configurations: the clients may start no
more than `MaxOps` operations, after which the system rests. The `batch` run is
about a database deadlock, which is the invariant `NoLockCycle` and not TLC's. The
other configurations say it for the same reason: events, clicks and confirmations
are bounded, and then nothing is left to do.

**Fairness.** `FairSpec` has weak fairness of `Step(t)` for every transaction (a
statement that can run does, PostgreSQL grants a lock that is free) and of
`BeginHeal(t)` (the ticker of `projrecon.Run` keeps firing and ticks at boot).
Clients, aborts and crashes are under no obligation, and the reconciler's own
failures consume the budget: a database that fails for ever converges to nothing.
The reconciler's window is fixed (`Recent`); a cell-day that leaves it before a
tick is outside the promise.

In `WebhookOutbox` the clock runs (`Elapse`) and so does the worker's ticker
(`Claim`, `Post`); a commit or an UPDATE may fail now and then but not for ever,
hence strong fairness of `CommitClaim` and `Record`. Nobody has to send events or
change the URL. In the wizard's modules requests end: the browser settles each
with an answer or an error, react-query asks again for a mounted key (the catalogue is the exception: the wizard
owes it nothing and it may never come), and the continuation
of an `await` and a timer that is armed run. The user owes nothing, and neither do
failures. `MaterialUpload` needs only that the daemon works through its jobs and
that lists are read and polled. `CutDisambiguation` states safety at rest
(`Settled`) and assumes no fairness.

## 5. Proofs

Every theorem is listed in `PROJECT.json` with the property it states. A hypothesis
of a theorem is named below with the run or the configuration that shows what
happens without it.

| Module | Theorems | Hypotheses beyond the module's ASSUMEs |
|---|---|---|
| `SettlementProofs` | `SettleWithinQuota`, `ArrivalNeverPromotes` | none |
| `GridProofs` | `EnginesAlwaysAgree`, `EnginesAlwaysSettle`, `StaleAlwaysPending` | `NoneOnEdge` (first, third), `Retypes = FALSE` (third) |
| `CellDayProofs` | `TypeCorrect`, `CellsStaySettled`, `QuotaHolds` | `Ops` among `LockingOps` (second, third) |
| `CellDayProofs` | `RowsMirrorCanonical`, `CategoriesUnderLock`, `NoCircularWait` | no "recat" nor "heal" (first, second); one line per batch and finitely many transactions (third) |
| `CutsProofs` | `CountedAtMostOnce`, `CountedForTheRightCut`, `LostOnlyWhenSkipped`, `CofireAlwaysKeepsOne` | `TwoFires` |
| `WebhookOutboxProofs` | `OutboxImplementsDelivery`, `OutboxNoEarlyDeath` | one replica (first) |
| `CampaignWizardProofs` | `HiddenAlwaysSurvive`, `GreenNeverLies`, `NeverAnUnaskedPut`, `PickerAlwaysAgrees` | none |
| `DistributionEditorProofs` | `GridAlwaysShowsServer`, `NeverALostDraft` | none |
| `MaterialUploadProofs` | `ScopeAlwaysKept`, `AskedAtMostOnce` | the drawer opens on links that were read (first) |

**The rule** (`SettlementProofs`, for every n and all finite sets). Row numbers are
positive and grow, so the winners inject into 1..n; a play that joins the set promotes
nobody. `SetRecursion` is the one induction over data of the project: a fold over a
finite set is the same whatever total function computes it. It is proved by taking a
smallest subset on which two folds differ, since the library's induction theorems
take an operator as parameter and cannot be instantiated.

**The engines** (`GridProofs`). Both engines count: the Go loop gives a place to a play
inside a slot when fewer than n precede it, the query when its row number is at most
n. A cell-day loaded in order is a list of its plays (`Lists`), ranks fill 0..k-1
(`RanksFill`), and the two goals are one sum (`SumType`, from `SetRecursion`), so the
verdicts meet play by play (`EnginesMeet`). They differ only when `detected_at` lies in
the fraction of a second after the tolerance (`NoneOnEdge` excludes it;
`MCGrid_fraction.cfg` shows it), so `StaleIsPending`, which compares what Go stored with
what SQL would store, needs the same. Its invariant has three more parts: what the
tables hold (`TablesOK`); which transactions may be in flight together, with which locks,
and that two writers of one cell-day without a lock between them have noted it
(`FlightsOK`); and that what a transaction has read of a cell-day it shares with nobody is
still so, or a recategorisation of it has yet to start (`Tells`). An edit asks after it
saves, so whatever it makes stale, in the tables or in the hands of a closing, has an
asked recategorisation; that one leaves `asked` only when it reads, which by then is the
new rules, and from there on either it is the last writer or the two have met. A rule
moved to another type breaks it (`MCGrid_retype.cfg`), and `exposed` cannot be left out
(`MCGrid_race.cfg`).

**The cell-days** (`CellDayProofs`, any number of plays, campaigns, types, days,
transactions, lines and operations). `AllSettled` is not inductive: a commit publishes
categories computed several steps earlier. `LockingInv` adds what carries the verdict
from the read to the commit: where each operation may be and what its job holds
(`JobInv`), that stored rows sit on their canonical projection and nowhere else
(`RowInv`), that two inserts never claim one row (`ClaimInv`), that the cells a
mutation read before locking are still the row's (`MutateInv`), that from its read
to its commit a transaction holds the key of every cell it will write
(`HoldInv`), and that the verdict it has staged is still the settlement of
the tables *as they will be* at its commit (`FreshInv`), which survives the steps of
others because they change only cells whose key they hold. `QuotaHolds` follows with
`SettleWithinQuota`. The restriction to insert, mutate and override is necessary: the
configurations `window`, `ignored` and `restored` violate these invariants as soon as
fan-out or reattribution joins in, and the unlocked recategoriser does so by its own
comment.

**The locks** (`CellDayProofs`). All operations but the two that take no advisory
lock, fan-outs, reattributions, failures and crashes included. `MirrorInv` says that
a category is staged only for cell-days whose key is held (`StagedHeld`), that a play is
placed with its category staged (`PutStaged`), and that the base rows an override's first
UPDATE passed over have the staged category already (`BaseLeft`), so the commit keeps both
rows equal. The recategoriser of a campaign does the same under no key, and
`MCCellDay_base_drift.cfg` shows that base and projection then part for good. `OrderInv`
says that the keys a transaction still wants all come after those it holds. In a smallest
circle of waits, the transaction that waits for the first key of all is waited for by
nobody, and the circle without it is smaller. A batch of several lines starts over with
a smaller key, which is what the run `batch` violates.

**The airing** (`CutsProofs`). Two facts carry the invariant `CutsInv`. A confirmation
is in one place at a time (`OnePlace`), and no correction starts before the airing is
over. And when c is what aired, its own row is never rejected and keeps its cut
(`Course`), since c wins every comparison in whatever order the siblings are folded
(`OnlyWinner`); a row of another cut can be heading for c only, and may carry c only
while c's own row is out of the count (`Towards`). When no look-up or INSERT
but these has failed, a row that kept another cut is retracted or rejected
(`Corrected`), hence once and for the right cut; when all rows were written, some row
still has a way to be counted (`Hopes`: c stands, or the other row is on its way to
it), which while nothing has been audited is that whatever the supervisor dropped it
dropped for a cut still published (`Published`). `TwoFires` is needed because two
rows of other cuts can both take the place of a suppressed winner
(`MCCuts_three.cfg`). TLC checked `CutsInv` on the airings of the run `cuts`, with up
to five faults, before it was proved.

**The outbox** (`WebhookOutboxProofs`). A claimed row is pending and claimed once
(`Exclusive`), an outcome held is of a claim of the batch and an "ok" means the client
has the event (`Honest`), and `Phases` says where a batch and an outcome may exist;
every step then maps to a step of `Delivery` or to none. One replica is necessary: a
claim does not change the row, so two may hold it (`MCOutbox_dispute.cfg`), and the late
record of one rewrites what the other settled. `OutboxNoEarlyDeath` needs no such
assumption: while the client keeps its URL, a row, a claim however stale, and an outcome
never count more attempts than were posted.

**The wizard** (`CampaignWizardProofs`). `IInv` carries the hidden stations of a campaign
through every place a list waits: the read in flight, the cached copy, the list the timer
holds and the requests under way. `Rest` says that the history in the check is what the
check says of the link (`ConfTrue`: a good link had both sides of the client it was asked
for), that every write has its edit (`EditsOK`), and that the flags are flags (`FlagsOK`);
`ShowInv` that the last of the saves in flight is what the page shows.

**The editor** (`DistributionEditorProofs`). `Fresh` says what each key of the cache owes
the server, unless an answer is still due, and `Marked` that a marked key is never on the
screen without a read under way; drafts change by a click, a discard or the count that
the server took (`DraftsOK`).

**The upload** (`MaterialUploadProofs`). A link may be written over nothing or over every
station without loss (`Free`), and what is free stays so while the drawer is open.
`ScopeInv` says that the list shows every link that is not free (`Shown`), that a run
means to link only what is free, be it picked, unknown to the list or followed since it
was added (`Running`, `Followed`), and that the browser waits for one upload, whose new
row is nobody's link (`Answering`, `LinkedExist`). `Shown` is where the hypothesis is
needed: before its first answer the list reads as empty (`MCUpload_early.cfg`). The
question is asked from the list, and the list knows every acceptance because the decision
waits for the refetch (`AckSeen`).

The `ASSUME`s about a value outside the data (`NoneIsNoValue`, `CountsOK`, `UploadAssumption`) only say that
the sentinel of the model is none of the values; finite sets stand for tables and queues.

**Only model-checked**: all liveness (`Converges`, `PendingEnds` as part of the refinement,
`CommitEnds`, `CheckEnds`, `SimilarAsked`), which is outside the prover's reach, and the
instances that the hypotheses above exclude.

## 6. Not modelled, and why

* Material without a type: no cell, its verdict depends on itself alone.
* Exact ties of `detected_at` inside one cell: the code documents that the two
  engines may choose differently (`detections.go:324-331`); `GridAssumption`
  forbids them.
* Row-lock deadlocks from the physical order of an UPDATE, documented as open at
  `distribution_rules.go:492-499`; the model locks a statement's rows at once.
* More than one secondary campaign per airing, more than one station: keys, cells
  and rules all carry the station, so stations do not interact.
* `RecategorizeForMaterial` (a material changing type; its limit is documented at
  `distribution_rules.go:657-664`) and edits of a campaign's dates.
* Over-attribution by the wide recategoriser (`in_slot > N` until the next
  closing, documented at `distribution_rules.go:602-619`) is not reached in the small
  instance of `heal`. What `heal` shows is that stale verdicts, whatever they are, end
  with the reconciler; `MCGrid_race.cfg` shows how one arises.
* Why a link is broken (missing, in an empty duplicate, blocked) and what another
  pair's `ligar` does to it later: a link that was true when the server said so may be
  moved away afterwards, so `GreenIsTrue` speaks of that moment. A green box without a
  link verdict speaks of the hub's owner only; the code wants it so
  (`BasicDataStep.jsx:325-344`), and `MCWizard_silent.cfg` shows that such a client need
  not be linked. Two POSTs of one pair are one.
* Twins that the clip covers alike: nothing in `Aired` decides between them, so the
  properties of the run `cuts` do not speak of the twin step (`disambiguateTwin`,
  `MarkAmbiguous`). It is modelled, and what it does not keep is shown by
  `MCCuts_twin.cfg` and `MCCuts_ambiguous.cfg`.
* Cuts: what a clip's coverage is and when the matcher confirms (numeric; every
  combination is tried). More than two confirmations of one airing: with three,
  two rejected rows can both take the place of a suppressed winner
  (`MCCuts_three.cfg`); `MaxFires` keeps the run to the case the code's
  comments are about. Rows left pending by a restart have no goroutine any more
  and are not audited again; `AtMostOnce` and `RightCut` speak of audited rows.
* Outbox: duplicates before the outbox (each replica subscribes on its own) and
  events heard while the INSERT fails; the address filter of `safehttp.go`.
* Wizard: dates and the name are one field, steps 5 and 6 change none of this
  state, the day modal and batches opened from step 4 are left out; so are
  filters, dialogs and layout. Of the upload, the metadata edits of a card.
* The components marked "planned" and "not modelled" in section 1.

**Coverage of the source.** The client in `src/frontend` is by far the largest
part, some 180 files and 52 800 lines, most of them markup, styles and formatting
with no state that a property could be about. The modules cover the four steps of
the wizard, where requests, timers and user actions interleave, and the Go workers,
where the state of the system is decided. The share of the client's lines that a
definition stands for is therefore small, and the other screens (lists, charts,
dialogs over one query each) would not add a property to it.

## 7. Disagreements between code and comments

Each run below has an entry under `findings` in `PROJECT.json`.

| Run | What happens |
|---|---|
| `batch` | a manual batch locks line by line, between inserts, in the caller's order |
| `cuts_lost` | a rejected row leaves the airing to the winner's row, which is itself rejected, or retracted before its clip was stored: nothing is counted (`evidence/reject_recovery.go:44`; lines 20 and 58 say the airing is then already counted) |
| `masters` | masters are named by their audio and shared by clients, the dedup of one client removes the file another's material uses (`api/handlers/materials.go:243`) |

Further configurations show one divergence each; TLC reports the property named
as violated.

| Configuration, module | Property | What happens |
|---|---|---|
| `MCCellDay_base_drift.cfg`, `MCCellDay` | `BaseConverges` | a wide recategorisation racing a closing leaves base row and canonical projection different, and nothing repairs it: the reconciler compares projections only (`catalog/distribution_rules.go:614`) |
| `MCCellDay_shared.cfg` | `UnrejectTouchesOneCell` | un-rejecting a fanned-out play changes the secondary campaign's cell too, which nobody closes (`catalog/detections.go:2053`) |
| `MCCellDay_window.cfg` | `WithinQuota` | `CategorizeFor` unlocks before its projection is inserted: two fan-outs both take the last place (`catalog/detections.go:192`, `:277`) |
| `MCCellDay_ignored.cfg` | `AllSettled` | reattributing an ignored play counts it in the destination (`catalog/detections.go:1030`, `:512`) |
| `MCCellDay_restored.cfg` | `WithinQuota` | a restore that read its cells before a reattribution closes the wrong cell (`catalog/detections.go:525`, `:1010`) |
| `MCGrid_fraction.cfg`, `MCGrid` | `EnginesAgree` | the Go engine truncates to seconds at the edge of the tolerance, the SQL one does not (`catalog/distribution_rules.go:379`, `:290`) |
| `MCGrid_retype.cfg` | `StaleIsPending` | a rule moved to another type leaves the old type's cells stale (`catalog/distribution_rules.go:216`, `:210`) |
| `MCGrid_race.cfg` | `StaleIsOnTheWay` | a closing holds the old rules while a rule is saved and recategorised without its play, then commits: a stale category with nothing on its way and no failure (`catalog/distribution_rules.go:602-617`, the "RISCO RESIDUAL"; `detections.go:310`) |
| `MCCuts_ambiguous.cfg`, `MCCuts` | `AmbiguousStaysOut` | the upload writes `available` over `ambiguous`, and the recovery of a rejected sibling then takes the retraction back: an airing nobody reviewed counts (`evidence/service.go:435`; `catalog/detections.go:2010` says it counts nowhere) |
| `MCCuts_twin.cfg` | `HeardTwinCounts` | of twins covered alike the comparison by coverage picks the smaller id before the twin step can hear the region, which then does not run (`evidence/service.go:529-543`, `disambig_coverage.go:31`) |
| `MCOutbox_dispute.cfg`, `WebhookOutbox` | `NoDispute` | two replicas hold one row: the lock goes with the commit of the claim, before the POST (`src/docs/features/webhooks.md:36`) |
| `MCOutbox_garbled.cfg` | `PendingEnds` | an answer that is no text once cut at 4 KB can never be stored: the event is posted for ever (`webhook/worker.go:247`, `:24`) |
| `MCEditor_window.cfg`, `MCEditor` | `CommitKeepsWindow` | a draft of another month is committed without a look at that month's overrides: an override gets the rule's window (`DistributionStep.jsx:244`) |
| `MCWizard_typing.cfg`, `CampaignWizard` | `TypingIsKept` | a refetch that differs rewrites the form over what was typed (`BasicDataStep.jsx:61-70`, which says so of its own case) |
| `MCWizard_undo.cfg` | `LastSelectionSaved` | a station toggled back while its save is under way equals the cached list, counts as settled, and the server keeps the first toggle (`StationsStep.jsx:89`) |
| `MCWizard_silent.cfg` | `GreenIsLinked` | an answer without a link verdict turns the box green for a client that is not linked (`api/handlers/hubcodes.go:128-163`, `BasicDataStep.jsx:325`); deliberate, and worth knowing |
| `MCWizard_stuck.cfg` | `CheckAlwaysEnds` | `ligar` answers a check that had no link after the client was changed: the effect that asks again does not depend on the link, and "Conferindo" stays until the field is touched again (`BasicDataStep.jsx:198-203`) |
| `MCWizard_loading.cfg` | `ArrivalLosesNothing` | a station picked from the search before the catalogue is there marks an edit over an empty picture; when the catalogue arrives the stations nobody could see count as removed (`stationsSavePlan.js:13-17`, `StationsStep.jsx:38-46`) |
| `MCUpload_early.cfg`, `MCUpload` | `ScopeKept` | the drawer opened before the links of the campaign are read takes every material for unlinked: reusing or picking one that is linked gives it every station (`MaterialsStep.jsx:25`, `:205`) |
