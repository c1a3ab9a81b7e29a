------------------------- MODULE CutDisambiguation -------------------------
(* One airing heard by one station, and the cuts of one client that the     *)
(* matcher confirms for it.  The supervisor keeps one of them               *)
(* (supervisor/disambiguation.go, dedup_buffer.go), the evidence service    *)
(* writes a row for each cut the supervisor publishes, and once the clip is *)
(* on disk it audits the row and corrects the supervisor's choice           *)
(* (evidence/service.go, cofire_guard.go, reject_recovery.go).  The three   *)
(* work on the rows at the same time: what one of them read may be stale    *)
(* when it writes.                                                          *)
EXTENDS Integers, FiniteSets, Sequences, SequencesExt

CONSTANTS
    Cuts, NoCut,      \* the client's masters; a detection is named by its cut
    Duration,         \* [Cuts -> Nat], in the unit of world.start
    ShortID,          \* [Cuts -> Nat], distinct
    Twins,            \* cuts with a row in material_twin_discriminative
    Coverages,        \* levels of audit coverage a clip can reach
    MinCoverage,      \* audit.DefaultMinCoverage, as a level
    ConfidenceAware,  \* DISAMBIG_CONFIDENCE_AWARE
    RetractAmbiguous, \* DISAMBIG_TWIN_RETRACT_AMBIGUOUS
    Worlds,           \* the airings considered: see WorldType
    MaxFaults         \* bound: kinds of fault in one behaviour

ASSUME CutsAssumption ==
    /\ Duration \in [Cuts -> Nat \ {0}]
    /\ ShortID \in [Cuts -> Nat]
    /\ \A c, d \in Cuts : ShortID[c] = ShortID[d] => c = d
    /\ Twins \subseteq Cuts
    /\ \A c, d \in Twins : Duration[c] = Duration[d]
    /\ IsFiniteSet(Cuts)
    /\ Coverages \subseteq Nat /\ MinCoverage \in Nat \ {0}
    /\ MaxFaults \in Nat
    /\ NoCut \notin Cuts

(* What the airing sounds like: which cuts the matcher confirms for it, when *)
(* each seems to start, of which it is materially more confident, how much  *)
(* of each master the clip covers, whether the clip clears the audit of     *)
(* each, and which twin's discriminative region the clip contains.          *)
WorldType == [ fires  : SUBSET Cuts,
               start  : [Cuts -> Int],
               sure   : SUBSET Cuts,
               cov    : [Cuts -> Coverages],
               passes : SUBSET Cuts,
               heard  : Twins \cup {NoCut} ]

ASSUME WorldsAssumption == Worlds \subseteq WorldType

VARIABLES
    world,      \* the airing; never changes
    quiet,      \* cuts that have not confirmed
    pending,    \* detections.pending: confirmations on their way to the supervisor
    buffer,     \* DedupBuffer.entries
    swap,       \* the supervisor between retracting a cut and publishing another
    confirmed,  \* detections.confirmed: on their way to the evidence service
    row,        \* the row each detection wrote
    job,        \* the processEvidence goroutine of each detection
    faults      \* what has gone wrong, each kind at most once

FaultKinds == {"lookup", "insert", "evidence", "audit", "restart"}
vars == <<world, quiet, pending, buffer, swap, confirmed, row, job, faults>>
heard == <<world, quiet>>
bus   == <<pending, buffer, swap, confirmed>>

NoRow  == [cut |-> NoCut, status |-> "none", retracted |-> FALSE]
Status == {"none", "pending", "available", "failed", "missing", "audit_rejected", "ambiguous"}
Steps  == {"none", "wait", "compare", "clear", "retract", "reattribute", "upload",
           "displaced", "restore", "recover", "unretract", "take", "done"}
Job(step, win, other) == [step |-> step, win |-> win, other |-> other]
Idle == Job("none", NoCut, NoCut)

TypeOK ==
    /\ world \in Worlds
    /\ quiet \subseteq Cuts
    /\ \A q \in {pending, buffer, confirmed} : q \in Seq(Cuts)
    /\ swap \in [out : Cuts \cup {NoCut}, by : Cuts \cup {NoCut}]
    /\ row \in [Cuts -> [cut : Cuts \cup {NoCut}, status : Status, retracted : BOOLEAN]]
    /\ job \in [Cuts -> [step : Steps, win : Cuts \cup {NoCut}, other : Cuts \cup {NoCut}]]
    /\ faults \subseteq FaultKinds

Init ==
    /\ world \in Worlds
    /\ quiet = world.fires
    /\ pending = <<>> /\ buffer = <<>> /\ confirmed = <<>>
    /\ swap = [out |-> NoCut, by |-> NoCut]
    /\ row = [d \in Cuts |-> NoRow]
    /\ job = [d \in Cuts |-> Idle]
    /\ faults = {}

-----------------------------------------------------------------------------
(* The rules                                                                *)

\* The row is in the approved set (ApprovedDetectionsFilter).
Counts(r) == r.cut # NoCut /\ ~r.retracted /\ r.status \notin {"audit_rejected", "ambiguous"}
\* What the evidence service takes for it.
detectionCounts(r) == ~r.retracted /\ r.status # "audit_rejected"

\* The broadcast windows of two cuts overlap.
Overlap(c, d) ==
    /\ world.start[c] < world.start[d] + Duration[d]
    /\ world.start[d] < world.start[c] + Duration[c]

\* The first entry of the buffer that overlaps c: a set of at most one cut.
Find(c) ==
    { buffer[i] : i \in { k \in 1..Len(buffer) :
                            /\ Overlap(c, buffer[k])
                            /\ \A j \in 1..(k - 1) : ~Overlap(c, buffer[j]) } }

\* Cut c wins over a published cut: by confidence when the flag is on, else
\* the longer one, else the smaller short id.
Longer(c, d) == Duration[c] > Duration[d] \/ (Duration[c] = Duration[d] /\ ShortID[c] < ShortID[d])
Displaces(c, d) ==
    IF ConfidenceAware /\ (c \in world.sure) # (d \in world.sure)
    THEN c \in world.sure
    ELSE Longer(c, d)

\* Mutant of ChooseByCoverage: the longer cut, whatever the clip holds.
ChooseByDuration(a, b) == IF Longer(a, b) THEN a ELSE b

\* The cut with the larger coverage, if larger by half; else the longer cut.
ChooseByCoverage(a, b) ==
    LET hi == IF world.cov[b] > world.cov[a] THEN b ELSE a
        lo == IF hi = b THEN a ELSE b
    IN  IF world.cov[lo] = 0 \/ 2 * world.cov[hi] >= 3 * world.cov[lo] THEN hi
        ELSE IF Longer(a, b) THEN a ELSE b

\* The winner among c and its siblings, whatever the order the catalogue
\* lists them in.
Winners(c) == { FoldLeft(ChooseByCoverage, c, s) : s \in SetToSeqs(Cuts \ {c}) }

\* The rows now attributed to cut c; all are within a minute of each other.
RowsOf(c) == { e \in Cuts : row[e].cut = c }
\* A fault of this kind.
Fails(kind) == /\ kind \notin faults /\ Cardinality(faults) < MaxFaults
               /\ faults' = faults \cup {kind}
-----------------------------------------------------------------------------
(* Matcher and supervisor                                                   *)

\* A state machine confirms a cut and the worker publishes it.
Confirm(c) ==
    /\ c \in quiet
    /\ quiet' = quiet \ {c}
    /\ pending' = Append(pending, c)
    /\ UNCHANGED <<world, buffer, swap, confirmed, row, job, faults>>

\* SubmitDetection, no conflict: remembered and published.
Publish ==
    /\ swap.by = NoCut /\ pending # <<>>
    /\ LET c == Head(pending)
       IN  /\ Find(c) = {}
           /\ buffer' = Append(buffer, c)
           /\ confirmed' = Append(confirmed, c)
    /\ pending' = Tail(pending)
    /\ UNCHANGED <<world, quiet, swap, row, job, faults>>

\* SubmitDetection, the published cut is kept.
Suppress ==
    /\ swap.by = NoCut /\ pending # <<>>
    /\ LET c == Head(pending) IN \E d \in Find(c) : ~Displaces(c, d)
    /\ pending' = Tail(pending)
    /\ UNCHANGED <<world, quiet, buffer, swap, confirmed, row, job, faults>>

\* SubmitDetection, the newcomer wins: the row of the published cut is
\* retracted, if it is there already ...
Retract ==
    /\ swap.by = NoCut /\ pending # <<>>
    /\ LET c == Head(pending)
       IN  \E d \in Find(c) :
             /\ Displaces(c, d)
             /\ swap' = [out |-> d, by |-> c]
             /\ row' = [e \in Cuts |-> IF e = d /\ row[e].cut = e
                                       THEN [row[e] EXCEPT !.retracted = TRUE] ELSE row[e]]
    /\ pending' = Tail(pending)
    /\ UNCHANGED <<world, quiet, buffer, confirmed, job, faults>>

\* ... then the newcomer takes its entry of the buffer and is published.
Replace ==
    /\ swap.by # NoCut
    /\ buffer' = [i \in DOMAIN buffer |-> IF buffer[i] = swap.out THEN swap.by ELSE buffer[i]]
    /\ confirmed' = Append(confirmed, swap.by)
    /\ swap' = [out |-> NoCut, by |-> NoCut]
    /\ UNCHANGED <<world, quiet, pending, row, job, faults>>

\* LookupForDedup fails: published with no regard to the buffer.
LookupFails ==
    /\ Fails("lookup")
    /\ swap.by = NoCut /\ pending # <<>>
    /\ confirmed' = Append(confirmed, Head(pending))
    /\ pending' = Tail(pending)
    /\ UNCHANGED <<world, quiet, buffer, swap, row, job>>
-----------------------------------------------------------------------------
(* Evidence service                                                         *)

Set(d, r, j) == /\ row' = [row EXCEPT ![d] = r]
                /\ job' = [job EXCEPT ![d] = j]
Step(d, j)   == job' = [job EXCEPT ![d] = j] /\ UNCHANGED row

\* handle: the row is written as pending and its clip is waited for.
Insert ==
    /\ confirmed # <<>>
    /\ LET d == Head(confirmed)
       IN  Set(d, [cut |-> d, status |-> "pending", retracted |-> FALSE], Job("wait", NoCut, NoCut))
    /\ confirmed' = Tail(confirmed)
    /\ UNCHANGED <<heard, pending, buffer, swap, faults>>

\* handle gives up: no attribution, or the INSERT fails.
InsertFails ==
    /\ Fails("insert")
    /\ confirmed # <<>>
    /\ confirmed' = Tail(confirmed)
    /\ UNCHANGED <<heard, pending, buffer, swap, row, job>>

\* The confirmations of the airing have all been handled.
Over == quiet = {} /\ pending = <<>> /\ swap.by = NoCut /\ confirmed = <<>>

\* The clip ends a minute after the cut does and the goroutine sleeps until
\* then: by that time the airing is over.
ClipReady(d) == job[d].step = "wait" /\ Over

\* The audit passes and another cut covers the clip better.
AuditBeaten(d) ==
    /\ ClipReady(d) /\ d \in world.passes
    /\ \E w \in Winners(d) \ {d} : Step(d, Job("compare", w, NoCut))
    /\ UNCHANGED <<heard, bus, faults>>

\* The audit passes, the cut stands, and it has no twin or its own
\* discriminative region is in the clip.
AuditStands(d) ==
    /\ ClipReady(d) /\ d \in world.passes
    /\ d \in Winners(d)
    /\ d \in Twins => world.heard = d
    /\ Step(d, Job("upload", NoCut, NoCut))
    /\ UNCHANGED <<heard, bus, faults>>

\* disambiguateTwin: the clip holds the region of the twin, or of neither.
AuditTwin(d) ==
    /\ ClipReady(d) /\ d \in world.passes \cap Twins
    /\ d \in Winners(d) /\ world.heard # d
    /\ IF world.heard # NoCut THEN Step(d, Job("compare", world.heard, NoCut))
       ELSE Set(d, IF RetractAmbiguous THEN [row[d] EXCEPT !.status = "ambiguous", !.retracted = TRUE]
                   ELSE row[d],
                Job("upload", NoCut, NoCut))
    /\ UNCHANGED <<heard, bus, faults>>

\* The audit rejects the clip.
AuditRejects(d) ==
    /\ ClipReady(d) /\ d \notin world.passes
    /\ Set(d, [row[d] EXCEPT !.status = "audit_rejected"], Job("displaced", NoCut, NoCut))
    /\ UNCHANGED <<heard, bus, faults>>

\* Mutants of Cofire: the winner's row is not looked at, or any row is as good
\* as a counted one.
CofireMoves(d, w, e) == Job("reattribute", w, NoCut)
CofireAnyRow(d, w, e) == Job("retract", w, e)

\* decideCofireAction on the row of the winner.
Cofire(d, w, e) ==
    IF detectionCounts(row[e]) THEN Job("retract", w, e)
    ELSE IF row[e].retracted /\ row[e].status = "available" THEN Job("clear", w, e)
    ELSE Job("reattribute", w, NoCut)

\* FindSiblingDetectionInWindow and the decision.
Compare(d) ==
    /\ job[d].step = "compare"
    /\ LET w == job[d].win
       IN  IF RowsOf(w) = {} THEN Step(d, Job("reattribute", w, NoCut))
           ELSE \E e \in RowsOf(w) : Step(d, Cofire(d, w, e))
    /\ UNCHANGED <<heard, bus, faults>>

\* ClearRetraction of the winner, a transaction of its own ...
ClearWinner(d) ==
    /\ job[d].step = "clear"
    /\ LET e == job[d].other
       IN  /\ row' = [row EXCEPT ![e].retracted = FALSE]
           /\ job' = [job EXCEPT ![d].step = "retract"]
    /\ UNCHANGED <<heard, bus, faults>>

\* ... RetractByID of the duplicate.
RetractSelf(d) ==
    /\ job[d].step = "retract"
    /\ Set(d, [row[d] EXCEPT !.retracted = TRUE], Job("upload", NoCut, NoCut))
    /\ UNCHANGED <<heard, bus, faults>>

\* ReattributeDetection.
Reattribute(d) ==
    /\ job[d].step = "reattribute"
    /\ Set(d, [row[d] EXCEPT !.cut = job[d].win], Job("upload", NoCut, NoCut))
    /\ UNCHANGED <<heard, bus, faults>>

\* The clip is stored; its status is written over whatever is there.
Upload(d) ==
    /\ job[d].step = "upload"
    /\ Set(d, [row[d] EXCEPT !.status = "available"], Job("done", NoCut, NoCut))
    /\ UNCHANGED <<heard, bus, faults>>

\* RestoreDisplacedShorterCut, its SELECT: a retracted shorter cut whose clip
\* is stored.
Displaced(d) ==
    /\ job[d].step = "displaced"
    /\ LET found == { e \in Cuts : /\ row[e].retracted /\ row[e].status = "available"
                                   /\ Duration[row[e].cut] < Duration[row[d].cut] }
       IN  IF found = {} THEN Step(d, Job("recover", NoCut, NoCut))
           ELSE \E e \in found : Step(d, Job("restore", NoCut, e))
    /\ UNCHANGED <<heard, bus, faults>>

\* Its guarded UPDATE; a lost race falls through to the coverage recovery.
Restore(d) ==
    /\ job[d].step = "restore"
    /\ LET e == job[d].other
       IN  IF row[e].retracted
           THEN /\ row' = [row EXCEPT ![e].retracted = FALSE]
                /\ job' = [job EXCEPT ![d] = Job("done", NoCut, NoCut)]
           ELSE Step(d, Job("recover", NoCut, NoCut))
    /\ UNCHANGED <<heard, bus, faults>>

\* decideRejectRecovery on the row of the winner.
Recovery(w, e) ==
    IF row[e].retracted /\ row[e].status = "available" THEN Job("unretract", w, e)
    ELSE Job("done", w, e)

\* recoverRejectedByCoverage: the comparison and the look-up.
Recover(d) ==
    /\ job[d].step = "recover"
    /\ \E w \in Winners(d) :
           IF w = d \/ world.cov[w] < MinCoverage THEN Step(d, Job("done", NoCut, NoCut))
           ELSE IF RowsOf(w) = {} THEN Step(d, Job("take", w, NoCut))
           ELSE \E e \in RowsOf(w) : Step(d, Recovery(w, e))
    /\ UNCHANGED <<heard, bus, faults>>

\* ClearRetraction of the winner's row.
Unretract(d) ==
    /\ job[d].step = "unretract"
    /\ row' = [row EXCEPT ![job[d].other].retracted = FALSE]
    /\ job' = [job EXCEPT ![d] = Job("done", NoCut, NoCut)]
    /\ UNCHANGED <<heard, bus, faults>>

\* ReattributeRejectedDetection, guarded by the status.
Take(d) ==
    /\ job[d].step = "take"
    /\ Set(d, IF row[d].status = "audit_rejected"
              THEN [row[d] EXCEPT !.cut = job[d].win, !.status = "missing"] ELSE row[d],
           Job("done", NoCut, NoCut))
    /\ UNCHANGED <<heard, bus, faults>>

\* No segment, a failed encode or a failed upload.
EvidenceFails(d) ==
    /\ Fails("evidence")
    /\ ClipReady(d) \/ job[d].step = "upload"
    /\ Set(d, [row[d] EXCEPT !.status = "failed"], Job("done", NoCut, NoCut))
    /\ UNCHANGED <<heard, bus>>

\* The audit cannot run: the clip is stored as it is.
AuditFails(d) ==
    /\ Fails("audit")
    /\ ClipReady(d)
    /\ Step(d, Job("upload", NoCut, NoCut))
    /\ UNCHANGED <<heard, bus>>

\* The process restarts: the messages it had not handled, the buffer and the
\* goroutines are gone.  Only the rows stay.
Restart ==
    /\ Fails("restart")
    /\ pending' = <<>> /\ buffer' = <<>> /\ confirmed' = <<>>
    /\ swap' = [out |-> NoCut, by |-> NoCut]
    /\ job' = [d \in Cuts |-> IF job[d].step = "none" THEN Idle ELSE Job("done", NoCut, NoCut)]
    /\ UNCHANGED <<heard, row>>

Audit(d) == AuditBeaten(d) \/ AuditStands(d) \/ AuditTwin(d) \/ AuditRejects(d)
Correct(d) ==
    \/ Compare(d) \/ ClearWinner(d) \/ RetractSelf(d) \/ Reattribute(d) \/ Upload(d)
    \/ Displaced(d) \/ Restore(d) \/ Recover(d) \/ Unretract(d) \/ Take(d)
Supervise == Publish \/ Suppress \/ Retract \/ Replace
Fault == LookupFails \/ InsertFails \/ Restart \/ \E d \in Cuts : EvidenceFails(d) \/ AuditFails(d)

Next ==
    \/ Supervise \/ Insert \/ Fault
    \/ \E d \in Cuts : Confirm(d) \/ Audit(d) \/ Correct(d)

Spec == Init /\ [][Next]_vars

-----------------------------------------------------------------------------
(* Properties                                                               *)

\* Nothing is left to do about the airing.
Settled == Over /\ \A d \in Cuts : job[d].step \in {"none", "done"}

Counted == { d \in Cuts : Counts(row[d]) }

\* c is what aired: the matcher confirmed it, its clip clears the audit and
\* covers it beyond doubt (of twins covered alike speaks HeardTwinCounts).
Aired(c) == /\ c \in world.fires \cap world.passes /\ world.cov[c] >= MinCoverage
            /\ \A d \in Cuts \ {c} : 2 * world.cov[c] >= 3 * world.cov[d]
            /\ c \in Twins => world.heard = c
Known == \E c \in Cuts : Aired(c)

\* Every row there is has gone through its audit.
AllAudited == Settled /\ faults \subseteq {"lookup", "insert"}

\* One airing is counted once: whatever order supervisor, audits and
\* corrections work in, two cuts of it never both end in the approved set
\* (section 18.2.2).  It is two cuts' worth of confirmations: with three the
\* corrections can count it twice.
AtMostOnce == AllAudited /\ Known => Cardinality(Counted) <= 1

\* What is counted is attributed to the cut that aired.
RightCut == AllAudited => \A c \in Cuts : Aired(c) => \A d \in Counted : row[d].cut = c

\* An airing whose rows were all written is counted, unless a rejected row
\* found the winner's row present and left it at that (RecoverySkip).
LostOnlyBySkip ==
    Settled /\ faults \subseteq {"lookup"} /\ Known /\ Counted = {}
        => \E d \in Cuts : row[d].status = "audit_rejected" /\ job[d].other # NoCut

\* decideRejectRecovery: "a veiculacao ja esta contada" when the recovery
\* leaves the winner's row as it is.
NotLost == Settled /\ faults = {} /\ Known => Counted # {}

\* A row whose clip tells no twin apart stays out of the count until somebody
\* reviews it (MarkAmbiguous: "a deteccao nao conta em LUGAR nenhum").
AmbiguousStaysOut ==
    Settled /\ faults = {} /\ RetractAmbiguous /\ world.heard = NoCut =>
        \A d \in Twins \cap world.passes :
            job[d].step = "done" /\ Winners(d) = {d} => ~Counts(row[d])

\* Of twins that the clip covers alike, the one whose region is heard is what
\* counts ("credita o material errado" is the problem disambiguateTwin solves).
HeardTwinCounts ==
    Settled /\ faults = {} =>
        \A c \in Twins \cap world.fires \cap world.passes :
            /\ world.heard = c /\ world.cov[c] >= MinCoverage
            /\ \A d \in Cuts \ {c} : IF d \in Twins THEN world.cov[d] = world.cov[c]
                                     ELSE 2 * world.cov[c] >= 3 * world.cov[d]
            => \A d \in Counted : row[d].cut = c

\* RetractSelf takes a row out of the count only when another row of the
\* airing is in it at that moment (cofire_guard.go: never both retracted).
KeepsOne(d) == Known /\ RetractSelf(d) => \E e \in Cuts : Counts(row'[e])
CofireKeepsOne == [][\A d \in Cuts : KeepsOne(d)]_vars
=============================================================================
