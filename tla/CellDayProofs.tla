---------------------------- MODULE CellDayProofs ----------------------------
(***************************************************************************)
(* Theorems about CellDay for every set of plays, campaigns, types, days,  *)
(* concurrent transactions and goals.  First the insertions, mutations and *)
(* overrides: cells stay settled and within their quota.  Then every       *)
(* operation that takes the advisory locks: the base row and its canonical *)
(* projection stay equal, categories are written only under the key of     *)
(* their cell-day, and no transactions wait for one another in a circle.   *)
(***************************************************************************)
EXTENDS CellDay, SettlementProofs, SequenceTheorems

-----------------------------------------------------------------------------
(* Types. *)

PutType     == [Detections -> Cells \cup {NoCell}]
VerdictType == [Detections -> [Campaigns -> Categories \cup {NoCat}]]

\* Category 0 is no cell: no campaign is numbered 0.
LEMMA NoCellIsNone == NoCell \notin Cells
BY CellDayAssumption DEF NoCell, Cells

LEMMA NoJobType == NoJob \in JobType
BY DEF NoJob, JobType, NoPut, Lines

\* What a closing stages is a verdict, whatever it read.
LEMMA CloseType ==
  ASSUME NEW t, NEW cells, NEW put
  PROVE  Close(t, cells, put) \in VerdictType
<1> DEFINE cell(d, c) == Seat(t, d, c, put)
           g(d, c) == IF cell(d, c) \in cells /\ d \in Read(t, cell(d, c), put)
                      THEN SettleCell(cell(d, c), Read(t, cell(d, c), put))[d] ELSE NoCat
<1>1. ASSUME NEW d, NEW c PROVE g(d, c) \in Categories \cup {NoCat}
  <2>1. SettleCell(cell(d, c), Read(t, cell(d, c), put)) \in [Read(t, cell(d, c), put) -> Categories]
    BY SettleType DEF SettleCell
  <2> QED
    BY <2>1
<1>2. Close(t, cells, put) = [d \in Detections |-> [c \in Campaigns |-> g(d, c)]]
  BY DEF Close
<1> HIDE DEF g
<1> QED
  BY <1>1, <1>2 DEF VerdictType

LEMMA OverType ==
  ASSUME NEW v \in VerdictType, NEW w \in VerdictType
  PROVE  Over(v, w) \in VerdictType
BY DEF Over, VerdictType

\* The tables a transaction would leave have the types of the tables.
LEMMA AfterTypes ==
  ASSUME TypeOK, NEW t \in Txs
  PROVE  /\ ProjAfter(t) \in [Detections -> [Campaigns -> Types \cup {NoType}]]
         /\ HomeAfter(t) \in [Detections -> (Campaigns \X Types) \cup {NoHome}]
         /\ OutAfter(t) \in [Detections -> SUBSET Reasons]
<1>1. job[t] \in JobType /\ job[t].put \in PutType
  BY DEF TypeOK, JobType, PutType
<1>2. ASSUME NEW d \in Detections
      PROVE  job[t].put[d] = NoCell \/ (job[t].put[d][1] \in Campaigns /\ job[t].put[d][2] \in Types)
  BY <1>1 DEF PutType, Cells
<1>3. NoCell[1] \notin Campaigns
  BY CellDayAssumption DEF NoCell
<1>4. ProjAfter(t) \in [Detections -> [Campaigns -> Types \cup {NoType}]]
  BY <1>2, <1>3 DEF ProjAfter, TypeOK
<1>5. HomeAfter(t) \in [Detections -> (Campaigns \X Types) \cup {NoHome}]
  BY <1>2 DEF HomeAfter, TypeOK
<1>6. OutAfter(t) \in [Detections -> SUBSET Reasons]
  BY <1>1 DEF OutAfter, TypeOK, JobType
<1> QED
  BY <1>4, <1>5, <1>6

-----------------------------------------------------------------------------
(* Type correctness, one lemma per group of steps. *)

\* What the program counters say of the jobs; Head and the fan-out need it.
JobShape ==
  \A t \in Txs :
    /\ job[t].op = "insert" /\ pc[t] \in {"lock", "settle"} => job[t].todo # << >>
    /\ job[t].op = "insert" /\ pc[t] = "commit" => job[t].d \in Detections
    /\ job[t].op \in {"categorize", "resettle"} => job[t].to \in Cells /\ job[t].d \in Detections
    /\ pc[t] = "project" => job[t].op = "categorize"
    /\ pc[t] = "base" => job[t].op # "insert"
    /\ pc[t] = "idle" => job[t] = NoJob

\* A job as Begin creates it.
NewJob(j) == /\ j \in JobType
             /\ j.op = "insert" => j.todo # << >>
             /\ j.op \notin {"none", "categorize", "resettle"}

LEMMA StartType ==
  ASSUME TypeOK, JobShape, NEW t \in Txs, NEW j, NewJob(j), NEW keys \in SUBSET Keys,
         Start(t, j, keys), quota' \in [Cells -> Goals], budget' \in 0..MaxOps
  PROVE  TypeOK' /\ JobShape'
<1>1. TypeOK'
  BY DEF TypeOK, Start, db, NewJob
<1>2. JobShape'
  BY DEF TypeOK, Start, db, NewJob, JobShape
<1> QED
  BY <1>1, <1>2

LEMMA SpendType == ASSUME TypeOK, Spend PROVE budget' \in 0..MaxOps
BY CellDayAssumption DEF TypeOK, Spend

LEMMA KeyType == ASSUME NEW cell \in Cells PROVE Key(cell) \in Keys
BY DEF Cells, Keys, Key

LEMMA BeginType ==
  ASSUME TypeOK, JobShape, NEW t \in Txs, Begin(t)
  PROVE  TypeOK' /\ JobShape'
<1>0. quota \in [Cells -> Goals] /\ budget \in 0..MaxOps
  BY DEF TypeOK
<1>1. CASE BeginInsert(t)
  <2>0. PICK n \in 1..MaxBatch :
          \E ls \in [1..n -> Lines], fan \in Cells \cup {NoCell} :
            /\ Spend
            /\ Start(t, [NoJob EXCEPT !.op = "insert", !.to = fan, !.todo = ls],
                     {Key(ls[1][2])})
            /\ UNCHANGED quota
    BY <1>1 DEF BeginInsert
  <2>1. PICK ls \in [1..n -> Lines], fan \in Cells \cup {NoCell} :
          /\ Spend
          /\ Start(t, [NoJob EXCEPT !.op = "insert", !.to = fan, !.todo = ls],
                   {Key(ls[1][2])})
          /\ UNCHANGED quota
    BY <2>0
  <2>2. n \in Nat /\ 1 \in 1..n
    BY CellDayAssumption
  <2>3. ls \in Seq(Lines) /\ ls # << >>
    BY <2>2
  <2>4. NewJob([NoJob EXCEPT !.op = "insert", !.to = fan, !.todo = ls])
    <3> DEFINE j == [NoJob EXCEPT !.op = "insert", !.to = fan, !.todo = ls]
    <3>1. j \in JobType
      BY <2>3 DEF NoJob, JobType, NoPut
    <3>2. j.op = "insert" /\ j.todo = ls
      BY DEF NoJob
    <3> QED
      BY <3>1, <3>2, <2>3 DEF NewJob
  <2>5. {Key(ls[1][2])} \in SUBSET Keys
    BY <2>2, KeyType DEF Lines
  <2> QED
    BY <2>1, <2>4, <2>5, <1>0, SpendType, StartType
<1>2. CASE BeginMutate(t)
  <2>1. PICK d \in Detections, ch \in Changes :
          /\ Spend
          /\ Start(t, [NoJob EXCEPT !.op = "mutate", !.d = d, !.cells = AffectedCells(d),
                                    !.add = ch.add, !.del = ch.del],
                   {Key(cell) : cell \in AffectedCells(d)})
          /\ UNCHANGED quota
    BY <1>2 DEF BeginMutate
  <2>2. AffectedCells(d) \in SUBSET Cells
    BY DEF AffectedCells
  <2>3. ch.add \in SUBSET Reasons /\ ch.del \in SUBSET Reasons
    BY DEF Changes, RetractByID, ClearRetraction, Ignore, Restore,
        UpdateEvidence, MarkAmbiguous, Reasons
  <2>4. NewJob([NoJob EXCEPT !.op = "mutate", !.d = d, !.cells = AffectedCells(d),
                      !.add = ch.add, !.del = ch.del])
    BY <2>2, <2>3, NoJobType DEF NoJob, JobType, NewJob
  <2>5. {Key(cell) : cell \in AffectedCells(d)} \in SUBSET Keys
    BY <2>2, KeyType
  <2> QED
    BY <2>1, <2>4, <2>5, <1>0, SpendType, StartType
<1>3. ASSUME NEW d \in Detections, NEW to \in Cells, Movable(d, to)
      PROVE  CanonicalCell(d) \in Cells
  BY <1>3, CellDayAssumption DEF Movable, Exists, CanonicalCell, TypeOK, Cells
<1>4. CASE BeginReattribute(t)
  <2>1. PICK d \in Detections, to \in Cells :
          /\ Spend /\ Movable(d, to)
          /\ Start(t, [NoJob EXCEPT !.op = "reattribute", !.d = d, !.to = to,
                              !.from = CanonicalCell(d), !.put[d] = to],
                   {Key(CanonicalCell(d)), Key(to)})
          /\ UNCHANGED quota
    BY <1>4 DEF BeginReattribute
  <2>2. NewJob([NoJob EXCEPT !.op = "reattribute", !.d = d, !.to = to,
                      !.from = CanonicalCell(d), !.put[d] = to])
    BY <2>1, <1>3, NoJobType DEF NoJob, JobType, NoPut, NewJob
  <2>3. {Key(CanonicalCell(d)), Key(to)} \in SUBSET Keys
    BY <2>1, <1>3, KeyType
  <2> QED
    BY <2>1, <2>2, <2>3, <1>0, SpendType, StartType
<1>5. CASE BeginUnreject(t)
  <2>1. PICK d \in Detections, to \in Cells :
          /\ Spend /\ Movable(d, to)
          /\ Start(t, [NoJob EXCEPT !.op = "unreject", !.d = d, !.to = to,
                              !.from = CanonicalCell(d), !.put[d] = to,
                              !.del = {"audit_rejected"}],
                   {Key(to)})
          /\ UNCHANGED quota
    BY <1>5 DEF BeginUnreject
  <2>2. NewJob([NoJob EXCEPT !.op = "unreject", !.d = d, !.to = to,
                      !.from = CanonicalCell(d), !.put[d] = to,
                      !.del = {"audit_rejected"}])
    BY <2>1, <1>3, NoJobType DEF NoJob, JobType, NoPut, Reasons, NewJob
  <2>3. {Key(to)} \in SUBSET Keys
    BY KeyType
  <2> QED
    BY <2>1, <2>2, <2>3, <1>0, SpendType, StartType
<1>6. CASE BeginOverride(t)
  <2>1. PICK cell \in Cells, n \in Goals :
          /\ Spend
          /\ quota' = [quota EXCEPT ![cell] = n]
          /\ Start(t, [NoJob EXCEPT !.op = "override", !.to = cell, !.cells = {cell}],
                   {Key(cell)})
    BY <1>6 DEF BeginOverride
  <2>2. NewJob([NoJob EXCEPT !.op = "override", !.to = cell, !.cells = {cell}])
    BY NoJobType DEF NoJob, JobType, NewJob
  <2>3. quota' \in [Cells -> Goals]
    BY <2>1, <1>0
  <2> QED
    BY <2>1, <2>2, <2>3, <1>0, KeyType, SpendType, StartType
<1>7. CASE BeginRecat(t)
  <2>1. PICK c \in Campaigns :
          /\ Spend
          /\ Start(t, [NoJob EXCEPT !.op = "recat",
                              !.cells = {cell \in Cells : cell[1] = c}], {})
          /\ UNCHANGED quota
    BY <1>7 DEF BeginRecat
  <2>2. NewJob([NoJob EXCEPT !.op = "recat", !.cells = {cell \in Cells : cell[1] = c}])
    BY NoJobType DEF NoJob, JobType, NewJob
  <2> QED
    BY <2>1, <2>2, <1>0, SpendType, StartType
<1>8. CASE BeginHeal(t)
  <2>1. NewJob([NoJob EXCEPT !.op = "heal", !.cells = {cell \in Cells : cell[3] \in Recent}])
    BY NoJobType DEF NoJob, JobType, NewJob
  <2> QED
    BY <1>8, <2>1, <1>0, StartType DEF BeginHeal
<1> QED
  BY <1>1, <1>2, <1>4, <1>5, <1>6, <1>7, <1>8 DEF Begin

LEMMA EndType ==
  ASSUME TypeOK, JobShape, NEW t \in Txs, End(t)
  PROVE  /\ pc' \in [Txs -> {"idle", "lock", "settle", "base", "commit", "project"}]
         /\ job' \in [Txs -> JobType]
         /\ need' \in [Txs -> SUBSET Keys]
         /\ verdict' \in [Txs -> VerdictType]
         /\ JobShape'
<1>1. NoVerdict \in VerdictType
  BY DEF NoVerdict, VerdictType
<1> QED
  BY <1>1, NoJobType DEF TypeOK, JobShape, End, NoJob, VerdictType

LEMMA LockType ==
  ASSUME TypeOK, JobShape, NEW t \in Txs, Lock(t)
  PROVE  TypeOK' /\ JobShape'
<1>1. TypeOK'
  BY DEF TypeOK, Lock, db
<1>2. JobShape'
  BY DEF TypeOK, JobShape, Lock
<1> QED
  BY <1>1, <1>2

LEMMA SettleLineType ==
  ASSUME TypeOK, JobShape, NEW t \in Txs, SettleLine(t)
  PROVE  TypeOK' /\ JobShape'
<1> DEFINE j    == job[t]
           line == Head(j.todo)
           j2   == [j EXCEPT !.put[line[1]] = line[2], !.d = line[1],
                             !.cells = @ \cup {line[2]}, !.todo = Tail(@)]
           v    == Over(Close(t, {line[2]}, j2.put), verdict[t])
<1>1. j \in JobType /\ j.op = "insert" /\ j.todo \in Seq(Lines) /\ j.todo # << >>
  BY DEF TypeOK, JobShape, SettleLine, JobType
<1>2. line \in Lines /\ Tail(j.todo) \in Seq(Lines)
  BY <1>1
<1>3. line[1] \in Detections /\ line[2] \in Cells
  BY <1>2 DEF Lines
<1>4. j2 \in JobType /\ j2.op = "insert" /\ j2.d \in Detections
  BY <1>1, <1>2, <1>3 DEF JobType
<1>5. verdict[t] \in VerdictType
  BY DEF TypeOK, VerdictType
<1>6. v \in VerdictType
  BY <1>5, CloseType, OverType
<1>7. j2.todo # << >> => Key(Head(j2.todo)[2]) \in Keys
  <2>1. j2.todo = Tail(j.todo)
    BY <1>1 DEF JobType
  <2> QED
    BY <2>1, <1>2, KeyType DEF Lines
<1>8. /\ job' = [job EXCEPT ![t] = j2]
      /\ verdict' = [verdict EXCEPT ![t] = v]
      /\ need' = [need EXCEPT ![t] = IF j2.todo = << >> THEN {} ELSE {Key(Head(j2.todo)[2])}]
      /\ pc' = [pc EXCEPT ![t] = IF j2.todo = << >> THEN "commit" ELSE "lock"]
      /\ UNCHANGED <<db, quota, lock, budget>>
  BY DEF SettleLine
<1> HIDE DEF j2, v
<1>9. TypeOK'
  BY <1>4, <1>6, <1>7, <1>8 DEF TypeOK, db, VerdictType
<1>10. JobShape'
  BY <1>4, <1>8 DEF TypeOK, JobShape
<1> QED
  BY <1>9, <1>10

LEMMA SettleCellsType ==
  ASSUME TypeOK, JobShape, NEW t \in Txs, SettleCells(t)
  PROVE  TypeOK' /\ JobShape'
<1>1. PICK v \in VerdictType : verdict' = [verdict EXCEPT ![t] = v]
  <2>1. \A put, cells : Close(t, cells, put) \in VerdictType
    BY CloseType
  <2>2. \A p, q, c, e : Over(Close(t, c, p), Close(t, e, q)) \in VerdictType
    BY <2>1, OverType
  <2> QED
    BY <2>1, <2>2 DEF SettleCells
<1>2. PICK x \in {"base", "commit"} : pc' = [pc EXCEPT ![t] = x]
  BY DEF SettleCells
<1>3. UNCHANGED <<db, quota, lock, job, need, budget>>
  BY DEF SettleCells
<1>4. verdict' \in [Txs -> VerdictType]
  BY <1>1 DEF TypeOK, VerdictType
<1>5. pc' \in [Txs -> {"idle", "lock", "settle", "base", "commit", "project"}]
  BY <1>2 DEF TypeOK
<1>6. TypeOK'
  BY <1>3, <1>4, <1>5 DEF TypeOK, db, VerdictType
<1>7. JobShape'
  BY DEF TypeOK, JobShape, SettleCells
<1> QED
  BY <1>6, <1>7

LEMMA ApplyBaseType ==
  ASSUME TypeOK, JobShape, NEW t \in Txs, ApplyBase(t)
  PROVE  TypeOK' /\ JobShape'
<1>1. BaseWrites(t) \in SUBSET Detections
  BY DEF BaseWrites
<1>2. [job[t] EXCEPT !.held = BaseWrites(t)] \in JobType
  <2>1. job[t] \in JobType
    BY DEF TypeOK
  <2> QED
    BY <1>1, <2>1 DEF JobType
<1>3. job' = [job EXCEPT ![t] = [job[t] EXCEPT !.held = BaseWrites(t)]]
  BY DEF ApplyBase, TypeOK
<1>4. TypeOK'
  BY <1>2, <1>3 DEF TypeOK, ApplyBase, db
<1>5. JobShape'
  BY <1>1 DEF TypeOK, JobShape, ApplyBase, JobType
<1> QED
  BY <1>4, <1>5

LEMMA CommitType ==
  ASSUME TypeOK, JobShape, NEW t \in Txs, Commit(t)
  PROVE  TypeOK' /\ JobShape'
<1>1. job[t] \in JobType /\ verdict[t] \in VerdictType
  BY DEF TypeOK, VerdictType
<1>2. /\ proj' \in [Detections -> [Campaigns -> Types \cup {NoType}]]
      /\ home' \in [Detections -> (Campaigns \X Types) \cup {NoHome}]
      /\ out' \in [Detections -> SUBSET Reasons]
  BY AfterTypes DEF Commit
<1>3. cat' \in [Detections -> [Campaigns -> Categories \cup {NoCat}]]
  BY <1>1 DEF Commit, TypeOK, VerdictType
<1>4. \A d \in Detections : NewBase(t, d) \in Categories \cup {NoCat}
  BY <1>1 DEF NewBase, TypeOK, VerdictType
<1>5. baseCat' \in [Detections -> Categories \cup {NoCat}]
  BY <1>4 DEF Commit, TypeOK
<1>6. lock' \in [Keys -> Txs \cup {NoTx}]
  BY DEF Commit, Release, TypeOK
<1>7. quota' \in [Cells -> Goals] /\ budget' \in 0..MaxOps
  BY DEF Commit, TypeOK
<1>8. /\ pc' \in [Txs -> {"idle", "lock", "settle", "base", "commit", "project"}]
      /\ job' \in [Txs -> JobType]
      /\ need' \in [Txs -> SUBSET Keys]
      /\ verdict' \in [Txs -> VerdictType]
      /\ JobShape'
  <2>1. CASE job[t].op = "insert" /\ job[t].to # NoCell
    <3> DEFINE j == job[t]
               j2 == [NoJob EXCEPT !.op = "categorize", !.d = j.d, !.to = j.to, !.put[j.d] = j.to]
    <3>1. j.to \in Cells /\ j.d \in Detections /\ j.op = "insert"
      BY <1>1, <2>1 DEF JobType, JobShape, Commit
    <3>2. j2 \in JobType /\ j2.op = "categorize" /\ j2.to \in Cells /\ j2.d \in Detections
      BY <3>1, NoJobType DEF JobType, NoJob, NoPut
    <3>3. /\ job' = [job EXCEPT ![t] = j2]
          /\ need' = [need EXCEPT ![t] = {Key(j.to)}]
          /\ pc' = [pc EXCEPT ![t] = "lock"]
          /\ verdict' = [verdict EXCEPT ![t] = NoVerdict]
      BY <2>1 DEF Commit
    <3>4. NoVerdict \in VerdictType /\ Key(j.to) \in Keys
      BY <3>1, KeyType DEF NoVerdict, VerdictType
    <3> HIDE DEF j2
    <3>5. JobShape'
      BY <3>2, <3>3 DEF JobShape, TypeOK
    <3> QED
      BY <3>2, <3>3, <3>4, <3>5 DEF TypeOK, VerdictType
  <2>2. CASE job[t].op = "categorize"
    <3>1. pc' = [pc EXCEPT ![t] = "project"] /\ UNCHANGED <<job, need, verdict>>
      BY <2>2 DEF Commit
    <3> QED
      BY <2>2, <3>1 DEF TypeOK, JobShape, VerdictType
  <2>3. CASE ~ (job[t].op = "insert" /\ job[t].to # NoCell) /\ job[t].op # "categorize"
    <3>1. End(t)
      BY <2>3 DEF Commit
    <3> QED
      BY <3>1, EndType
  <2> QED
    BY <2>1, <2>2, <2>3
<1>9. TypeOK'
  BY <1>2, <1>3, <1>5, <1>6, <1>7, <1>8 DEF TypeOK, VerdictType
<1> QED
  BY <1>8, <1>9


LEMMA ProjectType ==
  ASSUME TypeOK, JobShape, NEW t \in Txs, Project(t)
  PROVE  TypeOK' /\ JobShape'
<1> DEFINE d == job[t].d
           c == job[t].to[1]
           new == IF verdict[t][d][c] # NoCat THEN verdict[t][d][c] ELSE "bonus"
<1>1. d \in Detections /\ c \in Campaigns /\ job[t].to[2] \in Types
  BY DEF Project, JobShape, Cells
<1>2. new \in Categories
  BY <1>1 DEF TypeOK, Categories, NoCat
<1>3. /\ proj' \in [Detections -> [Campaigns -> Types \cup {NoType}]]
      /\ cat' \in [Detections -> [Campaigns -> Categories \cup {NoCat}]]
  <2>1. CASE proj[d][c] = NoType
    <3>1. proj' = [proj EXCEPT ![d][c] = job[t].to[2]] /\ cat' = [cat EXCEPT ![d][c] = new]
      BY <2>1 DEF Project
    <3> HIDE DEF d, c, new
    <3> QED
      BY <3>1, <1>1, <1>2 DEF TypeOK
  <2>2. CASE proj[d][c] # NoType
    BY <2>2 DEF Project, TypeOK
  <2> QED
    BY <2>1, <2>2
<1>4. End(t) /\ UNCHANGED <<home, baseCat, out, quota, lock, budget>>
  BY DEF Project
<1> QED
  BY <1>3, <1>4, EndType DEF TypeOK, VerdictType

LEMMA ProjectFailsType ==
  ASSUME TypeOK, JobShape, NEW t \in Txs, ProjectFails(t)
  PROVE  TypeOK' /\ JobShape'
<1> DEFINE j2 == [NoJob EXCEPT !.op = "resettle", !.d = job[t].d,
                               !.to = job[t].to, !.cells = {job[t].to}]
<1>1. job[t].to \in Cells /\ job[t].d \in Detections
  BY DEF ProjectFails, JobShape
<1>2. j2 \in JobType /\ j2.op = "resettle" /\ j2.to \in Cells /\ j2.d \in Detections
  BY <1>1, NoJobType DEF JobType, NoJob
<1>3. NoVerdict \in VerdictType /\ Key(job[t].to) \in Keys
  BY <1>1, KeyType DEF NoVerdict, VerdictType
<1>4. /\ job' = [job EXCEPT ![t] = j2]
      /\ need' = [need EXCEPT ![t] = {Key(job[t].to)}]
      /\ pc' = [pc EXCEPT ![t] = "lock"]
      /\ verdict' = [verdict EXCEPT ![t] = NoVerdict]
      /\ UNCHANGED <<db, quota, lock, budget>>
  BY DEF ProjectFails
<1> HIDE DEF j2
<1>5. TypeOK'
  BY <1>2, <1>3, <1>4 DEF TypeOK, VerdictType, db
<1>6. JobShape'
  BY <1>2, <1>4 DEF JobShape, TypeOK
<1> QED
  BY <1>5, <1>6

LEMMA AbortType ==
  ASSUME TypeOK, JobShape, NEW t \in Txs, Abort(t)
  PROVE  TypeOK' /\ JobShape'
<1>1. lock' \in [Keys -> Txs \cup {NoTx}] /\ UNCHANGED <<db, quota>>
  BY DEF Abort, Release, TypeOK
<1>2. budget' \in 0..MaxOps
  BY SpendType DEF Abort, TypeOK
<1>3. CASE job[t].op = "categorize"
  <2>1. NoVerdict \in VerdictType
    BY DEF NoVerdict, VerdictType
  <2>2. /\ pc' = [pc EXCEPT ![t] = "project"]
        /\ need' = [need EXCEPT ![t] = {}]
        /\ verdict' = [verdict EXCEPT ![t] = NoVerdict]
        /\ UNCHANGED job
    BY <1>3 DEF Abort
  <2> QED
    BY <1>1, <1>2, <1>3, <2>1, <2>2 DEF TypeOK, JobShape, VerdictType, db
<1>4. CASE job[t].op # "categorize"
  <2>1. End(t)
    BY <1>4 DEF Abort
  <2> QED
    BY <1>1, <1>2, <2>1, EndType DEF TypeOK, VerdictType, db
<1> QED
  BY <1>3, <1>4

LEMMA CrashType ==
  ASSUME TypeOK, JobShape, NEW t \in Txs, Crash(t)
  PROVE  TypeOK' /\ JobShape'
BY EndType DEF Crash, TypeOK, VerdictType, db

TypeInv == TypeOK /\ JobShape

LEMMA InitType == Init => TypeInv
<1> SUFFICES ASSUME Init PROVE TypeInv
  OBVIOUS
<1>1. NoVerdict \in VerdictType
  BY DEF NoVerdict, VerdictType
<1>2. TypeOK
  BY <1>1, NoJobType, CellDayAssumption DEF Init, TypeOK, VerdictType
<1>3. JobShape
  BY DEF Init, JobShape, NoJob
<1> QED
  BY <1>2, <1>3 DEF TypeInv

LEMMA NextType == TypeInv /\ [Next]_vars => TypeInv'
<1> SUFFICES ASSUME TypeOK, JobShape, [Next]_vars PROVE TypeOK' /\ JobShape'
  BY DEF TypeInv
<1>1. CASE UNCHANGED vars
  BY <1>1 DEF vars, ctl, db, TypeOK, JobShape
<1>2. ASSUME NEW t \in Txs, Begin(t) \/ Step(t) \/ Abort(t) \/ Crash(t)
      PROVE  TypeOK' /\ JobShape'
  BY <1>2, BeginType, LockType, SettleLineType, SettleCellsType, ApplyBaseType,
     CommitType, ProjectType, ProjectFailsType, AbortType, CrashType DEF Step
<1> QED
  BY <1>1, <1>2 DEF Next

\* Type correctness: in every reachable state, for every instance, the tables and
\* the transactions hold values of their types (TypeOK).
THEOREM TypeCorrect == Spec => []TypeOK
<1>1. TypeInv => TypeOK
  BY DEF TypeInv
<1> QED
  BY <1>1, InitType, NextType, PTL DEF Spec


-----------------------------------------------------------------------------
(* The closing of a cell-day under the locks: the inductive invariant.      *)
(* It is stated for the operations that lock every cell they change and     *)
(* leave every play in the cells it was born in.                            *)

LockingOps == {"insert", "mutate", "override"}

\* The approved set of the cell once t has committed.
View(t, cell) == PlaysIn(ProjAfter(t), OutAfter(t), cell)

\* The jobs those operations create.
JobAt(t) ==
  LET j == job[t] IN
  /\ j.op \in {"none"} \cup LockingOps
  /\ j.op = "none" => pc[t] = "idle"
  /\ j.op # "insert" => j.put = NoPut
  /\ j.op = "insert" => j.to = NoCell
  /\ j.op # "mutate" => j.add = {} /\ j.del = {}
  /\ j.op = "override" => j.to \in Cells /\ j.cells = {j.to} /\ need[t] \subseteq {Key(j.to)}
  /\ pc[t] = "lock" <=> need[t] # {}
  /\ pc[t] = "base" => j.op = "override"
JobInv == \A t \in Txs : JobAt(t)

\* A row not inserted yet has no flag and no projection.
RowInv == \A d \in Detections :
            ~ Exists(d) => out[d] = {} /\ \A c \in Campaigns : proj[d][c] = NoType

\* A play that a transaction is about to insert belongs to it alone.
Claims(t, d) == \/ job[t].put[d] # NoCell
                \/ \E i \in 1..Len(job[t].todo) : job[t].todo[i][1] = d
ClaimInv ==
  \A t \in Txs : job[t].op = "insert" =>
    LET j == job[t] IN
    /\ \A d \in Detections : Claims(t, d) =>
         ~ Exists(d) /\ \A u \in Txs \ {t} : job[u].op = "insert" => ~ Claims(u, d)
    /\ \A d \in Detections : j.put[d] # NoCell => j.put[d] \in j.cells /\ j.put[d][3] = DayOf[d]
    /\ \A i \in 1..Len(j.todo) : j.put[j.todo[i][1]] = NoCell
    /\ \A i, k \in 1..Len(j.todo) : j.todo[i][1] = j.todo[k][1] => i = k

\* A mutation closes every cell its play is projected in, until it commits.
MutateInv ==
  \A t \in Txs : job[t].op = "mutate" =>
    Exists(job[t].d) /\ job[t].d \in Detections /\ job[t].cells = AffectedCells(job[t].d)

\* Cells whose verdict is staged.
Done(t) == IF job[t].op = "insert" \/ pc[t] \in {"base", "commit"} THEN job[t].cells ELSE {}

\* The keys of a transaction are held or still to be taken.
HoldInv ==
  \A t \in Txs :
    /\ \A cell \in job[t].cells : lock[Key(cell)] = t \/ Key(cell) \in need[t]
    /\ \A cell \in Done(t) : lock[Key(cell)] = t
    /\ job[t].op = "insert" /\ job[t].todo # << >> =>
         LET k == Key(Head(job[t].todo)[2]) IN lock[k] = t \/ k \in need[t]

\* An override is saved and waits for the key of the cell.
OverrideWaits(cell) ==
  \E u \in Txs : job[u].op = "override" /\ job[u].to = cell /\ pc[u] = "lock"

\* The staged verdict is the settlement of the set the commit will leave.
FreshCell(t, cell) ==
  \A d \in View(t, cell) : verdict[t][d][cell[1]] = SettleCell(cell, View(t, cell))[d]
FreshAt(t) ==
  /\ \A cell \in Done(t) : OverrideWaits(cell) \/ FreshCell(t, cell)
  /\ \A d \in Detections, c \in Campaigns :
       verdict[t][d][c] # NoCat => <<c, ProjAfter(t)[d][c], DayOf[d]>> \in Done(t)
FreshInv == \A t \in Txs : FreshAt(t)

LockingInv == /\ TypeInv /\ JobInv /\ RowInv /\ ClaimInv /\ MutateInv /\ HoldInv
              /\ FreshInv /\ AllSettled

\* A step that leaves the tables and the writes of u alone leaves its view alone.
LEMMA ViewSame ==
  ASSUME NEW u \in Txs, UNCHANGED db, job'[u].op = job[u].op, job'[u].d = job[u].d,
         job'[u].from = job[u].from, job'[u].put = job[u].put, job'[u].add = job[u].add,
         job'[u].del = job[u].del
  PROVE  /\ ProjAfter(u)' = ProjAfter(u)
         /\ \A cell : View(u, cell)' = View(u, cell)
<1>1. ProjAfter(u)' = ProjAfter(u)
  BY DEF ProjAfter, Places, Moves, db
<1>2. OutAfter(u)' = OutAfter(u)
  BY DEF OutAfter, db
<1> QED
  BY <1>1, <1>2 DEF View, PlaysIn

\* A settlement gives each play it reads a category.
LEMMA SettleCellType ==
  ASSUME NEW cell, NEW P, NEW d \in P
  PROVE  SettleCell(cell, P)[d] \in Categories
BY SettleType DEF SettleCell

\* When neither the tables nor the goals change, no cell becomes unsettled.
LEMMA SettledSame ==
  ASSUME UNCHANGED db, NEW cell, quota'[cell] = quota[cell], Settled(cell)
  PROVE  Settled(cell)'
<1>1. Plays(cell)' = Plays(cell)
  BY DEF Plays, PlaysIn, db
<1>2. SettleCell(cell, Plays(cell))' = SettleCell(cell, Plays(cell))
  BY <1>1 DEF SettleCell
<1> QED
  BY <1>1, <1>2 DEF Settled, db

\* A staged verdict stays fresh through a step of another transaction that does
\* not touch the tables; a goal may change if the override then waits.
LEMMA FreshSame ==
  ASSUME NEW u \in Txs, FreshAt(u), UNCHANGED db, job'[u].op = job[u].op, job'[u].d = job[u].d,
         job'[u].from = job[u].from, job'[u].put = job[u].put, job'[u].add = job[u].add,
         job'[u].del = job[u].del,
         verdict'[u] = verdict[u], Done(u)' = Done(u),
         \A cell \in Done(u) : \/ OverrideWaits(cell)'
                               \/ ~ OverrideWaits(cell) /\ quota'[cell] = quota[cell]
  PROVE  FreshAt(u)'
<1>1. /\ ProjAfter(u)' = ProjAfter(u)
      /\ \A cell : View(u, cell)' = View(u, cell)
  BY ViewSame
<1>2. ASSUME NEW cell \in Done(u), ~ OverrideWaits(cell)'
      PROVE  FreshCell(u, cell)'
  <2>1. ~ OverrideWaits(cell) /\ quota'[cell] = quota[cell]
    BY <1>2
  <2>2. FreshCell(u, cell)
    BY <2>1 DEF FreshAt
  <2>3. SettleCell(cell, View(u, cell))' = SettleCell(cell, View(u, cell))
    BY <2>1, <1>1 DEF SettleCell
  <2> QED
    BY <2>2, <2>3, <1>1 DEF FreshCell
<1>3. \A d \in Detections, c \in Campaigns :
        verdict[u][d][c] # NoCat => <<c, ProjAfter(u)[d][c], DayOf[d]>> \in Done(u)
  BY DEF FreshAt
<1> QED
  BY <1>1, <1>2, <1>3 DEF FreshAt

\* Steps that change neither the tables nor what any transaction works on.
LEMMA QuietKeeps ==
  ASSUME RowInv, ClaimInv, MutateInv, UNCHANGED db,
         \A u \in Txs : /\ job'[u].op = job[u].op /\ job'[u].d = job[u].d
                        /\ job'[u].put = job[u].put /\ job'[u].todo = job[u].todo
                        /\ job'[u].cells = job[u].cells
  PROVE  RowInv' /\ ClaimInv' /\ MutateInv'
<1>1. RowInv'
  BY DEF RowInv, Exists, db
<1>2. ClaimInv'
  <2>1. \A d : Exists(d)' <=> Exists(d)
    BY DEF Exists, db
  <2>2. \A u \in Txs : \A d : Claims(u, d)' <=> Claims(u, d)
    BY DEF Claims
  <2> QED
    BY <2>1, <2>2 DEF ClaimInv
<1>3. MutateInv'
  BY DEF MutateInv, AffectedCells, Exists, db
<1> QED
  BY <1>1, <1>2, <1>3

\* What the head of a batch is, and what is left when it is taken off.
LEMMA HeadLine ==
  ASSUME NEW ls \in Seq(Lines), ls # << >>
  PROVE  /\ Head(ls) \in Lines /\ Tail(ls) \in Seq(Lines)
         /\ Head(ls)[1] \in Detections /\ Head(ls)[2] \in Cells
         /\ Head(ls)[2][3] = DayOf[Head(ls)[1]]
         /\ Key(Head(ls)[2]) \in Keys
         /\ 1 \in 1..Len(ls) /\ Head(ls) = ls[1]
         /\ Len(Tail(ls)) = Len(ls) - 1
         /\ \A i \in 1..Len(Tail(ls)) : i + 1 \in 1..Len(ls) /\ Tail(ls)[i] = ls[i + 1]
<1>1. Head(ls) \in Lines /\ Tail(ls) \in Seq(Lines)
  OBVIOUS
<1>2. /\ Head(ls)[1] \in Detections /\ Head(ls)[2] \in Cells
      /\ Head(ls)[2][3] = DayOf[Head(ls)[1]]
  BY <1>1 DEF Lines
<1>3. /\ 1 \in 1..Len(ls) /\ Head(ls) = ls[1]
      /\ Len(Tail(ls)) = Len(ls) - 1
      /\ \A i \in 1..Len(Tail(ls)) : i + 1 \in 1..Len(ls) /\ Tail(ls)[i] = ls[i + 1]
  OBVIOUS
<1> QED
  BY <1>1, <1>2, <1>3, KeyType

\* No override finishes waiting while another transaction holds the key.
LEMMA LockKeeps ==
  ASSUME LockingInv, NEW t \in Txs, Lock(t)
  PROVE  JobInv' /\ RowInv' /\ ClaimInv' /\ MutateInv' /\ HoldInv' /\ FreshInv' /\ AllSettled'
<1> DEFINE k == Least(need[t])
<1>1. /\ pc[t] = "lock" /\ lock[k] \in {NoTx, t}
      /\ lock' = [lock EXCEPT ![k] = t]
      /\ need' = [need EXCEPT ![t] = need[t] \ {k}]
      /\ pc' = [pc EXCEPT ![t] = IF need[t] \ {k} = {} THEN "settle" ELSE "lock"]
      /\ UNCHANGED <<db, quota, job, verdict, budget>>
      /\ TypeOK
  BY DEF Lock, LockingInv, TypeInv, TypeOK
<1> HIDE DEF k
<1>2. RowInv' /\ ClaimInv' /\ MutateInv'
  BY <1>1, QuietKeeps DEF LockingInv
<1>3. JobInv'
  BY <1>1 DEF LockingInv, JobInv, JobAt, TypeOK
<1>4. \A u \in Txs : Done(u)' = Done(u)
  BY <1>1 DEF Done, TypeOK
<1>5. ASSUME NEW u \in Txs, NEW l \in Keys, lock[l] = u \/ l \in need[u]
      PROVE  lock'[l] = u \/ l \in need'[u]
  BY <1>1, <1>5, CellDayAssumption DEF TypeOK
<1>6. ASSUME NEW u \in Txs, NEW l \in Keys, lock[l] = u
      PROVE  lock'[l] = u
  BY <1>1, <1>6, CellDayAssumption DEF TypeOK
<1>7. \A u \in Txs : \A cell \in job[u].cells : Key(cell) \in Keys
  BY <1>1, KeyType DEF TypeOK, JobType
<1>8. \A u \in Txs : job[u].todo # << >> => Key(Head(job[u].todo)[2]) \in Keys
  BY <1>1, HeadLine DEF TypeOK, JobType
<1>9. \A u \in Txs : Done(u) \subseteq job[u].cells
  BY DEF Done
<1>10. HoldInv'
  BY <1>1, <1>4, <1>5, <1>6, <1>7, <1>8, <1>9 DEF LockingInv, HoldInv
<1>11. ASSUME NEW u \in Txs, NEW cell \in Done(u), OverrideWaits(cell)
       PROVE  OverrideWaits(cell)'
  <2>1. PICK w \in Txs : job[w].op = "override" /\ job[w].to = cell /\ pc[w] = "lock"
    BY <1>11 DEF OverrideWaits
  <2>2. CASE w # t
    BY <2>1, <2>2, <1>1 DEF OverrideWaits, TypeOK
  <2>3. CASE w = t
    <3>1. need[t] = {Key(cell)}
      BY <2>1, <2>3 DEF LockingInv, JobInv, JobAt
    <3>2. k = Key(cell)
      BY <3>1 DEF k, Least
    <3>3. lock[Key(cell)] = u /\ u # t
      <4>1. Done(t) = {}
        BY <2>1, <2>3 DEF Done
      <4> QED
        BY <1>11, <4>1 DEF LockingInv, HoldInv
    <3> QED
      BY <3>2, <3>3, <1>1, CellDayAssumption
  <2> QED
    BY <2>2, <2>3
<1>12. FreshInv'
  <2>1. ASSUME NEW u \in Txs PROVE FreshAt(u)'
    <3>1. \A cell \in Done(u) : \/ OverrideWaits(cell)'
                                \/ ~ OverrideWaits(cell) /\ quota'[cell] = quota[cell]
      BY <1>1, <1>11 DEF LockingInv, TypeInv, TypeOK, Done, JobType
    <3>2. FreshAt(u)
      BY DEF LockingInv, FreshInv
    <3> QED
      BY <3>1, <3>2, <1>1, <1>4, FreshSame
  <2> QED
    BY <2>1 DEF FreshInv
<1>13. AllSettled'
  <2>1. ASSUME NEW cell \in Cells, OverridePending(cell) PROVE OverridePending(cell)'
    BY <2>1, <1>1 DEF OverridePending, InTx, TypeOK
  <2>2. ASSUME NEW cell \in Cells, Settled(cell) PROVE Settled(cell)'
    BY <2>2, <1>1, SettledSame
  <2> QED
    BY <2>1, <2>2 DEF LockingInv, AllSettled
<1> QED
  BY <1>2, <1>3, <1>10, <1>12, <1>13

\* Closing one line of a batch: the play joins the view of its cell and of no
\* other, and the new verdict is the settlement of that view.
LEMMA SettleLineKeeps ==
  ASSUME LockingInv, NEW t \in Txs, SettleLine(t)
  PROVE  JobInv' /\ RowInv' /\ ClaimInv' /\ MutateInv' /\ HoldInv' /\ FreshInv' /\ AllSettled'
<1> DEFINE j    == job[t]
           d0   == Head(j.todo)[1]
           e0   == Head(j.todo)[2]
           rest == Tail(j.todo)
           j2   == [j EXCEPT !.put[d0] = e0, !.d = d0, !.cells = @ \cup {e0}, !.todo = rest]
           new  == Close(t, {e0}, j2.put)
<1>1. /\ pc[t] = "settle" /\ j.op = "insert"
      /\ job' = [job EXCEPT ![t] = j2]
      /\ verdict' = [verdict EXCEPT ![t] = Over(new, verdict[t])]
      /\ need' = [need EXCEPT ![t] = IF j2.todo = << >> THEN {} ELSE {Key(Head(j2.todo)[2])}]
      /\ pc' = [pc EXCEPT ![t] = IF j2.todo = << >> THEN "commit" ELSE "lock"]
      /\ UNCHANGED <<db, quota, lock, budget>>
  BY DEF SettleLine
<1>2. /\ j \in JobType /\ j.todo \in Seq(Lines) /\ j.todo # << >>
      /\ TypeOK /\ RowInv /\ ClaimInv /\ MutateInv /\ HoldInv /\ FreshInv /\ JobInv /\ AllSettled
  BY <1>1 DEF LockingInv, TypeInv, TypeOK, JobShape, JobType
<1>3. /\ d0 \in Detections /\ e0 \in Cells /\ e0[3] = DayOf[d0] /\ Key(e0) \in Keys
      /\ rest \in Seq(Lines) /\ 1 \in 1..Len(j.todo) /\ j.todo[1][1] = d0
      /\ \A i \in 1..Len(rest) : i + 1 \in 1..Len(j.todo) /\ rest[i] = j.todo[i + 1]
  BY <1>2, HeadLine
<1>4. /\ j2 \in JobType /\ j2.op = "insert" /\ j2.todo = rest /\ j2.cells = j.cells \cup {e0}
      /\ j2.to = j.to /\ j2.add = j.add /\ j2.del = j.del /\ j2.d = d0
      /\ j2.put = [j.put EXCEPT ![d0] = e0] /\ j.put \in PutType
  BY <1>1, <1>2, <1>3 DEF JobType, PutType
<1>5. /\ ~ Exists(d0) /\ j.put[d0] = NoCell
      /\ out[d0] = {} /\ \A c \in Campaigns : proj[d0][c] = NoType
  <2>1. Claims(t, d0)
    BY <1>3 DEF Claims
  <2>2. ~ Exists(d0)
    BY <2>1, <1>1, <1>2, <1>3 DEF ClaimInv
  <2>3. j.put[j.todo[1][1]] = NoCell
    BY <1>1, <1>2, <1>3 DEF ClaimInv
  <2> QED
    BY <2>2, <2>3, <1>2, <1>3 DEF RowInv
<1>6. lock[Key(e0)] = t /\ need[t] = {}
  BY <1>1, <1>2 DEF HoldInv, JobInv, JobAt
<1> HIDE DEF j2
<1>7. JobInv'
  <2>1. \A u \in Txs \ {t} : job'[u] = job[u] /\ pc'[u] = pc[u] /\ need'[u] = need[u]
    BY <1>1 DEF TypeOK
  <2>2. job'[t] = j2 /\ (pc'[t] = "lock" <=> need'[t] # {}) /\ pc'[t] # "base"
    BY <1>1, <1>2 DEF TypeOK
  <2>3. j.to = NoCell /\ j.add = {} /\ j.del = {}
    BY <1>1, <1>2 DEF JobInv, JobAt
  <2>4. \A u \in Txs \ {t} : JobAt(u)'
    BY <2>1, <1>2 DEF JobInv, JobAt
  <2>5. JobAt(t)'
    BY <2>2, <2>3, <1>4 DEF LockingOps, JobAt
  <2> QED
    BY <2>4, <2>5 DEF JobInv
<1>8. RowInv'
  BY <1>1, <1>2 DEF RowInv, Exists, db
<1>9. MutateInv'
  BY <1>1, <1>2, <1>4 DEF MutateInv, AffectedCells, Exists, db, TypeOK
<1>10. ASSUME NEW d \in Detections
       PROVE  /\ Claims(t, d)' => Claims(t, d)
              /\ \A u \in Txs \ {t} : Claims(u, d)' <=> Claims(u, d)
  <2>1. \A u \in Txs \ {t} : job'[u] = job[u]
    BY <1>1 DEF TypeOK
  <2>2. job'[t] = j2
    BY <1>1, <1>2 DEF TypeOK
  <2>3. Claims(t, d0)
    BY <1>3 DEF Claims
  <2>4. ASSUME Claims(t, d)', d # d0 PROVE Claims(t, d)
    <3>1. j2.put[d] # NoCell \/ \E i \in 1..Len(rest) : rest[i][1] = d
      BY <2>2, <2>4, <1>4 DEF Claims
    <3>2. j2.put[d] = j.put[d]
      BY <1>4, <2>4 DEF PutType
    <3> QED
      BY <3>1, <3>2, <1>3 DEF Claims
  <2> QED
    BY <2>1, <2>3, <2>4 DEF Claims
<1>11. ClaimInv'
  <2>1. /\ \A u \in Txs \ {t} : job'[u] = job[u]
        /\ job'[t] = j2
        /\ \A d \in Detections : Exists(d)' <=> Exists(d)
    BY <1>1, <1>2 DEF TypeOK, Exists, db
  <2>2. ASSUME NEW u \in Txs, job'[u].op = "insert", NEW d \in Detections, Claims(u, d)'
        PROVE  ~ Exists(d)' /\ \A w \in Txs \ {u} : job'[w].op = "insert" => ~ Claims(w, d)'
    <3>1. job[u].op = "insert" /\ Claims(u, d)
      BY <2>1, <2>2, <1>1, <1>10
    <3>2. \A w \in Txs \ {u} : job'[w].op = "insert" => job[w].op = "insert"
      BY <2>1, <1>1
    <3> QED
      BY <3>1, <3>2, <2>1, <1>2, <1>10 DEF ClaimInv
  <2>3. ASSUME NEW u \in Txs \ {t}, job'[u].op = "insert"
        PROVE  LET q == job'[u] IN
               /\ \A d \in Detections : q.put[d] # NoCell => q.put[d] \in q.cells /\ q.put[d][3] = DayOf[d]
               /\ \A i \in 1..Len(q.todo) : q.put[q.todo[i][1]] = NoCell
               /\ \A i, k \in 1..Len(q.todo) : q.todo[i][1] = q.todo[k][1] => i = k
    BY <2>1, <2>3, <1>2 DEF ClaimInv
  <2>4. /\ \A d \in Detections : j2.put[d] # NoCell => j2.put[d] \in j2.cells /\ j2.put[d][3] = DayOf[d]
        /\ \A i \in 1..Len(j2.todo) : j2.put[j2.todo[i][1]] = NoCell
        /\ \A i, k \in 1..Len(j2.todo) : j2.todo[i][1] = j2.todo[k][1] => i = k
    <3>1. /\ \A d \in Detections : j.put[d] # NoCell => j.put[d] \in j.cells /\ j.put[d][3] = DayOf[d]
          /\ \A i \in 1..Len(j.todo) : j.put[j.todo[i][1]] = NoCell
          /\ \A i, k \in 1..Len(j.todo) : j.todo[i][1] = j.todo[k][1] => i = k
      BY <1>1, <1>2 DEF ClaimInv
    <3>2. \A d \in Detections : j2.put[d] # NoCell => j2.put[d] \in j2.cells /\ j2.put[d][3] = DayOf[d]
      BY <3>1, <1>3, <1>4 DEF PutType
    <3>3. ASSUME NEW i \in 1..Len(rest) PROVE j2.put[rest[i][1]] = NoCell
      <4>1. i + 1 \in 1..Len(j.todo) /\ rest[i] = j.todo[i + 1] /\ i + 1 # 1
        BY <1>3
      <4>2. rest[i][1] # d0 /\ rest[i][1] \in Detections
        BY <4>1, <3>1, <1>2, <1>3 DEF Lines
      <4> QED
        BY <4>1, <4>2, <3>1, <1>4 DEF PutType
    <3>4. ASSUME NEW i \in 1..Len(rest), NEW k \in 1..Len(rest), rest[i][1] = rest[k][1]
          PROVE  i = k
      BY <3>1, <3>4, <1>3
    <3> QED
      BY <3>2, <3>3, <3>4, <1>4
  <2> QED
    BY <2>1, <2>2, <2>3, <2>4 DEF ClaimInv
<1>12. HoldInv'
  <2>1. ASSUME NEW u \in Txs \ {t}
        PROVE  job'[u] = job[u] /\ pc'[u] = pc[u] /\ need'[u] = need[u] /\ Done(u)' = Done(u)
    BY <1>1 DEF TypeOK, Done
  <2>2. job'[t] = j2 /\ Done(t)' = j2.cells /\ Done(t) = j.cells
    BY <1>1, <1>2, <1>4 DEF TypeOK, Done
  <2>3. \A cell \in j2.cells : lock'[Key(cell)] = t
    BY <2>2, <1>1, <1>2, <1>4, <1>6 DEF HoldInv
  <2>4. j2.todo # << >> => Key(Head(j2.todo)[2]) \in need'[t]
    BY <1>1, <1>2 DEF TypeOK
  <2> QED
    BY <1>1, <1>2, <2>1, <2>2, <2>3, <2>4 DEF HoldInv
<1>13. \A cell : OverrideWaits(cell)' <=> OverrideWaits(cell)
  <2>1. job'[t].op = "insert" /\ \A u \in Txs \ {t} : job'[u] = job[u] /\ pc'[u] = pc[u]
    BY <1>1, <1>2, <1>4 DEF TypeOK
  <2> QED
    BY <1>1, <2>1 DEF OverrideWaits
<1>14. ASSUME NEW u \in Txs \ {t} PROVE FreshAt(u)'
  <2>1. job'[u] = job[u] /\ verdict'[u] = verdict[u] /\ Done(u)' = Done(u)
    BY <1>1, <1>2 DEF TypeOK, Done
  <2>2. FreshAt(u) /\ UNCHANGED db /\ quota' = quota
    BY <1>1, <1>2 DEF FreshInv
  <2> QED
    BY <2>1, <2>2, <1>13, FreshSame
<1>15. FreshAt(t)'
  <2> DEFINE PA == ProjAfter(t)
             PB == ProjAfter(t)'
  <2>0. job'[t] = j2 /\ Done(t)' = j.cells \cup {e0} /\ Done(t) = j.cells
        /\ j.cells \in SUBSET Cells
    BY <1>1, <1>2, <1>4 DEF TypeOK, Done, JobType
  <2>00. NoType \notin Types /\ NoCell[1] \notin Campaigns /\ NoCell \notin Cells
    BY NoCellIsNone, CellDayAssumption DEF NoType, NoCell
  <2>e. PICK e \in Cells : e = e0
    BY <1>3
  <2>000. e0[1] \in Campaigns /\ e0[2] \in Types /\ e0 = <<e0[1], e0[2], e0[3]>>
    BY <1>3 DEF Cells
  <2>1. /\ \A d \in Detections, c \in Campaigns :
             PA[d][c] = IF j.put[d][1] = c THEN j.put[d][2] ELSE proj[d][c]
        /\ \A d \in Detections, c \in Campaigns :
             PB[d][c] = IF j2.put[d][1] = c THEN j2.put[d][2] ELSE proj[d][c]
    <3>1. proj' = proj
      BY <1>1 DEF db
    <3> QED
      BY <3>1, <2>0, <1>1, <1>4 DEF ProjAfter, Places, Moves
  <2>2. /\ \A d \in Detections \ {d0}, c \in Campaigns : PB[d][c] = PA[d][c]
        /\ \A c \in Campaigns : PA[d0][c] = NoType
        /\ \A c \in Campaigns : PB[d0][c] = IF c = e0[1] THEN e0[2] ELSE NoType
    <3> HIDE DEF PA, PB
    <3>1. \A d \in Detections \ {d0} : j2.put[d] = j.put[d]
      BY <1>3, <1>4 DEF PutType
    <3>2. j.put[d0] = NoCell /\ j2.put[d0] = e0
      BY <1>3, <1>4, <1>5 DEF PutType
    <3>3. \A c \in Campaigns : NoCell[1] # c /\ proj[d0][c] = NoType
      BY <2>00, <1>5
    <3> HIDE DEF d0, e0
    <3> QED
      BY <2>1, <3>1, <3>2, <3>3, <1>3
  <2>3. OutAfter(t) = [d \in Detections |-> out[d]] /\ OutAfter(t)' = [d \in Detections |-> out[d]]
    <3>1. j.add = {} /\ j.del = {} /\ out' = out
      BY <1>1, <1>2 DEF JobInv, JobAt, db
    <3> QED
      BY <3>1, <2>0, <1>4 DEF OutAfter
  <2>4. ASSUME NEW d \in Detections, NEW c \in Campaigns
        PROVE  Seat(t, d, c, j2.put) = <<c, PB[d][c], DayOf[d]>>
    <3>1. j2.put[d][1] # c => PA[d][c] = PB[d][c]
      BY <2>2, <1>3, <1>4 DEF PutType
    <3> QED
      BY <3>1, <2>1 DEF Seat
  <2>5. ASSUME NEW d \in Detections, j2.put[d] # NoCell PROVE out[d] = {}
    <3>1. CASE d = d0
      BY <3>1, <1>5
    <3>2. CASE d # d0
      <4>1. Claims(t, d)
        BY <3>2, <2>5, <1>3, <1>4 DEF Claims, PutType
      <4> QED
        BY <4>1, <1>1, <1>2 DEF ClaimInv, RowInv
    <3> QED
      BY <3>1, <3>2
  <2>6. ASSUME NEW cell \in Cells PROVE Read(t, cell, j2.put) = View(t, cell)'
    <3>1. cell[1] \in Campaigns /\ cell = <<cell[1], cell[2], cell[3]>>
      BY DEF Cells
    <3>2. \A d \in Detections : Seat(t, d, cell[1], j2.put) = cell
                                 <=> DayOf[d] = cell[3] /\ PB[d][cell[1]] = cell[2]
      <4>1. ASSUME NEW d \in Detections PROVE Seat(t, d, cell[1], j2.put) = <<cell[1], PB[d][cell[1]], DayOf[d]>>
        BY <3>1, <2>4
      <4> QED
        BY <4>1, <3>1
    <3>3. \A d \in Detections : OutAfter(t)[d] = {} \/ j2.put[d] = cell <=> out[d] = {}
      BY <2>3, <2>5, <2>00
    <3> QED
      BY <3>2, <3>3, <2>3 DEF Read, View, PlaysIn
  <2>7. ASSUME NEW d \in Detections, NEW c \in Campaigns
        PROVE  new[d][c] = IF <<c, PB[d][c], DayOf[d]>> = e0 /\ d \in View(t, e)'
                           THEN SettleCell(e, View(t, e)')[d] ELSE NoCat
    <3>1. new[d][c] = LET cell == Seat(t, d, c, j2.put)
                      IN  IF cell \in {e0} /\ d \in Read(t, cell, j2.put)
                          THEN SettleCell(cell, Read(t, cell, j2.put))[d] ELSE NoCat
      BY DEF Close
    <3>2. Read(t, e, j2.put) = View(t, e)'
      BY <2>6
    <3> QED
      BY <3>1, <3>2, <2>4, <2>e
  <2>8. verdict'[t] = Over(new, verdict[t])
    BY <1>1, <1>2 DEF TypeOK
  <2>9. \A d \in Detections, c \in Campaigns :
          verdict'[t][d][c] = IF new[d][c] # NoCat THEN new[d][c] ELSE verdict[t][d][c]
    BY <2>8 DEF Over
  <2>10. \A cell, P : SettleCell(cell, P)' = SettleCell(cell, P')
    BY <1>1 DEF SettleCell
  <2> HIDE DEF new, PA, PB
  <2>11. FreshCell(t, e)'
    <3>1. ASSUME NEW d \in View(t, e)'
          PROVE  verdict'[t][d][e[1]] = SettleCell(e, View(t, e)')[d]
      <4>1. d \in Detections /\ <<e[1], PB[d][e[1]], DayOf[d]>> = e
        BY <2>000, <2>e DEF View, PlaysIn, PB
      <4>2. new[d][e[1]] = SettleCell(e, View(t, e)')[d]
        BY <4>1, <2>7, <2>000, <2>e
      <4>3. SettleCell(e, View(t, e)')[d] # NoCat
        BY SettleCellType DEF Categories, NoCat
      <4> QED
        BY <4>1, <4>2, <4>3, <2>9, <2>000, <2>e
    <3> QED
      BY <3>1, <2>10 DEF FreshCell
  <2>12. ASSUME NEW cell \in j.cells, cell # e0, ~ OverrideWaits(cell)
         PROVE  FreshCell(t, cell)'
    <3>1. cell[1] \in Campaigns /\ cell[2] \in Types /\ cell = <<cell[1], cell[2], cell[3]>>
      BY <2>0 DEF Cells
    <3>2. View(t, cell)' = View(t, cell)
      <4>1. \A d \in Detections \ {d0} : PB[d][cell[1]] = PA[d][cell[1]]
        BY <3>1, <2>2
      <4>2. PA[d0][cell[1]] # cell[2]
        BY <3>1, <2>2, <2>00
      <4>3. ~ (DayOf[d0] = cell[3] /\ PB[d0][cell[1]] = cell[2])
        BY <3>1, <2>2, <2>00, <2>000, <2>12, <1>3
      <4> QED
        BY <4>1, <4>2, <4>3, <2>3 DEF View, PlaysIn, PA, PB
    <3>3. FreshCell(t, cell)
      BY <2>0, <2>12, <1>2 DEF FreshInv, FreshAt
    <3>4. ASSUME NEW d \in View(t, cell)' PROVE verdict'[t][d][cell[1]] = verdict[t][d][cell[1]]
      <4>1. d \in Detections /\ <<cell[1], PB[d][cell[1]], DayOf[d]>> = cell
        BY <3>1 DEF View, PlaysIn, PB
      <4>2. new[d][cell[1]] = NoCat
        BY <4>1, <3>1, <2>7, <2>12
      <4> QED
        BY <4>1, <4>2, <3>1, <2>9
    <3> QED
      BY <3>2, <3>3, <3>4, <2>10 DEF FreshCell
  <2>13. ASSUME NEW d \in Detections, NEW c \in Campaigns, verdict'[t][d][c] # NoCat
         PROVE  <<c, PB[d][c], DayOf[d]>> \in j.cells \cup {e0}
    <3>1. CASE new[d][c] # NoCat
      BY <3>1, <2>7
    <3>2. CASE new[d][c] = NoCat
      <4>1. <<c, PA[d][c], DayOf[d]>> \in j.cells
        BY <3>2, <2>9, <2>13, <2>0, <1>2 DEF FreshInv, FreshAt, PA
      <4>2. PA[d][c] \in Types
        BY <4>1, <2>0 DEF Cells
      <4> QED
        BY <4>1, <4>2, <2>2, <2>00
    <3> QED
      BY <3>1, <3>2
  <2> QED
    BY <2>0, <2>e, <2>11, <2>12, <2>13, <1>13 DEF FreshAt, PB
<1>16. AllSettled'
  <2>1. ASSUME NEW cell \in Cells, OverridePending(cell) PROVE OverridePending(cell)'
    <3>1. PICK w \in Txs : job[w].op = "override" /\ job[w].to = cell /\ InTx(w)
      BY <2>1 DEF OverridePending
    <3>2. w # t
      BY <3>1, <1>1
    <3>3. job'[w] = job[w] /\ InTx(w)'
      BY <3>1, <3>2, <1>1, <1>2 DEF InTx, TypeOK
    <3> QED
      BY <3>1, <3>3 DEF OverridePending
  <2>2. ASSUME NEW cell \in Cells, Settled(cell) PROVE Settled(cell)'
    BY <2>2, <1>1, SettledSame
  <2> QED
    BY <2>1, <2>2, <1>2 DEF AllSettled
<1> QED
  BY <1>7, <1>8, <1>9, <1>11, <1>12, <1>14, <1>15, <1>16 DEF FreshInv

\* What a closing computes when it plays nothing in advance: the settlement of
\* the transaction's own view.
LEMMA CloseView ==
  ASSUME NEW t, NEW cells, NEW d \in Detections, NEW c \in Campaigns
  PROVE  LET e == <<c, ProjAfter(t)[d][c], DayOf[d]>>
         IN  Close(t, cells, NoPut)[d][c] =
               IF e \in cells /\ d \in Read(t, e, NoPut) THEN SettleCell(e, Read(t, e, NoPut))[d]
               ELSE NoCat
<1>1. NoCell[1] # c
  BY CellDayAssumption DEF NoCell
<1>2. Seat(t, d, c, NoPut) = <<c, ProjAfter(t)[d][c], DayOf[d]>>
  BY <1>1 DEF Seat, NoPut
<1> QED
  BY <1>2 DEF Close

LEMMA ReadView ==
  ASSUME NEW t, NEW cell \in Cells
  PROVE  Read(t, cell, NoPut) = View(t, cell)
<1>1. cell # NoCell /\ cell[1] \in Campaigns /\ cell = <<cell[1], cell[2], cell[3]>>
  BY NoCellIsNone DEF Cells
<1>2. NoCell[1] # cell[1]
  BY <1>1, CellDayAssumption DEF NoCell
<1>3. ASSUME NEW d \in Detections
      PROVE  Seat(t, d, cell[1], NoPut) = <<cell[1], ProjAfter(t)[d][cell[1]], DayOf[d]>>
  BY <1>2 DEF Seat, NoPut
<1>4. ASSUME NEW d \in Detections PROVE NoPut[d] # cell
  BY <1>1 DEF NoPut
<1>5. ASSUME NEW d \in Detections
      PROVE  Seat(t, d, cell[1], NoPut) = cell
             <=> DayOf[d] = cell[3] /\ ProjAfter(t)[d][cell[1]] = cell[2]
  BY <1>1, <1>3
<1> QED
  BY <1>4, <1>5 DEF Read, View, PlaysIn

\* A mutation or a recategorisation closes the cells it holds.
LEMMA SettleCellsKeeps ==
  ASSUME LockingInv, NEW t \in Txs, SettleCells(t)
  PROVE  JobInv' /\ RowInv' /\ ClaimInv' /\ MutateInv' /\ HoldInv' /\ FreshInv' /\ AllSettled'
<1> DEFINE new == Close(t, job[t].cells, NoPut)
<1>1. job[t].op \in {"mutate", "override"}
  BY DEF LockingInv, JobInv, JobAt, LockingOps, SettleCells
<1>2. PICK x \in {"base", "commit"} :
        /\ pc' = [pc EXCEPT ![t] = x]
        /\ job[t].op = "mutate" => x = "commit"
  BY <1>1 DEF SettleCells
<1>3. /\ pc[t] = "settle" /\ verdict' = [verdict EXCEPT ![t] = new]
      /\ UNCHANGED <<db, quota, lock, job, need, budget>>
      /\ TypeOK
  BY <1>1 DEF SettleCells, LockingInv, TypeInv
<1>4. RowInv' /\ ClaimInv' /\ MutateInv'
  BY <1>3, QuietKeeps DEF LockingInv
<1>5. JobInv'
  <2>1. ASSUME NEW u \in Txs PROVE JobAt(u)'
    <3>1. CASE u = t
      BY <3>1, <1>1, <1>2, <1>3 DEF LockingInv, JobInv, JobAt, TypeOK
    <3>2. CASE u # t
      BY <3>2, <1>1, <1>2, <1>3 DEF LockingInv, JobInv, JobAt, TypeOK
    <3> QED
      BY <3>1, <3>2
  <2> QED
    BY <2>1 DEF JobInv
<1>6. \A u \in Txs \ {t} : Done(u)' = Done(u)
  BY <1>2, <1>3 DEF Done, TypeOK
<1>7. Done(t) = {} /\ Done(t)' = job[t].cells /\ need[t] = {}
  BY <1>1, <1>2, <1>3 DEF Done, TypeOK, LockingInv, JobInv, JobAt
<1>8. HoldInv'
  BY <1>3, <1>6, <1>7 DEF LockingInv, HoldInv
<1>9. \A cell : OverrideWaits(cell)' <=> OverrideWaits(cell)
  BY <1>2, <1>3 DEF OverrideWaits, TypeOK
<1>10. ASSUME NEW u \in Txs \ {t} PROVE FreshAt(u)'
  <2>1. job'[u] = job[u] /\ verdict'[u] = verdict[u] /\ FreshAt(u)
    BY <1>3 DEF TypeOK, LockingInv, FreshInv
  <2> QED
    BY <2>1, <1>3, <1>6, <1>9, FreshSame
<1>11. FreshAt(t)'
  <2>1. ProjAfter(t)' = ProjAfter(t) /\ \A cell : View(t, cell)' = View(t, cell)
    BY <1>3, ViewSame
  <2>2. job[t].cells \in SUBSET Cells /\ verdict'[t] = new
    BY <1>3 DEF TypeOK, JobType
  <2>3. ASSUME NEW d \in Detections, NEW c \in Campaigns
        PROVE  new[d][c] = LET e == <<c, ProjAfter(t)[d][c], DayOf[d]>>
                           IN  IF e \in job[t].cells /\ d \in View(t, e)
                               THEN SettleCell(e, View(t, e))[d] ELSE NoCat
    <3> DEFINE e == <<c, ProjAfter(t)[d][c], DayOf[d]>>
    <3>1. e \in job[t].cells => Read(t, e, NoPut) = View(t, e)
      BY <2>2, ReadView
    <3> QED
      BY <3>1, CloseView
  <2> HIDE DEF new
  <2>4. ASSUME NEW cell \in job[t].cells PROVE FreshCell(t, cell)'
    <3>1. cell[1] \in Campaigns /\ cell = <<cell[1], cell[2], cell[3]>>
      BY <2>2 DEF Cells
    <3>2. ASSUME NEW d \in View(t, cell)
          PROVE  new[d][cell[1]] = SettleCell(cell, View(t, cell))[d]
      <4>1. d \in Detections /\ <<cell[1], ProjAfter(t)[d][cell[1]], DayOf[d]>> = cell
        BY <3>1 DEF View, PlaysIn
      <4> QED
        BY <4>1, <3>1, <2>3
    <3>3. SettleCell(cell, View(t, cell))' = SettleCell(cell, View(t, cell))
      BY <2>1, <1>3 DEF SettleCell
    <3> QED
      BY <3>2, <3>3, <2>1, <2>2 DEF FreshCell
  <2>5. ASSUME NEW d \in Detections, NEW c \in Campaigns, verdict'[t][d][c] # NoCat
        PROVE  <<c, ProjAfter(t)[d][c], DayOf[d]>> \in job[t].cells
    BY <2>2, <2>3, <2>5
  <2> QED
    BY <2>1, <2>4, <2>5, <1>7 DEF FreshAt
<1>12. AllSettled'
  <2>1. ASSUME NEW cell \in Cells, OverridePending(cell) PROVE OverridePending(cell)'
    BY <2>1, <1>2, <1>3 DEF OverridePending, InTx, TypeOK
  <2>2. ASSUME NEW cell \in Cells, Settled(cell) PROVE Settled(cell)'
    BY <2>2, <1>3, SettledSame
  <2> QED
    BY <2>1, <2>2 DEF LockingInv, AllSettled
<1> QED
  BY <1>4, <1>5, <1>8, <1>10, <1>11, <1>12 DEF FreshInv

\* The recategoriser's first statement stages nothing new: it locks rows.
LEMMA ApplyBaseKeeps ==
  ASSUME LockingInv, NEW t \in Txs, ApplyBase(t)
  PROVE  JobInv' /\ RowInv' /\ ClaimInv' /\ MutateInv' /\ HoldInv' /\ FreshInv' /\ AllSettled'
<1>1. /\ pc[t] = "base" /\ pc' = [pc EXCEPT ![t] = "commit"]
      /\ UNCHANGED <<db, quota, lock, need, verdict, budget>>
      /\ TypeOK
  BY DEF ApplyBase, LockingInv, TypeInv
<1>2. job' = [job EXCEPT ![t] = [job[t] EXCEPT !.held = BaseWrites(t)]]
  BY <1>1 DEF ApplyBase, TypeOK
<1>3. \A u \in Txs :
        /\ job'[u].op = job[u].op /\ job'[u].d = job[u].d /\ job'[u].to = job[u].to
        /\ job'[u].from = job[u].from /\ job'[u].todo = job[u].todo
        /\ job'[u].cells = job[u].cells /\ job'[u].put = job[u].put
        /\ job'[u].add = job[u].add /\ job'[u].del = job[u].del
  <2>1. job[t] \in JobType
    BY <1>1 DEF TypeOK
  <2> QED
    BY <2>1, <1>1, <1>2 DEF TypeOK, JobType
<1>4. RowInv' /\ ClaimInv' /\ MutateInv'
  BY <1>1, <1>3, QuietKeeps DEF LockingInv
<1>5. job[t].op = "override"
  BY <1>1 DEF LockingInv, JobInv, JobAt
<1>6. JobInv'
  <2>1. ASSUME NEW u \in Txs PROVE JobAt(u)'
    <3>1. JobAt(u) /\ need'[u] = need[u]
      BY <1>1 DEF LockingInv, JobInv
    <3>2. CASE u = t
      BY <3>1, <3>2, <1>1, <1>3, <1>5 DEF JobAt, TypeOK
    <3>3. CASE u # t
      BY <3>1, <3>3, <1>1, <1>3 DEF JobAt, TypeOK
    <3> QED
      BY <3>2, <3>3
  <2> QED
    BY <2>1 DEF JobInv
<1>7. \A u \in Txs : Done(u)' = Done(u)
  BY <1>1, <1>3, <1>5 DEF Done, TypeOK
<1>8. HoldInv'
  BY <1>1, <1>3, <1>7 DEF LockingInv, HoldInv
<1>9. \A cell : OverrideWaits(cell)' <=> OverrideWaits(cell)
  BY <1>1, <1>3 DEF OverrideWaits, TypeOK
<1>10. ASSUME NEW u \in Txs PROVE FreshAt(u)'
  <2>1. FreshAt(u) /\ verdict'[u] = verdict[u]
    BY <1>1 DEF LockingInv, FreshInv
  <2> QED
    BY <2>1, <1>1, <1>3, <1>7, <1>9, FreshSame
<1>11. AllSettled'
  <2>1. ASSUME NEW cell \in Cells, OverridePending(cell) PROVE OverridePending(cell)'
    BY <2>1, <1>1, <1>3 DEF OverridePending, InTx, TypeOK
  <2>2. ASSUME NEW cell \in Cells, Settled(cell) PROVE Settled(cell)'
    BY <2>2, <1>1, SettledSame
  <2> QED
    BY <2>1, <2>2 DEF LockingInv, AllSettled
<1> QED
  BY <1>4, <1>6, <1>8, <1>10, <1>11 DEF FreshInv

\* A transaction begins: its keys are all still to be taken, nothing is staged.
LEMMA StartKeeps ==
  ASSUME LockingInv, NEW t \in Txs, NEW j \in JobType, NEW keys, Start(t, j, keys),
         j.op \in LockingOps, j.put = NoPut,
         j.op = "insert" => /\ j.to = NoCell /\ j.cells = {} /\ j.todo # << >>
                            /\ keys = {Key(Head(j.todo)[2])}
                            /\ \A i \in 1..Len(j.todo) : Fresh(j.todo[i][1])
                            /\ \A i, k \in 1..Len(j.todo) :
                                 j.todo[i][1] = j.todo[k][1] => i = k,
         j.op # "insert" => keys = {Key(cell) : cell \in j.cells},
         j.op # "mutate" => j.add = {} /\ j.del = {},
         j.op = "mutate" => /\ Exists(j.d) /\ j.d \in Detections
                            /\ j.cells = AffectedCells(j.d),
         j.op = "override" => j.to \in Cells /\ j.cells = {j.to},
         \A cell \in Cells : quota'[cell] = quota[cell] \/ (j.op = "override" /\ j.to = cell)
  PROVE  JobInv' /\ RowInv' /\ ClaimInv' /\ MutateInv' /\ HoldInv' /\ FreshInv' /\ AllSettled'
<1>1. /\ pc[t] = "idle" /\ job' = [job EXCEPT ![t] = j]
      /\ need' = [need EXCEPT ![t] = keys]
      /\ pc' = [pc EXCEPT ![t] = IF keys = {} THEN "settle" ELSE "lock"]
      /\ UNCHANGED <<db, lock, verdict>>
      /\ TypeOK
  BY DEF Start, Idle, LockingInv, TypeInv
<1>2. job[t] = NoJob
  BY <1>1 DEF LockingInv, TypeInv, JobShape
<1>3. /\ job'[t] = j /\ need'[t] = keys
      /\ pc'[t] = IF keys = {} THEN "settle" ELSE "lock"
      /\ \A u \in Txs \ {t} : job'[u] = job[u] /\ pc'[u] = pc[u] /\ need'[u] = need[u]
  BY <1>1 DEF TypeOK
<1>4. JobInv'
  <2>1. ASSUME NEW u \in Txs PROVE JobAt(u)'
    <3>1. CASE u = t
      <4>1. j.op = "override" => keys \subseteq {Key(j.to)}
        OBVIOUS
      <4> QED
        BY <3>1, <4>1, <1>3 DEF JobAt, LockingOps
    <3>2. CASE u # t
      BY <3>2, <1>3 DEF LockingInv, JobInv, JobAt
    <3> QED
      BY <3>1, <3>2
  <2> QED
    BY <2>1 DEF JobInv
<1>5. RowInv'
  BY <1>1 DEF LockingInv, RowInv, Exists, db
<1>6. ASSUME NEW d PROVE Exists(d)' <=> Exists(d)
  BY <1>1 DEF Exists, db
<1>7. ClaimInv'
  <2>1. ASSUME NEW u \in Txs \ {t}, NEW d PROVE Claims(u, d)' <=> Claims(u, d)
    BY <1>3 DEF Claims
  <2>2. ASSUME NEW d \in Detections PROVE Claims(t, d)' <=> \E i \in 1..Len(j.todo) : j.todo[i][1] = d
    BY <1>3 DEF Claims, NoPut
  <2>3. ASSUME NEW d \in Detections, j.op = "insert", Claims(t, d)'
        PROVE  ~ Exists(d) /\ \A u \in Txs \ {t} : job[u].op = "insert" => ~ Claims(u, d)
    <3>1. Fresh(d)
      BY <2>2, <2>3
    <3>2. ~ Exists(d) /\ ~ Claimed(d)
      BY <3>1 DEF Fresh
    <3>3. ASSUME NEW u \in Txs, job[u].op = "insert", Claims(u, d) PROVE Claimed(d)
      <4>1. job[u].todo \in Seq(Lines)
        BY <1>1 DEF TypeOK, JobType
      <4>2. DOMAIN job[u].todo = 1..Len(job[u].todo)
        BY <4>1
      <4> QED
        BY <4>2, <3>3 DEF Claims, Claimed
    <3> QED
      BY <3>2, <3>3
  <2>4. ASSUME NEW u \in Txs \ {t}, job[u].op = "insert", NEW d \in Detections, Claims(u, d)
        PROVE  j.op = "insert" => ~ Claims(t, d)'
    BY <2>3, <2>4
  <2>5. ASSUME NEW u \in Txs, job'[u].op = "insert", NEW d \in Detections, Claims(u, d)'
        PROVE  ~ Exists(d) /\ \A w \in Txs \ {u} : job'[w].op = "insert" => ~ Claims(w, d)'
    <3>1. CASE u = t
      BY <3>1, <2>5, <2>1, <2>3, <1>3
    <3>2. CASE u # t
      <4>1. job[u].op = "insert" /\ Claims(u, d)
        BY <3>2, <2>5, <2>1, <1>3
      <4>2. ~ Exists(d) /\ \A w \in Txs \ {u} : job[w].op = "insert" => ~ Claims(w, d)
        BY <4>1 DEF LockingInv, ClaimInv
      <4> QED
        BY <3>2, <4>1, <4>2, <2>1, <2>4, <1>3
    <3> QED
      BY <3>1, <3>2
  <2>6. ASSUME NEW u \in Txs, job'[u].op = "insert"
        PROVE  LET q == job'[u] IN
               /\ \A d \in Detections : q.put[d] # NoCell => q.put[d] \in q.cells /\ q.put[d][3] = DayOf[d]
               /\ \A i \in 1..Len(q.todo) : q.put[q.todo[i][1]] = NoCell
               /\ \A i, k \in 1..Len(q.todo) : q.todo[i][1] = q.todo[k][1] => i = k
    <3>1. CASE u = t
      <4>1. \A i \in 1..Len(j.todo) : j.todo[i][1] \in Detections
        BY DEF JobType, Lines
      <4> QED
        BY <3>1, <4>1, <2>6, <1>3 DEF NoPut
    <3>2. CASE u # t
      BY <3>2, <2>6, <1>3 DEF LockingInv, ClaimInv
    <3> QED
      BY <3>1, <3>2
  <2> QED
    BY <2>5, <2>6, <1>6 DEF ClaimInv
<1>8. MutateInv'
  <2>1. \A d : AffectedCells(d)' = AffectedCells(d)
    BY <1>1 DEF AffectedCells, db
  <2>2. \A u \in Txs \ {t} : job'[u].op = "mutate" =>
          Exists(job'[u].d) /\ job'[u].d \in Detections /\ job'[u].cells = AffectedCells(job'[u].d)
    BY <1>3 DEF LockingInv, MutateInv
  <2>3. job'[t].op = "mutate" =>
          Exists(job'[t].d) /\ job'[t].d \in Detections /\ job'[t].cells = AffectedCells(job'[t].d)
    BY <1>3
  <2> QED
    BY <2>1, <2>2, <2>3, <1>6 DEF MutateInv
<1>9. Done(t) = {} /\ Done(t)' = {} /\ \A u \in Txs \ {t} : Done(u)' = Done(u)
  BY <1>1, <1>2, <1>3 DEF Done, NoJob
<1>10. HoldInv'
  <2>1. \A cell \in j.cells : Key(cell) \in keys
    BY DEF LockingOps
  <2> QED
    BY <2>1, <1>1, <1>3, <1>9 DEF LockingInv, HoldInv
<1>11. ASSUME NEW cell, OverrideWaits(cell) PROVE OverrideWaits(cell)'
  <2>1. PICK w \in Txs : job[w].op = "override" /\ job[w].to = cell /\ pc[w] = "lock"
    BY <1>11 DEF OverrideWaits
  <2> QED
    BY <2>1, <1>1, <1>3 DEF OverrideWaits
<1>12. ASSUME NEW cell \in Cells, quota'[cell] # quota[cell]
       PROVE  OverrideWaits(cell)' /\ OverridePending(cell)'
  <2>1. j.op = "override" /\ j.to = cell
    BY <1>12
  <2>2. Key(cell) \in keys
    BY <2>1
  <2> QED
    BY <2>1, <2>2, <1>3 DEF OverrideWaits, OverridePending, InTx
<1>13. ASSUME NEW u \in Txs \ {t} PROVE FreshAt(u)'
  <2>1. job'[u] = job[u] /\ verdict'[u] = verdict[u] /\ FreshAt(u)
    BY <1>1, <1>3 DEF LockingInv, FreshInv
  <2>2. Done(u) \in SUBSET Cells
    BY <1>1 DEF Done, TypeOK, JobType
  <2>3. \A cell \in Done(u) : \/ OverrideWaits(cell)'
                              \/ ~ OverrideWaits(cell) /\ quota'[cell] = quota[cell]
    BY <2>2, <1>11, <1>12
  <2> QED
    BY <2>1, <2>3, <1>1, <1>9, FreshSame
<1>14. FreshAt(t)'
  <2>1. FreshAt(t) /\ verdict'[t] = verdict[t]
    BY <1>1 DEF LockingInv, FreshInv
  <2> QED
    BY <2>1, <1>9 DEF FreshAt
<1>15. AllSettled'
  <2>1. ASSUME NEW cell \in Cells, OverridePending(cell) PROVE OverridePending(cell)'
    <3>1. PICK w \in Txs : job[w].op = "override" /\ job[w].to = cell /\ InTx(w)
      BY <2>1 DEF OverridePending
    <3>2. w # t
      BY <3>1, <1>1 DEF InTx
    <3>3. job'[w] = job[w] /\ InTx(w)'
      BY <3>1, <3>2, <1>3 DEF InTx
    <3> QED
      BY <3>1, <3>3 DEF OverridePending
  <2>2. ASSUME NEW cell \in Cells, Settled(cell) PROVE Settled(cell)' \/ OverridePending(cell)'
    <3>1. CASE quota'[cell] = quota[cell]
      BY <3>1, <2>2, <1>1, SettledSame
    <3>2. CASE quota'[cell] # quota[cell]
      BY <3>2, <1>12
    <3> QED
      BY <3>1, <3>2
  <2> QED
    BY <2>1, <2>2 DEF LockingInv, AllSettled
<1> QED
  BY <1>4, <1>5, <1>7, <1>8, <1>10, <1>13, <1>14, <1>15 DEF FreshInv

LEMMA BeginKeeps ==
  ASSUME LockingInv, Ops \subseteq LockingOps, NEW t \in Txs, Begin(t)
  PROVE  JobInv' /\ RowInv' /\ ClaimInv' /\ MutateInv' /\ HoldInv' /\ FreshInv' /\ AllSettled'
<1>0. TypeOK
  BY DEF LockingInv, TypeInv
<1>1. CASE BeginInsert(t)
  <2>0. PICK n \in 1..MaxBatch :
          \E ls \in [1..n -> Lines], fan \in Cells \cup {NoCell} :
            /\ IsBatch(ls)
            /\ fan # NoCell => "fanout" \in Ops
            /\ Start(t, [NoJob EXCEPT !.op = "insert", !.to = fan, !.todo = ls],
                     {Key(ls[1][2])})
            /\ UNCHANGED quota
    BY <1>1 DEF BeginInsert
  <2>1. PICK ls \in [1..n -> Lines], fan \in Cells \cup {NoCell} :
          /\ IsBatch(ls)
          /\ fan # NoCell => "fanout" \in Ops
          /\ Start(t, [NoJob EXCEPT !.op = "insert", !.to = fan, !.todo = ls],
                   {Key(ls[1][2])})
          /\ UNCHANGED quota
    BY <2>0
  <2>2. n \in Nat /\ 1 \in 1..n
    BY CellDayAssumption
  <2>3. ls \in Seq(Lines) /\ ls # << >> /\ Head(ls) = ls[1]
        /\ DOMAIN ls = 1..n /\ Len(ls) = n
    BY <2>2
  <2>4. fan = NoCell
    BY <2>1 DEF LockingOps
  <2> DEFINE j == [NoJob EXCEPT !.op = "insert", !.to = fan, !.todo = ls]
  <2>5. j \in JobType
    BY <2>3 DEF NoJob, JobType, NoPut
  <2>6. /\ j.op = "insert" /\ j.put = NoPut /\ j.todo = ls /\ j.to = NoCell /\ j.cells = {}
        /\ j.add = {} /\ j.del = {}
    BY <2>4 DEF NoJob
  <2>7. \A i, k \in 1..Len(ls) : Fresh(ls[i][1]) /\ (ls[i][1] = ls[k][1] => i = k)
    BY <2>1, <2>3 DEF IsBatch
  <2>8. Start(t, j, {Key(Head(ls)[2])})
    BY <2>1, <2>3
  <2> HIDE DEF j
  <2> QED
    BY <2>1, <2>3, <2>5, <2>6, <2>7, <2>8, StartKeeps DEF LockingOps
<1>2. CASE BeginMutate(t)
  <2>1. PICK d \in Detections, ch \in Changes :
          /\ Exists(d)
          /\ Start(t, [NoJob EXCEPT !.op = "mutate", !.d = d, !.cells = AffectedCells(d),
                                    !.add = ch.add, !.del = ch.del],
                   {Key(cell) : cell \in AffectedCells(d)})
          /\ UNCHANGED quota
    BY <1>2 DEF BeginMutate
  <2> DEFINE j == [NoJob EXCEPT !.op = "mutate", !.d = d, !.cells = AffectedCells(d),
                                !.add = ch.add, !.del = ch.del]
  <2>2. AffectedCells(d) \in SUBSET Cells /\ ch.add \in SUBSET Reasons /\ ch.del \in SUBSET Reasons
    BY DEF AffectedCells, Changes, RetractByID, ClearRetraction, Ignore, Restore,
        UpdateEvidence, MarkAmbiguous, Reasons
  <2>3. j \in JobType
    BY <2>2, NoJobType DEF NoJob, JobType
  <2>4. /\ j.op = "mutate" /\ j.put = NoPut /\ j.d = d /\ j.cells = AffectedCells(d)
    BY DEF NoJob
  <2>5. Start(t, j, {Key(cell) : cell \in j.cells})
    BY <2>1, <2>4
  <2> HIDE DEF j
  <2> QED
    BY <2>1, <2>3, <2>4, <2>5, StartKeeps DEF LockingOps
<1>3. CASE BeginOverride(t)
  <2>1. PICK cell \in Cells, n \in Goals :
          /\ quota' = [quota EXCEPT ![cell] = n]
          /\ Start(t, [NoJob EXCEPT !.op = "override", !.to = cell, !.cells = {cell}],
                   {Key(cell)})
    BY <1>3 DEF BeginOverride
  <2> DEFINE j == [NoJob EXCEPT !.op = "override", !.to = cell, !.cells = {cell}]
  <2>2. j \in JobType
    BY NoJobType DEF NoJob, JobType
  <2>3. /\ j.op = "override" /\ j.put = NoPut /\ j.to = cell /\ j.cells = {cell}
        /\ j.add = {} /\ j.del = {}
    BY DEF NoJob
  <2>4. {Key(e) : e \in j.cells} = {Key(cell)}
    BY <2>3
  <2>5. Start(t, j, {Key(e) : e \in j.cells})
    BY <2>1, <2>4
  <2>6. \A e \in Cells : quota'[e] = quota[e] \/ j.to = e
    BY <2>1, <2>3, <1>0 DEF TypeOK
  <2> HIDE DEF j
  <2> QED
    BY <2>2, <2>3, <2>5, <2>6, StartKeeps DEF LockingOps
<1>4. ~ (BeginReattribute(t) \/ BeginUnreject(t) \/ BeginRecat(t) \/ BeginHeal(t))
  BY DEF BeginReattribute, BeginUnreject, BeginRecat, BeginHeal, LockingOps
<1> QED
  BY <1>1, <1>2, <1>3, <1>4 DEF Begin

\* A transaction rolls back: nothing it staged was ever visible.
LEMMA AbortKeeps ==
  ASSUME LockingInv, Ops \subseteq LockingOps, NEW t \in Txs, Abort(t)
  PROVE  JobInv' /\ RowInv' /\ ClaimInv' /\ MutateInv' /\ HoldInv' /\ FreshInv' /\ AllSettled'
<1>1. job[t].op \in {"insert", "mutate"} /\ pc[t] # "idle"
  BY DEF Abort, LockingInv, JobInv, JobAt, LockingOps, InTx
<1>2. /\ Release(t) /\ End(t)
      /\ UNCHANGED <<db, quota>>
      /\ TypeOK
  BY <1>1 DEF Abort, LockingInv, TypeInv
<1>3. /\ job'[t] = NoJob /\ pc'[t] = "idle" /\ need'[t] = {} /\ verdict'[t] = NoVerdict
      /\ \A u \in Txs \ {t} : /\ job'[u] = job[u] /\ pc'[u] = pc[u]
                              /\ need'[u] = need[u] /\ verdict'[u] = verdict[u]
  BY <1>2 DEF End, TypeOK
<1>4. NoJob.op = "none" /\ NoJob.put = NoPut /\ NoJob.add = {} /\ NoJob.del = {}
      /\ NoJob.cells = {}
  BY DEF NoJob
<1>5. JobInv'
  <2>1. \A u \in Txs \ {t} : JobAt(u)'
    BY <1>3 DEF LockingInv, JobInv, JobAt
  <2>2. JobAt(t)'
    BY <1>3, <1>4 DEF JobAt
  <2> QED
    BY <2>1, <2>2 DEF JobInv
<1>6. RowInv'
  BY <1>2 DEF LockingInv, RowInv, Exists, db
<1>7. ASSUME NEW d PROVE Exists(d)' <=> Exists(d)
  BY <1>2 DEF Exists, db
<1>8. ClaimInv'
  <2>1. \A u \in Txs \ {t} : \A d : Claims(u, d)' <=> Claims(u, d)
    BY <1>3 DEF Claims
  <2> QED
    BY <2>1, <1>3, <1>4, <1>7 DEF LockingInv, ClaimInv
<1>9. MutateInv'
  <2>1. \A d : AffectedCells(d)' = AffectedCells(d)
    BY <1>2 DEF AffectedCells, db
  <2> QED
    BY <2>1, <1>3, <1>4, <1>7 DEF LockingInv, MutateInv
<1>10. \A u \in Txs \ {t} : Done(u)' = Done(u)
  BY <1>3 DEF Done
<1>11. Done(t)' = {}
  BY <1>3, <1>4 DEF Done
<1>12. ASSUME NEW u \in Txs \ {t}, NEW k \in Keys, lock[k] = u PROVE lock'[k] = u
  BY <1>2, <1>12 DEF Release
<1>13. HoldInv'
  <2>1. \A u \in Txs : \A cell \in job[u].cells : Key(cell) \in Keys
    BY <1>2, KeyType DEF TypeOK, JobType
  <2>2. \A u \in Txs : job[u].todo # << >> => Key(Head(job[u].todo)[2]) \in Keys
    BY <1>2, HeadLine DEF TypeOK, JobType
  <2>3. \A u \in Txs : Done(u) \subseteq job[u].cells
    BY DEF Done
  <2> QED
    BY <2>1, <2>2, <2>3, <1>3, <1>4, <1>10, <1>11, <1>12 DEF LockingInv, HoldInv
<1>14. ASSUME NEW cell PROVE OverrideWaits(cell)' <=> OverrideWaits(cell)
  BY <1>1, <1>3, <1>4 DEF OverrideWaits
<1>15. ASSUME NEW u \in Txs \ {t} PROVE FreshAt(u)'
  <2>1. job'[u] = job[u] /\ verdict'[u] = verdict[u] /\ FreshAt(u)
    BY <1>3 DEF LockingInv, FreshInv
  <2> QED
    BY <2>1, <1>2, <1>10, <1>14, FreshSame
<1>16. FreshAt(t)'
  BY <1>3, <1>11 DEF FreshAt, NoVerdict
<1>17. AllSettled'
  <2>1. ASSUME NEW cell \in Cells, OverridePending(cell) PROVE OverridePending(cell)'
    BY <2>1, <1>1, <1>3 DEF OverridePending, InTx
  <2>2. ASSUME NEW cell \in Cells, Settled(cell) PROVE Settled(cell)'
    BY <2>2, <1>2, SettledSame
  <2> QED
    BY <2>1, <2>2 DEF LockingInv, AllSettled
<1> QED
  BY <1>5, <1>6, <1>8, <1>9, <1>13, <1>15, <1>16, <1>17 DEF FreshInv

\* What the commit of t writes: only plays it inserted appear, and only the play
\* it mutates changes its flags.
LEMMA CommitWrites ==
  ASSUME LockingInv, NEW t \in Txs, Commit(t)
  PROVE  /\ pc[t] = "commit" /\ job[t].op \in LockingOps /\ Release(t) /\ End(t)
         /\ UNCHANGED <<quota, budget>>
         /\ proj' = ProjAfter(t) /\ out' = OutAfter(t)
         /\ Done(t) = job[t].cells /\ job[t].cells \in SUBSET Cells
         /\ \A d \in Detections :
              /\ Exists(d) => Exists(d)'
              /\ Exists(d)' => Exists(d) \/ job[t].put[d] # NoCell
              /\ job[t].put[d] = NoCell => \A c \in Campaigns : proj'[d][c] = proj[d][c]
              /\ job[t].put[d] # NoCell =>
                   /\ ~ Exists(d) /\ job[t].op = "insert"
                   /\ \A c \in Campaigns : proj'[d][c] =
                        IF c = job[t].put[d][1] THEN job[t].put[d][2] ELSE NoType
              /\ out'[d] # out[d] => job[t].op = "mutate" /\ d = job[t].d
<1>1. /\ TypeOK /\ JobAt(t) /\ pc[t] = "commit"
      /\ job[t].op \in LockingOps
      /\ job[t] \in JobType
  BY DEF LockingInv, TypeInv, TypeOK, JobInv, JobAt, Commit
<1>2. /\ Release(t) /\ End(t) /\ UNCHANGED <<quota, budget>>
      /\ proj' = ProjAfter(t) /\ out' = OutAfter(t) /\ home' = HomeAfter(t)
  BY <1>1 DEF Commit, JobAt, LockingOps
<1>3. Done(t) = job[t].cells /\ job[t].cells \in SUBSET Cells
  BY <1>1 DEF Done, JobType
<1>4. ~ Moves(t) /\ (Places(t) <=> job[t].op = "insert")
  BY <1>1 DEF Moves, Places, LockingOps
<1>5. NoCell[1] \notin Campaigns
  BY CellDayAssumption DEF NoCell
<1>6. \A d \in Detections : job[t].put[d] = NoCell \/ job[t].put[d] \in Cells
  BY <1>1 DEF JobType
<1>7. ASSUME NEW d \in Detections, job[t].put[d] # NoCell
      PROVE  ~ Exists(d) /\ job[t].op = "insert" /\ \A c \in Campaigns : proj[d][c] = NoType
  <2>1. job[t].op = "insert"
    BY <1>1, <1>7 DEF JobAt, NoPut
  <2>2. Claims(t, d)
    BY <1>7 DEF Claims
  <2>3. ~ Exists(d)
    BY <2>1, <2>2 DEF LockingInv, ClaimInv
  <2> QED
    BY <2>1, <2>3 DEF LockingInv, RowInv
<1>8. ASSUME NEW d \in Detections, NEW c \in Campaigns
      PROVE  proj'[d][c] = IF job[t].put[d] # NoCell /\ c = job[t].put[d][1]
                           THEN job[t].put[d][2] ELSE proj[d][c]
  <2>1. proj'[d][c] = IF job[t].op = "insert" /\ job[t].put[d][1] = c
                      THEN job[t].put[d][2] ELSE proj[d][c]
    BY <1>2, <1>4 DEF ProjAfter
  <2> QED
    BY <2>1, <1>5, <1>7
<1>9. ASSUME NEW d \in Detections
      PROVE  home'[d] = IF job[t].put[d] # NoCell THEN <<job[t].put[d][1], job[t].put[d][2]>>
                        ELSE home[d]
  BY <1>2, <1>4, <1>7 DEF HomeAfter
<1>10. ASSUME NEW d \in Detections
       PROVE  (Exists(d) => Exists(d)') /\ (Exists(d)' => Exists(d) \/ job[t].put[d] # NoCell)
  BY <1>7, <1>9 DEF Exists
<1>11. ASSUME NEW d \in Detections, out'[d] # out[d]
       PROVE  job[t].op = "mutate" /\ d = job[t].d
  <2>1. out'[d] = IF d = job[t].d THEN (out[d] \cup job[t].add) \ job[t].del ELSE out[d]
    BY <1>2 DEF OutAfter
  <2>2. job[t].op # "mutate" => job[t].add = {} /\ job[t].del = {}
    BY <1>1 DEF JobAt
  <2> QED
    BY <2>1, <2>2, <1>11
<1> QED
  BY <1>1, <1>2, <1>3, <1>7, <1>8, <1>10, <1>11

\* A cell that t does not close is left as it was: the same plays sit in it, with
\* the same flags, and nothing is staged for them.
LEMMA CommitFrame ==
  ASSUME LockingInv, NEW t \in Txs, Commit(t), NEW cell \in Cells, cell \notin job[t].cells,
         NEW d \in Detections, DayOf[d] = cell[3]
  PROVE  /\ proj'[d][cell[1]] = cell[2] <=> proj[d][cell[1]] = cell[2]
         /\ proj[d][cell[1]] = cell[2] => out'[d] = out[d] /\ verdict[t][d][cell[1]] = NoCat
<1>1. /\ cell[1] \in Campaigns /\ cell[2] \in Types /\ cell = <<cell[1], cell[2], cell[3]>>
      /\ NoType \notin Types
  BY CellDayAssumption DEF Cells, NoType
<1>2. proj'[d][cell[1]] = cell[2] <=> proj[d][cell[1]] = cell[2]
  <2>1. CASE job[t].put[d] = NoCell
    BY <2>1, <1>1, CommitWrites
  <2>2. CASE job[t].put[d] # NoCell
    <3>1. job[t].put[d] \in job[t].cells /\ job[t].put[d][3] = DayOf[d]
          /\ job[t].put[d] = <<job[t].put[d][1], job[t].put[d][2], job[t].put[d][3]>>
      BY <2>2, CommitWrites DEF LockingInv, ClaimInv, Cells
    <3>2. proj[d][cell[1]] = NoType
      BY <2>2, <1>1, CommitWrites DEF LockingInv, RowInv
    <3>3. proj'[d][cell[1]] = IF cell[1] = job[t].put[d][1] THEN job[t].put[d][2] ELSE NoType
      BY <2>2, <1>1, CommitWrites
    <3> QED
      BY <3>1, <3>2, <3>3, <1>1
  <2> QED
    BY <2>1, <2>2
<1>3. ASSUME proj[d][cell[1]] = cell[2], out'[d] # out[d] PROVE FALSE
  <2>1. job[t].op = "mutate" /\ d = job[t].d
    BY <1>3, CommitWrites
  <2>2. job[t].cells = AffectedCells(d)
    BY <2>1 DEF LockingInv, MutateInv
  <2>3. cell \in AffectedCells(d)
    BY <1>3 DEF AffectedCells
  <2> QED
    BY <2>2, <2>3
<1>4. ASSUME proj[d][cell[1]] = cell[2], verdict[t][d][cell[1]] # NoCat PROVE FALSE
  <2>1. <<cell[1], ProjAfter(t)[d][cell[1]], DayOf[d]>> \in Done(t)
    BY <1>1, <1>4 DEF LockingInv, FreshInv, FreshAt
  <2>2. ProjAfter(t)[d][cell[1]] = cell[2]
    BY <1>2, <1>4, CommitWrites
  <2> QED
    BY <2>1, <2>2, <1>1, CommitWrites
<1> QED
  BY <1>2, <1>3, <1>4

\* The commit publishes the staged verdicts of the cells that t holds, and no
\* other transaction is at work on any of them.
LEMMA CommitKeeps ==
  ASSUME LockingInv, NEW t \in Txs, Commit(t)
  PROVE  JobInv' /\ RowInv' /\ ClaimInv' /\ MutateInv' /\ HoldInv' /\ FreshInv' /\ AllSettled'
<1>1. /\ pc[t] = "commit" /\ job[t].op \in LockingOps /\ Release(t) /\ End(t)
      /\ quota' = quota /\ proj' = ProjAfter(t) /\ out' = OutAfter(t)
      /\ Done(t) = job[t].cells /\ job[t].cells \in SUBSET Cells
      /\ TypeOK
  BY CommitWrites DEF LockingInv, TypeInv
<1>2. /\ job'[t] = NoJob /\ pc'[t] = "idle" /\ need'[t] = {} /\ verdict'[t] = NoVerdict
      /\ \A u \in Txs \ {t} : /\ job'[u] = job[u] /\ pc'[u] = pc[u]
                              /\ need'[u] = need[u] /\ verdict'[u] = verdict[u]
  BY <1>1 DEF End, TypeOK
<1>3. /\ NoJob.op = "none" /\ NoJob.put = NoPut /\ NoJob.add = {} /\ NoJob.del = {}
      /\ NoJob.cells = {}
  BY DEF NoJob
<1>4. JobInv'
  <2>1. \A u \in Txs \ {t} : JobAt(u)'
    BY <1>2 DEF LockingInv, JobInv, JobAt
  <2>2. JobAt(t)'
    BY <1>2, <1>3 DEF JobAt
  <2> QED
    BY <2>1, <2>2 DEF JobInv
<1>5. RowInv'
  <2> SUFFICES ASSUME NEW d \in Detections, ~ Exists(d)'
               PROVE  out'[d] = {} /\ \A c \in Campaigns : proj'[d][c] = NoType
    BY DEF RowInv
  <2>1. ~ Exists(d) /\ job[t].put[d] = NoCell
    <3>1. job[t].put[d] # NoCell => Exists(d)'
      <4>1. ASSUME job[t].put[d] # NoCell PROVE home'[d] = <<job[t].put[d][1], job[t].put[d][2]>>
        <5>1. job[t].op = "insert" /\ home' = HomeAfter(t)
          BY <4>1, CommitWrites DEF Commit
        <5> QED
          BY <4>1, <5>1 DEF HomeAfter, Places
      <4>2. ASSUME job[t].put[d] # NoCell PROVE job[t].put[d][1] # 0
        <5>1. job[t].put[d] \in Cells
          BY <4>2, <1>1 DEF TypeOK, JobType
        <5> QED
          BY <5>1, CellDayAssumption DEF Cells
      <4> QED
        BY <4>1, <4>2 DEF Exists, NoHome
    <3> QED
      BY <3>1, CommitWrites
  <2>2. out[d] = {} /\ \A c \in Campaigns : proj[d][c] = NoType
    BY <2>1 DEF LockingInv, RowInv
  <2>3. out'[d] = out[d]
    BY <2>1, CommitWrites DEF LockingInv, MutateInv
  <2> QED
    BY <2>1, <2>2, <2>3, CommitWrites
<1>6. ClaimInv'
  <2>1. \A u \in Txs \ {t} : \A d : Claims(u, d)' <=> Claims(u, d)
    BY <1>2 DEF Claims
  <2>2. ASSUME NEW u \in Txs \ {t}, job[u].op = "insert", NEW d \in Detections, Claims(u, d)
        PROVE  ~ Exists(d)' /\ \A w \in Txs \ {u} : job[w].op = "insert" => ~ Claims(w, d)
    <3>1. ~ Exists(d) /\ \A w \in Txs \ {u} : job[w].op = "insert" => ~ Claims(w, d)
      BY <2>2 DEF LockingInv, ClaimInv
    <3>2. job[t].put[d] = NoCell
      BY <3>1, CommitWrites DEF Claims
    <3> QED
      BY <3>1, <3>2, CommitWrites
  <2>3. \A u \in Txs : job'[u].op = "insert" => u # t /\ job[u].op = "insert"
    BY <1>2, <1>3
  <2> QED
    BY <2>1, <2>2, <2>3, <1>2 DEF LockingInv, ClaimInv
<1>7. MutateInv'
  <2>1. ASSUME NEW u \in Txs, job'[u].op = "mutate"
        PROVE  (Exists(job[u].d) /\ job[u].d \in Detections /\ job[u].cells = AffectedCells(job[u].d))'
    <3>1. u # t /\ job'[u] = job[u] /\ job[u].op = "mutate"
      BY <2>1, <1>2, <1>3
    <3>2. PICK d \in Detections : d = job[u].d
      BY <3>1 DEF LockingInv, MutateInv
    <3>3. Exists(d) /\ job[u].cells = AffectedCells(d)
      BY <3>1, <3>2 DEF LockingInv, MutateInv
    <3>4. Exists(d)' /\ \A c \in Campaigns : proj'[d][c] = proj[d][c]
      BY <3>3, CommitWrites
    <3>5. AffectedCells(d)' = AffectedCells(d)
      BY <3>4 DEF AffectedCells, Cells
    <3> QED
      BY <3>1, <3>2, <3>3, <3>4, <3>5
  <2> QED
    BY <2>1 DEF MutateInv
<1>8. \A u \in Txs \ {t} : Done(u)' = Done(u)
  BY <1>2 DEF Done
<1>9. Done(t)' = {}
  BY <1>2, <1>3 DEF Done
<1>10. ASSUME NEW u \in Txs \ {t}, NEW k \in Keys, lock[k] = u PROVE lock'[k] = u
  BY <1>1, <1>10 DEF Release
<1>11. \A u \in Txs : Done(u) \subseteq job[u].cells /\ job[u].cells \in SUBSET Cells
  BY <1>1 DEF Done, TypeOK, JobType
<1>12. HoldInv'
  <2>1. \A u \in Txs : \A cell \in job[u].cells : Key(cell) \in Keys
    BY <1>11, KeyType
  <2>2. \A u \in Txs : job[u].todo # << >> => Key(Head(job[u].todo)[2]) \in Keys
    BY <1>1, HeadLine DEF TypeOK, JobType
  <2> QED
    BY <2>1, <2>2, <1>2, <1>3, <1>8, <1>9, <1>10, <1>11 DEF LockingInv, HoldInv
<1>13. ASSUME NEW cell, OverrideWaits(cell) PROVE OverrideWaits(cell)'
  <2>1. PICK w \in Txs : job[w].op = "override" /\ job[w].to = cell /\ pc[w] = "lock"
    BY <1>13 DEF OverrideWaits
  <2> QED
    BY <2>1, <1>1, <1>2 DEF OverrideWaits
<1>14. ASSUME NEW cell, NEW P PROVE SettleCell(cell, P)' = SettleCell(cell, P')
  BY <1>1 DEF SettleCell
<1>15. ASSUME NEW u \in Txs \ {t} PROVE FreshAt(u)'
  <2>1. FreshAt(u) /\ job'[u] = job[u] /\ verdict'[u] = verdict[u] /\ Done(u)' = Done(u)
    BY <1>2, <1>8 DEF LockingInv, FreshInv
  <2>2. ASSUME NEW cell \in Done(u) PROVE cell \in Cells /\ cell \notin job[t].cells
    <3>1. lock[Key(cell)] = u /\ cell \in Cells
      BY <1>11 DEF LockingInv, HoldInv
    <3>2. \A e \in job[t].cells : lock[Key(e)] = t
      BY <1>1 DEF LockingInv, HoldInv
    <3> QED
      BY <3>1, <3>2
  <2>3. ASSUME NEW d \in Detections, NEW c \in Campaigns
        PROVE  /\ ProjAfter(u)[d][c] = IF Places(u) /\ job[u].put[d][1] = c
                                       THEN job[u].put[d][2] ELSE proj[d][c]
               /\ ProjAfter(u)'[d][c] = IF Places(u) /\ job[u].put[d][1] = c
                                        THEN job[u].put[d][2] ELSE proj'[d][c]
    <3>1. ~ Moves(u)
      BY DEF Moves, LockingInv, JobInv, JobAt, LockingOps
    <3> QED
      BY <3>1, <2>1 DEF ProjAfter, Places, Moves
  <2>4. ASSUME NEW d \in Detections
        PROVE  /\ OutAfter(u)[d] = IF d = job[u].d THEN (out[d] \cup job[u].add) \ job[u].del ELSE out[d]
               /\ OutAfter(u)'[d] = IF d = job[u].d THEN (out'[d] \cup job[u].add) \ job[u].del ELSE out'[d]
    BY <2>1 DEF OutAfter
  <2>5. ASSUME NEW cell \in Done(u), NEW d \in Detections, DayOf[d] = cell[3]
        PROVE  /\ ProjAfter(u)'[d][cell[1]] = cell[2] <=> ProjAfter(u)[d][cell[1]] = cell[2]
               /\ ProjAfter(u)[d][cell[1]] = cell[2] => out'[d] = out[d]
    <3>1. cell \in Cells /\ cell \notin job[t].cells /\ cell[1] \in Campaigns
      BY <2>2 DEF Cells
    <3>2. /\ proj'[d][cell[1]] = cell[2] <=> proj[d][cell[1]] = cell[2]
          /\ proj[d][cell[1]] = cell[2] => out'[d] = out[d]
      BY <3>1, <2>5, CommitFrame
    <3>3. ASSUME Places(u), job[u].put[d][1] = cell[1] PROVE out'[d] = out[d]
      <4>1. job[u].op = "insert" /\ job[u].put[d] # NoCell
        <5>1. NoCell[1] # cell[1]
          BY <3>1, CellDayAssumption DEF NoCell
        <5> QED
          BY <5>1, <3>3 DEF Places, LockingInv, JobInv, JobAt, LockingOps
      <4>2. ~ Exists(d)
        BY <4>1 DEF LockingInv, ClaimInv, Claims
      <4> QED
        BY <4>2, CommitWrites DEF LockingInv, MutateInv
    <3> QED
      BY <3>1, <3>2, <3>3, <2>3
  <2>6. ASSUME NEW cell \in Done(u) PROVE View(u, cell)' = View(u, cell)
    <3>1. ASSUME NEW d \in Detections, DayOf[d] = cell[3], ProjAfter(u)[d][cell[1]] = cell[2]
          PROVE  OutAfter(u)'[d] = OutAfter(u)[d]
      <4>1. out'[d] = out[d]
        BY <2>5, <3>1
      <4> QED
        BY <4>1, <2>4
    <3>2. ASSUME NEW d \in Detections, DayOf[d] = cell[3]
          PROVE  ProjAfter(u)'[d][cell[1]] = cell[2] <=> ProjAfter(u)[d][cell[1]] = cell[2]
      BY <2>5, <3>2
    <3> QED
      BY <3>1, <3>2 DEF View, PlaysIn
  <2>7. ASSUME NEW cell \in Done(u), ~ OverrideWaits(cell)' PROVE FreshCell(u, cell)'
    <3>1. FreshCell(u, cell)
      BY <2>1, <2>7, <1>13 DEF FreshAt
    <3>2. SettleCell(cell, View(u, cell))' = SettleCell(cell, View(u, cell))
      BY <2>6, <1>1 DEF SettleCell
    <3> QED
      BY <3>1, <3>2, <2>1, <2>6 DEF FreshCell
  <2>8. ASSUME NEW d \in Detections, NEW c \in Campaigns, verdict'[u][d][c] # NoCat
        PROVE  <<c, ProjAfter(u)'[d][c], DayOf[d]>> \in Done(u)
    <3> DEFINE cell == <<c, ProjAfter(u)[d][c], DayOf[d]>>
    <3>1. cell \in Done(u)
      BY <2>1, <2>8 DEF FreshAt
    <3>2. cell[1] = c /\ cell[2] = ProjAfter(u)[d][c] /\ cell[3] = DayOf[d]
      OBVIOUS
    <3> HIDE DEF cell
    <3>3. ProjAfter(u)'[d][c] = ProjAfter(u)[d][c]
      BY <3>1, <3>2, <2>5
    <3> QED
      BY <3>1, <3>3 DEF cell
  <2> QED
    BY <2>1, <2>7, <2>8 DEF FreshAt
<1>16. FreshAt(t)'
  BY <1>2, <1>9 DEF FreshAt, NoVerdict
<1>17. ASSUME NEW cell, OverrideWaits(cell) PROVE OverridePending(cell)'
  BY <1>13, <1>17 DEF OverrideWaits, OverridePending, InTx
<1>18. ASSUME NEW d \in Detections, NEW c \in Campaigns, proj'[d][c] # NoType
       PROVE  cat'[d][c] = IF verdict[t][d][c] # NoCat THEN verdict[t][d][c] ELSE cat[d][c]
  BY <1>18 DEF Commit
<1>19. ASSUME NEW cell \in job[t].cells, ~ OverrideWaits(cell) PROVE Settled(cell)'
  <2>1. /\ cell[1] \in Campaigns /\ cell[2] \in Types /\ cell = <<cell[1], cell[2], cell[3]>>
        /\ NoType \notin Types
    BY <1>1, CellDayAssumption DEF Cells, NoType
  <2>2. Plays(cell)' = View(t, cell)
    BY <1>1 DEF Plays, View, PlaysIn
  <2>3. FreshCell(t, cell)
    BY <1>1, <1>19 DEF LockingInv, FreshInv, FreshAt
  <2>4. ASSUME NEW d \in View(t, cell)
        PROVE  cat'[d][cell[1]] = SettleCell(cell, View(t, cell))[d]
    <3>1. d \in Detections /\ proj'[d][cell[1]] # NoType
      BY <1>1, <2>1 DEF View, PlaysIn
    <3>2. verdict[t][d][cell[1]] = SettleCell(cell, View(t, cell))[d]
      BY <2>3 DEF FreshCell
    <3>3. SettleCell(cell, View(t, cell))[d] # NoCat
      BY SettleCellType DEF Categories, NoCat
    <3> QED
      BY <3>1, <3>2, <3>3, <2>1, <1>18
  <2>5. SettleCell(cell, Plays(cell))' = SettleCell(cell, View(t, cell))
    BY <2>2, <1>1 DEF SettleCell
  <2> QED
    BY <2>2, <2>4, <2>5 DEF Settled
<1>20. ASSUME NEW cell \in Cells, cell \notin job[t].cells, Settled(cell) PROVE Settled(cell)'
  <2>1. /\ cell[1] \in Campaigns /\ cell[2] \in Types /\ NoType \notin Types
    BY CellDayAssumption DEF Cells, NoType
  <2>2. Plays(cell)' = Plays(cell)
    BY <1>20, CommitFrame DEF Plays, PlaysIn
  <2>3. ASSUME NEW d \in Plays(cell) PROVE cat'[d][cell[1]] = cat[d][cell[1]]
    <3>1. d \in Detections /\ DayOf[d] = cell[3] /\ proj[d][cell[1]] = cell[2]
      BY DEF Plays, PlaysIn
    <3>2. verdict[t][d][cell[1]] = NoCat /\ proj'[d][cell[1]] # NoType
      BY <3>1, <2>1, <1>20, CommitFrame
    <3> QED
      BY <3>1, <3>2, <2>1, <1>18
  <2>4. SettleCell(cell, Plays(cell))' = SettleCell(cell, Plays(cell))
    BY <2>2, <1>1 DEF SettleCell
  <2> QED
    BY <2>2, <2>3, <2>4, <1>20 DEF Settled
<1>21. AllSettled'
  <2>1. ASSUME NEW cell \in Cells PROVE Settled(cell)' \/ OverridePending(cell)'
    <3>1. CASE cell \in job[t].cells
      BY <3>1, <1>17, <1>19
    <3>2. CASE cell \notin job[t].cells
      <4>1. ASSUME OverridePending(cell) PROVE OverridePending(cell)'
        <5>1. PICK w \in Txs : job[w].op = "override" /\ job[w].to = cell /\ InTx(w)
          BY <4>1 DEF OverridePending
        <5>2. w # t
          BY <5>1, <3>2 DEF LockingInv, JobInv, JobAt
        <5> QED
          BY <5>1, <5>2, <1>2 DEF OverridePending, InTx
      <4> QED
        BY <3>2, <4>1, <1>20 DEF LockingInv, AllSettled
    <3> QED
      BY <3>1, <3>2
  <2> QED
    BY <2>1 DEF AllSettled
<1> QED
  BY <1>4, <1>5, <1>6, <1>7, <1>12, <1>15, <1>16, <1>21 DEF FreshInv

LEMMA InitLocking == Init => LockingInv
<1> SUFFICES ASSUME Init PROVE LockingInv
  OBVIOUS
<1>1. TypeInv
  BY InitType
<1>2. /\ \A t \in Txs : job[t] = NoJob /\ pc[t] = "idle" /\ need[t] = {} /\ verdict[t] = NoVerdict
      /\ \A d \in Detections : home[d] = NoHome /\ out[d] = {}
                               /\ \A c \in Campaigns : proj[d][c] = NoType
  BY DEF Init
<1>3. NoJob.op = "none" /\ NoJob.put = NoPut /\ NoJob.add = {} /\ NoJob.del = {}
      /\ NoJob.cells = {} /\ NoJob.todo = << >>
  BY DEF NoJob
<1>4. JobInv /\ RowInv /\ ClaimInv /\ MutateInv
  BY <1>2, <1>3 DEF JobInv, JobAt, RowInv, ClaimInv, MutateInv
<1>5. \A t \in Txs : Done(t) = {}
  BY <1>2, <1>3 DEF Done
<1>6. HoldInv
  BY <1>2, <1>3, <1>5 DEF HoldInv
<1>7. FreshInv
  BY <1>2, <1>5 DEF FreshInv, FreshAt, NoVerdict
<1>8. AllSettled
  <2>1. ASSUME NEW cell \in Cells PROVE Plays(cell) = {}
    <3>1. cell[1] \in Campaigns /\ cell[2] # NoType
      BY CellDayAssumption DEF Cells, NoType
    <3> QED
      BY <3>1, <1>2 DEF Plays, PlaysIn
  <2> QED
    BY <2>1 DEF AllSettled, Settled
<1> QED
  BY <1>1, <1>4, <1>6, <1>7, <1>8 DEF LockingInv

LEMMA NextLocking ==
  ASSUME LockingInv, Ops \subseteq LockingOps, [Next]_vars
  PROVE  LockingInv'
<1>1. TypeInv'
  BY NextType DEF LockingInv
<1>2. CASE UNCHANGED vars
  <2>1. UNCHANGED db /\ UNCHANGED <<quota, lock, pc, job, need, verdict>>
    BY <1>2 DEF vars, ctl
  <2>2. RowInv' /\ ClaimInv' /\ MutateInv'
    BY <2>1, QuietKeeps DEF LockingInv
  <2>3. JobInv' /\ HoldInv'
    BY <2>1 DEF LockingInv, JobInv, JobAt, HoldInv, Done
  <2>4. ASSUME NEW u \in Txs PROVE FreshAt(u)'
    <3>1. FreshAt(u) /\ Done(u)' = Done(u)
      BY <2>1 DEF LockingInv, FreshInv, Done
    <3>2. \A cell : OverrideWaits(cell)' <=> OverrideWaits(cell)
      BY <2>1 DEF OverrideWaits
    <3> QED
      BY <2>1, <3>1, <3>2, FreshSame
  <2>5. AllSettled'
    <3>1. \A cell : OverridePending(cell) => OverridePending(cell)'
      BY <2>1 DEF OverridePending, InTx
    <3>2. ASSUME NEW cell \in Cells, Settled(cell) PROVE Settled(cell)'
      BY <2>1, <3>2, SettledSame
    <3> QED
      BY <3>1, <3>2 DEF LockingInv, AllSettled
  <2> QED
    BY <1>1, <2>2, <2>3, <2>4, <2>5 DEF LockingInv, FreshInv
<1>3. ASSUME NEW t \in Txs, Begin(t) \/ Step(t) \/ Abort(t) \/ Crash(t)
      PROVE  JobInv' /\ RowInv' /\ ClaimInv' /\ MutateInv' /\ HoldInv' /\ FreshInv' /\ AllSettled'
  <2>1. CASE Begin(t)
    BY <2>1, BeginKeeps
  <2>2. CASE Lock(t)
    BY <2>2, LockKeeps
  <2>3. CASE SettleLine(t)
    BY <2>3, SettleLineKeeps
  <2>4. CASE SettleCells(t)
    BY <2>4, SettleCellsKeeps
  <2>5. CASE ApplyBase(t)
    BY <2>5, ApplyBaseKeeps
  <2>6. CASE Commit(t)
    BY <2>6, CommitKeeps
  <2>7. CASE Abort(t)
    BY <2>7, AbortKeeps
  <2>8. pc[t] # "project"
    BY DEF LockingInv, TypeInv, JobShape, JobInv, JobAt, LockingOps
  <2> QED
    BY <1>3, <2>1, <2>2, <2>3, <2>4, <2>5, <2>6, <2>7, <2>8 DEF Step, Project, ProjectFails, Crash
<1> QED
  BY <1>1, <1>2, <1>3 DEF Next, LockingInv

\* Whatever the plays, the goals and the interleaving of insertions, batches,
\* changes of the approved set and overrides, every cell-day stays settled: no
\* play keeps a category the rest of its day does not give it.
THEOREM CellsStaySettled ==
  ASSUME Ops \subseteq LockingOps
  PROVE  Spec => []AllSettled
<1>1. LockingInv => AllSettled
  BY DEF LockingInv
<1> QED
  BY <1>1, InitLocking, NextLocking, PTL DEF Spec

\* And no cell-day is ever credited with more plays than its goal.
THEOREM QuotaHolds ==
  ASSUME Ops \subseteq LockingOps
  PROVE  Spec => []WithinQuota
<1>1. TypeOK /\ AllSettled => WithinQuota
  <2> SUFFICES ASSUME TypeOK, NEW cell \in Cells, Settled(cell)
               PROVE  Cardinality(InSlotPlays(cell)) <= quota[cell]
    BY DEF AllSettled, WithinQuota
  <2> DEFINE P == Plays(cell)
             W == {d \in P : <<d, cell>> \in Window}
             X == {d \in P : <<d, cell>> \in Expired}
  <2>1. P \in SUBSET Nat /\ IsFiniteSet(P)
    BY CellDayAssumption, FS_Subset DEF Plays, PlaysIn
  <2>2. quota[cell] \in Nat
    BY CellDayAssumption DEF TypeOK
  <2>3. Cardinality(InSlot(Settle(quota[cell], P, W, X))) <= quota[cell]
    <3> HIDE DEF P, W, X
    <3> QED
      BY <2>1, <2>2, SettleWithinQuota
  <2>4. InSlotPlays(cell) = InSlot(Settle(quota[cell], P, W, X))
    <3>1. SettleCell(cell, P) = Settle(quota[cell], P, W, X)
      BY DEF SettleCell
    <3>2. DOMAIN Settle(quota[cell], P, W, X) = P
      BY DEF Settle
    <3>3. \A d \in P : cat[d][cell[1]] = Settle(quota[cell], P, W, X)[d]
      BY <3>1 DEF Settled
    <3> HIDE DEF P, W, X
    <3> QED
      BY <3>2, <3>3 DEF InSlotPlays, InSlot, P
  <2> QED
    BY <2>3, <2>4
<1> QED
  BY <1>1, CellsStaySettled, TypeCorrect, PTL

-----------------------------------------------------------------------------
(* Who holds which key.  The recategoriser of a campaign and the reconciler *)
(* take none, so they are left out here; every other operation is in, the   *)
(* fan-outs, the reattributions and the failures after a commit included.   *)

NoScopeRecat == Ops \cap {"recat", "heal"} = {}

\* The keys of the cells a job is about to read.
KeysOf(j) ==
  CASE j.op = "insert" -> IF j.todo = << >> THEN {} ELSE {Key(Head(j.todo)[2])}
    [] j.op = "reattribute" -> {Key(j.from), Key(j.to)}
    [] j.op \in {"unreject", "categorize"} -> {Key(j.to)}
    [] OTHER -> {Key(cell) : cell \in j.cells}

\* The jobs those operations create: a play is put in a cell of its own day, and a
\* move puts nothing but the play it moves.
JobPlaces(j) ==
  /\ j.op \notin {"recat", "heal"}
  /\ j.op # "categorize" => \A d \in Detections : j.put[d] # NoCell => j.put[d][3] = DayOf[d]
  /\ j.op \in {"reattribute", "unreject"} =>
       /\ j.d \in Detections /\ j.to \in Cells /\ j.put[j.d] = j.to
       /\ \A d \in Detections : j.put[d] # NoCell => j.put[d] = j.to

Placed(t) == JobPlaces(job[t]) /\ (pc[t] = "base" => job[t].op = "override")

\* A transaction that has stopped locking has locked what it reads.
KeysTaken(t) ==
  /\ pc[t] # "lock" => need[t] = {}
  /\ InTx(t) => /\ KeysOf(job[t]) \subseteq Keys
                /\ \A k \in KeysOf(job[t]) : lock[k] = t \/ k \in need[t]

\* A category is staged only for cell-days whose key is held, to the commit.
StagedHeld(t) ==
  /\ pc[t] = "idle" => verdict[t] = NoVerdict
  /\ InTx(t) => \A d \in Detections, c \in Campaigns :
                  verdict[t][d][c] # NoCat => lock[<<c, DayOf[d]>>] = t

\* The play a transaction places has its category staged before it is placed.
PutStaged(t) ==
  Places(t) /\ (job[t].op = "insert" \/ pc[t] = "commit") =>
    \A d \in Detections : job[t].put[d] # NoCell => verdict[t][d][job[t].put[d][1]] # NoCat

Held(t) == Placed(t) /\ KeysTaken(t) /\ StagedHeld(t) /\ PutStaged(t)

\* A row the first UPDATE of the recategoriser left alone has the staged category.
BaseLeft(t) ==
  job[t].op = "override" /\ pc[t] = "commit" =>
    \A d \in Detections : Exists(d) /\ d \notin job[t].held =>
      verdict[t][d][home[d][1]] \in {NoCat, baseCat[d]}

\* What is not projected has no category.
Uncategorised ==
  \A d \in Detections, c \in Campaigns : proj[d][c] = NoType => cat[d][c] = NoCat

MirrorInv ==
  /\ TypeInv /\ \A t \in Txs : Held(t) /\ BaseLeft(t)
  /\ Uncategorised /\ BaseMirrorsCanonical

\* A closing stages categories for the cell-days of the cells it was given only.
LEMMA CloseKey ==
  ASSUME NEW t, NEW cells, NEW put, NEW d \in Detections, NEW c \in Campaigns,
         Close(t, cells, put)[d][c] # NoCat
  PROVE  \E cell \in cells : Key(cell) = <<c, DayOf[d]>>
<1> DEFINE cell == Seat(t, d, c, put)
<1>1. cell \in cells
  BY DEF Close
<1>2. cell = <<c, IF put[d][1] = c THEN put[d][2] ELSE ProjAfter(t)[d][c], DayOf[d]>>
  BY DEF Seat
<1>3. Key(cell) = <<c, DayOf[d]>>
  BY <1>2 DEF Key
<1> QED
  BY <1>1, <1>3

\* The closing of the cell a play is put in stages a category for the play.
LEMMA ClosePut ==
  ASSUME NEW t, NEW put, NEW d \in Detections, NEW cell \in Cells, put[d] = cell,
         cell[3] = DayOf[d]
  PROVE  Close(t, {cell}, put)[d][cell[1]] # NoCat
<1>1. cell = <<cell[1], cell[2], cell[3]>> /\ cell[1] \in Campaigns
  BY DEF Cells
<1>2. Seat(t, d, cell[1], put) = cell
  BY <1>1 DEF Seat
<1>3. d \in Read(t, cell, put)
  BY <1>2 DEF Read
<1>4. SettleCell(cell, Read(t, cell, put))[d] \in Categories
  BY <1>3, SettleType DEF SettleCell
<1>5. Close(t, {cell}, put)[d][cell[1]] = SettleCell(cell, Read(t, cell, put))[d]
  BY <1>1, <1>2, <1>3 DEF Close
<1> QED
  BY <1>4, <1>5 DEF Categories, NoCat

LEMMA OverStages ==
  ASSUME NEW v, NEW w, NEW d \in Detections, NEW c \in Campaigns
  PROVE  Over(v, w)[d][c] # NoCat <=> v[d][c] # NoCat \/ w[d][c] # NoCat
BY DEF Over

\* What a step leaves of the transactions it is not of.
Untouched(u) ==
  /\ job'[u] = job[u] /\ pc'[u] = pc[u] /\ need'[u] = need[u] /\ verdict'[u] = verdict[u]
  /\ \A k \in Keys : lock[k] = u => lock'[k] = u

LEMMA UntouchedHeld ==
  ASSUME NEW u \in Txs, Held(u), Untouched(u) PROVE Held(u)'
<1>1. ASSUME NEW d \in Detections, NEW c \in Campaigns PROVE <<c, DayOf[d]>> \in Keys
  BY CellDayAssumption DEF Keys
<1>2. Placed(u)' /\ PutStaged(u)'
  BY DEF Held, Untouched, Placed, PutStaged, Places
<1>3. KeysTaken(u)'
  BY DEF Held, Untouched, KeysTaken, InTx
<1>4. StagedHeld(u)'
  BY <1>1 DEF Held, Untouched, StagedHeld, InTx
<1> QED
  BY <1>2, <1>3, <1>4 DEF Held

\* A step of t that writes no table: what is left to show is about t alone.
LEMMA QuietMirror ==
  ASSUME MirrorInv, TypeInv', NEW t \in Txs, UNCHANGED <<home, baseCat, proj, cat>>,
         \A u \in Txs \ {t} : Untouched(u), Held(t)', BaseLeft(t)'
  PROVE  MirrorInv'
<1>1. \A u \in Txs : Held(u)'
  BY UntouchedHeld DEF MirrorInv
<1>2. ASSUME NEW u \in Txs \ {t} PROVE BaseLeft(u)'
  <2>1. BaseLeft(u) /\ Untouched(u)
    BY DEF MirrorInv
  <2> QED
    BY <2>1 DEF BaseLeft, Untouched, Exists
<1>3. Uncategorised' /\ BaseMirrorsCanonical'
  BY DEF MirrorInv, Uncategorised, BaseMirrorsCanonical, Exists
<1> QED
  BY <1>1, <1>2, <1>3 DEF MirrorInv

LEMMA StartMirror ==
  ASSUME MirrorInv, TypeInv', NEW t \in Txs, NEW j \in JobType, NEW keys \in SUBSET Keys,
         Start(t, j, keys), keys = KeysOf(j), JobPlaces(j), j.op = "insert" => j.put = NoPut
  PROVE  MirrorInv'
<1>1. /\ pc[t] = "idle" /\ job' = [job EXCEPT ![t] = j]
      /\ need' = [need EXCEPT ![t] = keys]
      /\ pc' = [pc EXCEPT ![t] = IF keys = {} THEN "settle" ELSE "lock"]
      /\ UNCHANGED <<db, lock, verdict>>
      /\ TypeOK
  BY DEF Start, Idle, MirrorInv, TypeInv
<1>2. /\ job'[t] = j /\ need'[t] = keys
      /\ pc'[t] = IF keys = {} THEN "settle" ELSE "lock"
      /\ \A u \in Txs \ {t} : Untouched(u)
  BY <1>1 DEF TypeOK, Untouched
<1>3. verdict'[t] = NoVerdict
  BY <1>1 DEF MirrorInv, Held, StagedHeld
<1>4. Held(t)'
  <2>1. Placed(t)'
    BY <1>2 DEF Placed
  <2>2. KeysTaken(t)'
    BY <1>2 DEF KeysTaken
  <2>3. StagedHeld(t)'
    BY <1>3 DEF StagedHeld, NoVerdict
  <2>4. PutStaged(t)'
    BY <1>2 DEF PutStaged, NoPut
  <2> QED
    BY <2>1, <2>2, <2>3, <2>4 DEF Held
<1>5. BaseLeft(t)'
  BY <1>2 DEF BaseLeft
<1> QED
  BY <1>1, <1>2, <1>4, <1>5, QuietMirror DEF db

LEMMA BeginMirror ==
  ASSUME NoScopeRecat, MirrorInv, TypeInv', NEW t \in Txs, Begin(t) PROVE MirrorInv'
<1>0. NoJob \in JobType /\ TypeOK
  BY NoJobType DEF MirrorInv, TypeInv
<1>1. CASE BeginInsert(t)
  <2>1. PICK n \in 1..MaxBatch : \E ls \in [1..n -> Lines], fan \in Cells \cup {NoCell} :
          Start(t, [NoJob EXCEPT !.op = "insert", !.to = fan, !.todo = ls], {Key(ls[1][2])})
    BY <1>1 DEF BeginInsert
  <2>2. PICK ls \in [1..n -> Lines], fan \in Cells \cup {NoCell} :
          Start(t, [NoJob EXCEPT !.op = "insert", !.to = fan, !.todo = ls], {Key(ls[1][2])})
    BY <2>1
  <2> DEFINE j == [NoJob EXCEPT !.op = "insert", !.to = fan, !.todo = ls]
  <2>3. n \in Nat /\ 1 \in 1..n
    BY CellDayAssumption
  <2>4. ls \in Seq(Lines) /\ ls # << >> /\ Head(ls) = ls[1] /\ ls[1] \in Lines
    BY <2>3
  <2>5. j \in JobType
    BY <2>4, <1>0 DEF JobType, NoJob
  <2>6. j.op = "insert" /\ j.todo = ls /\ j.put = NoPut
    BY DEF NoJob
  <2>7. JobPlaces(j) /\ KeysOf(j) = {Key(ls[1][2])}
    BY <2>4, <2>6 DEF JobPlaces, KeysOf, NoPut
  <2>8. {Key(ls[1][2])} \in SUBSET Keys
    BY <2>4, KeyType DEF Lines
  <2> HIDE DEF j
  <2> QED
    BY <2>2, <2>5, <2>6, <2>7, <2>8, StartMirror DEF j
<1>2. CASE BeginMutate(t)
  <2>1. PICK d \in Detections, ch \in Changes :
          Start(t, [NoJob EXCEPT !.op = "mutate", !.d = d, !.cells = AffectedCells(d),
                                 !.add = ch.add, !.del = ch.del],
                {Key(cell) : cell \in AffectedCells(d)})
    BY <1>2 DEF BeginMutate
  <2> DEFINE j == [NoJob EXCEPT !.op = "mutate", !.d = d, !.cells = AffectedCells(d),
                                !.add = ch.add, !.del = ch.del]
  <2>2. AffectedCells(d) \in SUBSET Cells
    BY DEF AffectedCells
  <2>3. ch.add \in SUBSET Reasons /\ ch.del \in SUBSET Reasons
    BY DEF Changes, RetractByID, ClearRetraction, Ignore, Restore,
        UpdateEvidence, MarkAmbiguous, Reasons
  <2>4. j \in JobType
    BY <2>2, <2>3, <1>0 DEF NoJob, JobType
  <2>5. JobPlaces(j) /\ KeysOf(j) = {Key(cell) : cell \in AffectedCells(d)} /\ j.op # "insert"
    BY DEF JobPlaces, KeysOf, NoJob, NoPut
  <2>6. {Key(cell) : cell \in AffectedCells(d)} \in SUBSET Keys
    BY <2>2, KeyType
  <2> HIDE DEF j
  <2> QED
    BY <2>1, <2>4, <2>5, <2>6, StartMirror DEF j
<1>3. ASSUME NEW d \in Detections, NEW to \in Cells, Movable(d, to)
      PROVE  CanonicalCell(d) \in Cells /\ to[3] = DayOf[d]
  BY <1>0, <1>3, CellDayAssumption DEF Movable, Exists, CanonicalCell, TypeOK, Cells
<1>4. CASE BeginReattribute(t)
  <2>1. PICK d \in Detections, to \in Cells :
          /\ Movable(d, to)
          /\ Start(t, [NoJob EXCEPT !.op = "reattribute", !.d = d, !.to = to,
                              !.from = CanonicalCell(d), !.put[d] = to],
                   {Key(CanonicalCell(d)), Key(to)})
    BY <1>4 DEF BeginReattribute
  <2> DEFINE j == [NoJob EXCEPT !.op = "reattribute", !.d = d, !.to = to,
                                !.from = CanonicalCell(d), !.put[d] = to]
  <2>2. j \in JobType
    BY <2>1, <1>0, <1>3 DEF NoJob, JobType, NoPut
  <2>3. /\ j.op = "reattribute" /\ j.d = d /\ j.to = to /\ j.from = CanonicalCell(d)
        /\ j.put = [NoPut EXCEPT ![d] = to]
    BY DEF NoJob
  <2>4. j.put[d] = to /\ \A e \in Detections \ {d} : j.put[e] = NoCell
    BY <2>3 DEF NoPut
  <2>5. JobPlaces(j) /\ KeysOf(j) = {Key(CanonicalCell(d)), Key(to)}
    BY <2>1, <2>3, <2>4, <1>3 DEF JobPlaces, KeysOf
  <2>6. {Key(CanonicalCell(d)), Key(to)} \in SUBSET Keys
    BY <2>1, <1>3, KeyType
  <2> HIDE DEF j
  <2> QED
    BY <2>1, <2>2, <2>3, <2>5, <2>6, StartMirror DEF j
<1>5. CASE BeginUnreject(t)
  <2>1. PICK d \in Detections, to \in Cells :
          /\ Movable(d, to)
          /\ Start(t, [NoJob EXCEPT !.op = "unreject", !.d = d, !.to = to,
                              !.from = CanonicalCell(d), !.put[d] = to,
                              !.del = {"audit_rejected"}],
                   {Key(to)})
    BY <1>5 DEF BeginUnreject
  <2> DEFINE j == [NoJob EXCEPT !.op = "unreject", !.d = d, !.to = to,
                                !.from = CanonicalCell(d), !.put[d] = to,
                                !.del = {"audit_rejected"}]
  <2>2. j \in JobType
    BY <2>1, <1>0, <1>3 DEF NoJob, JobType, NoPut, Reasons
  <2>3. /\ j.op = "unreject" /\ j.d = d /\ j.to = to
        /\ j.put = [NoPut EXCEPT ![d] = to]
    BY DEF NoJob
  <2>4. j.put[d] = to /\ \A e \in Detections \ {d} : j.put[e] = NoCell
    BY <2>3 DEF NoPut
  <2>5. JobPlaces(j) /\ KeysOf(j) = {Key(to)}
    BY <2>1, <2>3, <2>4, <1>3 DEF JobPlaces, KeysOf
  <2>6. {Key(to)} \in SUBSET Keys
    BY KeyType
  <2> HIDE DEF j
  <2> QED
    BY <2>1, <2>2, <2>3, <2>5, <2>6, StartMirror DEF j
<1>6. CASE BeginOverride(t)
  <2>1. PICK cell \in Cells :
          Start(t, [NoJob EXCEPT !.op = "override", !.to = cell, !.cells = {cell}], {Key(cell)})
    BY <1>6 DEF BeginOverride
  <2> DEFINE j == [NoJob EXCEPT !.op = "override", !.to = cell, !.cells = {cell}]
  <2>2. j \in JobType
    BY <1>0 DEF NoJob, JobType
  <2>3. JobPlaces(j) /\ KeysOf(j) = {Key(cell)} /\ j.op # "insert"
    BY DEF JobPlaces, KeysOf, NoJob, NoPut
  <2>4. {Key(cell)} \in SUBSET Keys
    BY KeyType
  <2> HIDE DEF j
  <2> QED
    BY <2>1, <2>2, <2>3, <2>4, StartMirror DEF j
<1> QED
  BY <1>1, <1>2, <1>4, <1>5, <1>6 DEF Begin, NoScopeRecat, BeginRecat, BeginHeal

\* A lock is taken from nobody, and only the transaction that takes it holds more.
LEMMA LockMirror ==
  ASSUME MirrorInv, TypeInv', NEW t \in Txs, Lock(t) PROVE MirrorInv'
<1> DEFINE k == Least(need[t])
<1>1. /\ pc[t] = "lock" /\ lock[k] \in {NoTx, t}
      /\ lock' = [lock EXCEPT ![k] = t]
      /\ need' = [need EXCEPT ![t] = @ \ {k}]
      /\ pc' = [pc EXCEPT ![t] = IF need'[t] = {} THEN "settle" ELSE "lock"]
      /\ UNCHANGED <<db, quota, job, verdict, budget>>
  BY DEF Lock
<1> HIDE DEF k
<1>2. TypeOK /\ Held(t) /\ NoTx \notin Txs
  BY CellDayAssumption DEF MirrorInv, TypeInv
<1>3. \A u \in Txs \ {t} : Untouched(u)
  BY <1>1, <1>2 DEF Untouched, TypeOK
<1>4. \A l \in Keys : lock[l] = t => lock'[l] = t
  BY <1>1, <1>2 DEF TypeOK
<1>5. /\ need'[t] = need[t] \ {k} /\ pc'[t] = (IF need'[t] = {} THEN "settle" ELSE "lock")
      /\ job'[t] = job[t] /\ verdict'[t] = verdict[t] /\ (k \in Keys => lock'[k] = t)
  BY <1>1, <1>2 DEF TypeOK
<1>6. Placed(t)' /\ PutStaged(t)'
  BY <1>1, <1>2, <1>5 DEF Held, Placed, PutStaged, Places
<1>7. KeysTaken(t)'
  BY <1>1, <1>2, <1>4, <1>5 DEF Held, KeysTaken, InTx
<1>8. StagedHeld(t)'
  <2>1. ASSUME NEW d \in Detections, NEW c \in Campaigns PROVE <<c, DayOf[d]>> \in Keys
    BY CellDayAssumption DEF Keys
  <2> QED
    BY <1>1, <1>2, <1>4, <1>5, <2>1 DEF Held, StagedHeld, InTx
<1>9. BaseLeft(t)'
  BY <1>5 DEF BaseLeft
<1> QED
  BY <1>1, <1>3, <1>6, <1>7, <1>8, <1>9, QuietMirror DEF Held, db

LEMMA SettleLineMirror ==
  ASSUME MirrorInv, TypeInv', NEW t \in Txs, SettleLine(t) PROVE MirrorInv'
<1> DEFINE j    == job[t]
           line == Head(j.todo)
           j2   == [j EXCEPT !.put[line[1]] = line[2], !.d = line[1],
                             !.cells = @ \cup {line[2]}, !.todo = Tail(@)]
           v    == Over(Close(t, {line[2]}, j2.put), verdict[t])
<1>1. /\ pc[t] = "settle" /\ j.op = "insert"
      /\ job' = [job EXCEPT ![t] = j2]
      /\ verdict' = [verdict EXCEPT ![t] = v]
      /\ need' = [need EXCEPT ![t] = IF j2.todo = << >> THEN {} ELSE {Key(Head(j2.todo)[2])}]
      /\ pc' = [pc EXCEPT ![t] = IF j2.todo = << >> THEN "commit" ELSE "lock"]
      /\ UNCHANGED <<db, quota, lock, budget>>
  BY DEF SettleLine
<1>2. TypeOK /\ Held(t) /\ BaseLeft(t) /\ j \in JobType /\ j.todo \in Seq(Lines) /\ j.todo # << >>
  BY <1>1 DEF MirrorInv, TypeInv, TypeOK, JobShape, JobType
<1>3. line \in Lines /\ Tail(j.todo) \in Seq(Lines)
  BY <1>2
<1>4. line[1] \in Detections /\ line[2] \in Cells /\ DayOf[line[1]] = line[2][3]
  BY <1>3 DEF Lines
<1>5. /\ j2.op = "insert" /\ j2.todo = Tail(j.todo)
      /\ j2.put = [j.put EXCEPT ![line[1]] = line[2]]
  BY <1>1, <1>2 DEF JobType
<1>6. j2.put[line[1]] = line[2] /\ \A d \in Detections \ {line[1]} : j2.put[d] = j.put[d]
  BY <1>2, <1>4, <1>5 DEF JobType
<1>7. lock[Key(line[2])] = t
  BY <1>1, <1>2 DEF Held, KeysTaken, KeysOf, InTx
<1>8. ASSUME NEW d \in Detections, NEW c \in Campaigns
      PROVE  v[d][c] # NoCat <=> Close(t, {line[2]}, j2.put)[d][c] # NoCat \/ verdict[t][d][c] # NoCat
  BY OverStages
<1> DEFINE cl == Close(t, {line[2]}, j2.put)
<1>9. ASSUME NEW d \in Detections, NEW c \in Campaigns, cl[d][c] # NoCat
      PROVE  lock[<<c, DayOf[d]>>] = t
  BY <1>7, <1>9, CloseKey
<1>10. cl[line[1]][line[2][1]] # NoCat
  <2> HIDE DEF line, j2, j
  <2>1. line[2][3] = DayOf[line[1]] /\ line[2] \in Cells /\ line[1] \in Detections
    BY <1>4
  <2>2. j2.put[line[1]] = line[2]
    BY <1>6
  <2>3. Close(t, {line[2]}, j2.put)[line[1]][line[2][1]] # NoCat
    BY <2>1, <2>2, ClosePut
  <2> QED
    BY <2>3
<1>11. j2.todo # << >> => Key(Head(j2.todo)[2]) \in Keys
  <2> HIDE DEF j2, line
  <2>1. j2.todo # << >> => Head(j2.todo) \in Lines
    BY <1>3, <1>5
  <2> QED
    BY <2>1, KeyType DEF Lines
<1> HIDE DEF j2, v, cl
<1>12. /\ job'[t] = j2 /\ verdict'[t] = v
       /\ need'[t] = (IF j2.todo = << >> THEN {} ELSE {Key(Head(j2.todo)[2])})
       /\ pc'[t] = (IF j2.todo = << >> THEN "commit" ELSE "lock")
       /\ lock' = lock /\ \A u \in Txs \ {t} : Untouched(u)
  BY <1>1, <1>2 DEF TypeOK, Untouched
<1>13. Placed(t)'
  <2>1. \A d \in Detections : j2.put[d] # NoCell => j2.put[d][3] = DayOf[d]
    BY <1>1, <1>2, <1>4, <1>6 DEF Held, Placed, JobPlaces
  <2>2. JobPlaces(j2)
    BY <1>5, <2>1 DEF JobPlaces
  <2> QED
    BY <1>12, <2>2 DEF Placed
<1>14. KeysTaken(t)'
  BY <1>5, <1>11, <1>12 DEF KeysTaken, KeysOf
<1>15. StagedHeld(t)'
  <2>1. ASSUME NEW d \in Detections, NEW c \in Campaigns, v[d][c] # NoCat
        PROVE  lock[<<c, DayOf[d]>>] = t
    BY <1>1, <1>2, <1>8, <1>9, <2>1 DEF Held, StagedHeld, InTx, cl
  <2> QED
    BY <1>12, <2>1 DEF StagedHeld
<1>16. PutStaged(t)'
  <2> SUFFICES ASSUME NEW d \in Detections, j2.put[d] # NoCell PROVE v[d][j2.put[d][1]] # NoCat
    BY <1>12 DEF PutStaged
  <2>1. CASE d = line[1]
    <3>1. line[2][1] \in Campaigns
      BY <1>4 DEF Cells
    <3> QED
      BY <1>4, <1>6, <1>8, <1>10, <2>1, <3>1 DEF cl
  <2>2. CASE d # line[1]
    <3>1. j.put[d] # NoCell /\ j2.put[d] = j.put[d]
      BY <1>6, <2>2
    <3>2. j.put[d] \in Cells /\ j.put[d][1] \in Campaigns
      BY <1>2, <3>1 DEF JobType, Cells
    <3>3. verdict[t][d][j.put[d][1]] # NoCat
      BY <1>1, <1>2, <3>1 DEF Held, PutStaged, Places
    <3> QED
      BY <1>8, <3>1, <3>2, <3>3
  <2> QED
    BY <2>1, <2>2
<1>17. BaseLeft(t)'
  BY <1>5, <1>12 DEF BaseLeft
<1> QED
  BY <1>1, <1>12, <1>13, <1>14, <1>15, <1>16, <1>17, QuietMirror DEF Held, db

LEMMA SettleCellsMirror ==
  ASSUME MirrorInv, TypeInv', NEW t \in Txs, SettleCells(t) PROVE MirrorInv'
<1> DEFINE j == job[t]
           v == CASE j.op = "reattribute" -> Over(Close(t, {j.from}, NoPut), Close(t, {j.to}, j.put))
                  [] j.op \in {"unreject", "categorize"} -> Close(t, {j.to}, j.put)
                  [] OTHER -> Close(t, j.cells, NoPut)
<1>1. /\ pc[t] = "settle" /\ j.op # "insert"
      /\ verdict' = [verdict EXCEPT ![t] = v]
      /\ pc' = [pc EXCEPT ![t] =
                  IF j.op \in {"recat", "heal", "override"} THEN "base" ELSE "commit"]
      /\ UNCHANGED <<db, quota, lock, job, need, budget>>
  BY DEF SettleCells
<1>2. TypeOK /\ Held(t) /\ JobPlaces(j) /\ need[t] = {}
  BY <1>1 DEF MirrorInv, TypeInv, Held, Placed, KeysTaken
<1>3. \A k \in KeysOf(j) : lock[k] = t
  BY <1>1, <1>2 DEF Held, KeysTaken, InTx
<1>4. ASSUME NEW d \in Detections, NEW c \in Campaigns, v[d][c] # NoCat
      PROVE  lock[<<c, DayOf[d]>>] = t
  <2>1. CASE j.op = "reattribute"
    <3>1. \/ Close(t, {j.from}, NoPut)[d][c] # NoCat
          \/ Close(t, {j.to}, j.put)[d][c] # NoCat
      BY <1>4, <2>1, OverStages
    <3>2. <<c, DayOf[d]>> \in {Key(j.from), Key(j.to)}
      BY <3>1, CloseKey
    <3> QED
      BY <1>3, <2>1, <3>2 DEF KeysOf
  <2>2. CASE j.op \in {"unreject", "categorize"}
    <3>1. Close(t, {j.to}, j.put)[d][c] # NoCat
      BY <1>4, <2>2
    <3>2. <<c, DayOf[d]>> = Key(j.to)
      BY <3>1, CloseKey
    <3> QED
      BY <1>3, <2>2, <3>2 DEF KeysOf
  <2>3. CASE j.op \notin {"reattribute", "unreject", "categorize"}
    <3>1. Close(t, j.cells, NoPut)[d][c] # NoCat
      BY <1>4, <2>3
    <3>2. PICK cell \in j.cells : Key(cell) = <<c, DayOf[d]>>
      BY <3>1, CloseKey
    <3>3. KeysOf(j) = {Key(e) : e \in j.cells}
      BY <1>1, <2>3 DEF KeysOf
    <3> QED
      BY <1>3, <3>2, <3>3
  <2> QED
    BY <2>1, <2>2, <2>3
<1>5. ASSUME j.op \in {"reattribute", "unreject"}, NEW d \in Detections, j.put[d] # NoCell
      PROVE  v[d][j.put[d][1]] # NoCat
  <2>1. j.put[d] = j.to /\ j.to \in Cells /\ j.to[3] = DayOf[d] /\ j.to[1] \in Campaigns
    BY <1>2, <1>5 DEF JobPlaces, Cells
  <2>2. Close(t, {j.to}, j.put)[d][j.to[1]] # NoCat
    BY <2>1, ClosePut
  <2> QED
    BY <1>5, <2>1, <2>2, OverStages
<1> HIDE DEF v
<1>6. /\ job' = job /\ verdict'[t] = v /\ need' = need /\ lock' = lock
      /\ pc'[t] = (IF j.op \in {"recat", "heal", "override"} THEN "base" ELSE "commit")
      /\ \A u \in Txs \ {t} : Untouched(u)
  BY <1>1, <1>2 DEF TypeOK, Untouched
<1>7. Placed(t)'
  BY <1>2, <1>6 DEF Placed, JobPlaces
<1>8. KeysTaken(t)'
  BY <1>1, <1>2, <1>6 DEF Held, KeysTaken, InTx
<1>9. StagedHeld(t)'
  BY <1>4, <1>6 DEF StagedHeld
<1>10. PutStaged(t)'
  BY <1>1, <1>5, <1>6 DEF PutStaged, Places
<1>11. BaseLeft(t)'
  BY <1>6 DEF BaseLeft
<1> QED
  BY <1>1, <1>6, <1>7, <1>8, <1>9, <1>10, <1>11, QuietMirror DEF Held, db

\* The row of a transaction that places nothing stays where it is.
LEMMA HomeStays ==
  ASSUME TypeOK, NEW t \in Txs, NEW d \in Detections, ~ Places(t) \/ job[t].put[d] = NoCell
  PROVE  HomeAfter(t)[d] = home[d]
BY DEF HomeAfter

LEMMA ApplyBaseMirror ==
  ASSUME MirrorInv, TypeInv', NEW t \in Txs, ApplyBase(t) PROVE MirrorInv'
<1> DEFINE j2 == [job[t] EXCEPT !.held = BaseWrites(t)]
<1>1. /\ pc[t] = "base" /\ TypeOK /\ Held(t) /\ job[t].op = "override" /\ job[t] \in JobType
      /\ pc' = [pc EXCEPT ![t] = "commit"]
      /\ UNCHANGED <<db, quota, lock, need, verdict, budget>>
  BY DEF ApplyBase, MirrorInv, TypeInv, TypeOK, Held, Placed
<1>2. job' = [job EXCEPT ![t] = j2]
  BY <1>1 DEF ApplyBase, TypeOK
<1>3. /\ j2.op = "override" /\ j2.cells = job[t].cells /\ j2.put = job[t].put
      /\ j2.held = BaseWrites(t)
  BY <1>1 DEF JobType
<1> HIDE DEF j2
<1>4. /\ job'[t] = j2 /\ pc'[t] = "commit" /\ need' = need /\ verdict' = verdict /\ lock' = lock
      /\ \A u \in Txs \ {t} : Untouched(u)
  BY <1>1, <1>2 DEF TypeOK, Untouched
<1>5. Placed(t)'
  BY <1>1, <1>3, <1>4 DEF Held, Placed, JobPlaces
<1>6. KeysTaken(t)'
  <2>1. KeysOf(j2) = KeysOf(job[t])
    BY <1>1, <1>3 DEF KeysOf
  <2> QED
    BY <1>1, <1>4, <2>1 DEF Held, KeysTaken, InTx
<1>7. StagedHeld(t)'
  BY <1>1, <1>4 DEF Held, StagedHeld, InTx
<1>8. PutStaged(t)'
  BY <1>3, <1>4 DEF PutStaged, Places
<1>9. BaseLeft(t)'
  <2> SUFFICES ASSUME NEW d \in Detections, Exists(d), d \notin BaseWrites(t),
                      verdict[t][d][home[d][1]] # NoCat
               PROVE  verdict[t][d][home[d][1]] = baseCat[d]
    BY <1>1, <1>3, <1>4 DEF BaseLeft, Exists, db
  <2>1. HomeAfter(t)[d] = home[d]
    BY <1>1, HomeStays DEF Places
  <2>2. home[d][1] \in Campaigns
    BY <1>1 DEF TypeOK, Exists
  <2>3. NewBase(t, d) = baseCat[d]
    BY DEF BaseWrites
  <2> QED
    BY <2>1, <2>2, <2>3 DEF NewBase
<1> QED
  BY <1>1, <1>4, <1>5, <1>6, <1>7, <1>8, <1>9, QuietMirror DEF Held, db

LEMMA ProjectFailsMirror ==
  ASSUME MirrorInv, TypeInv', NEW t \in Txs, ProjectFails(t) PROVE MirrorInv'
<1> DEFINE j2 == [NoJob EXCEPT !.op = "resettle", !.d = job[t].d, !.to = job[t].to,
                               !.cells = {job[t].to}]
<1>1. /\ pc[t] = "project" /\ TypeOK /\ job[t].to \in Cells
      /\ job' = [job EXCEPT ![t] = j2]
      /\ need' = [need EXCEPT ![t] = {Key(job[t].to)}]
      /\ pc' = [pc EXCEPT ![t] = "lock"]
      /\ verdict' = [verdict EXCEPT ![t] = NoVerdict]
      /\ UNCHANGED <<db, quota, lock, budget>>
  BY DEF ProjectFails, MirrorInv, TypeInv, JobShape
<1>2. j2.op = "resettle" /\ j2.cells = {job[t].to} /\ j2.put = NoPut
  BY DEF NoJob
<1> HIDE DEF j2
<1>3. /\ job'[t] = j2 /\ pc'[t] = "lock" /\ need'[t] = {Key(job[t].to)}
      /\ verdict'[t] = NoVerdict /\ \A u \in Txs \ {t} : Untouched(u)
  BY <1>1 DEF TypeOK, Untouched
<1>4. Placed(t)' /\ PutStaged(t)' /\ BaseLeft(t)'
  BY <1>2, <1>3 DEF Placed, JobPlaces, PutStaged, Places, BaseLeft, NoPut
<1>5. KeysOf(j2) = {Key(job[t].to)} /\ Key(job[t].to) \in Keys
  BY <1>1, <1>2, KeyType DEF KeysOf
<1>6. KeysTaken(t)'
  BY <1>3, <1>5 DEF KeysTaken
<1>7. StagedHeld(t)'
  BY <1>3 DEF StagedHeld, NoVerdict
<1> QED
  BY <1>1, <1>3, <1>4, <1>6, <1>7, QuietMirror DEF Held, db

\* A transaction that has ended holds no one to anything.
LEMMA EndHeld ==
  ASSUME TypeOK, NEW t \in Txs, End(t)
  PROVE  /\ Held(t)' /\ BaseLeft(t)'
         /\ \A u \in Txs \ {t} : /\ job'[u] = job[u] /\ pc'[u] = pc[u]
                                 /\ need'[u] = need[u] /\ verdict'[u] = verdict[u]
<1>1. /\ job'[t] = NoJob /\ pc'[t] = "idle" /\ need'[t] = {} /\ verdict'[t] = NoVerdict
  BY DEF End, TypeOK
<1>2. NoJob.op = "none" /\ NoJob.put = NoPut
  BY DEF NoJob
<1>3. Held(t)' /\ BaseLeft(t)'
  BY <1>1, <1>2 DEF Held, Placed, JobPlaces, KeysTaken, StagedHeld, PutStaged, Places, BaseLeft,
     InTx, NoPut
<1> QED
  BY <1>3 DEF End, TypeOK

LEMMA ReleaseKeeps ==
  ASSUME NEW t \in Txs, Release(t), NEW u \in Txs \ {t}, NEW k \in Keys, lock[k] = u
  PROVE  lock'[k] = u
BY DEF Release

LEMMA AbortMirror ==
  ASSUME MirrorInv, TypeInv', NEW t \in Txs, Abort(t) PROVE MirrorInv'
<1>1. TypeOK /\ Held(t) /\ Release(t) /\ UNCHANGED db
  BY DEF Abort, MirrorInv, TypeInv
<1>2. CASE job[t].op = "categorize"
  <2>1. /\ pc' = [pc EXCEPT ![t] = "project"]
        /\ need' = [need EXCEPT ![t] = {}]
        /\ verdict' = [verdict EXCEPT ![t] = NoVerdict]
        /\ job' = job
    BY <1>2 DEF Abort
  <2>2. pc'[t] = "project" /\ need'[t] = {} /\ \A u \in Txs \ {t} : Untouched(u)
    BY <1>1, <2>1, ReleaseKeeps DEF TypeOK, Untouched
  <2>3. Held(t)' /\ BaseLeft(t)'
    BY <1>1, <1>2, <2>1, <2>2
       DEF Held, Placed, JobPlaces, KeysTaken, StagedHeld, PutStaged, Places, BaseLeft, InTx
  <2> QED
    BY <1>1, <2>2, <2>3, QuietMirror DEF db
<1>3. CASE job[t].op # "categorize"
  <2>1. End(t)
    BY <1>3 DEF Abort
  <2>2. \A u \in Txs \ {t} : Untouched(u)
    BY <1>1, <2>1, EndHeld, ReleaseKeeps DEF Untouched
  <2> QED
    BY <1>1, <2>1, <2>2, EndHeld, QuietMirror DEF db
<1> QED
  BY <1>2, <1>3

LEMMA CrashMirror ==
  ASSUME MirrorInv, TypeInv', NEW t \in Txs, Crash(t) PROVE MirrorInv'
<1>1. TypeOK /\ End(t) /\ UNCHANGED <<db, lock>>
  BY DEF Crash, MirrorInv, TypeInv
<1>2. \A u \in Txs \ {t} : Untouched(u)
  BY <1>1, EndHeld DEF Untouched
<1> QED
  BY <1>1, <1>2, EndHeld, QuietMirror DEF db

\* What the commit of t publishes for a play and a campaign.
LEMMA CommitTables ==
  ASSUME MirrorInv, NEW t \in Txs, Commit(t)
  PROVE  /\ pc[t] = "commit" /\ Held(t) /\ BaseLeft(t) /\ TypeOK /\ Release(t)
         /\ home' = HomeAfter(t) /\ proj' = ProjAfter(t)
         /\ \A d \in Detections, c \in Campaigns :
              /\ cat'[d][c] = IF proj'[d][c] = NoType THEN NoCat
                              ELSE IF verdict[t][d][c] # NoCat THEN verdict[t][d][c]
                              ELSE cat[d][c]
              /\ verdict[t][d][c] # NoCat => lock[<<c, DayOf[d]>>] = t
         /\ \A d \in Detections :
              baseCat'[d] = IF Recategorises(t) => d \in job[t].held
                            THEN NewBase(t, d) ELSE baseCat[d]
<1>1. /\ pc[t] = "commit" /\ Held(t) /\ BaseLeft(t) /\ TypeOK /\ Release(t)
      /\ home' = HomeAfter(t) /\ proj' = ProjAfter(t)
  BY DEF Commit, MirrorInv, TypeInv
<1>2. cat' = [d \in Detections |-> [c \in Campaigns |->
               IF proj'[d][c] = NoType THEN NoCat
               ELSE IF verdict[t][d][c] # NoCat THEN verdict[t][d][c] ELSE cat[d][c]]]
  BY DEF Commit
<1>3. baseCat' = [d \in Detections |-> IF Recategorises(t) => d \in job[t].held
                                       THEN NewBase(t, d) ELSE baseCat[d]]
  BY DEF Commit
<1>4. \A d \in Detections, c \in Campaigns :
        verdict[t][d][c] # NoCat => lock[<<c, DayOf[d]>>] = t
  BY <1>1 DEF Held, StagedHeld, InTx
<1> QED
  BY <1>1, <1>2, <1>3, <1>4

\* A play that t puts somewhere has its category staged there, so t holds the key;
\* a play it puts nowhere keeps its home, and its canonical projection.
LEMMA CommitHome ==
  ASSUME MirrorInv, NEW t \in Txs, Commit(t), NEW d \in Detections
  PROVE  \/ /\ Places(t) /\ ~ Recategorises(t) /\ job[t].put[d] \in Cells
            /\ home'[d] = <<job[t].put[d][1], job[t].put[d][2]>>
            /\ job[t].put[d][1] \in Campaigns /\ job[t].put[d][2] \in Types
            /\ proj'[d][job[t].put[d][1]] = job[t].put[d][2]
            /\ verdict[t][d][job[t].put[d][1]] # NoCat
         \/ /\ home'[d] = home[d]
            /\ Exists(d) => proj'[d][home[d][1]] = home[d][2]
<1>1. /\ pc[t] = "commit" /\ Held(t) /\ TypeOK /\ BaseMirrorsCanonical /\ job[t] \in JobType
      /\ home' = HomeAfter(t) /\ proj' = ProjAfter(t)
  BY CommitTables DEF MirrorInv, TypeOK
<1>2. CASE Places(t) /\ job[t].put[d] # NoCell
  <2>1. /\ job[t].put[d] \in Cells /\ job[t].put[d][1] \in Campaigns
        /\ job[t].put[d][2] \in Types
    BY <1>1, <1>2 DEF JobType, Cells
  <2>2. ~ Recategorises(t)
    BY <1>2 DEF Places, Recategorises
  <2>3. home'[d] = <<job[t].put[d][1], job[t].put[d][2]>>
    BY <1>1, <1>2 DEF HomeAfter
  <2>4. proj'[d][job[t].put[d][1]] = job[t].put[d][2]
    BY <1>1, <1>2, <2>1 DEF ProjAfter
  <2>5. verdict[t][d][job[t].put[d][1]] # NoCat
    BY <1>1, <1>2 DEF Held, PutStaged
  <2> QED
    BY <1>2, <2>1, <2>2, <2>3, <2>4, <2>5
<1>3. CASE ~ (Places(t) /\ job[t].put[d] # NoCell)
  <2>1. home'[d] = home[d]
    BY <1>1, <1>3, HomeStays
  <2>2. ASSUME Exists(d) PROVE proj'[d][home[d][1]] = home[d][2]
    <3>1. home[d][1] \in Campaigns /\ proj[d][home[d][1]] = home[d][2]
      BY <1>1, <2>2 DEF TypeOK, Exists, BaseMirrorsCanonical
    <3>2. ~ (Places(t) /\ job[t].put[d][1] = home[d][1])
      BY <1>3, <3>1, CellDayAssumption DEF NoCell
    <3>3. ~ (Moves(t) /\ d = job[t].d)
      BY <1>1, <1>3, NoCellIsNone DEF Moves, Places, Held, Placed, JobPlaces
    <3>4. proj'[d][home[d][1]] =
            IF Places(t) /\ job[t].put[d][1] = home[d][1] THEN job[t].put[d][2]
            ELSE IF Moves(t) /\ d = job[t].d /\ home[d][1] = job[t].from[1] THEN NoType
            ELSE proj[d][home[d][1]]
      BY <1>1, <3>1 DEF ProjAfter
    <3> QED
      BY <3>1, <3>2, <3>3, <3>4
  <2> QED
    BY <2>1, <2>2
<1> QED
  BY <1>2, <1>3

\* The commit leaves every row equal to its canonical projection.
LEMMA CommitBase ==
  ASSUME MirrorInv, NEW t \in Txs, Commit(t) PROVE BaseMirrorsCanonical'
<1> SUFFICES ASSUME NEW d \in Detections, home'[d] # NoHome
             PROVE  /\ proj'[d][home'[d][1]] = home'[d][2]
                    /\ cat'[d][home'[d][1]] = baseCat'[d]
  BY DEF BaseMirrorsCanonical, Exists
<1>0. NoType \notin Types
  BY CellDayAssumption DEF NoType
<1>1. CASE /\ Places(t) /\ ~ Recategorises(t) /\ job[t].put[d] \in Cells
           /\ home'[d] = <<job[t].put[d][1], job[t].put[d][2]>>
           /\ job[t].put[d][1] \in Campaigns /\ job[t].put[d][2] \in Types
           /\ proj'[d][job[t].put[d][1]] = job[t].put[d][2]
           /\ verdict[t][d][job[t].put[d][1]] # NoCat
  <2> DEFINE c == job[t].put[d][1]
  <2>1. home'[d][1] = c /\ home'[d][2] = job[t].put[d][2] /\ c \in Campaigns
    BY <1>1
  <2>2. cat'[d][c] = verdict[t][d][c]
    BY <1>0, <1>1, CommitTables
  <2>3. NewBase(t, d) = verdict[t][d][c]
    BY <1>1, <2>1, CommitTables DEF NewBase
  <2>4. baseCat'[d] = NewBase(t, d)
    BY <1>1, CommitTables
  <2> QED
    BY <1>1, <2>1, <2>2, <2>3, <2>4
<1>2. CASE /\ home'[d] = home[d]
           /\ Exists(d) => proj'[d][home[d][1]] = home[d][2]
  <2> DEFINE c == home[d][1]
  <2>1. /\ Exists(d) /\ c \in Campaigns /\ home[d][2] \in Types /\ cat[d][c] = baseCat[d]
        /\ HomeAfter(t)[d] = home[d] /\ job[t] \in JobType
    BY <1>2, CommitTables DEF Exists, TypeOK, MirrorInv, BaseMirrorsCanonical
  <2>2. proj'[d][c] = home[d][2]
    BY <1>2, <2>1
  <2>3. cat'[d][c] = IF verdict[t][d][c] # NoCat THEN verdict[t][d][c] ELSE cat[d][c]
    BY <1>0, <2>1, <2>2, CommitTables
  <2>4. NewBase(t, d) = IF verdict[t][d][c] # NoCat THEN verdict[t][d][c] ELSE baseCat[d]
    BY <2>1 DEF NewBase
  <2>5. CASE Recategorises(t) => d \in job[t].held
    <3>1. baseCat'[d] = NewBase(t, d)
      BY <2>5, CommitTables
    <3> QED
      BY <1>2, <2>1, <2>2, <2>3, <2>4, <3>1
  <2>6. CASE Recategorises(t) /\ d \notin job[t].held
    <3>1. job[t].op = "override" /\ baseCat'[d] = baseCat[d]
      BY <2>6, CommitTables DEF Recategorises, Held, Placed, JobPlaces
    <3>2. verdict[t][d][c] \in {NoCat, baseCat[d]}
      BY <2>1, <2>6, <3>1, CommitTables DEF BaseLeft
    <3> QED
      BY <1>2, <2>1, <2>2, <2>3, <3>1, <3>2
  <2> QED
    BY <2>5, <2>6
<1> QED
  BY <1>1, <1>2, CommitHome

\* What another transaction read to leave a row alone, this commit did not change:
\* it would have needed the key the other one holds.
LEMMA CommitLeaves ==
  ASSUME MirrorInv, NEW t \in Txs, Commit(t), NEW u \in Txs \ {t},
         job'[u] = job[u], pc'[u] = pc[u], verdict'[u] = verdict[u]
  PROVE  BaseLeft(u)'
<1> SUFFICES ASSUME job[u].op = "override", pc[u] = "commit", NEW d \in Detections,
                    home'[d] # NoHome, d \notin job[u].held,
                    verdict[u][d][home'[d][1]] # NoCat
             PROVE  verdict[u][d][home'[d][1]] = baseCat'[d]
  BY DEF BaseLeft, Exists
<1> DEFINE c == home'[d][1]
<1>1. TypeOK /\ Held(u) /\ BaseLeft(u)
  BY CommitTables DEF MirrorInv
<1>2. c \in Campaigns => lock[<<c, DayOf[d]>>] = u
  BY <1>1 DEF Held, StagedHeld, InTx
<1>3. c \in Campaigns => verdict[t][d][c] = NoCat
  BY <1>2, CommitTables
<1>4. home'[d] = home[d] /\ Exists(d) /\ HomeAfter(t)[d] = home[d]
  <2>1. CASE /\ home'[d] = <<job[t].put[d][1], job[t].put[d][2]>>
             /\ job[t].put[d][1] \in Campaigns
             /\ verdict[t][d][job[t].put[d][1]] # NoCat
    <3>1. c = job[t].put[d][1]
      BY <2>1
    <3> QED
      BY <1>3, <2>1, <3>1
  <2>2. CASE home'[d] = home[d]
    BY <2>2, CommitTables DEF Exists
  <2> QED
    BY <2>1, <2>2, CommitHome
<1>5. c \in Campaigns
  BY <1>1, <1>4 DEF TypeOK, Exists
<1>6. NewBase(t, d) = baseCat[d]
  BY <1>3, <1>4, <1>5 DEF NewBase
<1>7. baseCat'[d] = baseCat[d]
  BY <1>6, CommitTables
<1>8. verdict[u][d][home[d][1]] = baseCat[d]
  BY <1>1, <1>4 DEF BaseLeft
<1> QED
  BY <1>4, <1>7, <1>8

LEMMA CommitMirror ==
  ASSUME MirrorInv, TypeInv', NEW t \in Txs, Commit(t) PROVE MirrorInv'
<1> DEFINE j == job[t]
<1>1. pc[t] = "commit" /\ Held(t) /\ TypeOK /\ Release(t)
  BY CommitTables
<1>2. ASSUME j.op = "insert", j.to # NoCell
      PROVE  Held(t)' /\ BaseLeft(t)' /\ \A u \in Txs \ {t} : Untouched(u)
  <2> DEFINE j2 == [NoJob EXCEPT !.op = "categorize", !.d = j.d, !.to = j.to, !.put[j.d] = j.to]
  <2>1. /\ job' = [job EXCEPT ![t] = j2]
        /\ need' = [need EXCEPT ![t] = {Key(j.to)}]
        /\ pc' = [pc EXCEPT ![t] = "lock"]
        /\ verdict' = [verdict EXCEPT ![t] = NoVerdict]
    BY <1>2 DEF Commit
  <2>2. j2.op = "categorize" /\ j2.to = j.to
    BY DEF NoJob
  <2>3. Key(j.to) \in Keys
    BY <1>1, <1>2, KeyType DEF TypeOK, JobType
  <2> HIDE DEF j2, j
  <2>4. /\ job'[t] = j2 /\ need'[t] = {Key(j.to)} /\ pc'[t] = "lock" /\ verdict'[t] = NoVerdict
        /\ \A u \in Txs \ {t} : Untouched(u)
    BY <1>1, <2>1, ReleaseKeeps DEF TypeOK, Untouched
  <2>5. Placed(t)' /\ PutStaged(t)' /\ BaseLeft(t)'
    BY <2>2, <2>4 DEF Placed, JobPlaces, PutStaged, Places, BaseLeft
  <2>6. KeysTaken(t)'
    BY <2>2, <2>3, <2>4 DEF KeysTaken, KeysOf
  <2>7. StagedHeld(t)'
    BY <2>4 DEF StagedHeld, NoVerdict
  <2> QED
    BY <2>4, <2>5, <2>6, <2>7 DEF Held
<1>3. ASSUME j.op = "categorize"
      PROVE  Held(t)' /\ BaseLeft(t)' /\ \A u \in Txs \ {t} : Untouched(u)
  <2>1. pc' = [pc EXCEPT ![t] = "project"] /\ UNCHANGED <<job, need, verdict>>
    BY <1>3 DEF Commit
  <2>2. pc'[t] = "project" /\ \A u \in Txs \ {t} : Untouched(u)
    BY <1>1, <2>1, ReleaseKeeps DEF TypeOK, Untouched
  <2>3. Held(t)' /\ BaseLeft(t)'
    BY <1>1, <1>3, <2>1, <2>2
       DEF Held, Placed, JobPlaces, KeysTaken, StagedHeld, PutStaged, Places, BaseLeft, InTx
  <2> QED
    BY <2>2, <2>3
<1>4. ASSUME ~ (j.op = "insert" /\ j.to # NoCell), j.op # "categorize"
      PROVE  Held(t)' /\ BaseLeft(t)' /\ \A u \in Txs \ {t} : Untouched(u)
  <2>1. End(t)
    BY <1>4 DEF Commit
  <2> QED
    BY <1>1, <2>1, EndHeld, ReleaseKeeps DEF Untouched
<1>5. Held(t)' /\ BaseLeft(t)' /\ \A u \in Txs \ {t} : Untouched(u)
  BY <1>2, <1>3, <1>4
<1>6. \A u \in Txs \ {t} : BaseLeft(u)'
  BY <1>5, CommitLeaves DEF Untouched
<1>7. \A u \in Txs \ {t} : Held(u)'
  BY <1>5, UntouchedHeld DEF MirrorInv
<1>8. Uncategorised'
  <2> SUFFICES ASSUME NEW d \in Detections, NEW c \in Campaigns, proj'[d][c] = NoType
               PROVE  cat'[d][c] = NoCat
    BY DEF Uncategorised
  <2> QED
    BY CommitTables
<1> QED
  BY <1>5, <1>6, <1>7, <1>8, CommitBase DEF MirrorInv

\* A projection is written only where there is none.
LEMMA ProjectWhere ==
  ASSUME TypeOK, NEW t \in Txs, Project(t), NEW d \in Detections, NEW c \in Campaigns,
         proj'[d][c] # proj[d][c] \/ cat'[d][c] # cat[d][c]
  PROVE  proj[d][c] = NoType /\ d = job[t].d /\ c = job[t].to[1]
BY DEF Project, TypeOK

\* So never over the canonical one.
LEMMA ProjectMirror ==
  ASSUME MirrorInv, TypeInv', NEW t \in Txs, Project(t) PROVE MirrorInv'
<1> DEFINE e == job[t].d
           b == job[t].to[1]
<1>1. /\ pc[t] = "project" /\ TypeOK /\ End(t) /\ UNCHANGED <<home, baseCat, lock>>
      /\ job[t].to \in Cells /\ job[t].d \in Detections
  BY DEF Project, MirrorInv, TypeInv, JobShape
<1>2. b \in Campaigns /\ job[t].to[2] \in Types /\ NoType \notin Types
  BY <1>1, CellDayAssumption DEF Cells, NoType
<1>3. \A d \in Detections, c \in Campaigns :
        proj'[d][c] # proj[d][c] \/ cat'[d][c] # cat[d][c] => proj[d][c] = NoType /\ d = e /\ c = b
  BY <1>1, ProjectWhere
<1>4. \A d \in Detections, c \in Campaigns : proj'[d][c] = NoType => cat'[d][c] = NoCat
  <2>1. CASE proj[e][b] = NoType
    <3>1. proj'[e][b] = job[t].to[2]
      BY <1>1, <1>2, <2>1 DEF Project, TypeOK
    <3> QED
      BY <1>2, <1>3, <3>1 DEF MirrorInv, Uncategorised
  <2>2. CASE proj[e][b] # NoType
    BY <1>3, <2>2 DEF MirrorInv, Uncategorised
  <2> QED
    BY <2>1, <2>2
<1>5. BaseMirrorsCanonical'
  <2> SUFFICES ASSUME NEW d \in Detections, Exists(d)
               PROVE  proj'[d][home[d][1]] = home[d][2] /\ cat'[d][home[d][1]] = baseCat[d]
    BY <1>1 DEF BaseMirrorsCanonical, Exists
  <2>1. /\ home[d][1] \in Campaigns /\ home[d][2] \in Types
        /\ proj[d][home[d][1]] = home[d][2] /\ cat[d][home[d][1]] = baseCat[d]
    BY <1>1 DEF TypeOK, Exists, MirrorInv, BaseMirrorsCanonical
  <2> QED
    BY <1>2, <1>3, <2>1
<1>6. \A u \in Txs \ {t} : Untouched(u)
  BY <1>1, EndHeld DEF Untouched
<1>7. \A u \in Txs : Held(u)'
  BY <1>1, <1>6, EndHeld, UntouchedHeld DEF MirrorInv
<1>8. \A u \in Txs : BaseLeft(u)'
  <2>1. ASSUME NEW u \in Txs \ {t} PROVE BaseLeft(u)'
    <3>1. BaseLeft(u) /\ Untouched(u)
      BY <1>6 DEF MirrorInv
    <3> QED
      BY <1>1, <3>1 DEF BaseLeft, Untouched, Exists
  <2> QED
    BY <1>1, <2>1, EndHeld
<1> QED
  BY <1>4, <1>5, <1>7, <1>8 DEF MirrorInv, Uncategorised

LEMMA InitMirror == Init => MirrorInv
<1> SUFFICES ASSUME Init PROVE MirrorInv
  OBVIOUS
<1>1. NoJob.op = "none" /\ NoJob.put = NoPut
  BY DEF NoJob
<1>2. \A t \in Txs : Held(t) /\ BaseLeft(t)
  BY <1>1 DEF Init, Held, Placed, JobPlaces, KeysTaken, StagedHeld, PutStaged, Places, BaseLeft,
     InTx, NoPut
<1>3. Uncategorised /\ BaseMirrorsCanonical
  BY DEF Init, Uncategorised, BaseMirrorsCanonical, Exists
<1> QED
  BY <1>2, <1>3, InitType DEF MirrorInv

LEMMA NextMirror == NoScopeRecat /\ MirrorInv /\ [Next]_vars => MirrorInv'
<1> SUFFICES ASSUME NoScopeRecat, MirrorInv, [Next]_vars PROVE MirrorInv'
  OBVIOUS
<1>1. TypeInv'
  BY NextType DEF MirrorInv
<1>2. CASE UNCHANGED vars
  <2>1. \A u \in Txs : Untouched(u)
    BY <1>2 DEF vars, ctl, Untouched
  <2>2. \A u \in Txs : Held(u)'
    BY <2>1, UntouchedHeld DEF MirrorInv
  <2>3. \A u \in Txs : BaseLeft(u)'
    BY <1>2 DEF MirrorInv, BaseLeft, Exists, vars, ctl, db
  <2>4. Uncategorised' /\ BaseMirrorsCanonical'
    BY <1>2 DEF MirrorInv, Uncategorised, BaseMirrorsCanonical, Exists, vars, db
  <2> QED
    BY <1>1, <2>2, <2>3, <2>4 DEF MirrorInv
<1>3. CASE Next
  BY <1>1, <1>3, BeginMirror, LockMirror, SettleLineMirror, SettleCellsMirror, ApplyBaseMirror,
     CommitMirror, ProjectMirror, ProjectFailsMirror, AbortMirror, CrashMirror DEF Next, Step
<1> QED
  BY <1>2, <1>3

\* The base row of a play and its canonical projection go together through inserts,
\* fan-outs, retractions, reattributions, un-rejections, overrides, failures and
\* crashes (syncCanonicalProjection, settleCellDay), as long as no recategorisation
\* that takes no advisory lock runs beside them.
THEOREM RowsMirrorCanonical ==
  ASSUME NoScopeRecat PROVE Spec => []BaseMirrorsCanonical
<1>1. MirrorInv => BaseMirrorsCanonical
  BY DEF MirrorInv
<1> QED
  BY <1>1, InitMirror, NextMirror, PTL DEF Spec

\* Who writes a category over another has held the key of the cell-day since it read
\* the cell, and lets go of it with the write.
LEMMA StepUnderLock ==
  ASSUME MirrorInv, [Next]_vars, NEW d \in Detections, NEW c \in Campaigns,
         cat[d][c] \in Categories, cat'[d][c] \in Categories, cat'[d][c] # cat[d][c]
  PROVE  lock[<<c, DayOf[d]>>] # NoTx /\ lock'[<<c, DayOf[d]>>] = NoTx
<1>0. NoCat \notin Categories
  BY DEF NoCat, Categories
<1>1. PICK t \in Txs : Commit(t) \/ Project(t)
  <2>1. cat' # cat
    OBVIOUS
  <2>2. ASSUME NEW t \in Txs, Begin(t) PROVE cat' = cat
    BY <2>2 DEF Begin, BeginInsert, BeginMutate, BeginReattribute, BeginUnreject,
       BeginOverride, BeginRecat, BeginHeal, Start, db
  <2>3. ASSUME NEW t \in Txs, Lock(t) \/ SettleLine(t) \/ SettleCells(t) \/ ApplyBase(t)
                             \/ ProjectFails(t)
        PROVE  cat' = cat
    BY <2>3 DEF Lock, SettleLine, SettleCells, ApplyBase, ProjectFails, db
  <2>4. ASSUME NEW t \in Txs, Abort(t) \/ Crash(t) PROVE cat' = cat
    BY <2>4 DEF Abort, Crash, db
  <2>5. ASSUME UNCHANGED vars PROVE cat' = cat
    BY <2>5 DEF vars, db
  <2> QED
    BY <2>1, <2>2, <2>3, <2>4, <2>5 DEF Next, Step
<1>2. CASE Commit(t)
  <2>1. lock[<<c, DayOf[d]>>] = t /\ Release(t)
    BY <1>0, <1>2, CommitTables
  <2>2. <<c, DayOf[d]>> \in Keys
    BY CellDayAssumption DEF Keys
  <2> QED
    BY <2>1, <2>2, CellDayAssumption DEF Release
<1>3. CASE Project(t)
  <2>1. proj[d][c] = NoType
    BY <1>3, ProjectWhere DEF MirrorInv, TypeInv
  <2> QED
    BY <1>0, <2>1 DEF MirrorInv, Uncategorised
<1> QED
  BY <1>1, <1>2, <1>3

\* Every rewrite of a category happens under the advisory lock of its cell-day, by
\* whatever operation (the reason of settleCellDay's first statement).
THEOREM CategoriesUnderLock ==
  ASSUME NoScopeRecat PROVE Spec => WritesUnderLock
<1>1. MirrorInv /\ [Next]_vars =>
        [\A d \in Detections, c \in Campaigns :
           LET k == <<c, DayOf[d]>>
           IN  /\ {cat[d][c], cat'[d][c]} \subseteq Categories
               /\ cat'[d][c] # cat[d][c]
               => lock[k] # NoTx /\ lock'[k] = NoTx]_vars
  BY StepUnderLock
<1> QED
  BY <1>1, InitMirror, NextMirror, PTL DEF Spec, WritesUnderLock

-----------------------------------------------------------------------------
(* The order of the locks.                                                  *)

LEMMA KeysAreNat ==
  ASSUME NEW k \in Keys PROVE k[1] \in Nat /\ k[2] \in Nat /\ k = <<k[1], k[2]>>
<1>1. k[1] \in Campaigns /\ k[2] \in Days /\ k = <<k[1], k[2]>>
  BY DEF Keys
<1>2. Campaigns \subseteq Nat /\ Days \subseteq Nat
  BY CellDayAssumption
<1> QED
  BY <1>1, <1>2

\* The lexicographic order of the keys is total, and every set has a first key.
LEMMA LeastIsFirst ==
  ASSUME NEW S \in SUBSET Keys, S # {}
  PROVE  Least(S) \in S /\ \A l \in S \ {Least(S)} : Before(Least(S), l)
<1>1. \A k \in S : k[1] \in Nat /\ k[2] \in Nat /\ k = <<k[1], k[2]>>
  BY KeysAreNat
<1> DEFINE A == {k[1] : k \in S}
<1>2. PICK a \in A : \A b \in A : a <= b
  <2>1. A \in SUBSET Nat /\ A # {}
    BY <1>1
  <2> QED
    BY <2>1, SmallestNat
<1> DEFINE B == {k[2] : k \in {l \in S : l[1] = a}}
<1>3. PICK b \in B : \A c \in B : b <= c
  <2>1. B \in SUBSET Nat /\ B # {}
    BY <1>1
  <2> QED
    BY <2>1, SmallestNat
<1>4. PICK k \in S : k[1] = a /\ k[2] = b
  OBVIOUS
<1>5. ASSUME NEW l \in S \ {k} PROVE Before(k, l)
  <2>1. l[1] \in A /\ (l[1] = a => l[2] \in B)
    OBVIOUS
  <2>2. a <= l[1] /\ (l[1] = a => b <= l[2])
    BY <2>1, <1>2, <1>3
  <2>3. ~ (l[1] = k[1] /\ l[2] = k[2])
    BY <1>1, <1>5
  <2> QED
    BY <1>1, <1>4, <2>2, <2>3 DEF Before
<1> QED
  BY <1>4, <1>5 DEF Least

LEMMA BeforeOrders ==
  ASSUME NEW k \in Keys, NEW l \in Keys
  PROVE  /\ ~ Before(k, k) /\ ~ (Before(k, l) /\ Before(l, k))
         /\ \A m \in Keys : Before(k, l) /\ Before(l, m) => Before(k, m)
<1>1. k[1] \in Nat /\ k[2] \in Nat /\ l[1] \in Nat /\ l[2] \in Nat
  BY KeysAreNat
<1>2. ~ Before(k, k) /\ ~ (Before(k, l) /\ Before(l, k))
  BY <1>1 DEF Before
<1>3. ASSUME NEW m \in Keys, Before(k, l), Before(l, m) PROVE Before(k, m)
  <2>1. m[1] \in Nat /\ m[2] \in Nat
    BY KeysAreNat
  <2> QED
    BY <1>1, <1>3, <2>1 DEF Before
<1> QED
  BY <1>2, <1>3


\* Whatever the operation, a transaction only ever waits for a key that comes after
\* all those it holds.  A batch is of one line: those of several lock a day at a time.
InOrder(t) ==
  /\ pc[t] = "lock" => /\ need[t] # {}
                       /\ \A k \in Keys : lock[k] = t => \A l \in need[t] : Before(k, l)
  /\ pc[t] \in {"idle", "project"} => \A k \in Keys : lock[k] # t
  /\ job[t].op = "insert" /\ pc[t] \in {"lock", "settle"} => Len(job[t].todo) = 1
OrderInv == TypeInv /\ \A t \in Txs : InOrder(t)

LEMMA InitOrder == Init => OrderInv
<1> SUFFICES ASSUME Init PROVE OrderInv
  OBVIOUS
<1>1. NoJob.op = "none"
  BY DEF NoJob
<1>2. ASSUME NEW t \in Txs PROVE InOrder(t)
  BY <1>1, CellDayAssumption DEF Init, InOrder
<1> QED
  BY <1>2, InitType DEF OrderInv

\* A step leaves the other transactions in order if it gives them no key.
LEMMA OthersInOrder ==
  ASSUME NEW u \in Txs, InOrder(u), job'[u] = job[u], pc'[u] = pc[u], need'[u] = need[u],
         \A k \in Keys : lock'[k] = u => lock[k] = u
  PROVE  InOrder(u)'
BY DEF InOrder

LEMMA StartOrder ==
  ASSUME OrderInv, NEW t \in Txs, NEW j, NEW keys, Start(t, j, keys),
         j.op = "insert" => Len(j.todo) = 1
  PROVE  \A u \in Txs : InOrder(u)'
<1>1. /\ pc[t] = "idle" /\ job' = [job EXCEPT ![t] = j]
      /\ need' = [need EXCEPT ![t] = keys]
      /\ pc' = [pc EXCEPT ![t] = IF keys = {} THEN "settle" ELSE "lock"]
      /\ lock' = lock /\ TypeOK
  BY DEF Start, Idle, OrderInv, TypeInv
<1>2. \A k \in Keys : lock[k] # t
  BY <1>1 DEF OrderInv, InOrder
<1>3. InOrder(t)'
  BY <1>1, <1>2 DEF InOrder, TypeOK
<1>4. \A u \in Txs \ {t} : InOrder(u)'
  BY <1>1, OthersInOrder DEF OrderInv, TypeOK
<1> QED
  BY <1>3, <1>4

LEMMA TupleIsSeq ==
  ASSUME NEW S, NEW n \in Nat, NEW f \in [1..n -> S] PROVE f \in Seq(S) /\ DOMAIN f = 1..n
OBVIOUS

LEMMA BeginOrder ==
  ASSUME MaxBatch = 1, OrderInv, NEW t \in Txs, Begin(t)
  PROVE  \A u \in Txs : InOrder(u)'
<1>1. CASE BeginInsert(t)
  <2>1. PICK n \in 1..MaxBatch : \E ls \in [1..n -> Lines], fan \in Cells \cup {NoCell} :
          Start(t, [NoJob EXCEPT !.op = "insert", !.to = fan, !.todo = ls], {Key(ls[1][2])})
    BY <1>1 DEF BeginInsert
  <2>2. PICK ls \in [1..n -> Lines], fan \in Cells \cup {NoCell} :
          Start(t, [NoJob EXCEPT !.op = "insert", !.to = fan, !.todo = ls], {Key(ls[1][2])})
    BY <2>1
  <2> DEFINE j == [NoJob EXCEPT !.op = "insert", !.to = fan, !.todo = ls]
  <2>3. n = 1 /\ n \in Nat /\ 1 \in 1..n
    OBVIOUS
  <2>4. ls \in Seq(Lines) /\ DOMAIN ls = 1..1
    BY <2>3, TupleIsSeq
  <2>5. Len(ls) = 1
    BY <2>4, LenProperties
  <2>6. j.todo = ls
    BY DEF NoJob
  <2> HIDE DEF j
  <2> QED
    BY <2>2, <2>5, <2>6, StartOrder DEF j
<1>2. ASSUME ~ BeginInsert(t)
      PROVE  \E j, keys : Start(t, j, keys) /\ j.op # "insert"
  <2>1. \A f : \A j \in JobType : [j EXCEPT !.op = f].op = f
    BY DEF JobType
  <2>2. CASE BeginMutate(t)
    <3>1. PICK d \in Detections, ch \in Changes :
            Start(t, [NoJob EXCEPT !.op = "mutate", !.d = d, !.cells = AffectedCells(d),
                                   !.add = ch.add, !.del = ch.del],
                  {Key(cell) : cell \in AffectedCells(d)})
      BY <2>2 DEF BeginMutate
    <3>2. [NoJob EXCEPT !.op = "mutate", !.d = d, !.cells = AffectedCells(d),
                        !.add = ch.add, !.del = ch.del].op # "insert"
      BY DEF NoJob
    <3> QED
      BY <3>1, <3>2
  <2>3. CASE BeginReattribute(t)
    <3>1. PICK d \in Detections, to \in Cells :
            Start(t, [NoJob EXCEPT !.op = "reattribute", !.d = d, !.to = to,
                                   !.from = CanonicalCell(d), !.put[d] = to],
                  {Key(CanonicalCell(d)), Key(to)})
      BY <2>3 DEF BeginReattribute
    <3>2. [NoJob EXCEPT !.op = "reattribute", !.d = d, !.to = to,
                        !.from = CanonicalCell(d), !.put[d] = to].op # "insert"
      BY DEF NoJob
    <3> QED
      BY <3>1, <3>2
  <2>4. CASE BeginUnreject(t)
    <3>1. PICK d \in Detections, to \in Cells :
            Start(t, [NoJob EXCEPT !.op = "unreject", !.d = d, !.to = to,
                                   !.from = CanonicalCell(d), !.put[d] = to,
                                   !.del = {"audit_rejected"}],
                  {Key(to)})
      BY <2>4 DEF BeginUnreject
    <3>2. [NoJob EXCEPT !.op = "unreject", !.d = d, !.to = to,
                        !.from = CanonicalCell(d), !.put[d] = to,
                        !.del = {"audit_rejected"}].op # "insert"
      BY DEF NoJob
    <3> QED
      BY <3>1, <3>2
  <2>5. CASE BeginOverride(t)
    <3>1. PICK cell \in Cells :
            Start(t, [NoJob EXCEPT !.op = "override", !.to = cell, !.cells = {cell}], {Key(cell)})
      BY <2>5 DEF BeginOverride
    <3>2. [NoJob EXCEPT !.op = "override", !.to = cell, !.cells = {cell}].op # "insert"
      BY DEF NoJob
    <3> QED
      BY <3>1, <3>2
  <2>6. CASE BeginRecat(t)
    <3>1. PICK c \in Campaigns :
            Start(t, [NoJob EXCEPT !.op = "recat", !.cells = {cell \in Cells : cell[1] = c}], {})
      BY <2>6 DEF BeginRecat
    <3>2. [NoJob EXCEPT !.op = "recat", !.cells = {cell \in Cells : cell[1] = c}].op # "insert"
      BY DEF NoJob
    <3> QED
      BY <3>1, <3>2
  <2>7. CASE BeginHeal(t)
    <3>1. Start(t, [NoJob EXCEPT !.op = "heal", !.cells = {cell \in Cells : cell[3] \in Recent}], {})
      BY <2>7 DEF BeginHeal
    <3>2. [NoJob EXCEPT !.op = "heal", !.cells = {cell \in Cells : cell[3] \in Recent}].op # "insert"
      BY DEF NoJob
    <3> QED
      BY <3>1, <3>2
  <2> QED
    BY <1>2, <2>2, <2>3, <2>4, <2>5, <2>6, <2>7 DEF Begin
<1>3. CASE ~ BeginInsert(t)
  <2>1. PICK j, keys : Start(t, j, keys) /\ j.op # "insert"
    BY <1>2, <1>3
  <2> QED
    BY <2>1, StartOrder
<1> QED
  BY <1>1, <1>3

LEMMA LockOrder ==
  ASSUME OrderInv, NEW t \in Txs, Lock(t) PROVE \A u \in Txs : InOrder(u)'
<1> DEFINE k == Least(need[t])
<1>1. /\ pc[t] = "lock" /\ lock[k] \in {NoTx, t}
      /\ lock' = [lock EXCEPT ![k] = t]
      /\ need' = [need EXCEPT ![t] = @ \ {k}]
      /\ pc' = [pc EXCEPT ![t] = IF need'[t] = {} THEN "settle" ELSE "lock"]
      /\ job' = job
  BY DEF Lock
<1>2. TypeOK /\ InOrder(t) /\ need[t] \in SUBSET Keys /\ need[t] # {} /\ NoTx \notin Txs
  BY <1>1, CellDayAssumption DEF OrderInv, TypeInv, TypeOK, InOrder
<1>3. k \in need[t] /\ \A l \in need[t] \ {k} : Before(k, l)
  BY <1>2, LeastIsFirst
<1> HIDE DEF k
<1>4. \A u \in Txs \ {t} : InOrder(u)'
  BY <1>1, <1>2, <1>3, OthersInOrder DEF OrderInv, TypeOK
<1>5. InOrder(t)'
  BY <1>1, <1>2, <1>3 DEF InOrder, TypeOK
<1> QED
  BY <1>4, <1>5

\* The only line of an insert is settled: there is no other key to take.
LEMMA SettleOrder ==
  ASSUME OrderInv, NEW t \in Txs, SettleLine(t) \/ SettleCells(t) \/ ApplyBase(t)
  PROVE  \A u \in Txs : InOrder(u)'
<1>1. TypeOK /\ InOrder(t) /\ job[t] \in JobType
  BY DEF OrderInv, TypeInv, TypeOK
<1>2. lock' = lock /\ \A u \in Txs \ {t} : job'[u] = job[u] /\ pc'[u] = pc[u] /\ need'[u] = need[u]
  BY <1>1 DEF SettleLine, SettleCells, ApplyBase, TypeOK
<1>3. pc'[t] \in {"base", "commit"}
  <2>1. CASE SettleLine(t)
    <3> DEFINE line == Head(job[t].todo)
    <3>1. job[t].todo \in Seq(Lines) /\ Len(job[t].todo) = 1
      BY <1>1, <2>1 DEF SettleLine, InOrder, JobType
    <3>2. Tail(job[t].todo) \in Seq(Lines) /\ Len(Tail(job[t].todo)) = 0
      <4>1. job[t].todo # << >>
        BY <2>1 DEF OrderInv, TypeInv, JobShape, SettleLine
      <4> QED
        BY <3>1, <4>1, HeadTailProperties
    <3>3. Tail(job[t].todo) = << >>
      BY <3>2, EmptySeq
    <3>4. [job[t] EXCEPT !.put[line[1]] = line[2], !.d = line[1],
                         !.cells = @ \cup {line[2]}, !.todo = Tail(@)].todo = << >>
      BY <1>1, <3>3 DEF JobType
    <3> QED
      BY <1>1, <2>1, <3>4 DEF SettleLine, TypeOK
  <2>2. CASE SettleCells(t) \/ ApplyBase(t)
    BY <1>1, <2>2 DEF SettleCells, ApplyBase, TypeOK
  <2> QED
    BY <2>1, <2>2
<1>4. InOrder(t)'
  BY <1>3 DEF InOrder
<1> QED
  BY <1>2, <1>4, OthersInOrder DEF OrderInv

\* A commit, a failure or a crash leaves the transaction without keys.
LEMMA EndOrder ==
  ASSUME OrderInv, NEW t \in Txs,
         Commit(t) \/ Project(t) \/ ProjectFails(t) \/ Abort(t) \/ Crash(t)
  PROVE  \A u \in Txs : InOrder(u)'
<1>1. TypeOK /\ InOrder(t) /\ JobShape /\ NoTx \notin Txs
  BY CellDayAssumption DEF OrderInv, TypeInv
<1>2. \A k \in Keys : lock'[k] # t
  BY <1>1 DEF Commit, Project, ProjectFails, Abort, Crash, Release, InOrder
<1>3. \A u \in Txs \ {t} : \A k \in Keys : lock'[k] = u => lock[k] = u
  BY <1>1 DEF Commit, Project, ProjectFails, Abort, Crash, Release
<1>4. \A u \in Txs \ {t} : job'[u] = job[u] /\ pc'[u] = pc[u] /\ need'[u] = need[u]
  BY <1>1 DEF Commit, Project, ProjectFails, Abort, Crash, End, TypeOK
<1>5. \/ pc'[t] \in {"idle", "project"} /\ job'[t].op # "insert"
      \/ pc'[t] = "lock" /\ need'[t] # {} /\ job'[t].op # "insert"
  <2>1. NoJob.op = "none"
    BY DEF NoJob
  <2>2. CASE Commit(t)
    <3>1. CASE job[t].op = "insert" /\ job[t].to # NoCell
      <4> DEFINE j2 == [NoJob EXCEPT !.op = "categorize", !.d = job[t].d, !.to = job[t].to,
                                     !.put[job[t].d] = job[t].to]
      <4>1. job' = [job EXCEPT ![t] = j2] /\ j2.op = "categorize"
        BY <2>2, <3>1 DEF Commit, NoJob
      <4>2. job'[t].op = "categorize"
        <5> HIDE DEF j2
        <5> QED
          BY <1>1, <4>1 DEF TypeOK
      <4>3. need'[t] # {} /\ pc'[t] = "lock"
        <5>1. /\ need' = [need EXCEPT ![t] = {Key(job[t].to)}]
              /\ pc' = [pc EXCEPT ![t] = "lock"]
          BY <2>2, <3>1 DEF Commit
        <5> QED
          BY <1>1, <5>1 DEF TypeOK
      <4> QED
        BY <4>2, <4>3
    <3>2. CASE job[t].op = "categorize"
      BY <1>1, <2>2, <3>2 DEF Commit, TypeOK
    <3>3. CASE ~ (job[t].op = "insert" /\ job[t].to # NoCell) /\ job[t].op # "categorize"
      BY <1>1, <2>1, <2>2, <3>3 DEF Commit, End, TypeOK
    <3> QED
      BY <3>1, <3>2, <3>3
  <2>3. CASE Project(t) \/ Crash(t)
    BY <1>1, <2>1, <2>3 DEF Project, Crash, End, TypeOK
  <2>4. CASE ProjectFails(t)
    <3>1. job' = [job EXCEPT ![t] = [NoJob EXCEPT !.op = "resettle", !.d = job[t].d,
                                       !.to = job[t].to, !.cells = {job[t].to}]]
      BY <2>4 DEF ProjectFails
    <3>2. job'[t].op = "resettle"
      BY <1>1, <3>1 DEF TypeOK, NoJob
    <3> QED
      BY <1>1, <2>4, <3>2 DEF ProjectFails, TypeOK
  <2>5. CASE Abort(t)
    BY <1>1, <2>1, <2>5 DEF Abort, End, TypeOK
  <2> QED
    BY <2>2, <2>3, <2>4, <2>5
<1>6. InOrder(t)'
  BY <1>2, <1>5 DEF InOrder
<1> QED
  BY <1>3, <1>4, <1>6, OthersInOrder DEF OrderInv

LEMMA NextOrder == MaxBatch = 1 /\ OrderInv /\ [Next]_vars => OrderInv'
<1> SUFFICES ASSUME MaxBatch = 1, OrderInv, [Next]_vars PROVE OrderInv'
  OBVIOUS
<1>1. TypeInv'
  BY NextType DEF OrderInv
<1>2. CASE UNCHANGED vars
  BY <1>2, OthersInOrder, <1>1 DEF OrderInv, vars, ctl
<1>3. CASE Next
  BY <1>1, <1>3, BeginOrder, LockOrder, SettleOrder, EndOrder DEF Next, Step, OrderInv
<1> QED
  BY <1>2, <1>3

\* A circle of waiting transactions would have a first key that nobody in it waits
\* for the holder of, so a smaller circle without that holder.
LEMMA OrderNoCycle ==
  ASSUME OrderInv, IsFiniteSet(Txs) PROVE NoLockCycle
<1> DEFINE Bad == {S \in SUBSET Txs : S # {} /\ \A t \in S : \E u \in S : Waits(t, u)}
<1> SUFFICES ASSUME Bad # {} PROVE FALSE
  BY DEF NoLockCycle
<1>1. \A S \in Bad : IsFiniteSet(S)
  BY FS_Subset
<1>2. PICK S \in Bad : \A B \in Bad : ~ (B \subseteq S /\ B # S)
  <2> HIDE DEF Bad
  <2> QED
    BY <1>1, SmallestSet
<1> DEFINE L(t) == Least(need[t])
<1>3. ASSUME NEW t \in S
      PROVE  /\ pc[t] = "lock" /\ need[t] \in SUBSET Keys /\ L(t) \in need[t]
             /\ \A l \in need[t] \ {L(t)} : Before(L(t), l)
             /\ \A k \in Keys : lock[k] = t => Before(k, L(t))
  <2>1. pc[t] = "lock" /\ t \in Txs
    BY <1>2 DEF Waits
  <2>2. need[t] \in SUBSET Keys /\ need[t] # {} /\ InOrder(t)
    BY <2>1 DEF OrderInv, InOrder, TypeInv, TypeOK
  <2>3. L(t) \in need[t] /\ \A l \in need[t] \ {L(t)} : Before(L(t), l)
    BY <2>2, LeastIsFirst
  <2> QED
    BY <2>1, <2>2, <2>3 DEF InOrder
<1> HIDE DEF L
<1>4. {L(t) : t \in S} \in SUBSET Keys /\ {L(t) : t \in S} # {}
  BY <1>2, <1>3
<1>5. PICK t \in S : \A u \in S : L(u) = L(t) \/ Before(L(t), L(u))
  <2> DEFINE F == {L(t) : t \in S}
  <2>1. Least(F) \in F /\ \A l \in F \ {Least(F)} : Before(Least(F), l)
    <3> HIDE DEF F
    <3> QED
      BY <1>4, LeastIsFirst DEF F
  <2>2. PICK t \in S : Least(F) = L(t)
    BY <2>1
  <2> QED
    BY <2>1, <2>2
<1>6. ASSUME NEW u \in S, Waits(u, t) PROVE FALSE
  <2>1. lock[L(u)] = t /\ L(u) \in Keys /\ L(t) \in Keys
    BY <1>3, <1>6 DEF Waits, L
  <2>2. Before(L(u), L(t))
    BY <1>3, <2>1
  <2> QED
    BY <1>5, <2>1, <2>2, BeforeOrders
<1>7. S \ {t} \in Bad
  <2>1. \A v \in S \ {t} : \E u \in S \ {t} : Waits(v, u)
    BY <1>2, <1>6
  <2>2. PICK u \in S : Waits(t, u)
    BY <1>2
  <2>3. u # t
    BY <2>2 DEF Waits
  <2> QED
    BY <1>2, <2>1, <2>2, <2>3
<1> QED
  BY <1>2, <1>7

\* No transactions ever wait for one another in a circle on the advisory locks,
\* whatever they do and however many they are, while the lines of a manual batch are
\* locked together (lockCellDayKeys sorts the keys of one call).
THEOREM NoCircularWait ==
  ASSUME MaxBatch = 1, IsFiniteSet(Txs) PROVE Spec => []NoLockCycle
<1>1. OrderInv => NoLockCycle
  BY OrderNoCycle
<1> QED
  BY <1>1, InitOrder, NextOrder, PTL DEF Spec
=============================================================================
