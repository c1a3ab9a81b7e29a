----------------------------- MODULE CutsProofs -----------------------------
(***************************************************************************)
(* An airing for which the matcher confirms at most two cuts, one of them  *)
(* what aired: it is counted once, for that cut, and when every row was    *)
(* written it is lost only where the recovery skips it - for any cuts,     *)
(* coverages, confidences and twins, any number of faults and any order of *)
(* the supervisor, the audits and the corrections.                         *)
(*                                                                         *)
(* With three it can be counted twice (MCCuts_three.cfg): two rejected     *)
(* rows look for the row of what aired, which was suppressed, and each     *)
(* takes its place.  TwoFires is that assumption and is about the airing,  *)
(* not about the code.                                                     *)
(***************************************************************************)
EXTENDS CutDisambiguation, SettlementProofs

TwoFires == \A w \in Worlds : Cardinality(w.fires) <= 2

-----------------------------------------------------------------------------
(* The inductive invariant.                                                  *)

Elements(q) == {q[i] : i \in 1..Len(q)}
Distinct(q) == \A i, j \in 1..Len(q) : q[i] = q[j] => i = j

\* The cuts with a row.
Written == {d \in Cuts : row[d].cut # NoCut}

\* The supervisor's data are about cuts of this airing.
BusType ==
  /\ world \in Worlds
  /\ quiet \subseteq world.fires
  /\ pending \in Seq(world.fires) /\ buffer \in Seq(world.fires) /\ confirmed \in Seq(world.fires)
  /\ swap \in [out : world.fires \cup {NoCut}, by : world.fires \cup {NoCut}]
  /\ swap.by = NoCut => swap.out = NoCut
  /\ faults \subseteq FaultKinds

\* A confirmation is in one place at a time, and so handled once.
OnePlace ==
  /\ Distinct(pending) /\ Distinct(confirmed)
  /\ quiet \cap Elements(pending) = {}
  /\ swap.by \notin quiet \cup Elements(pending)
  /\ Elements(confirmed) \cap (quiet \cup Elements(pending) \cup {swap.by}) = {}
  /\ Written \cap (quiet \cup Elements(pending) \cup {swap.by} \cup Elements(confirmed)) = {}

RowType == [cut : Cuts \cup {NoCut}, status : Status, retracted : BOOLEAN]
JobType == [step : Steps, win : Cuts \cup {NoCut}, other : Cuts \cup {NoCut}]

\* The rows and the goroutines: nothing is corrected before the airing is over.
RowsOK ==
  /\ row \in [Cuts -> RowType] /\ job \in [Cuts -> JobType]
  /\ Written \subseteq world.fires
  /\ \A d \in Cuts :
       /\ job[d].step = "none" <=> row[d].cut = NoCut
       /\ row[d].cut = NoCut => row[d].status = "none"
       /\ job[d].step \in {"compare", "reattribute", "take"} => job[d].win # NoCut
       /\ job[d].step \notin {"none", "wait", "done"} => Over
       /\ row[d].cut \notin {NoCut, d} => Over /\ job[d].step \in {"upload", "done"}
       /\ "restart" \notin faults /\ job[d].step = "done" => Over
       /\ job[d].step = "wait" => row[d].status = "pending"
       /\ job[d].step \in {"displaced", "restore", "recover", "unretract", "take"}
            => row[d].status = "audit_rejected"

\* What a row r of another cut d and its goroutine j can be about when c is what
\* aired.
Towards(c, d, r, j) ==
  /\ j.step \in {"compare", "clear", "retract", "reattribute", "unretract", "take"} => j.win = c
  /\ j.step \in {"clear", "retract", "restore", "unretract"} => j.other = c /\ row[c].cut = c
  /\ j.step = "retract" => ~ row[c].retracted
  /\ r.cut \in {NoCut, d, c}
  /\ j.step \in {"reattribute", "take"} \/ r.cut = c => row[c].cut = NoCut \/ row[c].retracted

\* The row of the cut that aired stays its own and is never rejected.
Course(c) ==
  /\ job[c].step \in {"none", "wait", "upload", "done"}
  /\ row[c].cut \in {NoCut, c}
  /\ row[c].status \notin {"audit_rejected", "ambiguous"}
  /\ \A d \in Cuts \ {c} : Towards(c, d, row[d], job[d])

\* A row that kept another cut has been taken out of the count.
Fixed(d, r, j) ==
  r.cut = d /\ j.step \in {"upload", "done"}
    => r.retracted \/ (j.step = "done" /\ r.status = "audit_rejected")
Corrected(c) == \A d \in Cuts \ {c} : Fixed(d, row[d], job[d])

\* Published and not retracted.
Live(x) == \/ x = swap.by
           \/ x \in Elements(confirmed)
           \/ row[x].cut # NoCut /\ ~ row[x].retracted

Early == \A d \in Cuts : job[d].step \in {"none", "wait"}

\* While no clip has been audited, whatever the supervisor dropped it dropped
\* for a cut that is still published.
Published ==
  /\ \A z \in Elements(buffer) : z = swap.out \/ Live(z)
  /\ world.fires \subseteq quiet \cup Elements(pending) \/ \E y \in world.fires : Live(y)

\* The row is counted in the end, or brings the right one back, or the recovery
\* skips it.
Hope(r, j) ==
  \/ /\ j.step \in {"wait", "compare", "reattribute", "upload", "displaced", "recover", "take"}
     /\ ~ r.retracted
  \/ j.step \in {"clear", "unretract", "restore"}
  \/ j.step = "done" /\ Counts(r)
  \/ j.step = "done" /\ r.status = "audit_rejected" /\ j.other # NoCut

Stands(c) == row[c].cut = c /\ ~ row[c].retracted
Hopes(c) == Stands(c) \/ \E d \in Written \ {c} : Hope(row[d], job[d])
Kept(c) == IF Early THEN Published ELSE Hopes(c)

\* All there is to say when c is what aired.  What is only true while nothing of
\* a kind has gone wrong says so.
Sound(c) ==
  /\ Course(c)
  /\ faults \subseteq {"lookup", "insert"} => Corrected(c)
  /\ faults \subseteq {"lookup"} => Kept(c)

BaseInv == BusType /\ OnePlace /\ RowsOK
CutsInv == BaseInv /\ \A c \in Cuts : Aired(c) => Sound(c)

-----------------------------------------------------------------------------
(* Sequences and folds.                                                      *)

LEMMA AppendElements ==
  ASSUME NEW S, NEW q \in Seq(S), NEW x \in S
  PROVE  /\ Append(q, x) \in Seq(S)
         /\ Elements(Append(q, x)) = Elements(q) \cup {x}
         /\ Distinct(q) /\ x \notin Elements(q) => Distinct(Append(q, x))
<1> DEFINE r == Append(q, x)
<1>1. /\ r \in Seq(S) /\ Len(r) = Len(q) + 1 /\ Len(q) \in Nat
      /\ \A i \in 1..Len(q) : r[i] = q[i]
      /\ r[Len(q) + 1] = x
  OBVIOUS
<1> HIDE DEF r
<1>2. \A i \in 1..Len(r) : i \in 1..Len(q) \/ i = Len(q) + 1
  BY <1>1
<1>3. Len(q) + 1 \in 1..Len(r) /\ 1..Len(q) \subseteq 1..Len(r)
  BY <1>1
<1>4. Elements(r) = Elements(q) \cup {x}
  BY <1>1, <1>2, <1>3 DEF Elements
<1>5. ASSUME Distinct(q), x \notin Elements(q) PROVE Distinct(r)
  BY <1>1, <1>2, <1>5 DEF Distinct, Elements
<1> QED
  BY <1>1, <1>4, <1>5 DEF r

LEMMA TailElements ==
  ASSUME NEW S, NEW q \in Seq(S), q # <<>>
  PROVE  /\ Head(q) \in S /\ Head(q) \in Elements(q)
         /\ Tail(q) \in Seq(S)
         /\ Elements(Tail(q)) \subseteq Elements(q)
         /\ Elements(q) = Elements(Tail(q)) \cup {Head(q)}
         /\ Distinct(q) => Distinct(Tail(q)) /\ Head(q) \notin Elements(Tail(q))
<1> DEFINE r == Tail(q)
<1>1. /\ Len(q) \in Nat \ {0} /\ r \in Seq(S) /\ Len(r) = Len(q) - 1
      /\ \A i \in 1..Len(r) : r[i] = q[i + 1]
      /\ Head(q) = q[1] /\ q[1] \in S
  OBVIOUS
<1> HIDE DEF r
<1>2. /\ \A i \in 1..Len(r) : i + 1 \in 1..Len(q) /\ i + 1 # 1 /\ i \in Nat
      /\ \A i \in 1..Len(q) : i = 1 \/ (i - 1 \in 1..Len(r) /\ (i - 1) + 1 = i)
      /\ 1 \in 1..Len(q)
  BY <1>1
<1>3. Elements(r) \subseteq Elements(q) /\ q[1] \in Elements(q)
  BY <1>1, <1>2 DEF Elements
<1>4. \A y \in Elements(q) : y = q[1] \/ y \in Elements(r)
  <2> TAKE y \in Elements(q)
  <2>1. PICK i \in 1..Len(q) : y = q[i]
    BY DEF Elements
  <2>2. CASE i = 1
    BY <2>1, <2>2
  <2>3. CASE i # 1
    <3>1. i - 1 \in 1..Len(r) /\ r[i - 1] = q[i]
      BY <1>1, <1>2, <2>3
    <3> QED
      BY <2>1, <3>1 DEF Elements
  <2> QED
    BY <2>2, <2>3
<1>5. ASSUME Distinct(q) PROVE Distinct(r) /\ q[1] \notin Elements(r)
  <2>1. Distinct(r)
    <3> SUFFICES ASSUME NEW i \in 1..Len(r), NEW j \in 1..Len(r), r[i] = r[j] PROVE i = j
      BY DEF Distinct
    <3>1. q[i + 1] = q[j + 1]
      BY <1>1
    <3>2. i + 1 = j + 1
      BY <1>2, <1>5, <3>1 DEF Distinct
    <3> QED
      BY <1>2, <3>2
  <2>2. q[1] \notin Elements(r)
    <3> SUFFICES ASSUME NEW i \in 1..Len(r), r[i] = q[1] PROVE FALSE
      BY DEF Elements
    <3> QED
      BY <1>1, <1>2, <1>5 DEF Distinct
  <2> QED
    BY <2>1, <2>2
<1> QED
  BY <1>1, <1>3, <1>4, <1>5 DEF r

-----------------------------------------------------------------------------
(* The cut that aired wins every comparison.                                 *)

LEMMA AiredFacts ==
  ASSUME world \in Worlds, NEW c \in Cuts, Aired(c)
  PROVE  /\ \A x \in Cuts : world.cov[x] \in Nat
         /\ world.cov[c] > 0
         /\ \A x \in Cuts \ {c} : 2 * world.cov[c] >= 3 * world.cov[x] /\ world.cov[c] > world.cov[x]
         /\ c \in world.fires /\ c \in world.passes /\ world.fires \subseteq Cuts
         /\ c \in Twins => world.heard = c
<1>1. world \in WorldType
  BY WorldsAssumption
<1>2. \A x \in Cuts : world.cov[x] \in Nat
  BY <1>1, CutsAssumption DEF WorldType
<1>3. MinCoverage \in Nat \ {0}
  BY CutsAssumption
<1>4. /\ c \in world.fires \cap world.passes /\ world.cov[c] >= MinCoverage
      /\ \A d \in Cuts \ {c} : 2 * world.cov[c] >= 3 * world.cov[d]
      /\ c \in Twins => world.heard = c
  BY DEF Aired
<1>5. world.fires \subseteq Cuts
  BY <1>1 DEF WorldType
<1>6. world.cov[c] \in Nat /\ world.cov[c] > 0
  BY <1>2, <1>3, <1>4
<1>7. ASSUME NEW x \in Cuts \ {c} PROVE world.cov[c] > world.cov[x]
  BY <1>2, <1>4, <1>6
<1> QED
  BY <1>2, <1>4, <1>5, <1>6, <1>7

LEMMA ChooseType ==
  ASSUME NEW a \in Cuts, NEW b \in Cuts
  PROVE  ChooseByCoverage(a, b) \in Cuts
BY DEF ChooseByCoverage

LEMMA AiredWins ==
  ASSUME world \in Worlds, NEW c \in Cuts, Aired(c), NEW x \in Cuts
  PROVE  ChooseByCoverage(c, x) = c /\ ChooseByCoverage(x, c) = c
<1>1. CASE x = c
  BY <1>1 DEF ChooseByCoverage
<1>2. CASE x # c
  <2>1. /\ world.cov[c] \in Nat /\ world.cov[x] \in Nat
        /\ world.cov[c] > world.cov[x] /\ 2 * world.cov[c] >= 3 * world.cov[x]
    BY <1>2, AiredFacts
  <2>2. ~ (world.cov[x] > world.cov[c])
    BY <2>1
  <2>3. ChooseByCoverage(c, x) = c
    BY <1>2, <2>1, <2>2 DEF ChooseByCoverage
  <2>4. ChooseByCoverage(x, c) = c
    BY <1>2, <2>1, <2>2 DEF ChooseByCoverage
  <2> QED
    BY <2>3, <2>4
<1> QED
  BY <1>1, <1>2

\* The last index of a prefix is its maximum.
LEMMA LastOfPrefix ==
  ASSUME NEW k \in Nat \ {0}
  PROVE  Max(1..k) = k /\ (1..k) \ {k} = 1..(k - 1)
<1>1. k \in 1..k /\ \A y \in 1..k : k >= y
  OBVIOUS
<1>2. \A x \in 1..k : (\A y \in 1..k : x >= y) => x = k
  BY <1>1
<1>3. Max(1..k) = k
  BY <1>1, <1>2 DEF Max
<1> QED
  BY <1>3

\* A set of naturals up to n has a maximum.
LEMMA MaxIsIn ==
  ASSUME NEW n \in Nat, NEW t \in SUBSET (1..n), t # {}
  PROVE  Max(t) \in t
<1> DEFINE A == {n - x : x \in t}
<1>1. A \in SUBSET Nat /\ A # {}
  <2>1. \A x \in t : x \in Nat /\ x <= n
    OBVIOUS
  <2>2. \A x \in t : n - x \in Nat
    BY <2>1
  <2> QED
    BY <2>2
<1>2. PICK a \in A : \A b \in A : a <= b
  <2> HIDE DEF A
  <2> QED
    BY <1>1, SmallestNat
<1>3. PICK x \in t : a = n - x
  BY <1>2
<1>4. \A y \in t : n - x <= n - y /\ x \in Nat /\ y \in Nat
  BY <1>2, <1>3
<1>5. \A y \in t : x >= y
  BY <1>4
<1> QED
  BY <1>5 DEF Max

\* I[k] is the cut kept after the first k siblings in the order s.
Unfolds(d, w, n, s, I) ==
  /\ n \in Nat /\ s \in [1..n -> Cuts]
  /\ \A x \in Cuts \ {d} : \E i \in 1..n : s[i] = x
  /\ I[0] = d /\ w = I[n]
  /\ \A k \in 1..n : I[k] = ChooseByCoverage(I[k - 1], s[k])

\* The comparison of a cut with its siblings takes them one after the other.
LEMMA WinnerUnfolds ==
  ASSUME NEW d \in Cuts, NEW w \in Winners(d)
  PROVE  \E n, s, I : Unfolds(d, w, n, s, I)
<1> DEFINE n == Cardinality(Cuts \ {d})
           D == 1..n
<1>1. PICK s \in SetToSeqs(Cuts \ {d}) : w = FoldLeft(ChooseByCoverage, d, s)
  BY DEF Winners
<1>2. IsFiniteSet(Cuts \ {d}) /\ n \in Nat
  BY CutsAssumption, FS_RemoveElement, FS_CardinalityType
<1>3. s \in [D -> Cuts \ {d}] /\ \A i, j \in D : i # j => s[i] # s[j]
  BY DEF SetToSeqs
<1>4. \A x \in Cuts \ {d} : \E i \in D : s[i] = x
  <2>1. IsFiniteSet(D) /\ Cardinality(D) = n
    BY <1>2, FS_Interval
  <2>2. s \in Injection(D, Cuts \ {d})
    <3> HIDE DEF D
    <3> QED
      BY <1>3 DEF Injection, IsInjective
  <2>3. s \in Surjection(D, Cuts \ {d})
    BY <1>2, <2>1, <2>2, FS_Injection
  <2> QED
    BY <2>3 DEF Surjection
<1> DEFINE m == [t \in (SUBSET D) \ {{}} |-> Max(t)]
           h == [p \in D \X Cuts |-> ChooseByCoverage(p[2], s[p[1]])]
           Rec(g) == g = [t \in SUBSET D |->
                            IF t = {} THEN d ELSE ChooseByCoverage(g[t \ {Max(t)}], s[Max(t)])]
           I == CHOOSE g : Rec(g)
<1>5. w = I[D]
  BY <1>1, <1>3 DEF FoldLeft, MapThenFoldSet
<1>6. /\ m \in [(SUBSET D) \ {{}} -> D]
      /\ \A t \in (SUBSET D) \ {{}} : m[t] = Max(t) /\ m[t] \in t
  BY <1>2, MaxIsIn
<1>7. /\ h \in [D \X Cuts -> Cuts]
      /\ \A x \in D, y \in Cuts : h[<<x, y>>] = ChooseByCoverage(y, s[x])
  BY <1>3, ChooseType
<1>8. PICK g : Folds(g, D, Cuts, d, m, h)
  <2>1. IsFiniteSet(D)
    BY <1>2, FS_Interval
  <2> HIDE DEF D, m, h
  <2>2. Picks(m, D)
    BY <1>6 DEF Picks
  <2> QED
    BY <1>7, <2>1, <2>2, SetRecursion
<1>g. /\ g \in [SUBSET D -> Cuts]
      /\ \A t \in SUBSET D : g[t] = IF t = {} THEN d ELSE h[<<m[t], g[t \ {m[t]}]>>]
  BY <1>8 DEF Folds
<1>9. Rec(g)
  <2>1. \A t \in SUBSET D : t # {} =>
          h[<<m[t], g[t \ {m[t]}]>>] = ChooseByCoverage(g[t \ {Max(t)}], s[Max(t)])
    <3> TAKE t \in SUBSET D
    <3> SUFFICES ASSUME t # {} PROVE h[<<m[t], g[t \ {m[t]}]>>]
                                      = ChooseByCoverage(g[t \ {Max(t)}], s[Max(t)])
      OBVIOUS
    <3>1. m[t] = Max(t) /\ m[t] \in D /\ g[t \ {m[t]}] \in Cuts
      <4> HIDE DEF D, m
      <4> QED
        BY <1>6, <1>g
    <3> HIDE DEF m, h, D
    <3> QED
      BY <3>1, <1>7
  <2> HIDE DEF D, m, h
  <2>2. \A t \in SUBSET D :
          g[t] = IF t = {} THEN d ELSE ChooseByCoverage(g[t \ {Max(t)}], s[Max(t)])
    BY <1>g, <2>1
  <2>3. g = [t \in SUBSET D |-> g[t]]
    BY <1>g
  <2> QED
    BY <2>2, <2>3
<1>10. Rec(I)
  <2> HIDE DEF Rec
  <2> QED
    BY <1>9
<1>11. \A t \in SUBSET D :
         I[t] = IF t = {} THEN d ELSE ChooseByCoverage(I[t \ {Max(t)}], s[Max(t)])
  <2> HIDE DEF I, D
  <2> QED
    BY <1>10
<1> HIDE DEF I
<1> DEFINE J == [k \in 0..n |-> I[1..k]]
<1>12. \A k \in 0..n : 1..k \in SUBSET D
  <2>1. n \in Nat
    BY <1>2
  <2> HIDE DEF n
  <2> QED
    BY <2>1
<1>13. J[0] = d /\ J[n] = w
  <2>1. 0 \in 0..n /\ n \in 0..n
    <3>1. n \in Nat
      BY <1>2
    <3> HIDE DEF n
    <3> QED
      BY <3>1
  <2>2. 1..0 = {} /\ {} \in SUBSET D
    OBVIOUS
  <2>3. I[1..0] = d
    BY <1>11, <2>2
  <2> HIDE DEF n
  <2> QED
    BY <1>5, <2>1, <2>3
<1>14. ASSUME NEW k \in 1..n PROVE J[k] = ChooseByCoverage(J[k - 1], s[k])
  <2>1. k \in Nat \ {0} /\ k - 1 \in 0..n /\ k \in 0..n
    BY <1>2
  <2>2. 1..k \in SUBSET D /\ 1..k # {}
    <3>1. k \in 1..k
      BY <2>1
    <3> HIDE DEF n
    <3> QED
      BY <1>12, <2>1, <3>1
  <2>3. I[1..k] = ChooseByCoverage(I[1..(k - 1)], s[k])
    BY <1>11, <2>1, <2>2, LastOfPrefix
  <2> HIDE DEF n
  <2> QED
    BY <2>1, <2>3
<1>15. s \in [1..n -> Cuts]
  BY <1>3
<1>16. Unfolds(d, w, n, s, J)
  <2> HIDE DEF J, n
  <2> QED
    BY <1>2, <1>4, <1>13, <1>14, <1>15 DEF Unfolds
<1> HIDE DEF J, n
<1> QED
  BY <1>16

LEMMA WinnerType ==
  ASSUME NEW d \in Cuts, NEW w \in Winners(d)
  PROVE  w \in Cuts
<1>u. PICK n, s, I : Unfolds(d, w, n, s, I)
  BY WinnerUnfolds
<1>1. /\ n \in Nat /\ s \in [1..n -> Cuts]
      /\ I[0] = d /\ w = I[n]
      /\ \A k \in 1..n : I[k] = ChooseByCoverage(I[k - 1], s[k])
  BY <1>u DEF Unfolds
<1> DEFINE Bad == {k \in 0..n : I[k] \notin Cuts}
<1>2. SUFFICES ASSUME Bad # {} PROVE FALSE
  BY <1>1, <1>2
<1>3. PICK k \in Bad : \A j \in Bad : k <= j
  <2>1. Bad \in SUBSET Nat
    OBVIOUS
  <2> HIDE DEF Bad
  <2> QED
    BY <1>2, <2>1, SmallestNat
<1>4. k \in 0..n /\ I[k] \notin Cuts /\ k # 0
  BY <1>1, <1>3
<1>5. k \in 1..n /\ k - 1 \in 0..n /\ ~ (k <= k - 1)
  BY <1>1, <1>4
<1>6. I[k - 1] \in Cuts
  BY <1>3, <1>5
<1> QED
  BY <1>1, <1>4, <1>5, <1>6, ChooseType

\* Whatever the order the catalogue lists the siblings in, the comparison keeps
\* the cut that aired (reattributeByCoverage, recoverRejectedByCoverage).
LEMMA OnlyWinner ==
  ASSUME world \in Worlds, NEW c \in Cuts, Aired(c), NEW d \in Cuts, NEW w \in Winners(d)
  PROVE  w = c
<1>u. PICK n, s, I : Unfolds(d, w, n, s, I)
  BY WinnerUnfolds
<1>1. /\ n \in Nat /\ s \in [1..n -> Cuts]
      /\ \A x \in Cuts \ {d} : \E i \in 1..n : s[i] = x
      /\ I[0] = d /\ w = I[n]
      /\ \A k \in 1..n : I[k] = ChooseByCoverage(I[k - 1], s[k])
  BY <1>u DEF Unfolds
<1> DEFINE Met(k) == d = c \/ \E i \in 1..k : s[i] = c
           Good(k) == I[k] \in Cuts /\ (Met(k) => I[k] = c)
           Bad == {k \in 0..n : ~ Good(k)}
<1>2. Met(n)
  BY <1>1
<1>3. ASSUME Bad # {} PROVE FALSE
  <2>1. PICK k \in Bad : \A j \in Bad : k <= j
    <3>1. Bad \in SUBSET Nat
      OBVIOUS
    <3> HIDE DEF Bad
    <3> QED
      BY <1>3, <3>1, SmallestNat
  <2>2. k \in 0..n /\ ~ Good(k)
    BY <2>1
  <2>3. k # 0
    BY <1>1, <2>2
  <2>4. k \in 1..n /\ k - 1 \in 0..n /\ ~ (k <= k - 1)
    BY <1>1, <2>2, <2>3
  <2>5. Good(k - 1)
    BY <2>1, <2>4
  <2>6. Met(k) => Met(k - 1) \/ s[k] = c
    BY <2>4
  <2>7. I[k] = ChooseByCoverage(I[k - 1], s[k]) /\ s[k] \in Cuts /\ I[k - 1] \in Cuts
    BY <1>1, <2>4, <2>5
  <2>8. I[k] \in Cuts
    BY <2>7, ChooseType
  <2>9. Met(k) => I[k] = c
    BY <2>5, <2>6, <2>7, AiredWins
  <2> QED
    BY <2>2, <2>8, <2>9
<1> QED
  BY <1>1, <1>2, <1>3

-----------------------------------------------------------------------------
(* Places, rows and jobs.                                                    *)

LEMMA FiresAreCuts ==
  ASSUME world \in Worlds PROVE world.fires \subseteq Cuts /\ NoCut \notin world.fires
BY WorldsAssumption, CutsAssumption DEF WorldType

LEMMA EmptyPlace == Elements(<<>>) = {} /\ Distinct(<<>>)
BY DEF Elements, Distinct

LEMMA BaseInit == Init => BaseInv
<1> SUFFICES ASSUME Init PROVE BaseInv
  OBVIOUS
<1>1. world \in Worlds /\ world.fires \subseteq Cuts /\ NoCut \notin world.fires
  BY FiresAreCuts DEF Init
<1>2. BusType
  BY <1>1 DEF Init, BusType
<1>3. Written = {}
  BY DEF Init, NoRow, Written
<1>4. OnePlace
  BY <1>1, <1>3, EmptyPlace DEF Init, OnePlace
<1>5. RowsOK
  <2>1. row \in [Cuts -> RowType] /\ job \in [Cuts -> JobType]
    BY DEF Init, NoRow, Idle, Job, RowType, JobType, Status, Steps
  <2>2. \A d \in Cuts : job[d].step = "none" /\ row[d].cut = NoCut /\ row[d].status = "none"
    BY DEF Init, NoRow, Idle, Job
  <2> QED
    BY <1>3, <2>1, <2>2 DEF RowsOK
<1> QED
  BY <1>2, <1>4, <1>5 DEF BaseInv

\* A goroutine that corrects leaves the supervisor's places alone.
LEMMA CorrectionBase ==
  ASSUME BaseInv, Over, UNCHANGED <<heard, bus>>, NEW d \in Cuts,
         row[d].cut # NoCut, row'[d].cut # NoCut,
         row' \in [Cuts -> RowType], job' \in [Cuts -> JobType],
         faults \subseteq faults', faults' \subseteq FaultKinds,
         \A x \in Cuts \ {d} : /\ row'[x].cut = row[x].cut /\ row'[x].status = row[x].status
                               /\ job'[x] = job[x],
         job'[d].step \notin {"none", "wait"},
         row'[d].cut = d \/ job'[d].step \in {"upload", "done"},
         job'[d].step \in {"displaced", "restore", "recover", "unretract", "take"}
           => row'[d].status = "audit_rejected",
         job'[d].step \in {"compare", "reattribute", "take"} => job'[d].win # NoCut
  PROVE  BaseInv' /\ Over' /\ Written' = Written
<1>1. Over'
  BY DEF Over, heard, bus
<1>2. Written' = Written
  BY DEF Written
<1>3. BusType'
  BY DEF BaseInv, BusType, heard, bus
<1>4. OnePlace'
  BY <1>2 DEF BaseInv, OnePlace, heard, bus
<1>5. RowsOK'
  <2>1. world' = world
    BY DEF heard
  <2>2. ASSUME NEW x \in Cuts
        PROVE /\ (job[x].step = "none" <=> row[x].cut = NoCut)'
              /\ (row[x].cut = NoCut => row[x].status = "none")'
              /\ (job[x].step \in {"compare", "reattribute", "take"} => job[x].win # NoCut)'
              /\ (row[x].cut \notin {NoCut, x} => job[x].step \in {"upload", "done"})'
              /\ (job[x].step = "wait" => row[x].status = "pending")'
              /\ (job[x].step \in {"displaced", "restore", "recover", "unretract", "take"}
                   => row[x].status = "audit_rejected")'
    BY DEF BaseInv, RowsOK
  <2> QED
    BY <1>1, <1>2, <2>1, <2>2 DEF BaseInv, RowsOK
<1> QED
  BY <1>1, <1>2, <1>3, <1>4, <1>5 DEF BaseInv

\* Until the airing is over rows are only written and retracted.
LEMMA RowsBeforeOver ==
  ASSUME BaseInv, ~ Over, world' = world,
         row' \in [Cuts -> RowType], job' \in [Cuts -> JobType],
         faults \subseteq faults', Written' \subseteq world.fires,
         \A x \in Cuts :
           \/ /\ job'[x] = job[x]
              /\ row'[x].cut = row[x].cut /\ row'[x].status = row[x].status
           \/ job'[x].step = "wait" /\ row'[x].cut = x /\ row'[x].status = "pending"
  PROVE  RowsOK'
<1>1. \A x \in Cuts :
        /\ job[x].step \in {"none", "wait", "done"}
        /\ row[x].cut \in {NoCut, x}
        /\ "restart" \in faults \/ job[x].step # "done"
        /\ job[x].step = "none" <=> row[x].cut = NoCut
        /\ row[x].cut = NoCut => row[x].status = "none"
        /\ job[x].step = "wait" => row[x].status = "pending"
  BY DEF BaseInv, RowsOK
<1>2. \A x \in Cuts : x # NoCut
  BY CutsAssumption
<1>3. ASSUME NEW x \in Cuts
      PROVE /\ job'[x].step \in {"none", "wait", "done"}
            /\ row'[x].cut \in {NoCut, x}
            /\ "restart" \in faults' \/ job'[x].step # "done"
            /\ job'[x].step = "none" <=> row'[x].cut = NoCut
            /\ row'[x].cut = NoCut => row'[x].status = "none"
            /\ job'[x].step = "wait" => row'[x].status = "pending"
  BY <1>1, <1>2
<1> QED
  BY <1>3 DEF RowsOK

\* What a found entry of the buffer is.
LEMMA Found ==
  ASSUME NEW c, NEW d \in Find(c)
  PROVE  d \in Elements(buffer)
BY DEF Find, Elements

LEMMA ConfirmBase ==
  ASSUME BaseInv, NEW c \in Cuts, Confirm(c) PROVE BaseInv' /\ ~ Over
<1>1. c \in quiet /\ c \in world.fires /\ quiet' = quiet \ {c} /\ pending' = Append(pending, c)
  BY DEF Confirm, BaseInv, BusType
<1>2. UNCHANGED <<world, buffer, swap, confirmed, row, job, faults>>
  BY DEF Confirm
<1>3. ~ Over
  BY <1>1 DEF Over
<1>4. pending \in Seq(world.fires) /\ Distinct(pending) /\ c \notin Elements(pending)
  BY <1>1 DEF BaseInv, BusType, OnePlace
<1>5. /\ pending' \in Seq(world.fires) /\ Elements(pending') = Elements(pending) \cup {c}
      /\ Distinct(pending')
  BY <1>1, <1>4, AppendElements
<1>6. Written' = Written
  BY <1>2 DEF Written
<1>7. BusType'
  BY <1>1, <1>2, <1>5 DEF BaseInv, BusType
<1>8. OnePlace'
  BY <1>1, <1>2, <1>5, <1>6 DEF BaseInv, OnePlace
<1>9. RowsOK'
  BY <1>2, <1>3, <1>6, RowsBeforeOver DEF BaseInv, RowsOK
<1> QED
  BY <1>3, <1>7, <1>8, <1>9 DEF BaseInv

\* The head of the queue leaves it.
LEMMA HeadLeaves ==
  ASSUME BaseInv, pending # <<>>, NEW c, c = Head(pending)
  PROVE  /\ c \in world.fires /\ c \in Cuts /\ c # NoCut /\ ~ Over
         /\ Tail(pending) \in Seq(world.fires) /\ Distinct(Tail(pending))
         /\ Elements(pending) = Elements(Tail(pending)) \cup {c}
         /\ c \notin Elements(Tail(pending))
         /\ c \notin quiet /\ c # swap.by /\ c \notin Elements(confirmed) /\ c \notin Written
<1>1. pending \in Seq(world.fires) /\ Distinct(pending) /\ world \in Worlds
  BY DEF BaseInv, BusType, OnePlace
<1>2. /\ c \in world.fires /\ c \in Elements(pending)
      /\ Tail(pending) \in Seq(world.fires) /\ Distinct(Tail(pending))
      /\ Elements(pending) = Elements(Tail(pending)) \cup {c}
      /\ c \notin Elements(Tail(pending))
  BY <1>1, TailElements
<1>3. c \in Cuts /\ c # NoCut
  BY <1>1, <1>2, FiresAreCuts
<1>4. c \notin quiet /\ c # swap.by /\ c \notin Elements(confirmed) /\ c \notin Written
  BY <1>2 DEF BaseInv, OnePlace
<1> QED
  BY <1>2, <1>3, <1>4 DEF Over

\* Publish and LookupFails.
LEMMA SendBase ==
  ASSUME BaseInv, pending # <<>>, swap.by = NoCut, NEW c, c = Head(pending),
         confirmed' = Append(confirmed, c), pending' = Tail(pending),
         buffer' \in {buffer, Append(buffer, c)},
         UNCHANGED <<world, quiet, swap, row, job>>,
         faults \subseteq faults', faults' \subseteq FaultKinds
  PROVE  /\ BaseInv'
         /\ Elements(confirmed') = Elements(confirmed) \cup {c}
<1>1. /\ c \in world.fires /\ c \in Cuts /\ c # NoCut /\ ~ Over
      /\ Tail(pending) \in Seq(world.fires) /\ Distinct(Tail(pending))
      /\ Elements(pending) = Elements(Tail(pending)) \cup {c}
      /\ c \notin Elements(Tail(pending))
      /\ c \notin quiet /\ c # swap.by /\ c \notin Elements(confirmed) /\ c \notin Written
  BY HeadLeaves
<1>2. confirmed \in Seq(world.fires) /\ buffer \in Seq(world.fires) /\ Distinct(confirmed)
  BY DEF BaseInv, BusType, OnePlace
<1>3. /\ confirmed' \in Seq(world.fires) /\ Distinct(confirmed')
      /\ Elements(confirmed') = Elements(confirmed) \cup {c}
  BY <1>1, <1>2, AppendElements
<1>4. Append(buffer, c) \in Seq(world.fires)
  BY <1>1, <1>2
<1>5. Written' = Written
  BY DEF Written
<1>6. BusType'
  BY <1>1, <1>2, <1>3, <1>4 DEF BaseInv, BusType
<1>7. OnePlace'
  BY <1>1, <1>3, <1>5 DEF BaseInv, OnePlace
<1>8. RowsOK'
  BY <1>1, <1>5, RowsBeforeOver DEF BaseInv, RowsOK
<1> QED
  BY <1>3, <1>6, <1>7, <1>8 DEF BaseInv

LEMMA SuppressBase ==
  ASSUME BaseInv, Suppress PROVE BaseInv'
<1>1. /\ pending # <<>> /\ pending' = Tail(pending)
      /\ UNCHANGED <<world, quiet, buffer, swap, confirmed, row, job, faults>>
  BY DEF Suppress
<1>2. PICK c : c = Head(pending)
  OBVIOUS
<1>3. /\ ~ Over
      /\ Tail(pending) \in Seq(world.fires) /\ Distinct(Tail(pending))
      /\ Elements(pending) = Elements(Tail(pending)) \cup {c}
  BY <1>1, <1>2, HeadLeaves
<1>4. Written' = Written
  BY <1>1 DEF Written
<1>5. BusType'
  BY <1>1, <1>3 DEF BaseInv, BusType
<1>6. OnePlace'
  BY <1>1, <1>3, <1>4 DEF BaseInv, OnePlace
<1>7. RowsOK'
  BY <1>1, <1>3, <1>4, RowsBeforeOver DEF BaseInv, RowsOK
<1> QED
  BY <1>5, <1>6, <1>7 DEF BaseInv

\* What Retract writes, for the entry d that c displaces.
RetractOf(c, d) ==
  /\ swap' = [out |-> d, by |-> c]
  /\ row' = [e \in Cuts |-> IF e = d /\ row[e].cut = e
                             THEN [row[e] EXCEPT !.retracted = TRUE] ELSE row[e]]

LEMMA RetractBase ==
  ASSUME BaseInv, Retract
  PROVE  /\ BaseInv' /\ ~ Over /\ Written' = Written
         /\ \A e \in Cuts : row'[e].cut = row[e].cut /\ row'[e].status = row[e].status
<1>1. /\ pending # <<>> /\ swap.by = NoCut /\ pending' = Tail(pending)
      /\ UNCHANGED <<world, quiet, buffer, confirmed, job, faults>>
  BY DEF Retract
<1>2. PICK c : c = Head(pending)
  OBVIOUS
<1>3. PICK d \in Find(c) : RetractOf(c, d)
  BY <1>2 DEF Retract, RetractOf
<1>4. /\ c \in world.fires /\ ~ Over
      /\ Tail(pending) \in Seq(world.fires) /\ Distinct(Tail(pending))
      /\ Elements(pending) = Elements(Tail(pending)) \cup {c}
      /\ c \notin Elements(Tail(pending)) /\ c # NoCut
      /\ c \notin quiet /\ c \notin Elements(confirmed) /\ c \notin Written
  BY <1>1, <1>2, HeadLeaves
<1>5. d \in world.fires
  <2>1. d \in Elements(buffer) /\ buffer \in Seq(world.fires)
    BY <1>3, Found DEF BaseInv, BusType
  <2> QED
    BY <2>1 DEF Elements
<1>6. swap'.by = c /\ swap' \in [out : world.fires \cup {NoCut}, by : world.fires \cup {NoCut}]
  BY <1>3, <1>4, <1>5 DEF RetractOf
<1>7. /\ row' \in [Cuts -> RowType]
      /\ \A e \in Cuts : row'[e].cut = row[e].cut /\ row'[e].status = row[e].status
  <2>1. row \in [Cuts -> RowType]
    BY DEF BaseInv, RowsOK
  <2>2. \A e \in Cuts : row'[e] = IF e = d /\ row[e].cut = e
                                   THEN [row[e] EXCEPT !.retracted = TRUE] ELSE row[e]
    BY <1>3 DEF RetractOf
  <2>3. \A r \in RowType : LET q == [r EXCEPT !.retracted = TRUE]
                            IN  q \in RowType /\ q.cut = r.cut /\ q.status = r.status
    BY DEF RowType
  <2>4. ASSUME NEW e \in Cuts
        PROVE  row'[e] \in RowType /\ row'[e].cut = row[e].cut /\ row'[e].status = row[e].status
    BY <2>1, <2>2, <2>3
  <2>5. row' = [e \in Cuts |-> row'[e]]
    BY <1>3 DEF RetractOf
  <2> QED
    BY <2>4, <2>5
<1>8. Written' = Written
  BY <1>7 DEF Written
<1>9. BusType'
  BY <1>1, <1>4, <1>6 DEF BaseInv, BusType
<1>10. OnePlace'
  BY <1>1, <1>4, <1>6, <1>8 DEF BaseInv, OnePlace
<1>11. RowsOK'
  BY <1>1, <1>4, <1>7, <1>8, RowsBeforeOver DEF BaseInv, RowsOK
<1> QED
  BY <1>4, <1>7, <1>8, <1>9, <1>10, <1>11 DEF BaseInv

LEMMA ReplaceBase ==
  ASSUME BaseInv, Replace
  PROVE  /\ BaseInv' /\ ~ Over
         /\ Elements(confirmed') = Elements(confirmed) \cup {swap.by}
         /\ \A z \in Elements(buffer') : z = swap.by \/ (z \in Elements(buffer) /\ z # swap.out)
<1>1. /\ swap.by # NoCut /\ confirmed' = Append(confirmed, swap.by)
      /\ swap' = [out |-> NoCut, by |-> NoCut]
      /\ buffer' = [i \in DOMAIN buffer |-> IF buffer[i] = swap.out THEN swap.by ELSE buffer[i]]
      /\ UNCHANGED <<world, quiet, pending, row, job, faults>>
  BY DEF Replace
<1>2. /\ swap.by \in world.fires /\ confirmed \in Seq(world.fires) /\ buffer \in Seq(world.fires)
      /\ Distinct(confirmed) /\ swap.by \notin Elements(confirmed)
      /\ world \in Worlds
  BY <1>1 DEF BaseInv, BusType, OnePlace
<1>3. /\ confirmed' \in Seq(world.fires) /\ Distinct(confirmed')
      /\ Elements(confirmed') = Elements(confirmed) \cup {swap.by}
  BY <1>1, <1>2, AppendElements
<1>4. buffer' \in Seq(world.fires)
  <2>1. DOMAIN buffer = 1..Len(buffer) /\ Len(buffer) \in Nat
    BY <1>2
  <2>2. \A i \in 1..Len(buffer) :
          (IF buffer[i] = swap.out THEN swap.by ELSE buffer[i]) \in world.fires
    BY <1>2
  <2>3. buffer' \in [1..Len(buffer) -> world.fires]
    BY <1>1, <2>1, <2>2
  <2> QED
    BY <2>1, <2>3
<1>5. \A z \in Elements(buffer') : z = swap.by \/ (z \in Elements(buffer) /\ z # swap.out)
  <2>1. 1..Len(buffer') = 1..Len(buffer) /\ DOMAIN buffer = 1..Len(buffer)
    <3>1. DOMAIN buffer' = DOMAIN buffer
      BY <1>1
    <3> QED
      BY <1>2, <1>4, <3>1
  <2>2. \A i \in 1..Len(buffer') :
          buffer'[i] = IF buffer[i] = swap.out THEN swap.by ELSE buffer[i]
    BY <1>1, <2>1
  <2> QED
    BY <2>1, <2>2 DEF Elements
<1>6. Written' = Written /\ ~ Over
  BY <1>1 DEF Written, Over
<1>7. NoCut \notin world.fires /\ Written \subseteq Cuts /\ NoCut \notin Cuts
  BY <1>2, FiresAreCuts, CutsAssumption DEF Written
<1>8. BusType'
  BY <1>1, <1>3, <1>4 DEF BaseInv, BusType
<1>9. OnePlace'
  <2>1. /\ NoCut \notin quiet \cup Elements(pending)
        /\ NoCut \notin Elements(confirmed')
    <3>1. pending \in Seq(world.fires) /\ quiet \subseteq world.fires
      BY DEF BaseInv, BusType
    <3> QED
      BY <1>3, <1>7, <3>1 DEF Elements
  <2> QED
    BY <1>1, <1>3, <1>6, <1>7, <2>1 DEF BaseInv, OnePlace
<1>10. RowsOK'
  BY <1>1, <1>6, RowsBeforeOver DEF BaseInv, RowsOK
<1> QED
  BY <1>3, <1>5, <1>6, <1>8, <1>9, <1>10 DEF BaseInv

LEMMA InsertBase ==
  ASSUME BaseInv, Insert, NEW d, d = Head(confirmed)
  PROVE  /\ BaseInv' /\ ~ Over /\ d \in world.fires /\ d \in Cuts /\ d \notin Written
         /\ d # NoCut /\ d # swap.by
         /\ Elements(confirmed) = Elements(confirmed') \cup {d}
         /\ row'[d] = [cut |-> d, status |-> "pending", retracted |-> FALSE]
         /\ job'[d] = Job("wait", NoCut, NoCut)
         /\ \A x \in Cuts \ {d} : row'[x] = row[x] /\ job'[x] = job[x]
<1>1. /\ confirmed # <<>> /\ confirmed' = Tail(confirmed)
      /\ row' = [row EXCEPT ![d] = [cut |-> d, status |-> "pending", retracted |-> FALSE]]
      /\ job' = [job EXCEPT ![d] = Job("wait", NoCut, NoCut)]
      /\ UNCHANGED <<world, quiet, pending, buffer, swap, faults>>
  BY DEF Insert, Set, heard
<1>2. /\ confirmed \in Seq(world.fires) /\ Distinct(confirmed) /\ world \in Worlds
      /\ row \in [Cuts -> RowType] /\ job \in [Cuts -> JobType]
  BY DEF BaseInv, BusType, OnePlace, RowsOK
<1>3. /\ d \in world.fires /\ d \in Elements(confirmed)
      /\ confirmed' \in Seq(world.fires) /\ Distinct(confirmed')
      /\ Elements(confirmed) = Elements(confirmed') \cup {d}
      /\ d \notin Elements(confirmed')
  BY <1>1, <1>2, TailElements
<1>4. d \in Cuts /\ d # NoCut
  BY <1>2, <1>3, FiresAreCuts
<1>5. d \notin Written /\ d \notin quiet /\ d \notin Elements(pending) /\ d # swap.by
  BY <1>3 DEF BaseInv, OnePlace
<1>6. /\ row'[d] = [cut |-> d, status |-> "pending", retracted |-> FALSE]
      /\ job'[d] = Job("wait", NoCut, NoCut)
      /\ \A x \in Cuts \ {d} : row'[x] = row[x] /\ job'[x] = job[x]
  BY <1>1, <1>2, <1>4
<1>7. row' \in [Cuts -> RowType] /\ job' \in [Cuts -> JobType]
  <2>1. [cut |-> d, status |-> "pending", retracted |-> FALSE] \in RowType
    BY <1>4 DEF RowType, Status
  <2>2. Job("wait", NoCut, NoCut) \in JobType
    BY DEF Job, JobType, Steps
  <2> QED
    BY <1>1, <1>2, <2>1, <2>2
<1>8. Written' = Written \cup {d}
  BY <1>4, <1>6 DEF Written
<1>9. ~ Over
  BY <1>1 DEF Over
<1>10. BusType'
  BY <1>1, <1>3 DEF BaseInv, BusType
<1>11. OnePlace'
  BY <1>1, <1>3, <1>5, <1>8 DEF BaseInv, OnePlace
<1>12. RowsOK'
  <2>1. Written' \subseteq world.fires
    BY <1>3, <1>8 DEF BaseInv, RowsOK
  <2>2. \A x \in Cuts :
           \/ /\ job'[x] = job[x]
              /\ row'[x].cut = row[x].cut /\ row'[x].status = row[x].status
           \/ job'[x].step = "wait" /\ row'[x].cut = x /\ row'[x].status = "pending"
    BY <1>6 DEF Job
  <2> QED
    BY <1>1, <1>7, <1>9, <2>1, <2>2, RowsBeforeOver
<1> QED
  BY <1>3, <1>4, <1>5, <1>6, <1>9, <1>10, <1>11, <1>12 DEF BaseInv

LEMMA InsertFailsBase ==
  ASSUME BaseInv, InsertFails
  PROVE  BaseInv' /\ ~ Over
<1>1. /\ confirmed # <<>> /\ confirmed' = Tail(confirmed)
      /\ faults' = faults \cup {"insert"}
      /\ UNCHANGED <<world, quiet, pending, buffer, swap, row, job>>
  BY DEF InsertFails, Fails, heard
<1>2. /\ confirmed' \in Seq(world.fires) /\ Distinct(confirmed')
      /\ Elements(confirmed') \subseteq Elements(confirmed)
  <2>1. confirmed \in Seq(world.fires) /\ Distinct(confirmed)
    BY DEF BaseInv, BusType, OnePlace
  <2> QED
    BY <1>1, <2>1, TailElements
<1>3. Written' = Written /\ ~ Over /\ faults' \subseteq FaultKinds
  BY <1>1 DEF Written, Over, BaseInv, BusType, FaultKinds
<1>4. BusType'
  BY <1>1, <1>2, <1>3 DEF BaseInv, BusType
<1>5. OnePlace'
  BY <1>1, <1>2, <1>3 DEF BaseInv, OnePlace
<1>6. RowsOK'
  BY <1>1, <1>3, RowsBeforeOver DEF BaseInv, RowsOK
<1> QED
  BY <1>3, <1>4, <1>5, <1>6 DEF BaseInv

LEMMA RestartBase ==
  ASSUME BaseInv, Restart
  PROVE  /\ BaseInv'
         /\ Over => Over'
         /\ \A d \in Cuts : IF job[d].step = "none" THEN job'[d].step = "none"
                             ELSE job'[d] = Job("done", NoCut, NoCut)
<1>1. /\ pending' = <<>> /\ buffer' = <<>> /\ confirmed' = <<>>
      /\ swap' = [out |-> NoCut, by |-> NoCut]
      /\ job' = [d \in Cuts |-> IF job[d].step = "none" THEN Idle ELSE Job("done", NoCut, NoCut)]
      /\ faults' = faults \cup {"restart"}
      /\ UNCHANGED <<world, quiet, row>>
  BY DEF Restart, Fails, heard
<1>2. world \in Worlds /\ NoCut \notin world.fires /\ quiet \subseteq world.fires /\ NoCut \notin Cuts
  BY FiresAreCuts, CutsAssumption DEF BaseInv, BusType
<1>3. BusType'
  BY <1>1 DEF BaseInv, BusType, FaultKinds
<1>4. Written' = Written /\ NoCut \notin Written
  BY <1>1, <1>2 DEF Written
<1>5. OnePlace'
  BY <1>1, <1>2, <1>4, EmptyPlace DEF BaseInv, OnePlace
<1>6. Over => Over'
  BY <1>1 DEF Over
<1>7. \A d \in Cuts : job'[d] = IF job[d].step = "none" THEN Idle ELSE Job("done", NoCut, NoCut)
  BY <1>1
<1>8. job' \in [Cuts -> JobType]
  BY <1>1 DEF Idle, Job, JobType, Steps
<1>9. RowsOK'
  <2>1. ASSUME NEW d \in Cuts
        PROVE /\ job'[d].step \in {"none", "done"}
              /\ job'[d].step = "none" <=> row'[d].cut = NoCut
              /\ row'[d].cut = NoCut => row'[d].status = "none"
              /\ row'[d].cut \notin {NoCut, d} => Over' /\ job'[d].step = "done"
    BY <1>1, <1>6, <1>7 DEF BaseInv, RowsOK, Idle, Job
  <2> QED
    BY <1>1, <1>4, <1>8, <2>1 DEF BaseInv, RowsOK
<1> QED
  BY <1>3, <1>5, <1>6, <1>7, <1>9 DEF BaseInv, Idle, Job

-----------------------------------------------------------------------------
(* The steps of the goroutines, row by row.                                  *)

\* The goroutine of d writes its own row.
Own(d, r, j) ==
  /\ row' \in [Cuts -> RowType] /\ job' \in [Cuts -> JobType]
  /\ row'[d] = r /\ job'[d] = j
  /\ \A x \in Cuts \ {d} : row'[x] = row[x] /\ job'[x] = job[x]

\* The goroutine of d brings the row e back.
Frees(d, e, j) ==
  /\ row' \in [Cuts -> RowType] /\ job' \in [Cuts -> JobType]
  /\ job'[d] = j
  /\ \A x \in Cuts \ {d} : job'[x] = job[x]
  /\ \A x \in Cuts : /\ row'[x].cut = row[x].cut /\ row'[x].status = row[x].status
                     /\ row'[x].retracted = IF x = e THEN FALSE ELSE row[x].retracted

\* It is past its wait, and the airing over; what it leaves is well-formed.
Working(d) ==
  /\ Over /\ UNCHANGED <<heard, bus>> /\ row[d].cut # NoCut
  /\ faults \subseteq faults' /\ faults' \subseteq FaultKinds

WellStepped(d, r, j) ==
  /\ j.step \notin {"none", "wait"} /\ r.cut # NoCut
  /\ r.cut = d \/ j.step \in {"upload", "done"}
  /\ j.step \in {"displaced", "restore", "recover", "unretract", "take"}
       => r.status = "audit_rejected"
  /\ j.step \in {"compare", "reattribute", "take"} => j.win # NoCut

LEMMA OwnBase ==
  ASSUME BaseInv, NEW d \in Cuts, NEW r, NEW j, Working(d), Own(d, r, j), WellStepped(d, r, j)
  PROVE  BaseInv' /\ Over' /\ Written' = Written
<1>1. /\ \A x \in Cuts \ {d} : /\ row'[x].cut = row[x].cut /\ row'[x].status = row[x].status
                                /\ job'[x] = job[x]
      /\ row' \in [Cuts -> RowType] /\ job' \in [Cuts -> JobType]
      /\ row'[d].cut # NoCut
      /\ job'[d].step \notin {"none", "wait"}
      /\ row'[d].cut = d \/ job'[d].step \in {"upload", "done"}
      /\ job'[d].step \in {"displaced", "restore", "recover", "unretract", "take"}
           => row'[d].status = "audit_rejected"
      /\ job'[d].step \in {"compare", "reattribute", "take"} => job'[d].win # NoCut
  BY DEF Own, WellStepped
<1>2. /\ Over /\ UNCHANGED <<heard, bus>> /\ row[d].cut # NoCut
      /\ faults \subseteq faults' /\ faults' \subseteq FaultKinds
  BY DEF Working
<1> QED
  BY <1>1, <1>2, CorrectionBase

LEMMA FreesBase ==
  ASSUME BaseInv, NEW d \in Cuts, NEW e, NEW j, Working(d), Frees(d, e, j),
         WellStepped(d, row[d], j)
  PROVE  BaseInv' /\ Over' /\ Written' = Written
<1>1. /\ \A x \in Cuts \ {d} : /\ row'[x].cut = row[x].cut /\ row'[x].status = row[x].status
                                /\ job'[x] = job[x]
      /\ row' \in [Cuts -> RowType] /\ job' \in [Cuts -> JobType]
      /\ row'[d].cut # NoCut
      /\ job'[d].step \notin {"none", "wait"}
      /\ row'[d].cut = d \/ job'[d].step \in {"upload", "done"}
      /\ job'[d].step \in {"displaced", "restore", "recover", "unretract", "take"}
           => row'[d].status = "audit_rejected"
      /\ job'[d].step \in {"compare", "reattribute", "take"} => job'[d].win # NoCut
  BY DEF Frees, WellStepped
<1>2. /\ Over /\ UNCHANGED <<heard, bus>> /\ row[d].cut # NoCut
      /\ faults \subseteq faults' /\ faults' \subseteq FaultKinds
  BY DEF Working
<1> QED
  BY <1>1, <1>2, CorrectionBase

LEMMA SetOwn ==
  ASSUME BaseInv, NEW d \in Cuts, NEW r \in RowType, NEW j \in JobType, Set(d, r, j)
  PROVE  Own(d, r, j)
BY DEF BaseInv, RowsOK, Set, Own

LEMMA StepOwn ==
  ASSUME BaseInv, NEW d \in Cuts, NEW j \in JobType, Step(d, j)
  PROVE  Own(d, row[d], j)
BY DEF BaseInv, RowsOK, Step, Own

LEMMA UnretractFrees ==
  ASSUME BaseInv, NEW d \in Cuts, NEW e, NEW j \in JobType,
         row' = [row EXCEPT ![e].retracted = FALSE], job' = [job EXCEPT ![d] = j]
  PROVE  Frees(d, e, j)
<1>1. row \in [Cuts -> RowType] /\ job \in [Cuts -> JobType]
  BY DEF BaseInv, RowsOK
<1>2. \A r \in RowType : LET q == [r EXCEPT !.retracted = FALSE]
                         IN  q \in RowType /\ q.cut = r.cut /\ q.status = r.status /\ q.retracted = FALSE
  BY DEF RowType
<1>3. \A x \in Cuts : row'[x] = IF x = e THEN [row[x] EXCEPT !.retracted = FALSE] ELSE row[x]
  BY <1>1
<1>4. row' = [x \in Cuts |-> row'[x]] /\ job' \in [Cuts -> JobType]
  BY <1>1
<1>5. ASSUME NEW x \in Cuts
      PROVE  /\ row'[x] \in RowType
             /\ row'[x].cut = row[x].cut /\ row'[x].status = row[x].status
             /\ row'[x].retracted = IF x = e THEN FALSE ELSE row[x].retracted
  <2>1. row[x] \in RowType
    BY <1>1
  <2>2. CASE x = e
    <3>1. row'[x] = [row[x] EXCEPT !.retracted = FALSE]
      BY <1>3, <2>2
    <3>2. PICK r \in RowType : r = row[x]
      BY <2>1
    <3>3. row'[x] = [r EXCEPT !.retracted = FALSE]
      BY <3>1, <3>2
    <3> QED
      BY <1>2, <2>2, <3>2, <3>3
  <2>3. CASE x # e
    BY <1>3, <2>1, <2>3
  <2> QED
    BY <2>2, <2>3
<1> QED
  BY <1>1, <1>4, <1>5 DEF Frees

-----------------------------------------------------------------------------
(* What aired stays counted, or on its way there.                            *)

\* At most one other cut has a row.
LEMMA OneOther ==
  ASSUME TwoFires, world \in Worlds,
         NEW c \in world.fires, NEW d \in world.fires, c # d, NEW e \in world.fires
  PROVE  e = c \/ e = d
<1> SUFFICES ASSUME e # c, e # d PROVE FALSE
  OBVIOUS
<1>1. IsFiniteSet(world.fires)
  BY FiresAreCuts, CutsAssumption, FS_Subset
<1>2. Cardinality(world.fires) <= 2
  BY DEF TwoFires
<1> DEFINE A == {} \cup {c}
           B == A \cup {d}
           C == B \cup {e}
<1>3. c \notin {} /\ d \notin A /\ e \notin B
  OBVIOUS
<1>4. IsFiniteSet(C) /\ Cardinality(C) = 3
  <2>1. IsFiniteSet({}) /\ Cardinality({}) = 0
    BY FS_EmptySet
  <2>2. IsFiniteSet(A) /\ Cardinality(A) = 0 + 1
    BY <1>3, <2>1, FS_AddElement
  <2> HIDE DEF A
  <2>3. IsFiniteSet(B) /\ Cardinality(B) = 0 + 1 + 1
    BY <1>3, <2>2, FS_AddElement
  <2> HIDE DEF B
  <2>4. IsFiniteSet(C) /\ Cardinality(C) = 0 + 1 + 1 + 1
    BY <1>3, <2>3, FS_AddElement
  <2> QED
    BY <2>4
<1>5. C \in SUBSET world.fires
  OBVIOUS
<1>6. 3 <= Cardinality(world.fires) /\ Cardinality(world.fires) \in Nat
  <2> HIDE DEF C
  <2> QED
    BY <1>1, <1>4, <1>5, FS_Subset, FS_CardinalityType
<1> QED
  BY <1>2, <1>6

\* A goroutine at work has the row of its own cut, of a cut of the airing.
LEMMA AtWork ==
  ASSUME BaseInv, NEW d \in Cuts, job[d].step # "none"
  PROVE  /\ d \in Written /\ d \in world.fires /\ row[d].cut # NoCut
         /\ job[d].step \notin {"upload", "done"} => row[d].cut = d
         /\ job[d].step \notin {"wait", "done"} => Over
         /\ job[d].step = "wait" => row[d].status = "pending"
         /\ job[d].step \in {"displaced", "restore", "recover", "unretract", "take"}
              => row[d].status = "audit_rejected"
         /\ job[d].step \in {"compare", "reattribute", "take"} => job[d].win # NoCut
         /\ row[d] \in RowType /\ job[d] \in JobType
BY DEF BaseInv, RowsOK, Written

LEMMA HopesNow ==
  ASSUME BaseInv, NEW c \in Cuts, Aired(c), Course(c), Kept(c), Over
  PROVE  Hopes(c)
<1>1. CASE ~ Early
  BY <1>1 DEF Kept
<1>2. CASE Early
  <2>1. Published
    BY <1>2 DEF Kept
  <2>2. c \in world.fires /\ world \in Worlds
    BY AiredFacts DEF BaseInv, BusType
  <2>3. quiet = {} /\ Elements(pending) = {} /\ swap.by = NoCut /\ Elements(confirmed) = {}
    BY EmptyPlace DEF Over
  <2>4. PICK y \in world.fires : Live(y)
    BY <2>1, <2>2, <2>3 DEF Published
  <2>5. y \in Cuts /\ y # NoCut
    BY <2>2, FiresAreCuts
  <2>6. row[y].cut # NoCut /\ ~ row[y].retracted
    BY <2>3, <2>4, <2>5 DEF Live
  <2>7. CASE y = c
    BY <2>6, <2>7 DEF Course, Hopes, Stands
  <2>8. CASE y # c
    <3>1. job[y].step = "wait"
      BY <1>2, <2>5, <2>6 DEF Early, BaseInv, RowsOK
    <3> QED
      BY <2>5, <2>6, <2>8, <3>1 DEF Hopes, Hope, Written
  <2> QED
    BY <2>7, <2>8
<1> QED
  BY <1>1, <1>2

\* The goroutine of another cut d writes its own row.
LEMMA OwnSound ==
  ASSUME BaseInv, TwoFires, NEW c \in Cuts, Aired(c), Sound(c), NEW d \in Cuts \ {c},
         NEW r, NEW j, Working(d), Own(d, r, j), WellStepped(d, r, j), Towards(c, d, r, j),
         faults' \subseteq {"lookup", "insert"} => Fixed(d, r, j),
         faults' \subseteq {"lookup"} /\ (Stands(c) \/ Hope(row[d], job[d])) => Stands(c) \/ Hope(r, j)
  PROVE  BaseInv' /\ Sound(c)'
<1>1. BaseInv' /\ Over' /\ Written' = Written
  BY OwnBase
<1>2. /\ row'[d] = r /\ job'[d] = j /\ row'[c] = row[c] /\ job'[c] = job[c]
      /\ \A x \in Cuts \ {d} : row'[x] = row[x] /\ job'[x] = job[x]
  BY DEF Own
<1>3. faults \subseteq faults' /\ Over /\ row[d].cut # NoCut
  BY DEF Working
<1>4. Course(c)'
  <2>1. ASSUME NEW x \in Cuts \ {c} PROVE Towards(c, x, row[x], job[x])'
    <3>1. CASE x = d
      BY <1>2, <3>1 DEF Towards
    <3>2. CASE x # d
      <4>1. row'[x] = row[x] /\ job'[x] = job[x]
        BY <1>2, <3>2
      <4>2. Towards(c, x, row[x], job[x])
        BY DEF Sound, Course
      <4> QED
        BY <1>2, <4>1, <4>2 DEF Towards
    <3> QED
      BY <3>1, <3>2
  <2> QED
    BY <1>2, <2>1 DEF Sound, Course
<1>5. faults' \subseteq {"lookup", "insert"} => Corrected(c)'
  <2> SUFFICES ASSUME faults' \subseteq {"lookup", "insert"} PROVE Corrected(c)'
    OBVIOUS
  <2>1. Corrected(c) /\ Fixed(d, r, j)
    BY <1>3 DEF Sound
  <2>2. ASSUME NEW x \in Cuts \ {c} PROVE Fixed(x, row[x], job[x])'
    BY <1>2, <2>1 DEF Corrected, Fixed
  <2> QED
    BY <2>2 DEF Corrected
<1>6. faults' \subseteq {"lookup"} => Kept(c)'
  <2> SUFFICES ASSUME faults' \subseteq {"lookup"} PROVE Kept(c)'
    OBVIOUS
  <2>1. Hopes(c)
    BY <1>3, HopesNow DEF Sound
  <2>2. ~ Early'
    BY <1>2 DEF Early, WellStepped
  <2>3. Stands(c) \/ Hope(row[d], job[d])
    <3>1. CASE Stands(c)
      BY <3>1
    <3>2. CASE ~ Stands(c)
      <4>1. PICK x \in Written \ {c} : Hope(row[x], job[x])
        BY <2>1, <3>2 DEF Hopes
      <4>2. x \in world.fires /\ d \in world.fires /\ c \in world.fires /\ world \in Worlds
        BY <1>3, AiredFacts DEF BaseInv, BusType, RowsOK, Written
      <4>3. x = d
        BY <4>2, OneOther
      <4> QED
        BY <4>1, <4>3
    <3> QED
      BY <3>1, <3>2
  <2>4. Stands(c) \/ Hope(r, j)
    BY <2>3
  <2>5. d \in Written' /\ d # c
    BY <1>1, <1>3 DEF Written
  <2>6. Hopes(c)'
    <3>1. CASE Stands(c)
      BY <1>2, <3>1 DEF Hopes, Stands
    <3>2. CASE Hope(r, j)
      <4>1. Hope(row[d], job[d])'
        BY <1>2, <3>2 DEF Hope, Counts
      <4> QED
        BY <2>5, <4>1 DEF Hopes
    <3> QED
      BY <2>4, <3>1, <3>2
  <2> QED
    BY <2>2, <2>6 DEF Kept
<1> QED
  BY <1>1, <1>4, <1>5, <1>6 DEF Sound

\* The goroutine of what aired: it keeps the cut and never touches retracted.
LEMMA OwnSoundAired ==
  ASSUME BaseInv, NEW c \in Cuts, Aired(c), Sound(c), NEW r, NEW j,
         Working(c), Own(c, r, j), j.step \in {"upload", "done"},
         r.cut = c, r.retracted = row[c].retracted, r.status \notin {"audit_rejected", "ambiguous"}
  PROVE  BaseInv' /\ Sound(c)'
<1>1. BaseInv' /\ Over' /\ Written' = Written
  <2>1. WellStepped(c, r, j)
    BY CutsAssumption DEF WellStepped
  <2> QED
    BY <2>1, OwnBase
<1>2. /\ row'[c] = r /\ job'[c] = j
      /\ \A x \in Cuts \ {c} : row'[x] = row[x] /\ job'[x] = job[x]
  BY DEF Own
<1>3. faults \subseteq faults' /\ Over /\ row[c].cut = c
  BY DEF Working, Sound, Course
<1>4. Course(c)'
  <2>1. ASSUME NEW x \in Cuts \ {c} PROVE Towards(c, x, row[x], job[x])'
    <3>1. Towards(c, x, row[x], job[x])
      BY DEF Sound, Course
    <3> QED
      BY <1>2, <1>3, <3>1 DEF Towards
  <2> QED
    BY <1>2, <2>1 DEF Course
<1>5. faults' \subseteq {"lookup", "insert"} => Corrected(c)'
  BY <1>2, <1>3 DEF Sound, Corrected, Fixed
<1>6. faults' \subseteq {"lookup"} => Kept(c)'
  <2> SUFFICES ASSUME faults' \subseteq {"lookup"} PROVE Kept(c)'
    OBVIOUS
  <2>1. Hopes(c)
    BY <1>3, HopesNow DEF Sound
  <2>2. ~ Early'
    BY <1>2 DEF Early
  <2>3. Hopes(c)'
    <3>1. CASE Stands(c)
      BY <1>2, <3>1 DEF Hopes, Stands
    <3>2. CASE ~ Stands(c)
      <4>1. PICK x \in Written \ {c} : Hope(row[x], job[x])
        BY <2>1, <3>2 DEF Hopes
      <4>2. x \in Cuts \ {c}
        BY <4>1 DEF Written
      <4>3. Hope(row[x], job[x])'
        BY <1>2, <4>1, <4>2 DEF Hope, Counts
      <4> QED
        BY <1>1, <4>1, <4>3 DEF Hopes
    <3> QED
      BY <3>1, <3>2
  <2> QED
    BY <2>2, <2>3 DEF Kept
<1> QED
  BY <1>1, <1>4, <1>5, <1>6 DEF Sound

\* The goroutine of another cut d brings the row of c back.
LEMMA FreesSound ==
  ASSUME BaseInv, TwoFires, NEW c \in Cuts, Aired(c), Sound(c), NEW d \in Cuts \ {c}, NEW j,
         Working(d), Frees(d, c, j), WellStepped(d, row[d], j),
         row[c].cut = c, row[d].cut = d, j.step \in {"retract", "done"},
         j.step = "retract" => j.win = c /\ j.other = c,
         j.step = "done" => row[d].status = "audit_rejected"
  PROVE  BaseInv' /\ Sound(c)'
<1>1. BaseInv' /\ Over' /\ Written' = Written
  BY FreesBase
<1>2. /\ job'[d] = j
      /\ \A x \in Cuts \ {d} : job'[x] = job[x]
      /\ \A x \in Cuts : row'[x].cut = row[x].cut /\ row'[x].status = row[x].status
      /\ \A x \in Cuts \ {c} : row'[x].retracted = row[x].retracted
      /\ row'[c].retracted = FALSE
  BY DEF Frees
<1>3. faults \subseteq faults' /\ Over
  BY DEF Working
<1>4. \A x \in Cuts \ {c, d} : x \notin Written
  <2> SUFFICES ASSUME NEW x \in Cuts \ {c, d}, x \in Written PROVE FALSE
    OBVIOUS
  <2>1. d \in Cuts /\ row[d].cut # NoCut
    BY DEF Working
  <2>2. x \in world.fires /\ d \in world.fires /\ c \in world.fires /\ world \in Worlds
    BY <2>1, AiredFacts DEF BaseInv, BusType, RowsOK, Written
  <2> QED
    BY <2>2, OneOther
<1>5. Course(c)'
  <2>1. ASSUME NEW x \in Cuts \ {c} PROVE Towards(c, x, row[x], job[x])'
    <3>1. CASE x = d
      BY <1>2, <3>1 DEF Towards
    <3>2. CASE x # d
      <4>1. row[x].cut = NoCut /\ job[x].step = "none"
        BY <1>4, <3>2 DEF Written, BaseInv, RowsOK
      <4>2. row'[x].cut = NoCut /\ job'[x].step = "none" /\ c # NoCut
        BY <1>2, <3>2, <4>1, CutsAssumption
      <4> QED
        BY <4>2 DEF Towards
    <3> QED
      BY <3>1, <3>2
  <2> QED
    BY <1>2, <2>1 DEF Sound, Course
<1>6. faults' \subseteq {"lookup", "insert"} => Corrected(c)'
  <2> SUFFICES ASSUME faults' \subseteq {"lookup", "insert"}, NEW x \in Cuts \ {c}
               PROVE  Fixed(x, row[x], job[x])'
    BY DEF Corrected
  <2>1. Fixed(x, row[x], job[x])
    BY <1>3 DEF Sound, Corrected
  <2> QED
    BY <1>2, <2>1 DEF Fixed
<1>7. Kept(c)'
  <2>1. ~ Early'
    BY <1>2 DEF Early
  <2>2. Stands(c)'
    BY <1>2 DEF Stands
  <2> QED
    BY <2>1, <2>2 DEF Kept, Hopes
<1> QED
  BY <1>1, <1>5, <1>6, <1>7 DEF Sound

-----------------------------------------------------------------------------
(* The audits and the corrections, one by one.                               *)

\* What a step keeps.
Keeps == BaseInv' /\ \A c \in Cuts : Aired(c) /\ Sound(c) => Sound(c)'

\* The row r and the goroutine j of d fit what aired.
Fits(c, d, r, j) ==
  IF d = c
  THEN /\ j.step \in {"upload", "done"} /\ r.cut = c
       /\ r.retracted = row[c].retracted /\ r.status \notin {"audit_rejected", "ambiguous"}
  ELSE /\ Towards(c, d, r, j)
       /\ faults' \subseteq {"lookup", "insert"} => Fixed(d, r, j)
       /\ faults' \subseteq {"lookup"} /\ (Stands(c) \/ Hope(row[d], job[d])) => Stands(c) \/ Hope(r, j)

LEMMA OwnKeeps ==
  ASSUME BaseInv, TwoFires, NEW d \in Cuts, NEW r, NEW j,
         Working(d), Own(d, r, j), WellStepped(d, r, j),
         \A c \in Cuts : Aired(c) /\ Sound(c) => Fits(c, d, r, j)
  PROVE  Keeps
<1>1. BaseInv'
  BY OwnBase
<1>2. ASSUME NEW c \in Cuts, Aired(c), Sound(c) PROVE Sound(c)'
  <2>1. Fits(c, d, r, j)
    BY <1>2
  <2>2. CASE d = c
    BY <1>2, <2>1, <2>2, OwnSoundAired DEF Fits
  <2>3. CASE d # c
    <3>1. /\ d \in Cuts \ {c} /\ Towards(c, d, r, j)
          /\ faults' \subseteq {"lookup", "insert"} => Fixed(d, r, j)
          /\ faults' \subseteq {"lookup"} /\ (Stands(c) \/ Hope(row[d], job[d])) => Stands(c) \/ Hope(r, j)
      BY <2>1, <2>3 DEF Fits
    <3> QED
      BY <1>2, <3>1, OwnSound
  <2> QED
    BY <2>2, <2>3
<1> QED
  BY <1>1, <1>2 DEF Keeps

LEMMA AuditBeatenKeeps ==
  ASSUME BaseInv, TwoFires, NEW d \in Cuts, AuditBeaten(d) PROVE Keeps
<1>1. /\ job[d].step = "wait" /\ Over
      /\ UNCHANGED <<heard, bus, faults>>
  BY DEF AuditBeaten, ClipReady
<1>2. PICK w \in Winners(d) \ {d} : Step(d, Job("compare", w, NoCut))
  BY DEF AuditBeaten
<1>3. w \in Cuts /\ w # NoCut
  BY WinnerType, CutsAssumption
<1>4. PICK j : j = Job("compare", w, NoCut)
  OBVIOUS
<1>5. j \in JobType /\ j.step = "compare" /\ j.win = w
  BY <1>3, <1>4 DEF Job, JobType, Steps
<1>6. Own(d, row[d], j)
  BY <1>2, <1>4, <1>5, StepOwn
<1>7. row[d].cut = d /\ row[d].cut # NoCut /\ row[d] \in RowType /\ row[d].status = "pending"
  BY <1>1, AtWork
<1>8. Working(d)
  BY <1>1, <1>7 DEF Working, BaseInv, BusType
<1>9. WellStepped(d, row[d], j)
  BY <1>3, <1>5, <1>7 DEF WellStepped
<1>10. ASSUME NEW c \in Cuts, Aired(c), Sound(c) PROVE Fits(c, d, row[d], j)
  <2>1. w = c /\ d # c
    BY <1>10, OnlyWinner DEF BaseInv, BusType
  <2>2. Towards(c, d, row[d], j)
    BY <1>5, <1>7, <2>1 DEF Towards
  <2> QED
    BY <1>1, <1>5, <2>1, <2>2 DEF Fits, Fixed, Hope
<1> QED
  BY <1>6, <1>8, <1>9, <1>10, OwnKeeps

LEMMA AuditStandsKeeps ==
  ASSUME BaseInv, TwoFires, NEW d \in Cuts, AuditStands(d) PROVE Keeps
<1>1. /\ job[d].step = "wait" /\ Over /\ d \in Winners(d)
      /\ UNCHANGED <<heard, bus, faults>>
  BY DEF AuditStands, ClipReady
<1>2. PICK j : j = Job("upload", NoCut, NoCut)
  OBVIOUS
<1>3. j \in JobType /\ j.step = "upload"
  BY <1>2 DEF Job, JobType, Steps
<1>4. Own(d, row[d], j)
  BY <1>2, <1>3, StepOwn DEF AuditStands
<1>5. row[d].cut = d /\ row[d].cut # NoCut /\ row[d] \in RowType /\ row[d].status = "pending"
  BY <1>1, AtWork
<1>6. Working(d)
  BY <1>1, <1>5 DEF Working, BaseInv, BusType
<1>7. WellStepped(d, row[d], j)
  BY <1>3, <1>5 DEF WellStepped
<1>8. ASSUME NEW c \in Cuts, Aired(c), Sound(c) PROVE Fits(c, d, row[d], j)
  <2>1. d = c
    BY <1>1, <1>8, OnlyWinner DEF BaseInv, BusType
  <2> QED
    BY <1>3, <1>5, <2>1 DEF Fits
<1> QED
  BY <1>4, <1>6, <1>7, <1>8, OwnKeeps

LEMMA AuditTwinKeeps ==
  ASSUME BaseInv, TwoFires, NEW d \in Cuts, AuditTwin(d) PROVE Keeps
<1>1. /\ job[d].step = "wait" /\ Over /\ d \in Winners(d) /\ d \in Twins /\ world.heard # d
      /\ UNCHANGED <<heard, bus, faults>>
  BY DEF AuditTwin, ClipReady
<1>2. row[d].cut = d /\ row[d].cut # NoCut /\ row[d] \in RowType /\ row[d].status = "pending"
  BY <1>1, AtWork
<1>3. Working(d)
  BY <1>1, <1>2 DEF Working, BaseInv, BusType
<1>4. ASSUME NEW c \in Cuts, Aired(c) PROVE FALSE
  BY <1>1, <1>4, OnlyWinner, AiredFacts DEF BaseInv, BusType
<1>5. world.heard \in Cuts \cup {NoCut}
  BY WorldsAssumption, CutsAssumption DEF BaseInv, BusType, WorldType
<1>6. CASE world.heard # NoCut
  <2>1. PICK j : j = Job("compare", world.heard, NoCut)
    OBVIOUS
  <2>2. j \in JobType /\ j.step = "compare" /\ j.win # NoCut
    BY <1>5, <1>6, <2>1 DEF Job, JobType, Steps
  <2>3. Own(d, row[d], j)
    BY <1>6, <2>1, <2>2, StepOwn DEF AuditTwin
  <2>4. WellStepped(d, row[d], j)
    BY <1>2, <2>2 DEF WellStepped
  <2> QED
    BY <1>3, <1>4, <2>3, <2>4, OwnKeeps
<1>7. CASE world.heard = NoCut
  <2>1. PICK j : j = Job("upload", NoCut, NoCut)
    OBVIOUS
  <2>2. j \in JobType /\ j.step = "upload"
    BY <2>1 DEF Job, JobType, Steps
  <2>3. PICK r : r = IF RetractAmbiguous
                     THEN [row[d] EXCEPT !.status = "ambiguous", !.retracted = TRUE] ELSE row[d]
    OBVIOUS
  <2>4. r \in RowType /\ r.cut = d
    BY <1>2, <2>3 DEF RowType, Status
  <2>5. Own(d, r, j)
    BY <1>7, <2>1, <2>2, <2>3, <2>4, SetOwn DEF AuditTwin
  <2>6. WellStepped(d, r, j)
    BY <1>2, <2>2, <2>4 DEF WellStepped
  <2> QED
    BY <1>3, <1>4, <2>5, <2>6, OwnKeeps
<1> QED
  BY <1>6, <1>7

LEMMA AuditRejectsKeeps ==
  ASSUME BaseInv, TwoFires, NEW d \in Cuts, AuditRejects(d) PROVE Keeps
<1>1. /\ job[d].step = "wait" /\ Over /\ d \notin world.passes
      /\ UNCHANGED <<heard, bus, faults>>
  BY DEF AuditRejects, ClipReady
<1>2. PICK j : j = Job("displaced", NoCut, NoCut)
  OBVIOUS
<1>3. j \in JobType /\ j.step = "displaced"
  BY <1>2 DEF Job, JobType, Steps
<1>4. row[d].cut = d /\ row[d].cut # NoCut /\ row[d] \in RowType
  BY <1>1, AtWork
<1>5. PICK r : r = [row[d] EXCEPT !.status = "audit_rejected"]
  OBVIOUS
<1>6. r \in RowType /\ r.cut = d /\ r.status = "audit_rejected" /\ r.retracted = row[d].retracted
  BY <1>4, <1>5 DEF RowType, Status
<1>7. Own(d, r, j)
  BY <1>2, <1>3, <1>5, <1>6, SetOwn DEF AuditRejects
<1>8. Working(d)
  BY <1>1, <1>4 DEF Working, BaseInv, BusType
<1>9. WellStepped(d, r, j)
  BY <1>3, <1>4, <1>6 DEF WellStepped
<1>10. ASSUME NEW c \in Cuts, Aired(c), Sound(c) PROVE Fits(c, d, r, j)
  <2>1. d # c
    BY <1>1, <1>10, AiredFacts DEF BaseInv, BusType
  <2>2. Towards(c, d, r, j)
    BY <1>3, <1>6, <2>1 DEF Towards
  <2> QED
    BY <1>1, <1>3, <1>6, <2>1, <2>2 DEF Fits, Fixed, Hope
<1> QED
  BY <1>7, <1>8, <1>9, <1>10, OwnKeeps

\* While d still has its own cut, what aired is on its own row only.
LEMMA RowOfWinner ==
  ASSUME BaseInv, TwoFires, NEW c \in Cuts, Aired(c), Sound(c), NEW d \in Cuts \ {c}, row[d].cut = d,
         NEW e \in Cuts, row[e].cut # NoCut, e # d
  PROVE  e = c /\ row[c].cut = c
<1>1. d # NoCut
  BY CutsAssumption
<1>2. d \in Written /\ e \in Written
  BY <1>1 DEF Written
<1>3. d \in world.fires /\ e \in world.fires /\ c \in world.fires /\ world \in Worlds
  BY <1>2, AiredFacts DEF BaseInv, BusType, RowsOK
<1>4. e = c
  BY <1>3, OneOther
<1> QED
  BY <1>4 DEF Sound, Course

LEMMA CompareKeeps ==
  ASSUME BaseInv, TwoFires, NEW d \in Cuts, Compare(d) PROVE Keeps
<1>1. /\ job[d].step = "compare"
      /\ UNCHANGED <<heard, bus, faults>>
  BY DEF Compare
<1>2. /\ row[d].cut = d /\ row[d].cut # NoCut /\ row[d] \in RowType /\ Over
      /\ job[d] \in JobType /\ job[d].win # NoCut
  BY <1>1, AtWork
<1>3. PICK w : w = job[d].win
  OBVIOUS
<1>4. w \in Cuts
  BY <1>2, <1>3 DEF JobType
<1>5. Working(d)
  BY <1>1, <1>2 DEF Working, BaseInv, BusType
<1>6. CASE RowsOf(w) = {}
  <2>1. PICK j : j = Job("reattribute", w, NoCut)
    OBVIOUS
  <2>2. j \in JobType /\ j.step = "reattribute" /\ j.win = w
    BY <1>4, <2>1 DEF Job, JobType, Steps
  <2>3. Own(d, row[d], j)
    BY <1>3, <1>6, <2>1, <2>2, StepOwn DEF Compare
  <2>4. WellStepped(d, row[d], j)
    BY <1>2, <1>3, <2>2 DEF WellStepped
  <2>5. ASSUME NEW c \in Cuts, Aired(c), Sound(c) PROVE Fits(c, d, row[d], j)
    <3>1. d # c
      BY <1>1, <2>5 DEF Sound, Course
    <3>2. w = c
      BY <1>1, <1>3, <2>5, <3>1 DEF Sound, Course, Towards
    <3>3. row[c].cut = NoCut
      BY <1>6, <2>5, <3>2 DEF Sound, Course, RowsOf
    <3>4. Towards(c, d, row[d], j)
      BY <1>2, <2>2, <3>1, <3>2, <3>3 DEF Towards
    <3> QED
      BY <1>1, <2>2, <3>1, <3>4 DEF Fits, Fixed, Hope
  <2> QED
    BY <1>5, <2>3, <2>4, <2>5, OwnKeeps
<1>7. CASE RowsOf(w) # {}
  <2>1. PICK e \in RowsOf(w) : Step(d, Cofire(d, w, e))
    BY <1>3, <1>7 DEF Compare
  <2>2. e \in Cuts /\ row[e].cut = w
    BY DEF RowsOf
  <2>3. PICK j : j = Cofire(d, w, e)
    OBVIOUS
  <2>4. /\ j \in JobType /\ j.win = w /\ j.step \in {"retract", "clear", "reattribute"}
        /\ j.step \in {"retract", "clear"} => j.other = e
        /\ j.step = "retract" => ~ row[e].retracted
        /\ j.step = "reattribute" => row[e].retracted \/ row[e].status = "audit_rejected"
    <3>1. /\ Job("retract", w, e) \in JobType /\ Job("clear", w, e) \in JobType
          /\ Job("reattribute", w, NoCut) \in JobType
      BY <1>4, <2>2 DEF Job, JobType, Steps
    <3> QED
      BY <2>3, <3>1 DEF Cofire, detectionCounts, Job
  <2>5. Own(d, row[d], j)
    BY <2>1, <2>3, <2>4, StepOwn
  <2>6. WellStepped(d, row[d], j)
    BY <1>2, <1>3, <2>4 DEF WellStepped
  <2>7. ASSUME NEW c \in Cuts, Aired(c), Sound(c) PROVE Fits(c, d, row[d], j)
    <3>1. d # c
      BY <1>1, <2>7 DEF Sound, Course
    <3>2. w = c
      BY <1>1, <1>3, <2>7, <3>1 DEF Sound, Course, Towards
    <3>3. e # d /\ row[e].cut # NoCut
      BY <1>2, <2>2, <3>1, <3>2, CutsAssumption
    <3>4. e = c /\ row[c].cut = c
      BY <1>2, <2>2, <2>7, <3>1, <3>3, RowOfWinner
    <3>5. row[c].status # "audit_rejected"
      BY <2>7 DEF Sound, Course
    <3>6. Towards(c, d, row[d], j)
      BY <1>2, <2>4, <3>1, <3>2, <3>4, <3>5 DEF Towards
    <3>7. Stands(c) \/ Hope(row[d], job[d]) => Stands(c) \/ Hope(row[d], j)
      BY <1>1, <2>4, <3>4 DEF Stands, Hope
    <3> QED
      BY <2>4, <3>1, <3>6, <3>7 DEF Fits, Fixed
  <2> QED
    BY <1>5, <2>5, <2>6, <2>7, OwnKeeps
<1> QED
  BY <1>6, <1>7

LEMMA FreesKeeps ==
  ASSUME BaseInv, TwoFires, NEW d \in Cuts, NEW e, NEW j,
         Working(d), Frees(d, e, j), WellStepped(d, row[d], j), row[d].cut = d,
         j.step \in {"retract", "done"},
         \A c \in Cuts : Aired(c) /\ Sound(c) => d # c /\ e = c /\ row[c].cut = c,
         j.step = "retract" =>
           \A c \in Cuts : Aired(c) /\ Sound(c) => j.win = c /\ j.other = c,
         j.step = "done" => row[d].status = "audit_rejected"
  PROVE  Keeps
<1>1. BaseInv'
  BY FreesBase
<1>2. ASSUME NEW c \in Cuts, Aired(c), Sound(c) PROVE Sound(c)'
  <2>1. d \in Cuts \ {c} /\ e = c /\ row[c].cut = c
    BY <1>2
  <2>2. Frees(d, c, j)
    BY <2>1
  <2>3. j.step = "retract" => j.win = c /\ j.other = c
    BY <1>2
  <2> QED
    BY <1>2, <2>1, <2>2, <2>3, FreesSound
<1> QED
  BY <1>1, <1>2 DEF Keeps

LEMMA ClearWinnerKeeps ==
  ASSUME BaseInv, TwoFires, NEW d \in Cuts, ClearWinner(d) PROVE Keeps
<1>1. /\ job[d].step = "clear"
      /\ UNCHANGED <<heard, bus, faults>>
  BY DEF ClearWinner
<1>2. /\ row[d].cut = d /\ row[d].cut # NoCut /\ row[d] \in RowType /\ Over
      /\ job[d] \in JobType
  BY <1>1, AtWork
<1>3. PICK e : e = job[d].other
  OBVIOUS
<1>4. PICK j : j = [job[d] EXCEPT !.step = "retract"]
  OBVIOUS
<1>5. /\ j \in JobType /\ j.step = "retract" /\ j.win = job[d].win /\ j.other = job[d].other
  BY <1>2, <1>4 DEF JobType, Steps
<1>6. Frees(d, e, j)
  <2>1. row' = [row EXCEPT ![e].retracted = FALSE] /\ job' = [job EXCEPT ![d].step = "retract"]
    BY <1>3 DEF ClearWinner
  <2>2. job' = [job EXCEPT ![d] = j]
    BY <1>4, <2>1
  <2> QED
    BY <1>5, <2>1, <2>2, UnretractFrees
<1>7. Working(d)
  BY <1>1, <1>2 DEF Working, BaseInv, BusType
<1>8. WellStepped(d, row[d], j)
  BY <1>2, <1>5 DEF WellStepped
<1>9. ASSUME NEW c \in Cuts, Aired(c), Sound(c)
      PROVE  d # c /\ e = c /\ row[c].cut = c /\ j.win = c /\ j.other = c
  <2>1. d # c
    BY <1>1, <1>9 DEF Sound, Course
  <2>2. Towards(c, d, row[d], job[d])
    BY <1>9, <2>1 DEF Sound, Course
  <2> QED
    BY <1>1, <1>3, <1>5, <2>1, <2>2 DEF Towards
<1> QED
  BY <1>2, <1>5, <1>6, <1>7, <1>8, <1>9, FreesKeeps

LEMMA RetractSelfKeeps ==
  ASSUME BaseInv, TwoFires, NEW d \in Cuts, RetractSelf(d) PROVE Keeps
<1>1. /\ job[d].step = "retract"
      /\ UNCHANGED <<heard, bus, faults>>
  BY DEF RetractSelf
<1>2. /\ row[d].cut = d /\ row[d].cut # NoCut /\ row[d] \in RowType /\ Over
  BY <1>1, AtWork
<1>3. PICK j : j = Job("upload", NoCut, NoCut)
  OBVIOUS
<1>4. j \in JobType /\ j.step = "upload"
  BY <1>3 DEF Job, JobType, Steps
<1>5. PICK r : r = [row[d] EXCEPT !.retracted = TRUE]
  OBVIOUS
<1>6. r \in RowType /\ r.cut = d /\ r.retracted = TRUE
  BY <1>2, <1>5 DEF RowType
<1>7. Own(d, r, j)
  BY <1>3, <1>4, <1>5, <1>6, SetOwn DEF RetractSelf
<1>8. Working(d)
  BY <1>1, <1>2 DEF Working, BaseInv, BusType
<1>9. WellStepped(d, r, j)
  BY <1>2, <1>4, <1>6 DEF WellStepped
<1>10. ASSUME NEW c \in Cuts, Aired(c), Sound(c) PROVE Fits(c, d, r, j)
  <2>1. d # c
    BY <1>1, <1>10 DEF Sound, Course
  <2>2. Towards(c, d, row[d], job[d])
    BY <1>10, <2>1 DEF Sound, Course
  <2>3. Stands(c)
    BY <1>1, <2>2 DEF Towards, Stands
  <2>4. Towards(c, d, r, j)
    BY <1>4, <1>6, <2>1 DEF Towards
  <2> QED
    BY <1>6, <2>1, <2>3, <2>4 DEF Fits, Fixed
<1> QED
  BY <1>7, <1>8, <1>9, <1>10, OwnKeeps

LEMMA ReattributeKeeps ==
  ASSUME BaseInv, TwoFires, NEW d \in Cuts, Reattribute(d) PROVE Keeps
<1>1. /\ job[d].step = "reattribute"
      /\ UNCHANGED <<heard, bus, faults>>
  BY DEF Reattribute
<1>2. /\ row[d].cut = d /\ row[d].cut # NoCut /\ row[d] \in RowType /\ Over
      /\ job[d] \in JobType /\ job[d].win # NoCut
  BY <1>1, AtWork
<1>3. PICK w : w = job[d].win
  OBVIOUS
<1>4. w \in Cuts
  BY <1>2, <1>3 DEF JobType
<1>5. PICK j : j = Job("upload", NoCut, NoCut)
  OBVIOUS
<1>6. j \in JobType /\ j.step = "upload"
  BY <1>5 DEF Job, JobType, Steps
<1>7. PICK r : r = [row[d] EXCEPT !.cut = w]
  OBVIOUS
<1>8. r \in RowType /\ r.cut = w /\ r.retracted = row[d].retracted
  BY <1>2, <1>4, <1>7 DEF RowType
<1>9. Own(d, r, j)
  BY <1>3, <1>5, <1>6, <1>7, <1>8, SetOwn DEF Reattribute
<1>10. Working(d)
  BY <1>1, <1>2 DEF Working, BaseInv, BusType
<1>11. WellStepped(d, r, j)
  BY <1>2, <1>3, <1>6, <1>8 DEF WellStepped
<1>12. ASSUME NEW c \in Cuts, Aired(c), Sound(c) PROVE Fits(c, d, r, j)
  <2>1. d # c
    BY <1>1, <1>12 DEF Sound, Course
  <2>2. Towards(c, d, row[d], job[d])
    BY <1>12, <2>1 DEF Sound, Course
  <2>3. w = c /\ (row[c].cut = NoCut \/ row[c].retracted)
    BY <1>1, <1>3, <2>2 DEF Towards
  <2>4. Towards(c, d, r, j)
    BY <1>6, <1>8, <2>3 DEF Towards
  <2> QED
    BY <1>1, <1>6, <1>8, <2>1, <2>3, <2>4 DEF Fits, Fixed, Hope
<1> QED
  BY <1>9, <1>10, <1>11, <1>12, OwnKeeps

LEMMA UploadKeeps ==
  ASSUME BaseInv, TwoFires, NEW d \in Cuts, Upload(d) PROVE Keeps
<1>1. /\ job[d].step = "upload"
      /\ UNCHANGED <<heard, bus, faults>>
  BY DEF Upload
<1>2. /\ row[d].cut # NoCut /\ row[d] \in RowType /\ Over
  BY <1>1, AtWork
<1>3. PICK j : j = Job("done", NoCut, NoCut)
  OBVIOUS
<1>4. j \in JobType /\ j.step = "done"
  BY <1>3 DEF Job, JobType, Steps
<1>5. PICK r : r = [row[d] EXCEPT !.status = "available"]
  OBVIOUS
<1>6. r \in RowType /\ r.cut = row[d].cut /\ r.status = "available" /\ r.retracted = row[d].retracted
  BY <1>2, <1>5 DEF RowType, Status
<1>7. Own(d, r, j)
  BY <1>3, <1>4, <1>5, <1>6, SetOwn DEF Upload
<1>8. Working(d)
  BY <1>1, <1>2 DEF Working, BaseInv, BusType
<1>9. WellStepped(d, r, j)
  BY <1>2, <1>4, <1>6 DEF WellStepped
<1>10. ASSUME NEW c \in Cuts, Aired(c), Sound(c) PROVE Fits(c, d, r, j)
  <2>1. CASE d = c
    <3>1. row[c].cut = c
      BY <1>2, <1>10, <2>1 DEF Sound, Course
    <3> QED
      BY <1>4, <1>6, <2>1, <3>1 DEF Fits
  <2>2. CASE d # c
    <3>1. Towards(c, d, row[d], job[d])
      BY <1>10, <2>2 DEF Sound, Course
    <3>2. Towards(c, d, r, j)
      BY <1>4, <1>6, <3>1 DEF Towards
    <3>3. faults' \subseteq {"lookup", "insert"} => Fixed(d, r, j)
      <4> SUFFICES ASSUME faults' \subseteq {"lookup", "insert"} PROVE Fixed(d, r, j)
        OBVIOUS
      <4>1. Fixed(d, row[d], job[d])
        BY <1>1, <1>10, <2>2 DEF Sound, Corrected
      <4> QED
        BY <1>1, <1>6, <4>1 DEF Fixed
    <3>4. Hope(row[d], job[d]) => Hope(r, j)
      BY <1>1, <1>2, <1>4, <1>6 DEF Hope, Counts
    <3> QED
      BY <2>2, <3>2, <3>3, <3>4 DEF Fits
  <2> QED
    BY <2>1, <2>2
<1> QED
  BY <1>7, <1>8, <1>9, <1>10, OwnKeeps

LEMMA DisplacedKeeps ==
  ASSUME BaseInv, TwoFires, NEW d \in Cuts, Displaced(d) PROVE Keeps
<1>1. /\ job[d].step = "displaced"
      /\ UNCHANGED <<heard, bus, faults>>
  BY DEF Displaced
<1>2. /\ row[d].cut = d /\ row[d].cut # NoCut /\ row[d] \in RowType /\ Over
      /\ row[d].status = "audit_rejected"
  BY <1>1, AtWork
<1>3. Working(d)
  BY <1>1, <1>2 DEF Working, BaseInv, BusType
<1>4. CASE Step(d, Job("recover", NoCut, NoCut))
  <2>1. PICK j : j = Job("recover", NoCut, NoCut)
    OBVIOUS
  <2>2. j \in JobType /\ j.step = "recover"
    BY <2>1 DEF Job, JobType, Steps
  <2>3. Own(d, row[d], j)
    BY <1>4, <2>1, <2>2, StepOwn
  <2>4. WellStepped(d, row[d], j)
    BY <1>2, <2>2 DEF WellStepped
  <2>5. ASSUME NEW c \in Cuts, Aired(c), Sound(c) PROVE Fits(c, d, row[d], j)
    <3>1. d # c
      BY <1>1, <2>5 DEF Sound, Course
    <3>2. Towards(c, d, row[d], j)
      BY <1>2, <2>2, <3>1 DEF Towards
    <3> QED
      BY <1>1, <2>2, <3>1, <3>2 DEF Fits, Fixed, Hope
  <2> QED
    BY <1>3, <2>3, <2>4, <2>5, OwnKeeps
<1>5. ASSUME NEW e \in Cuts, row[e].retracted, row[e].status = "available",
             Step(d, Job("restore", NoCut, e))
      PROVE  Keeps
  <2>1. PICK j : j = Job("restore", NoCut, e)
    OBVIOUS
  <2>2. j \in JobType /\ j.step = "restore" /\ j.other = e
    BY <2>1 DEF Job, JobType, Steps
  <2>3. Own(d, row[d], j)
    BY <1>5, <2>1, <2>2, StepOwn
  <2>4. WellStepped(d, row[d], j)
    BY <1>2, <2>2 DEF WellStepped
  <2>5. ASSUME NEW c \in Cuts, Aired(c), Sound(c) PROVE Fits(c, d, row[d], j)
    <3>1. d # c
      BY <1>1, <2>5 DEF Sound, Course
    <3>2. row[e].cut # NoCut /\ e # d
      BY <1>2, <1>5 DEF BaseInv, RowsOK
    <3>3. e = c /\ row[c].cut = c
      BY <1>2, <2>5, <3>1, <3>2, RowOfWinner
    <3>4. Towards(c, d, row[d], j)
      BY <1>2, <2>2, <3>1, <3>3 DEF Towards
    <3> QED
      BY <2>2, <3>1, <3>4 DEF Fits, Fixed, Hope
  <2> QED
    BY <1>3, <2>3, <2>4, <2>5, OwnKeeps
<1> QED
  BY <1>4, <1>5 DEF Displaced

LEMMA RestoreKeeps ==
  ASSUME BaseInv, TwoFires, NEW d \in Cuts, Restore(d) PROVE Keeps
<1>1. /\ job[d].step = "restore"
      /\ UNCHANGED <<heard, bus, faults>>
  BY DEF Restore
<1>2. /\ row[d].cut = d /\ row[d].cut # NoCut /\ row[d] \in RowType /\ Over
      /\ row[d].status = "audit_rejected"
  BY <1>1, AtWork
<1>3. Working(d)
  BY <1>1, <1>2 DEF Working, BaseInv, BusType
<1>4. PICK e : e = job[d].other
  OBVIOUS
<1>5. ASSUME NEW c \in Cuts, Aired(c), Sound(c) PROVE d # c /\ e = c /\ row[c].cut = c
  <2>1. d # c
    BY <1>1, <1>5 DEF Sound, Course
  <2>2. Towards(c, d, row[d], job[d])
    BY <1>5, <2>1 DEF Sound, Course
  <2> QED
    BY <1>1, <1>4, <2>1, <2>2 DEF Towards
<1>6. CASE row[e].retracted
  <2>1. PICK j : j = Job("done", NoCut, NoCut)
    OBVIOUS
  <2>2. j \in JobType /\ j.step = "done"
    BY <2>1 DEF Job, JobType, Steps
  <2>3. row' = [row EXCEPT ![e].retracted = FALSE] /\ job' = [job EXCEPT ![d] = j]
    BY <1>4, <1>6, <2>1 DEF Restore
  <2>4. Frees(d, e, j)
    BY <2>2, <2>3, UnretractFrees
  <2>5. WellStepped(d, row[d], j)
    BY <1>2, <2>2 DEF WellStepped
  <2> QED
    BY <1>2, <1>3, <1>5, <2>2, <2>4, <2>5, FreesKeeps
<1>7. CASE ~ row[e].retracted
  <2>1. PICK j : j = Job("recover", NoCut, NoCut)
    OBVIOUS
  <2>2. j \in JobType /\ j.step = "recover"
    BY <2>1 DEF Job, JobType, Steps
  <2>3. Own(d, row[d], j)
    BY <1>4, <1>7, <2>1, <2>2, StepOwn DEF Restore
  <2>4. WellStepped(d, row[d], j)
    BY <1>2, <2>2 DEF WellStepped
  <2>5. ASSUME NEW c \in Cuts, Aired(c), Sound(c) PROVE Fits(c, d, row[d], j)
    <3>1. d # c /\ Stands(c)
      BY <1>5, <1>7, <2>5 DEF Stands
    <3>2. Towards(c, d, row[d], j)
      BY <1>2, <2>2, <3>1 DEF Towards
    <3> QED
      BY <2>2, <3>1, <3>2 DEF Fits, Fixed
  <2> QED
    BY <1>3, <2>3, <2>4, <2>5, OwnKeeps
<1> QED
  BY <1>6, <1>7

LEMMA RecoverKeeps ==
  ASSUME BaseInv, TwoFires, NEW d \in Cuts, Recover(d) PROVE Keeps
<1>1. /\ job[d].step = "recover"
      /\ UNCHANGED <<heard, bus, faults>>
  BY DEF Recover
<1>2. /\ row[d].cut = d /\ row[d].cut # NoCut /\ row[d] \in RowType /\ Over
      /\ row[d].status = "audit_rejected"
  BY <1>1, AtWork
<1>3. Working(d)
  BY <1>1, <1>2 DEF Working, BaseInv, BusType
<1>4. PICK w \in Winners(d) :
        IF w = d \/ world.cov[w] < MinCoverage THEN Step(d, Job("done", NoCut, NoCut))
        ELSE IF RowsOf(w) = {} THEN Step(d, Job("take", w, NoCut))
        ELSE \E e \in RowsOf(w) : Step(d, Recovery(w, e))
  BY DEF Recover
<1>5. w \in Cuts /\ w # NoCut
  BY WinnerType, CutsAssumption
<1>6. ASSUME NEW c \in Cuts, Aired(c), Sound(c)
      PROVE  w = c /\ d # c /\ ~ (w = d \/ world.cov[w] < MinCoverage)
  <2>1. w = c
    BY <1>6, OnlyWinner DEF BaseInv, BusType
  <2>2. d # c
    BY <1>1, <1>6 DEF Sound, Course
  <2>3. world.cov[c] \in Nat /\ MinCoverage \in Nat /\ world.cov[c] >= MinCoverage
    BY <1>6, AiredFacts, CutsAssumption DEF BaseInv, BusType, Aired
  <2> QED
    BY <2>1, <2>2, <2>3
<1>7. CASE w = d \/ world.cov[w] < MinCoverage
  <2>1. PICK j : j = Job("done", NoCut, NoCut)
    OBVIOUS
  <2>2. j \in JobType /\ j.step = "done"
    BY <2>1 DEF Job, JobType, Steps
  <2>3. Own(d, row[d], j)
    BY <1>4, <1>7, <2>1, <2>2, StepOwn
  <2>4. WellStepped(d, row[d], j)
    BY <1>2, <2>2 DEF WellStepped
  <2> QED
    BY <1>3, <1>6, <1>7, <2>3, <2>4, OwnKeeps
<1>8. CASE ~ (w = d \/ world.cov[w] < MinCoverage) /\ RowsOf(w) = {}
  <2>1. PICK j : j = Job("take", w, NoCut)
    OBVIOUS
  <2>2. j \in JobType /\ j.step = "take" /\ j.win = w
    BY <1>5, <2>1 DEF Job, JobType, Steps
  <2>3. Own(d, row[d], j)
    BY <1>4, <1>8, <2>1, <2>2, StepOwn
  <2>4. WellStepped(d, row[d], j)
    BY <1>2, <1>5, <2>2 DEF WellStepped
  <2>5. ASSUME NEW c \in Cuts, Aired(c), Sound(c) PROVE Fits(c, d, row[d], j)
    <3>1. w = c /\ d # c
      BY <1>6, <2>5
    <3>2. row[c].cut = NoCut
      BY <1>8, <2>5, <3>1 DEF Sound, Course, RowsOf
    <3>3. Towards(c, d, row[d], j)
      BY <1>2, <2>2, <3>1, <3>2 DEF Towards
    <3> QED
      BY <1>1, <2>2, <3>1, <3>3 DEF Fits, Fixed, Hope
  <2> QED
    BY <1>3, <2>3, <2>4, <2>5, OwnKeeps
<1>9. CASE ~ (w = d \/ world.cov[w] < MinCoverage) /\ RowsOf(w) # {}
  <2>1. PICK e \in RowsOf(w) : Step(d, Recovery(w, e))
    BY <1>4, <1>9
  <2>2. e \in Cuts /\ row[e].cut = w
    BY DEF RowsOf
  <2>3. PICK j : j = Recovery(w, e)
    OBVIOUS
  <2>4. j \in JobType /\ j.win = w /\ j.other = e /\ j.step \in {"unretract", "done"}
    <3>1. Job("unretract", w, e) \in JobType /\ Job("done", w, e) \in JobType
      BY <1>5, <2>2 DEF Job, JobType, Steps
    <3> QED
      BY <2>3, <3>1 DEF Recovery, Job
  <2>5. Own(d, row[d], j)
    BY <2>1, <2>3, <2>4, StepOwn
  <2>6. WellStepped(d, row[d], j)
    BY <1>2, <2>4 DEF WellStepped
  <2>7. ASSUME NEW c \in Cuts, Aired(c), Sound(c) PROVE Fits(c, d, row[d], j)
    <3>1. w = c /\ d # c
      BY <1>6, <2>7
    <3>2. e # d /\ row[e].cut # NoCut /\ e # NoCut
      BY <1>2, <1>5, <2>2, <3>1, CutsAssumption
    <3>3. e = c /\ row[c].cut = c
      BY <1>2, <2>2, <2>7, <3>1, <3>2, RowOfWinner
    <3>4. Towards(c, d, row[d], j)
      BY <1>2, <2>4, <3>1, <3>3 DEF Towards
    <3>5. Fixed(d, row[d], j) /\ Hope(row[d], j)
      BY <1>2, <2>4, <3>2 DEF Fixed, Hope
    <3> QED
      BY <3>1, <3>4, <3>5 DEF Fits
  <2> QED
    BY <1>3, <2>5, <2>6, <2>7, OwnKeeps
<1> QED
  BY <1>7, <1>8, <1>9

LEMMA UnretractKeeps ==
  ASSUME BaseInv, TwoFires, NEW d \in Cuts, Unretract(d) PROVE Keeps
<1>1. /\ job[d].step = "unretract"
      /\ UNCHANGED <<heard, bus, faults>>
  BY DEF Unretract
<1>2. /\ row[d].cut = d /\ row[d].cut # NoCut /\ row[d] \in RowType /\ Over
      /\ row[d].status = "audit_rejected"
  BY <1>1, AtWork
<1>3. Working(d)
  BY <1>1, <1>2 DEF Working, BaseInv, BusType
<1>4. PICK e : e = job[d].other
  OBVIOUS
<1>5. ASSUME NEW c \in Cuts, Aired(c), Sound(c) PROVE d # c /\ e = c /\ row[c].cut = c
  <2>1. d # c
    BY <1>1, <1>5 DEF Sound, Course
  <2>2. Towards(c, d, row[d], job[d])
    BY <1>5, <2>1 DEF Sound, Course
  <2> QED
    BY <1>1, <1>4, <2>1, <2>2 DEF Towards
<1>6. PICK j : j = Job("done", NoCut, NoCut)
  OBVIOUS
<1>7. j \in JobType /\ j.step = "done"
  BY <1>6 DEF Job, JobType, Steps
<1>8. row' = [row EXCEPT ![e].retracted = FALSE] /\ job' = [job EXCEPT ![d] = j]
  BY <1>4, <1>6 DEF Unretract
<1>9. Frees(d, e, j)
  BY <1>7, <1>8, UnretractFrees
<1>10. WellStepped(d, row[d], j)
  BY <1>2, <1>7 DEF WellStepped
<1> QED
  BY <1>2, <1>3, <1>5, <1>7, <1>9, <1>10, FreesKeeps

LEMMA TakeKeeps ==
  ASSUME BaseInv, TwoFires, NEW d \in Cuts, Take(d) PROVE Keeps
<1>1. /\ job[d].step = "take"
      /\ UNCHANGED <<heard, bus, faults>>
  BY DEF Take
<1>2. /\ row[d].cut = d /\ row[d].cut # NoCut /\ row[d] \in RowType /\ Over
      /\ row[d].status = "audit_rejected" /\ job[d] \in JobType /\ job[d].win # NoCut
  BY <1>1, AtWork
<1>3. PICK w : w = job[d].win
  OBVIOUS
<1>4. w \in Cuts
  BY <1>2, <1>3 DEF JobType
<1>5. PICK j : j = Job("done", NoCut, NoCut)
  OBVIOUS
<1>6. j \in JobType /\ j.step = "done"
  BY <1>5 DEF Job, JobType, Steps
<1>7. PICK r : r = [row[d] EXCEPT !.cut = w, !.status = "missing"]
  OBVIOUS
<1>8. r \in RowType /\ r.cut = w /\ r.status = "missing" /\ r.retracted = row[d].retracted
  BY <1>2, <1>4, <1>7 DEF RowType, Status
<1>9. Own(d, r, j)
  BY <1>2, <1>3, <1>5, <1>6, <1>7, <1>8, SetOwn DEF Take
<1>10. Working(d)
  BY <1>1, <1>2 DEF Working, BaseInv, BusType
<1>11. WellStepped(d, r, j)
  BY <1>2, <1>3, <1>6, <1>8 DEF WellStepped
<1>12. ASSUME NEW c \in Cuts, Aired(c), Sound(c) PROVE Fits(c, d, r, j)
  <2>1. d # c
    BY <1>1, <1>12 DEF Sound, Course
  <2>2. Towards(c, d, row[d], job[d])
    BY <1>12, <2>1 DEF Sound, Course
  <2>3. w = c /\ (row[c].cut = NoCut \/ row[c].retracted)
    BY <1>1, <1>3, <2>2 DEF Towards
  <2>4. Towards(c, d, r, j)
    BY <1>6, <1>8, <2>3 DEF Towards
  <2>5. Hope(row[d], job[d]) => Hope(r, j)
    BY <1>1, <1>2, <1>3, <1>6, <1>8 DEF Hope, Counts
  <2> QED
    BY <1>8, <2>1, <2>3, <2>4, <2>5 DEF Fits, Fixed
<1> QED
  BY <1>9, <1>10, <1>11, <1>12, OwnKeeps

LEMMA EvidenceFailsKeeps ==
  ASSUME BaseInv, TwoFires, NEW d \in Cuts, EvidenceFails(d) PROVE Keeps
<1>1. /\ job[d].step \in {"wait", "upload"} /\ Over
      /\ UNCHANGED <<heard, bus>> /\ faults' = faults \cup {"evidence"}
  <2>1. (job[d].step = "wait" /\ Over) \/ job[d].step = "upload"
    BY DEF EvidenceFails, ClipReady
  <2>2. job[d].step = "upload" => Over
    BY AtWork
  <2>3. UNCHANGED <<heard, bus>> /\ faults' = faults \cup {"evidence"}
    BY DEF EvidenceFails, Fails
  <2> QED
    BY <2>1, <2>2, <2>3
<1>2. /\ row[d].cut # NoCut /\ row[d] \in RowType
  BY <1>1, AtWork
<1>3. PICK j : j = Job("done", NoCut, NoCut)
  OBVIOUS
<1>4. j \in JobType /\ j.step = "done"
  BY <1>3 DEF Job, JobType, Steps
<1>5. PICK r : r = [row[d] EXCEPT !.status = "failed"]
  OBVIOUS
<1>6. r \in RowType /\ r.cut = row[d].cut /\ r.status = "failed" /\ r.retracted = row[d].retracted
  BY <1>2, <1>5 DEF RowType, Status
<1>7. Own(d, r, j)
  BY <1>3, <1>4, <1>5, <1>6, SetOwn DEF EvidenceFails
<1>8. Working(d)
  BY <1>1, <1>2 DEF Working, BaseInv, BusType, FaultKinds
<1>9. WellStepped(d, r, j)
  BY <1>2, <1>4, <1>6 DEF WellStepped
<1>10. ASSUME NEW c \in Cuts, Aired(c), Sound(c) PROVE Fits(c, d, r, j)
  <2>1. CASE d = c
    <3>1. row[c].cut = c
      BY <1>2, <1>10, <2>1 DEF Sound, Course
    <3> QED
      BY <1>4, <1>6, <2>1, <3>1 DEF Fits
  <2>2. CASE d # c
    <3>1. Towards(c, d, row[d], job[d])
      BY <1>10, <2>2 DEF Sound, Course
    <3>2. Towards(c, d, r, j)
      BY <1>4, <1>6, <3>1 DEF Towards
    <3> QED
      BY <1>1, <2>2, <3>2 DEF Fits
  <2> QED
    BY <2>1, <2>2
<1> QED
  BY <1>7, <1>8, <1>9, <1>10, OwnKeeps

LEMMA AuditFailsKeeps ==
  ASSUME BaseInv, TwoFires, NEW d \in Cuts, AuditFails(d) PROVE Keeps
<1>1. /\ job[d].step = "wait" /\ Over
      /\ UNCHANGED <<heard, bus>> /\ faults' = faults \cup {"audit"}
  BY DEF AuditFails, ClipReady, Fails
<1>2. PICK j : j = Job("upload", NoCut, NoCut)
  OBVIOUS
<1>3. j \in JobType /\ j.step = "upload"
  BY <1>2 DEF Job, JobType, Steps
<1>4. Own(d, row[d], j)
  BY <1>2, <1>3, StepOwn DEF AuditFails
<1>5. row[d].cut = d /\ row[d].cut # NoCut /\ row[d] \in RowType /\ row[d].status = "pending"
  BY <1>1, AtWork
<1>6. Working(d)
  BY <1>1, <1>5 DEF Working, BaseInv, BusType, FaultKinds
<1>7. WellStepped(d, row[d], j)
  BY <1>3, <1>5 DEF WellStepped
<1>8. ASSUME NEW c \in Cuts, Aired(c), Sound(c) PROVE Fits(c, d, row[d], j)
  <2>1. CASE d = c
    BY <1>3, <1>5, <2>1 DEF Fits
  <2>2. CASE d # c
    <3>1. Towards(c, d, row[d], j)
      BY <1>3, <1>5, <2>2 DEF Towards
    <3> QED
      BY <1>1, <2>2, <3>1 DEF Fits
  <2> QED
    BY <2>1, <2>2
<1> QED
  BY <1>4, <1>6, <1>7, <1>8, OwnKeeps

-----------------------------------------------------------------------------
(* Matcher, supervisor and INSERT: the airing is not over.                   *)

LEMMA EarlyBeforeOver ==
  ASSUME BaseInv, ~ Over, "restart" \notin faults PROVE Early
BY DEF BaseInv, RowsOK, Early

\* Rows are written and retracted, and no goroutine has done anything yet.
LEMMA SoundBeforeOver ==
  ASSUME BaseInv, BaseInv', ~ Over, world' = world,
         faults \subseteq faults', "restart" \notin faults' => "restart" \notin faults,
         \A x \in Cuts :
           \/ /\ job'[x] = job[x]
              /\ row'[x].cut = row[x].cut /\ row'[x].status = row[x].status
           \/ job'[x].step = "wait" /\ row'[x].cut = x /\ row'[x].status = "pending",
         faults' \subseteq {"lookup"} => (Published => Published')
  PROVE  Keeps
<1>1. \A x \in Cuts : job[x].step \in {"none", "wait", "done"} /\ row[x].cut \in {NoCut, x}
  BY DEF BaseInv, RowsOK
<1>2. \A x \in Cuts : job'[x].step \in {"none", "wait", "done"} /\ row'[x].cut \in {NoCut, x}
  BY <1>1
<1>3. NoCut \notin Cuts
  BY CutsAssumption
<1>4. "restart" \notin faults' => Early /\ Early'
  <2>1. "restart" \notin faults' => Early
    BY EarlyBeforeOver
  <2>2. "restart" \notin faults' => Early'
    BY <2>1 DEF Early
  <2> QED
    BY <2>1, <2>2
<1>5. ASSUME NEW c \in Cuts, Aired(c), Sound(c) PROVE Sound(c)'
  <2>1. Course(c)'
    <3>1. ASSUME NEW x \in Cuts \ {c} PROVE Towards(c, x, row[x], job[x])'
      <4>1. job'[x].step \in {"none", "wait", "done"} /\ row'[x].cut \in {NoCut, x}
            /\ x # c /\ c # NoCut
        BY <1>2, <1>3
      <4> QED
        BY <4>1 DEF Towards
    <3>2. row'[c].status \notin {"audit_rejected", "ambiguous"}
      BY <1>5 DEF Sound, Course
    <3>3. job'[c].step \in {"none", "wait", "upload", "done"} /\ row'[c].cut \in {NoCut, c}
      BY <1>2
    <3> QED
      BY <3>1, <3>2, <3>3 DEF Course
  <2>2. faults' \subseteq {"lookup", "insert"} => Corrected(c)'
    BY <1>4 DEF Early, Corrected, Fixed
  <2>3. faults' \subseteq {"lookup"} => Kept(c)'
    <3> SUFFICES ASSUME faults' \subseteq {"lookup"} PROVE Kept(c)'
      OBVIOUS
    <3>1. Early /\ Early' /\ Kept(c)
      BY <1>4, <1>5 DEF Sound
    <3> QED
      BY <3>1 DEF Kept
  <2> QED
    BY <2>1, <2>2, <2>3 DEF Sound
<1> QED
  BY <1>5 DEF Keeps

LEMMA ConfirmKeeps ==
  ASSUME BaseInv, NEW c \in Cuts, Confirm(c) PROVE Keeps
<1>1. BaseInv' /\ ~ Over
  BY ConfirmBase
<1>2. c \in quiet /\ quiet' = quiet \ {c} /\ pending' = Append(pending, c)
      /\ UNCHANGED <<world, buffer, swap, confirmed, row, job, faults>>
  BY DEF Confirm
<1>3. Elements(pending') = Elements(pending) \cup {c}
  BY <1>2, AppendElements DEF BaseInv, BusType
<1>4. Published => Published'
  BY <1>2, <1>3 DEF Published, Live
<1> QED
  BY <1>1, <1>2, <1>4, SoundBeforeOver

LEMMA PublishKeeps ==
  ASSUME BaseInv, Publish PROVE Keeps
<1>1. PICK c : c = Head(pending)
  OBVIOUS
<1>2. /\ pending # <<>> /\ swap.by = NoCut /\ pending' = Tail(pending)
      /\ buffer' = Append(buffer, c) /\ confirmed' = Append(confirmed, c)
      /\ UNCHANGED <<world, quiet, swap, row, job, faults>>
  BY <1>1 DEF Publish
<1>3. BaseInv' /\ Elements(confirmed') = Elements(confirmed) \cup {c}
  BY <1>1, <1>2, SendBase DEF BaseInv, BusType
<1>4. c \in world.fires /\ ~ Over /\ Elements(pending) = Elements(pending') \cup {c}
  BY <1>1, <1>2, HeadLeaves
<1>5. Elements(buffer') = Elements(buffer) \cup {c}
  BY <1>2, <1>4, AppendElements DEF BaseInv, BusType
<1>6. Published => Published'
  BY <1>2, <1>3, <1>4, <1>5 DEF Published, Live
<1> QED
  BY <1>2, <1>3, <1>4, <1>6, SoundBeforeOver

LEMMA LookupFailsKeeps ==
  ASSUME BaseInv, LookupFails PROVE Keeps
<1>1. PICK c : c = Head(pending)
  OBVIOUS
<1>2. /\ pending # <<>> /\ swap.by = NoCut /\ pending' = Tail(pending)
      /\ confirmed' = Append(confirmed, c) /\ faults' = faults \cup {"lookup"}
      /\ UNCHANGED <<world, quiet, buffer, swap, row, job>>
  BY <1>1 DEF LookupFails, Fails
<1>3. faults' \subseteq FaultKinds
  BY <1>2 DEF BaseInv, BusType, FaultKinds
<1>4. BaseInv' /\ Elements(confirmed') = Elements(confirmed) \cup {c}
  BY <1>1, <1>2, <1>3, SendBase
<1>5. c \in world.fires /\ ~ Over /\ Elements(pending) = Elements(pending') \cup {c}
  BY <1>1, <1>2, HeadLeaves
<1>6. Published => Published'
  BY <1>2, <1>4, <1>5 DEF Published, Live
<1> QED
  BY <1>2, <1>4, <1>5, <1>6, SoundBeforeOver

\* What suppresses a cut is an entry of the buffer, and still published.
LEMMA SuppressKeeps ==
  ASSUME BaseInv, Suppress PROVE Keeps
<1>1. PICK c : c = Head(pending)
  OBVIOUS
<1>2. /\ pending # <<>> /\ swap.by = NoCut /\ pending' = Tail(pending)
      /\ UNCHANGED <<world, quiet, buffer, swap, confirmed, row, job, faults>>
  BY DEF Suppress
<1>3. BaseInv' /\ ~ Over
  BY <1>1, <1>2, SuppressBase, HeadLeaves
<1>4. PICK d \in Find(c) : TRUE
  BY <1>1 DEF Suppress
<1>5. d \in Elements(buffer) /\ d \in world.fires /\ d # swap.out
  <2>1. d \in Elements(buffer) /\ buffer \in Seq(world.fires) /\ world \in Worlds
    BY <1>4, Found DEF BaseInv, BusType
  <2>2. d \in world.fires
    BY <2>1 DEF Elements
  <2>3. swap.out = NoCut /\ NoCut \notin world.fires
    BY <1>2, <2>1, FiresAreCuts DEF BaseInv, BusType
  <2> QED
    BY <2>1, <2>2, <2>3
<1>6. Published => Published'
  BY <1>2, <1>5 DEF Published, Live
<1> QED
  BY <1>2, <1>3, <1>6, SoundBeforeOver

LEMMA RetractKeeps ==
  ASSUME BaseInv, Retract PROVE Keeps
<1>1. PICK c : c = Head(pending)
  OBVIOUS
<1>2. /\ pending # <<>> /\ swap.by = NoCut /\ pending' = Tail(pending)
      /\ UNCHANGED <<world, quiet, buffer, confirmed, job, faults>>
  BY DEF Retract
<1>3. PICK d \in Find(c) : RetractOf(c, d)
  BY <1>1 DEF Retract, RetractOf
<1>4. /\ BaseInv' /\ ~ Over
      /\ \A e \in Cuts : row'[e].cut = row[e].cut /\ row'[e].status = row[e].status
  BY RetractBase
<1>5. c \in world.fires
  BY <1>1, <1>2, HeadLeaves
<1>6. swap'.by = c /\ swap'.out = d
  BY <1>3 DEF RetractOf
<1>7. \A e \in Cuts : e # d => row'[e] = row[e]
  BY <1>3 DEF RetractOf
<1>8. ASSUME Published PROVE Published'
  <2>1. ASSUME NEW z \in Elements(buffer) PROVE (z = swap.out \/ Live(z))'
    <3>1. CASE z = d
      BY <1>6, <3>1
    <3>2. CASE z # d
      <4>1. z \in Cuts /\ z \in world.fires /\ NoCut \notin world.fires
        <5>1. buffer \in Seq(world.fires) /\ world \in Worlds
          BY DEF BaseInv, BusType
        <5> QED
          BY <5>1, FiresAreCuts DEF Elements
      <4>2. z # swap.out /\ z # swap.by
        BY <1>2, <4>1 DEF BaseInv, BusType
      <4>3. z \in Elements(confirmed) \/ (row[z].cut # NoCut /\ ~ row[z].retracted)
        BY <1>8, <4>2 DEF Published, Live
      <4> QED
        BY <1>2, <1>7, <3>2, <4>1, <4>3 DEF Live
    <3> QED
      BY <3>1, <3>2
  <2>2. Live(c)'
    BY <1>6 DEF Live
  <2> QED
    BY <1>2, <1>5, <2>1, <2>2 DEF Published
<1> QED
  BY <1>2, <1>4, <1>8, SoundBeforeOver

LEMMA ReplaceKeeps ==
  ASSUME BaseInv, Replace PROVE Keeps
<1>1. /\ BaseInv' /\ ~ Over
      /\ Elements(confirmed') = Elements(confirmed) \cup {swap.by}
      /\ \A z \in Elements(buffer') : z = swap.by \/ (z \in Elements(buffer) /\ z # swap.out)
  BY ReplaceBase
<1>2. UNCHANGED <<world, quiet, pending, row, job, faults>>
  BY DEF Replace
<1>3. \A z : Live(z) => Live(z)'
  BY <1>1, <1>2 DEF Live
<1>4. Live(swap.by)
  BY DEF Live
<1>5. ASSUME Published PROVE Published'
  <2>1. ASSUME NEW z \in Elements(buffer') PROVE (z = swap.out \/ Live(z))'
    <3>1. Live(z)
      BY <1>1, <1>4, <1>5, <2>1 DEF Published
    <3> QED
      BY <1>3, <3>1
  <2>2. (\E y \in world.fires : Live(y)) => (\E y \in world.fires : Live(y))'
    BY <1>2, <1>3
  <2> QED
    BY <1>2, <1>5, <2>1, <2>2 DEF Published
<1> QED
  BY <1>1, <1>2, <1>5, SoundBeforeOver

LEMMA InsertKeeps ==
  ASSUME BaseInv, Insert PROVE Keeps
<1>1. PICK d : d = Head(confirmed)
  OBVIOUS
<1>2. /\ BaseInv' /\ ~ Over /\ d \in Cuts /\ d # NoCut
      /\ Elements(confirmed) = Elements(confirmed') \cup {d}
      /\ row'[d] = [cut |-> d, status |-> "pending", retracted |-> FALSE]
      /\ job'[d] = Job("wait", NoCut, NoCut)
      /\ \A x \in Cuts \ {d} : row'[x] = row[x] /\ job'[x] = job[x]
  BY <1>1, InsertBase
<1>3. UNCHANGED <<world, quiet, pending, buffer, swap, faults>>
  BY DEF Insert, heard
<1>4. \A z \in Cuts : Live(z) => Live(z)'
  BY <1>2, <1>3 DEF Live
<1>5. Elements(buffer) \subseteq Cuts /\ world.fires \subseteq Cuts
  <2>1. buffer \in Seq(world.fires) /\ world \in Worlds
    BY DEF BaseInv, BusType
  <2> QED
    BY <2>1, FiresAreCuts DEF Elements
<1>6. Published => Published'
  BY <1>3, <1>4, <1>5 DEF Published
<1>7. \A x \in Cuts :
           \/ /\ job'[x] = job[x]
              /\ row'[x].cut = row[x].cut /\ row'[x].status = row[x].status
           \/ job'[x].step = "wait" /\ row'[x].cut = x /\ row'[x].status = "pending"
  BY <1>2 DEF Job
<1> QED
  BY <1>2, <1>3, <1>6, <1>7, SoundBeforeOver

LEMMA InsertFailsKeeps ==
  ASSUME BaseInv, InsertFails PROVE Keeps
<1>1. BaseInv' /\ ~ Over
  BY InsertFailsBase
<1>2. faults' = faults \cup {"insert"} /\ UNCHANGED <<world, row, job>>
  BY DEF InsertFails, Fails, heard
<1> QED
  BY <1>1, <1>2, SoundBeforeOver

LEMMA RestartKeeps ==
  ASSUME BaseInv, Restart PROVE Keeps
<1>1. /\ BaseInv'
      /\ \A d \in Cuts : IF job[d].step = "none" THEN job'[d].step = "none"
                          ELSE job'[d] = Job("done", NoCut, NoCut)
  BY RestartBase
<1>2. faults' = faults \cup {"restart"} /\ UNCHANGED <<world, row>>
  BY DEF Restart, Fails, heard
<1>3. \A d \in Cuts : job'[d].step \in {"none", "done"}
  BY <1>1 DEF Job
<1>4. ASSUME NEW c \in Cuts, Aired(c), Sound(c) PROVE Sound(c)'
  <2>1. ASSUME NEW x \in Cuts \ {c} PROVE Towards(c, x, row[x], job[x])'
    <3>1. Towards(c, x, row[x], job[x])
      BY <1>4 DEF Sound, Course
    <3>2. job'[x].step \in {"none", "done"}
      BY <1>3
    <3> QED
      BY <1>2, <3>1, <3>2 DEF Towards
  <2>2. Course(c)'
    BY <1>2, <1>3, <1>4, <2>1 DEF Sound, Course
  <2> QED
    BY <1>2, <2>2 DEF Sound
<1> QED
  BY <1>1, <1>4 DEF Keeps

-----------------------------------------------------------------------------
(* The invariant, and what follows from it.                                  *)

\* At first nothing is written, published or corrected.
LEMMA CutsInit == Init => CutsInv
<1> SUFFICES ASSUME Init PROVE CutsInv
  OBVIOUS
<1>1. BaseInv
  BY BaseInit
<1>2. /\ quiet = world.fires /\ Elements(buffer) = {}
      /\ \A d \in Cuts : /\ job[d].step = "none" /\ row[d].cut = NoCut /\ row[d].status = "none"
  BY EmptyPlace DEF Init, NoRow, Idle, Job
<1>3. NoCut \notin Cuts
  BY CutsAssumption
<1>4. ASSUME NEW c \in Cuts PROVE Sound(c)
  <2>1. \A d \in Cuts \ {c} : Towards(c, d, row[d], job[d])
    BY <1>2, <1>3 DEF Towards
  <2>2. Course(c)
    BY <1>2, <2>1 DEF Course
  <2>3. Corrected(c)
    BY <1>2 DEF Corrected, Fixed
  <2>4. Early /\ Published
    BY <1>2 DEF Early, Published
  <2> QED
    BY <2>2, <2>3, <2>4 DEF Sound, Kept
<1> QED
  BY <1>1, <1>4 DEF CutsInv

\* The airing never changes.
LEMMA WorldStays == [Next]_vars => world' = world
BY DEF Next, vars, heard, Supervise, Fault, Audit, Correct, Publish, Suppress, Retract, Replace,
       Insert, LookupFails, InsertFails, Restart, EvidenceFails, AuditFails, Confirm,
       AuditBeaten, AuditStands, AuditTwin, AuditRejects, Compare, ClearWinner, RetractSelf,
       Reattribute, Upload, Displaced, Restore, Recover, Unretract, Take

LEMMA SameKeeps == ASSUME BaseInv, UNCHANGED vars PROVE Keeps
<1>1. BaseInv'
  BY DEF vars, BaseInv, BusType, OnePlace, RowsOK, Written, Over
<1>2. ASSUME NEW c \in Cuts, Sound(c) PROVE Sound(c)'
  <2>1. Course(c)'
    <3>1. ASSUME NEW d \in Cuts \ {c} PROVE Towards(c, d, row[d], job[d])'
      BY <1>2 DEF vars, Sound, Course, Towards
    <3> QED
      BY <1>2, <3>1 DEF vars, Sound, Course
  <2>3. Corrected(c) => Corrected(c)'
    BY DEF vars, Corrected, Fixed
  <2>2. Kept(c) => Kept(c)'
    <3>1. \A y : Live(y)' <=> Live(y)
      BY DEF vars, Live
    <3>2. Published => Published'
      BY <3>1 DEF vars, Published
    <3>3. Hopes(c) => Hopes(c)'
      BY DEF vars, Hopes, Stands, Written
    <3> QED
      BY <3>2, <3>3 DEF vars, Kept, Early
  <2> QED
    BY <1>2, <2>1, <2>2, <2>3 DEF vars, Sound
<1> QED
  BY <1>1, <1>2 DEF Keeps

LEMMA CutsNext == ASSUME TwoFires, CutsInv, [Next]_vars PROVE CutsInv'
<1>1. BaseInv
  BY DEF CutsInv
<1>2. Keeps
  <2>1. CASE UNCHANGED vars
    BY <1>1, <2>1, SameKeeps
  <2>2. CASE Supervise
    BY <1>1, <2>2, PublishKeeps, SuppressKeeps, RetractKeeps, ReplaceKeeps DEF Supervise
  <2>3. CASE Insert
    BY <1>1, <2>3, InsertKeeps
  <2>4. CASE Fault
    BY <1>1, <2>4, LookupFailsKeeps, InsertFailsKeeps, RestartKeeps, EvidenceFailsKeeps,
       AuditFailsKeeps DEF Fault
  <2>5. CASE \E d \in Cuts : Confirm(d)
    BY <1>1, <2>5, ConfirmKeeps
  <2>6. CASE \E d \in Cuts : Audit(d)
    BY <1>1, <2>6, AuditBeatenKeeps, AuditStandsKeeps, AuditTwinKeeps, AuditRejectsKeeps DEF Audit
  <2>7. CASE \E d \in Cuts : Correct(d)
    <3>1. PICK d \in Cuts : Correct(d)
      BY <2>7
    <3>2. CASE Compare(d) \/ ClearWinner(d) \/ RetractSelf(d) \/ Reattribute(d) \/ Upload(d)
      BY <1>1, <3>2, CompareKeeps, ClearWinnerKeeps, RetractSelfKeeps, ReattributeKeeps, UploadKeeps
    <3>3. CASE Displaced(d) \/ Restore(d) \/ Recover(d) \/ Unretract(d) \/ Take(d)
      BY <1>1, <3>3, DisplacedKeeps, RestoreKeeps, RecoverKeeps, UnretractKeeps, TakeKeeps
    <3> QED
      BY <3>1, <3>2, <3>3 DEF Correct
  <2> QED
    BY <2>1, <2>2, <2>3, <2>4, <2>5, <2>6, <2>7 DEF Next
<1>3. \A c \in Cuts : Aired(c)' <=> Aired(c)
  BY WorldStays DEF Aired
<1> QED
  BY <1>2, <1>3 DEF CutsInv, Keeps

\* Once every row has gone through its audit, what is counted has the cut that
\* aired, and that cut's own row is not counted beside another.
LEMMA CountedNow ==
  ASSUME CutsInv, AllAudited, NEW c \in Cuts, Aired(c), NEW d \in Counted
  PROVE  /\ row[d].cut = c /\ d \in world.fires
         /\ d # c => c \notin Counted
<1>1. BaseInv /\ Course(c) /\ Corrected(c)
  BY DEF CutsInv, Sound, AllAudited
<1>2. /\ d \in Cuts /\ row[d].cut # NoCut /\ ~ row[d].retracted
      /\ row[d].status \notin {"audit_rejected", "ambiguous"}
  BY DEF Counted, Counts
<1>3. job[d].step = "done"
  BY <1>1, <1>2 DEF AllAudited, Settled, BaseInv, RowsOK
<1>4. d \in world.fires
  BY <1>1, <1>2 DEF BaseInv, RowsOK, Written
<1>5. CASE d = c
  BY <1>1, <1>2, <1>4, <1>5 DEF Course
<1>6. CASE d # c
  <2>1. Towards(c, d, row[d], job[d]) /\ Fixed(d, row[d], job[d])
    BY <1>1, <1>2, <1>6 DEF Course, Corrected
  <2>2. row[d].cut = c
    BY <1>2, <1>3, <2>1 DEF Towards, Fixed
  <2>3. row[c].cut = NoCut \/ row[c].retracted
    BY <2>1, <2>2 DEF Towards
  <2> QED
    BY <1>4, <2>2, <2>3 DEF Counted, Counts
<1> QED
  BY <1>5, <1>6

LEMMA OnceNow == ASSUME TwoFires, CutsInv PROVE AtMostOnce
<1> SUFFICES ASSUME AllAudited, Known PROVE Cardinality(Counted) <= 1
  BY DEF AtMostOnce
<1>1. PICK c \in Cuts : Aired(c)
  BY DEF Known
<1>2. world \in Worlds /\ c \in world.fires
  BY <1>1, AiredFacts DEF CutsInv, BaseInv, BusType
<1>3. ASSUME NEW d \in Counted, NEW e \in Counted PROVE d = e
  <2>1. /\ d \in world.fires /\ (d # c => c \notin Counted)
        /\ e \in world.fires /\ (e # c => c \notin Counted)
    BY <1>1, CountedNow
  <2> QED
    BY <1>2, <2>1, OneOther
<1>4. CASE Counted = {}
  <2>1. Cardinality({}) = 0
    BY FS_EmptySet
  <2> QED
    BY <1>4, <2>1
<1>5. CASE Counted # {}
  <2>1. PICK d \in Counted : TRUE
    BY <1>5
  <2>2. Counted = {d}
    BY <1>3, <2>1
  <2>3. Cardinality({d}) = 1
    BY FS_Singleton
  <2> QED
    BY <2>2, <2>3
<1> QED
  BY <1>4, <1>5

LEMMA RightNow == ASSUME CutsInv PROVE RightCut
BY CountedNow DEF RightCut

\* The row that carried the hope has settled: it is counted or it was skipped.
LEMMA LostNow == ASSUME CutsInv PROVE LostOnlyBySkip
<1> SUFFICES ASSUME Settled, faults \subseteq {"lookup"}, Known, Counted = {}
             PROVE  \E d \in Cuts : row[d].status = "audit_rejected" /\ job[d].other # NoCut
  BY DEF LostOnlyBySkip
<1>1. PICK c \in Cuts : Aired(c)
  BY DEF Known
<1>2. BaseInv /\ Course(c) /\ Kept(c)
  BY <1>1 DEF CutsInv, Sound
<1>3. Hopes(c)
  BY <1>1, <1>2, HopesNow DEF Settled
<1>4. ~ Stands(c)
  <2>1. c # NoCut
    BY CutsAssumption
  <2> QED
    BY <1>2, <2>1 DEF Stands, Course, Counted, Counts
<1>5. PICK d \in Written \ {c} : Hope(row[d], job[d])
  BY <1>3, <1>4 DEF Hopes
<1>6. d \in Cuts /\ job[d].step = "done"
  BY <1>2, <1>5 DEF Written, Settled, BaseInv, RowsOK
<1>7. ~ Counts(row[d])
  BY <1>6 DEF Counted
<1> QED
  BY <1>5, <1>6, <1>7 DEF Hope

LEMMA KeepsOneNow == ASSUME CutsInv, NEW d \in Cuts PROVE KeepsOne(d)
<1> SUFFICES ASSUME Known, RetractSelf(d) PROVE \E e \in Cuts : Counts(row'[e])
  BY DEF KeepsOne
<1>1. PICK c \in Cuts : Aired(c)
  BY DEF Known
<1>2. Course(c) /\ row \in [Cuts -> RowType]
  BY <1>1 DEF CutsInv, Sound, BaseInv, RowsOK
<1>3. job[d].step = "retract" /\ row' = [row EXCEPT ![d] = [row[d] EXCEPT !.retracted = TRUE]]
  BY DEF RetractSelf, Set
<1>4. d # c
  BY <1>2, <1>3 DEF Course
<1>5. row[c].cut = c /\ ~ row[c].retracted /\ row[c].status \notin {"audit_rejected", "ambiguous"}
  BY <1>2, <1>3, <1>4 DEF Course, Towards
<1>6. row'[c] = row[c] /\ c # NoCut
  BY <1>2, <1>3, <1>4, CutsAssumption
<1> QED
  BY <1>5, <1>6 DEF Counts

\* One airing, two confirmations, one of them what aired: whatever the order of
\* supervisor, audits and corrections, and whatever look-ups and INSERTs fail, it
\* is counted at most once (section 18.2.2).
THEOREM CountedAtMostOnce == ASSUME TwoFires PROVE Spec => []AtMostOnce
<1>1. Init => CutsInv
  BY CutsInit
<1>2. CutsInv /\ [Next]_vars => CutsInv'
  BY CutsNext
<1>3. CutsInv => AtMostOnce
  BY OnceNow
<1> QED
  BY <1>1, <1>2, <1>3, PTL DEF Spec

\* What is counted for it is the cut that aired: reattribution and retraction
\* never leave the loser of the coverage comparison in the approved set.
THEOREM CountedForTheRightCut == ASSUME TwoFires PROVE Spec => []RightCut
<1>1. Init => CutsInv
  BY CutsInit
<1>2. CutsInv /\ [Next]_vars => CutsInv'
  BY CutsNext
<1>3. CutsInv => RightCut
  BY RightNow
<1> QED
  BY <1>1, <1>2, <1>3, PTL DEF Spec

\* And it is counted, when its rows were all written, unless the recovery of a
\* rejected row found the winner's row and left it as it was.
THEOREM LostOnlyWhenSkipped == ASSUME TwoFires PROVE Spec => []LostOnlyBySkip
<1>1. Init => CutsInv
  BY CutsInit
<1>2. CutsInv /\ [Next]_vars => CutsInv'
  BY CutsNext
<1>3. CutsInv => LostOnlyBySkip
  BY LostNow
<1> QED
  BY <1>1, <1>2, <1>3, PTL DEF Spec

\* The cofire guard never retracts both rows of an airing: at the moment it
\* retracts one, though it decided on what it had read before, another counts.
THEOREM CofireAlwaysKeepsOne == ASSUME TwoFires PROVE Spec => CofireKeepsOne
<1>1. Init => CutsInv
  BY CutsInit
<1>2. CutsInv /\ [Next]_vars => CutsInv'
  BY CutsNext
<1>3. CutsInv => [\A d \in Cuts : KeepsOne(d)]_vars
  BY KeepsOneNow
<1> QED
  BY <1>1, <1>2, <1>3, PTL DEF Spec, CofireKeepsOne

=============================================================================
