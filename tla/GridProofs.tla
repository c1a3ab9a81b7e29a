----------------------------- MODULE GridProofs -----------------------------
(***************************************************************************)
(* For every set of plays, rules and overrides, and any interleaving of    *)
(* edits, closings and recategorisations:                                  *)
(*   - the Go and the SQL engine give a play the same category, if no play *)
(*     falls in the fraction of a second after the tolerance of a slot     *)
(*     (NoneOnEdge: there they do differ, see MCGrid_fraction.cfg);        *)
(*   - the Go engine is the rule of Settlement, with no such condition;    *)
(*   - a stale category has its recategorisation asked, in flight or       *)
(*     failed, or was written while a recategorisation that takes no lock  *)
(*     ran alongside, if moreover no edit moves a rule to another type     *)
(*     (Retypes: MCGrid_retype.cfg shows that it would).                   *)
(*                                                                         *)
(* The engines meet because the places of the Go loop and the row numbers  *)
(* of the query both count the plays before a play inside a slot, and      *)
(* because a cell-day loaded in order is a list of its plays (Lists).      *)
(* A stale category is traced through what each transaction has read       *)
(* (Tells) and the locks that keep two writers of a cell-day apart         *)
(* (FlightsOK).                                                            *)
(***************************************************************************)
EXTENDS Grid, SettlementProofs

-----------------------------------------------------------------------------
(* Sums.                                                                     *)

\* The sum of finitely many naturals is a natural (the goal of a cell-day).
LEMMA SumType ==
  ASSUME NEW D, IsFiniteSet(D), NEW f \in [D -> Nat]
  PROVE  SumFunction(f) \in Nat
<1> DEFINE c == [s \in (SUBSET D) \ {{}} |-> CHOOSE x \in s : TRUE]
           h == [p \in D \X Nat |-> f[p[1]] + p[2]]
           Rec(g) == g = [s \in SUBSET D |->
                            IF s = {} THEN 0
                            ELSE f[CHOOSE x \in s : TRUE] + g[s \ {CHOOSE x \in s : TRUE}]]
           I == CHOOSE g : Rec(g)
<1>1. SumFunction(f) = I[D]
  BY DEF SumFunction, SumFunctionOnSet, FoldFunctionOnSet, MapThenFoldSet
<1>2. /\ c \in [(SUBSET D) \ {{}} -> D]
      /\ \A s \in (SUBSET D) \ {{}} : c[s] = (CHOOSE x \in s : TRUE) /\ c[s] \in s
  OBVIOUS
<1>3. /\ h \in [D \X Nat -> Nat]
      /\ \A x \in D, y \in Nat : h[<<x, y>>] = f[x] + y
  OBVIOUS
<1>4. PICK g : Folds(g, D, Nat, 0, c, h)
  <2>1. Picks(c, D)
    BY <1>2 DEF Picks
  <2>2. 0 \in Nat
    OBVIOUS
  <2> HIDE DEF c, h
  <2> QED
    BY <1>3, <2>1, <2>2, SetRecursion
<1>g. /\ g \in [SUBSET D -> Nat]
      /\ \A s \in SUBSET D : g[s] = IF s = {} THEN 0 ELSE h[<<c[s], g[s \ {c[s]}]>>]
  BY <1>4 DEF Folds
<1>5. \A s \in SUBSET D : s # {} => h[<<c[s], g[s \ {c[s]}]>>] = f[c[s]] + g[s \ {c[s]}]
  <2> HIDE DEF c, h
  <2> QED
    BY <1>2, <1>3, <1>g
<1>6. Rec(g)
  <2> HIDE DEF c, h
  <2>1. \A s \in SUBSET D :
          g[s] = IF s = {} THEN 0
                 ELSE f[CHOOSE x \in s : TRUE] + g[s \ {CHOOSE x \in s : TRUE}]
    BY <1>2, <1>5, <1>g
  <2>2. g = [s \in SUBSET D |-> g[s]]
    BY <1>g
  <2> QED
    BY <2>1, <2>2
<1>7. Rec(I)
  <2> HIDE DEF Rec
  <2> QED
    BY <1>6
<1>8. \A s \in SUBSET D : I[s] = IF s = {} THEN 0 ELSE f[c[s]] + I[s \ {c[s]}]
  <2> HIDE DEF I
  <2>1. \A s \in SUBSET D :
          I[s] = IF s = {} THEN 0
                 ELSE f[CHOOSE x \in s : TRUE] + I[s \ {CHOOSE x \in s : TRUE}]
    BY <1>7
  <2> HIDE DEF c
  <2> QED
    BY <1>2, <2>1
<1> HIDE DEF I, c
<1>9. \A s \in SUBSET D : I[s] \in Nat
  <2> DEFINE T == {s \in SUBSET D : I[s] \notin Nat}
  <2>1. SUFFICES ASSUME T # {} PROVE FALSE
    BY <2>1
  <2>2. \A s \in T : IsFiniteSet(s)
    BY FS_Subset
  <2>3. PICK A \in T : \A B \in T : ~ (B \subseteq A /\ B # A)
    <3> HIDE DEF T
    <3> QED
      BY <2>1, <2>2, SmallestSet
  <2>4. A \in SUBSET D /\ I[A] \notin Nat /\ A # {}
    BY <1>8, <2>3
  <2>5. A \ {c[A]} \subseteq A /\ A \ {c[A]} # A
    BY <1>2, <2>4
  <2>6. I[A \ {c[A]}] \in Nat
    BY <2>3, <2>4, <2>5
  <2>7. f[c[A]] \in Nat
    BY <1>2, <2>4
  <2>8. I[A] = f[c[A]] + I[A \ {c[A]}]
    BY <1>8, <2>4
  <2> QED
    BY <2>4, <2>6, <2>7, <2>8
<1> QED
  BY <1>1, <1>9

-----------------------------------------------------------------------------
(* Counting and ranking.                                                     *)

\* The number of elements of S that R puts before x.
Rank(S, R, x) == Cardinality({y \in S : <<y, x>> \in R})

\* R puts the elements of S in a row.
Orders(R, S) ==
  /\ \A x \in S : <<x, x>> \notin R
  /\ \A x, y, z \in S : <<x, y>> \in R /\ <<y, z>> \in R => <<x, z>> \in R
  /\ \A x, y \in S : x # y => <<x, y>> \in R \/ <<y, x>> \in R

\* Ranks grow along the row.
LEMMA RankGrows ==
  ASSUME NEW S, IsFiniteSet(S), NEW R, Orders(R, S),
         NEW x \in S, NEW y \in S, <<x, y>> \in R
  PROVE  Rank(S, R, x) < Rank(S, R, y)
<1> DEFINE A == {z \in S : <<z, x>> \in R}
           B == {z \in S : <<z, y>> \in R}
<1>1. A \subseteq B /\ B \subseteq S /\ x \in B /\ x \notin A
  BY DEF Orders
<1> HIDE DEF A, B
<1>2. IsFiniteSet(B) /\ Cardinality(B) \in Nat
  BY <1>1, FS_Subset, FS_CardinalityType
<1>3. IsFiniteSet(A) /\ Cardinality(A) \in Nat /\ Cardinality(A) <= Cardinality(B)
      /\ (Cardinality(B) = Cardinality(A) => B = A)
  BY <1>1, <1>2, FS_Subset, FS_CardinalityType
<1>4. Cardinality(A) < Cardinality(B)
  BY <1>1, <1>2, <1>3
<1> QED
  BY <1>4 DEF Rank, A, B

\* The ranks of a finite row are exactly the numbers below its length.
LEMMA RanksFill ==
  ASSUME NEW S, IsFiniteSet(S), NEW R, Orders(R, S)
  PROVE  /\ Cardinality(S) \in Nat
         /\ \A x \in S : Rank(S, R, x) \in 0..(Cardinality(S) - 1)
         /\ \A x, y \in S : Rank(S, R, x) = Rank(S, R, y) => x = y
         /\ \A k \in 0..(Cardinality(S) - 1) : \E x \in S : Rank(S, R, x) = k
<1> DEFINE N == 0..(Cardinality(S) - 1)
           f == [x \in S |-> Rank(S, R, x)]
<1>1. Cardinality(S) \in Nat
  BY FS_CardinalityType
<1>2. ASSUME NEW x \in S PROVE Rank(S, R, x) \in N
  <2> DEFINE A == {y \in S : <<y, x>> \in R}
  <2>1. A \subseteq S /\ x \notin A
    BY DEF Orders
  <2> HIDE DEF A
  <2>2. IsFiniteSet(A) /\ Cardinality(A) \in Nat /\ Cardinality(A) <= Cardinality(S)
        /\ (Cardinality(S) = Cardinality(A) => S = A)
    BY <2>1, FS_Subset, FS_CardinalityType
  <2>3. Cardinality(A) \in N
    BY <1>1, <2>1, <2>2
  <2> QED
    BY <2>3 DEF Rank, A
<1>3. ASSUME NEW x \in S, NEW y \in S, Rank(S, R, x) = Rank(S, R, y), x # y PROVE FALSE
  <2>1. <<x, y>> \in R \/ <<y, x>> \in R
    BY <1>3 DEF Orders
  <2>2. Rank(S, R, x) < Rank(S, R, y) \/ Rank(S, R, y) < Rank(S, R, x)
    BY <2>1, RankGrows
  <2> QED
    BY <1>1, <1>2, <1>3, <2>2
<1>4. f \in Injection(S, N)
  BY <1>2, <1>3 DEF Injection, IsInjective
<1>5. IsFiniteSet(N) /\ Cardinality(N) = Cardinality(S)
  <2>1. 0 \in Int /\ Cardinality(S) - 1 \in Int
    BY <1>1
  <2> QED
    BY <1>1, <2>1, FS_Interval
<1>6. f \in Surjection(S, N)
  <2> HIDE DEF f, N
  <2> QED
    BY <1>4, <1>5, FS_Injection
<1>7. \A k \in N : \E x \in S : Rank(S, R, x) = k
  BY <1>6 DEF Surjection
<1> QED
  BY <1>1, <1>2, <1>3, <1>7

\* The n first of a row are fewer than n only if the whole row is.
LEMMA FirstOnes ==
  ASSUME NEW S, IsFiniteSet(S), NEW R, Orders(R, S), NEW n \in Nat
  PROVE  LET T == {x \in S : Rank(S, R, x) < n}
         IN  Cardinality(T) < n <=> Cardinality(S) < n
<1> DEFINE T == {x \in S : Rank(S, R, x) < n}
<1>1. T \subseteq S
  OBVIOUS
<1>2. IsFiniteSet(T) /\ Cardinality(T) \in Nat /\ Cardinality(T) <= Cardinality(S)
      /\ Cardinality(S) \in Nat
  <2> HIDE DEF T
  <2> QED
    BY <1>1, FS_Subset, FS_CardinalityType
<1>3. ASSUME n <= Cardinality(S), n # 0 PROVE n <= Cardinality(T)
  <2> DEFINE N == 0..(n - 1)
             f == [x \in T |-> Rank(S, R, x)]
  <2>1. \A x \in T : Rank(S, R, x) \in N
    BY RanksFill
  <2>2. \A k \in N : \E x \in T : Rank(S, R, x) = k
    <3>1. N \subseteq 0..(Cardinality(S) - 1)
      BY <1>2, <1>3
    <3>2. \A k \in N : k < n
      OBVIOUS
    <3> QED
      BY <3>1, <3>2, RanksFill
  <2> HIDE DEF T
  <2>3. f \in Surjection(T, N)
    BY <2>1, <2>2 DEF Surjection
  <2>4. Cardinality(N) <= Cardinality(T)
    <3> HIDE DEF f, N
    <3> QED
      BY <1>2, <2>3, FS_Surjection
  <2>5. Cardinality(N) = n
    <3>1. 0 \in Int /\ n - 1 \in Int
      OBVIOUS
    <3> QED
      BY <3>1, <1>3, FS_Interval
  <2> QED
    BY <2>4, <2>5
<1> HIDE DEF T
<1>4. Cardinality(T) < n <=> Cardinality(S) < n
  BY <1>2, <1>3
<1> QED
  BY <1>4 DEF T

\* Distinct entries of a sequence are as many as their positions.
LEMMA CountImage ==
  ASSUME NEW s, NEW J, IsFiniteSet(J), \A i, j \in J : s[i] = s[j] => i = j
  PROVE  /\ IsFiniteSet({s[j] : j \in J})
         /\ Cardinality({s[j] : j \in J}) = Cardinality(J)
<1> DEFINE T == {s[j] : j \in J}
           f == [j \in J |-> s[j]]
<1>1. f \in Surjection(J, T) /\ f \in Injection(J, T)
  BY DEF Surjection, Injection, IsInjective
<1> HIDE DEF f, T
<1>2. IsFiniteSet(T) /\ Cardinality(T) = Cardinality(J)
  BY <1>1, FS_Surjection
<1> QED
  BY <1>2 DEF T

-----------------------------------------------------------------------------
(* The two engines on one cell-day.                                          *)

\* Rules and overrides as the tables hold them.
RulesOK(R) ==
  /\ IsFiniteSet(DOMAIN R)
  /\ \A i \in DOMAIN R : {R[i].from, R[i].to, R[i].start, R[i].end} \subseteq Int /\ R[i].n \in Nat
OverrideOK(ov) ==
  \A o, q \in ov : o = q /\ {o.start, o.end} \subseteq Int /\ o.n \in Nat

\* p is not within the fraction of a second after the tolerance of slot w, which
\* Go truncates away and SQL does not.
OffEdge(p, w) == p.at \div PerSec = w.end + Tol => p.at % PerSec = 0
Clear(p, R, ov) == (\A i \in DOMAIN R : OffEdge(p, R[i])) /\ (\A o \in ov : OffEdge(p, o))

LEMMA GoalType ==
  ASSUME NEW day, NEW R, RulesOK(R), NEW ov, OverrideOK(ov)
  PROVE  Goal(day, R, ov) \in Nat
<1>1. CASE ov # {}
  BY <1>1 DEF Goal, OverrideOK
<1>2. CASE ov = {}
  <2> DEFINE D == {i \in DOMAIN R : RuleCoversDay(R[i], day)}
             f == [i \in D |-> R[i].n]
  <2>1. IsFiniteSet(D)
    BY FS_Subset DEF RulesOK
  <2>2. f \in [D -> Nat]
    BY DEF RulesOK
  <2>3. SumFunction(f) \in Nat
    <3> HIDE DEF D, f
    <3> QED
      BY <2>1, <2>2, SumType
  <2> QED
    BY <1>2, <2>3 DEF Goal, Ordered
<1> QED
  BY <1>1, <1>2

\* Both engines sum the same rules, whether the dates are compared one by one
\* or as an interval.
LEMMA GoalIsMeta ==
  ASSUME NEW day \in Int, NEW R, RulesOK(R), NEW ov
  PROVE  Goal(day, R, ov) = Meta(day, R, ov)
<1> DEFINE A == {i \in DOMAIN R : RuleCoversDay(R[i], day)}
           B == {i \in DOMAIN R : /\ R[i].from <= day /\ day <= R[i].to
                                  /\ Weekday[day] \in R[i].dows}
<1>1. A = B
  BY DEF RuleCoversDay, RulesOK
<1>2. Goal(day, R, ov) = IF ov # {} THEN (CHOOSE o \in ov : TRUE).n ELSE Ordered(R, A)
  BY DEF Goal
<1>3. Meta(day, R, ov) = IF ov # {} THEN (CHOOSE o \in ov : TRUE).n ELSE Ordered(R, B)
  BY DEF Meta
<1> HIDE DEF A, B
<1> QED
  BY <1>1, <1>2, <1>3

LEMMA SameOutDate ==
  ASSUME NEW p, p.day \in Int, NEW cmp, {cmp.from, cmp.to} \subseteq Int, NEW R, RulesOK(R)
  PROVE  OutDate(p, cmp, R) <=> IsOutDate(p, cmp, R)
<1>1. p.day \notin cmp.from..cmp.to <=> p.day < cmp.from \/ cmp.to < p.day
  OBVIOUS
<1>2. \A i \in DOMAIN R : p.day \in R[i].from..R[i].to <=> R[i].from <= p.day /\ p.day <= R[i].to
  BY DEF RulesOK
<1>3. CarvedOutsidePeriod(p.day, p.mat, R)
      <=> /\ \E i \in DOMAIN R : R[i].mats # {} /\ p.mat \in R[i].mats
          /\ ~ \E i \in DOMAIN R : /\ p.mat \in R[i].mats
                                   /\ R[i].from <= p.day /\ p.day <= R[i].to
  BY <1>2 DEF CarvedOutsidePeriod, Named
<1> QED
  BY <1>1, <1>3 DEF OutDate, IsOutDate

\* Off the edge, comparing whole seconds is comparing instants.
LEMMA Truncate ==
  ASSUME NEW at \in Nat, NEW k \in Nat \ {0}, NEW a \in Int
  PROVE  /\ a <= at \div k <=> a * k <= at
         /\ (at \div k = a => at % k = 0) => (at \div k <= a <=> at <= a * k)
<1> DEFINE q == at \div k
           r == at % k
<1>1. q \in Int /\ r \in Nat /\ r < k /\ at = q * k + r
  OBVIOUS
<1> HIDE DEF q, r
<1>2. ASSUME NEW x \in Int, NEW y \in Int, x <= y PROVE x * k <= y * k
  BY <1>2
<1>3. ASSUME NEW x \in Int, NEW y \in Int, x < y PROVE x * k + k <= y * k
  <2>1. (x + 1) * k <= y * k
    BY <1>2, <1>3
  <2>2. (x + 1) * k = x * k + k
    OBVIOUS
  <2> QED
    BY <2>1, <2>2
<1>4. a * k \in Int /\ q * k \in Int
  BY <1>1
<1>5. CASE a < q
  <2>1. a * k + k <= q * k
    BY <1>1, <1>3, <1>5
  <2> QED
    BY <1>1, <1>4, <1>5, <2>1 DEF q, r
<1>6. CASE q < a
  <2>1. q * k + k <= a * k
    BY <1>1, <1>3, <1>6
  <2> QED
    BY <1>1, <1>4, <1>6, <2>1 DEF q, r
<1>7. CASE a = q
  BY <1>1, <1>4, <1>7 DEF q, r
<1> QED
  BY <1>1, <1>5, <1>6, <1>7

\* ... so both engines see the play inside the same slots.
LEMMA SameWindow ==
  ASSUME NEW p, p.at \in Nat, p.day \in Int, NEW R, RulesOK(R), NEW ov, OverrideOK(ov), Clear(p, R, ov)
  PROVE  InAnyWindow(p, R, ov) <=> InWindow(p, R, ov)
<1> DEFINE within(w) == w.start - Tol <= p.at \div PerSec /\ p.at \div PerSec <= w.end + Tol
           between(w) == (w.start - Tol) * PerSec <= p.at /\ p.at <= (w.end + Tol) * PerSec
           carved == \E i \in DOMAIN R : R[i].mats # {} /\ p.mat \in R[i].mats
<1>1. ASSUME NEW w, w.start \in Int, w.end \in Int, OffEdge(p, w) PROVE within(w) <=> between(w)
  <2>1. w.start - Tol \in Int /\ w.end + Tol \in Int
    BY <1>1, SecondsAssumption
  <2>2. w.start - Tol <= p.at \div PerSec <=> (w.start - Tol) * PerSec <= p.at
    BY <2>1, Truncate, SecondsAssumption
  <2>3. p.at \div PerSec <= w.end + Tol <=> p.at <= (w.end + Tol) * PerSec
    BY <1>1, <2>1, Truncate, SecondsAssumption DEF OffEdge
  <2> QED
    BY <2>2, <2>3
<1>2. carved <=> Named(R, p.mat) # {}
  BY DEF Named
<1>3. \A i \in DOMAIN R : RuleCoversDay(R[i], p.day)
        <=> R[i].from <= p.day /\ p.day <= R[i].to /\ Weekday[p.day] \in R[i].dows
  BY DEF RuleCoversDay, RulesOK
<1>4. \A i \in DOMAIN R : within(R[i]) <=> between(R[i])
  <2>1. \A i \in DOMAIN R : R[i].start \in Int /\ R[i].end \in Int /\ OffEdge(p, R[i])
    BY DEF RulesOK, Clear
  <2> QED
    BY <1>1, <2>1
<1>5. \A o \in ov : within(o) <=> between(o)
  <2>1. \A o \in ov : o.start \in Int /\ o.end \in Int /\ OffEdge(p, o)
    BY DEF OverrideOK, Clear
  <2> QED
    BY <1>1, <2>1
<1>6. InAnyWindow(p, R, ov) <=>
        IF ov # {} THEN \E o \in ov : within(o)
        ELSE \E i \in DOMAIN R : /\ IF Named(R, p.mat) # {} THEN p.mat \in R[i].mats ELSE R[i].mats = {}
                                 /\ RuleCoversDay(R[i], p.day)
                                 /\ within(R[i])
  BY DEF InAnyWindow
<1>7. InWindow(p, R, ov) <=>
        IF ov # {} THEN \E o \in ov : between(o)
        ELSE \E i \in DOMAIN R :
               /\ IF carved THEN R[i].mats # {} /\ p.mat \in R[i].mats ELSE R[i].mats = {}
               /\ R[i].from <= p.day /\ p.day <= R[i].to
               /\ Weekday[p.day] \in R[i].dows
               /\ between(R[i])
  BY DEF InWindow
<1> HIDE DEF within, between, carved
<1>8. \A i \in DOMAIN R :
        (IF Named(R, p.mat) # {} THEN p.mat \in R[i].mats ELSE R[i].mats = {})
        <=> (IF carved THEN R[i].mats # {} /\ p.mat \in R[i].mats ELSE R[i].mats = {})
  BY <1>2
<1> QED
  BY <1>3, <1>4, <1>5, <1>6, <1>7, <1>8

\* What the Go engine gives each play of a list: the n places go to the first
\* ones inside a slot, and the plays outside get a bonus once they are gone.
LEMMA GoVerdict ==
  ASSUME NEW day, NEW cmp, NEW R, RulesOK(R), NEW ov, OverrideOK(ov),
         NEW s, IsFiniteSet(DOMAIN s), DOMAIN s \subseteq Int, \A i \in DOMAIN s : s[i].at \in Nat,
         NEW i \in DOMAIN s
  PROVE  LET n == Goal(day, R, ov)
             X == {j \in DOMAIN s : OutDate(s[j], cmp, R)}
             W == {j \in DOMAIN s \ X : InAnyWindow(s[j], R, ov)}
         IN  GoSettle(day, s, cmp, R, ov)[i]
             = IF i \in X THEN "out_date"
               ELSE IF i \in W
                    THEN IF Cardinality({j \in W : Before(s, j, i)}) < n THEN "in_slot" ELSE "bonus"
                    ELSE IF Cardinality(W) < n THEN "out_slot" ELSE "bonus"
<1> DEFINE n == Goal(day, R, ov)
           X == {j \in DOMAIN s : OutDate(s[j], cmp, R)}
           W == {j \in DOMAIN s \ X : InAnyWindow(s[j], R, ov)}
           B == {e \in W \X W : Before(s, e[1], e[2])}
           won == Places(n, s, W)
<1>1. n \in Nat
  BY GoalType
<1>2. IsFiniteSet(W) /\ W \subseteq DOMAIN s /\ W \cap X = {}
  BY FS_Subset
<1>3. GoSettle(day, s, cmp, R, ov)[i]
      = CASE i \in X -> "out_date"
          [] i \in won -> "in_slot"
          [] i \in DOMAIN s \ (X \cup W) /\ Cardinality(won) < n -> "out_slot"
          [] OTHER -> "bonus"
  BY DEF GoSettle
<1> HIDE DEF n, W, X
<1>4. \A j, k \in W : Before(s, j, k) <=> s[j].at < s[k].at \/ (s[j].at = s[k].at /\ j < k)
  BY DEF Before
<1>5. \A j \in W : j \in Int /\ s[j].at \in Nat
  BY <1>2
<1>6. \A j, k \in W : <<j, k>> \in B <=> Before(s, j, k)
  OBVIOUS
<1> HIDE DEF B
<1>7. Orders(B, W)
  BY <1>4, <1>5, <1>6 DEF Orders
<1>8. \A k \in W : Cardinality({j \in W : Before(s, j, k)}) = Rank(W, B, k)
  <2> TAKE k \in W
  <2>1. {j \in W : Before(s, j, k)} = {j \in W : <<j, k>> \in B}
    BY <1>6
  <2> QED
    BY <2>1 DEF Rank
<1>9. won = {k \in W : Rank(W, B, k) < n}
  BY <1>8 DEF Places
<1>10. Cardinality(won) < n <=> Cardinality(W) < n
  BY <1>1, <1>2, <1>7, <1>9, FirstOnes
<1>11. i \in won <=> i \in W /\ Cardinality({j \in W : Before(s, j, i)}) < n
  BY <1>8, <1>9
<1> HIDE DEF won
<1>12. GoSettle(day, s, cmp, R, ov)[i]
       = IF i \in X THEN "out_date"
         ELSE IF i \in W
              THEN IF Cardinality({j \in W : Before(s, j, i)}) < n THEN "in_slot" ELSE "bonus"
              ELSE IF Cardinality(W) < n THEN "out_slot" ELSE "bonus"
  BY <1>2, <1>3, <1>10, <1>11
<1> QED
  BY <1>12 DEF n, W, X

\* s lists the plays Q of one local day, no two of them of the same instant.
Lists(s, Q, day) ==
  /\ DOMAIN s \subseteq Int /\ IsFiniteSet(DOMAIN s)
  /\ Q = {s[j] : j \in DOMAIN s}
  /\ \A i, j \in DOMAIN s : s[i] = s[j] => i = j
  /\ \A q \in Q : q.id \in Nat /\ q.at \in Nat /\ q.day = day
  /\ \A p, q \in Q : p # q => p.at # q.at

\* The engines give every play of a cell-day the same category, whatever the
\* rules, the override, the plays and the order in which Go has them.
LEMMA EnginesMeet ==
  ASSUME NEW day \in Int, NEW cmp, {cmp.from, cmp.to} \subseteq Int,
         NEW R, RulesOK(R), NEW ov, OverrideOK(ov),
         NEW s, NEW Q, Lists(s, Q, day), \A q \in Q : Clear(q, R, ov), NEW i \in DOMAIN s
  PROVE  GoSettle(day, s, cmp, R, ov)[i] = Classified(s[i], Q, cmp, R, ov)
<1> DEFINE n == Goal(day, R, ov)
           X == {j \in DOMAIN s : OutDate(s[j], cmp, R)}
           W == {j \in DOMAIN s \ X : InAnyWindow(s[j], R, ov)}
           first == {j \in W : Before(s, j, i)}
           ranked == {q \in Q : ~ IsOutDate(q, cmp, R)}
           inside == {q \in ranked : InWindow(q, R, ov)}
           upto == {q \in ranked : InWindow(q, R, ov) = InWindow(s[i], R, ov) /\ ~ Earlier(s[i], q)}
           total == IF n < Cardinality(inside) THEN n ELSE Cardinality(inside)
<1>1. n \in Nat
  BY GoalType
<1>2. \A j \in DOMAIN s : /\ s[j] \in Q /\ j \in Int
                          /\ s[j].id \in Nat /\ s[j].at \in Nat
                          /\ Clear(s[j], R, ov) /\ s[j].day = day
  BY DEF Lists
<1>3. \A j \in DOMAIN s : OutDate(s[j], cmp, R) <=> IsOutDate(s[j], cmp, R)
  BY <1>2, SameOutDate
<1>4. \A j \in DOMAIN s : InAnyWindow(s[j], R, ov) <=> InWindow(s[j], R, ov)
  BY <1>2, SameWindow
<1>5. ranked = {s[j] : j \in DOMAIN s \ X}
  BY <1>3 DEF Lists
<1>6. inside = {s[j] : j \in W}
  BY <1>4, <1>5
<1>7. IsFiniteSet(W) /\ W \subseteq DOMAIN s /\ W \cap X = {} /\ Cardinality(W) \in Nat
  BY FS_Subset, FS_CardinalityType DEF Lists
<1>8. Cardinality(inside) = Cardinality(W)
  <2>1. \A j, k \in W : s[j] = s[k] => j = k
    BY <1>7 DEF Lists
  <2> HIDE DEF W, inside
  <2> QED
    BY <1>6, <1>7, <2>1, CountImage
<1>9. i \in W => Cardinality(upto) = Cardinality(first) + 1
  <2> SUFFICES ASSUME i \in W PROVE Cardinality(upto) = Cardinality(first) + 1
    OBVIOUS
  <2> DEFINE J == first \cup {i}
  <2>1. upto = {q \in inside : ~ Earlier(s[i], q)}
    BY <1>4
  <2>2. \A j \in W : ~ Earlier(s[i], s[j]) <=> j \in J
    <3> TAKE j \in W
    <3>1. s[i].at \in Nat /\ s[j].at \in Nat /\ s[i].id \in Nat
      BY <1>2
    <3>2. i # j => s[i].at # s[j].at
      BY <1>2 DEF Lists
    <3> QED
      BY <3>1, <3>2 DEF Earlier, Before
  <2>3. upto = {s[j] : j \in J}
    BY <1>6, <2>1, <2>2
  <2>4. IsFiniteSet(first) /\ i \notin first /\ Cardinality(first) \in Nat
    <3>1. first \subseteq W
      OBVIOUS
    <3>2. i \notin first
      BY <1>2 DEF Before
    <3> HIDE DEF first, W
    <3> QED
      BY <1>7, <3>1, <3>2, FS_Subset, FS_CardinalityType
  <2>5. \A j, k \in J : s[j] = s[k] => j = k
    BY DEF Lists
  <2> HIDE DEF first, upto
  <2>6. IsFiniteSet(J) /\ Cardinality(J) = Cardinality(first) + 1
    BY <2>4, FS_AddElement
  <2> HIDE DEF J
  <2> QED
    BY <2>3, <2>5, <2>6, CountImage
<1>10. GoSettle(day, s, cmp, R, ov)[i]
       = IF i \in X THEN "out_date"
         ELSE IF i \in W
              THEN IF Cardinality(first) < n THEN "in_slot" ELSE "bonus"
              ELSE IF Cardinality(W) < n THEN "out_slot" ELSE "bonus"
  <2>1. IsFiniteSet(DOMAIN s) /\ DOMAIN s \subseteq Int /\ \A j \in DOMAIN s : s[j].at \in Nat
    BY <1>2 DEF Lists
  <2> QED
    BY <2>1, GoVerdict
<1>11. Classified(s[i], Q, cmp, R, ov)
       = CASE s[i] \notin ranked -> "out_date"
           [] s[i] \in ranked /\ InWindow(s[i], R, ov) ->
                IF Cardinality(upto) <= n THEN "in_slot" ELSE "bonus"
           [] OTHER -> IF total < n THEN "out_slot" ELSE "bonus"
  <2>1. Meta(s[i].day, R, ov) = n
    BY <1>2, GoalIsMeta
  <2> QED
    BY <2>1 DEF Classified
<1>12. /\ s[i] \notin ranked <=> i \in X
       /\ i \notin X => (InWindow(s[i], R, ov) <=> i \in W)
  BY <1>2, <1>3, <1>4
<1>13. Cardinality(first) \in Nat
  <2>1. first \subseteq W
    OBVIOUS
  <2> HIDE DEF first, W
  <2> QED
    BY <1>7, <2>1, FS_Subset, FS_CardinalityType
<1>14. total < n <=> Cardinality(W) < n
  BY <1>1, <1>7, <1>8
<1> HIDE DEF n, X, W, first, ranked, inside, upto, total
<1>15. i \in W => (Cardinality(upto) <= n <=> Cardinality(first) < n)
  BY <1>1, <1>9, <1>13
<1>16. CASE i \in X
  BY <1>10, <1>11, <1>12, <1>16
<1>17. CASE i \notin X /\ i \in W
  BY <1>10, <1>11, <1>12, <1>15, <1>17
<1>18. CASE i \notin X /\ i \notin W
  BY <1>10, <1>11, <1>12, <1>14, <1>18
<1> QED
  BY <1>16, <1>17, <1>18

-----------------------------------------------------------------------------
(* The rows loadCellDayPlays returns.                                        *)

Sorted(s) == \A i, j \in DOMAIN s : i < j => Earlier(s[i], s[j])

LEMMA LoadedLists ==
  ASSUME NEW P \in SUBSET Plays, NEW cell
  PROVE  /\ Lists(Loaded(cell, P), PlaysOf(cell, P), cell[2])
         /\ Sorted(Loaded(cell, P))
         /\ \E m \in Nat : DOMAIN Loaded(cell, P) = 1..m
<1> DEFINE Q == PlaysOf(cell, P)
           m == Cardinality(Q)
           R == {e \in Q \X Q : Earlier(e[1], e[2])}
           s == Loaded(cell, P)
<1>1. \A q \in Q : /\ q \in Plays /\ q.id \in Nat /\ q.at \in Nat
                   /\ CellOf(q) = cell /\ q.day = cell[2]
  BY GridAssumption DEF PlaysOf, CellOf
<1>2. IsFiniteSet(Q) /\ m \in Nat
  <2>1. Q \subseteq Plays
    BY <1>1
  <2> HIDE DEF Q
  <2> QED
    BY <2>1, GridAssumption, FS_Subset, FS_CardinalityType
<1>3. \A p, q \in Q : p # q => p.id # q.id /\ p.at # q.at
  BY <1>1, GridAssumption
<1>4. \A p, q \in Q : <<p, q>> \in R <=> Earlier(p, q)
  OBVIOUS
<1>5. s = [k \in 1..m |-> CHOOSE p \in Q : Cardinality({q \in Q : Earlier(q, p)}) = k - 1]
  BY DEF Loaded
<1> HIDE DEF Q, R, s
<1>6. Orders(R, Q)
  BY <1>1, <1>3, <1>4 DEF Orders, Earlier
<1>7. \A p \in Q : Cardinality({q \in Q : Earlier(q, p)}) = Rank(Q, R, p)
  <2> TAKE p \in Q
  <2>1. {q \in Q : Earlier(q, p)} = {q \in Q : <<q, p>> \in R}
    BY <1>4
  <2> QED
    BY <2>1 DEF Rank
<1>8. \A k \in 1..m : s[k] \in Q /\ Rank(Q, R, s[k]) = k - 1
  <2> TAKE k \in 1..m
  <2>1. k - 1 \in 0..(m - 1)
    BY <1>2
  <2>2. \E p \in Q : Rank(Q, R, p) = k - 1
    BY <1>2, <1>6, <2>1, RanksFill
  <2>3. \E p \in Q : Cardinality({q \in Q : Earlier(q, p)}) = k - 1
    BY <1>7, <2>2
  <2>4. s[k] = CHOOSE p \in Q : Cardinality({q \in Q : Earlier(q, p)}) = k - 1
    BY <1>5
  <2>5. s[k] \in Q /\ Cardinality({q \in Q : Earlier(q, s[k])}) = k - 1
    BY <2>3, <2>4
  <2> QED
    BY <1>7, <2>5
<1>9. DOMAIN s = 1..m
  BY <1>5
<1>10. \A i, j \in 1..m : s[i] = s[j] => i = j
  BY <1>8
<1>11. \A q \in Q : \E k \in 1..m : s[k] = q
  <2> TAKE q \in Q
  <2>1. Rank(Q, R, q) \in 0..(m - 1)
    BY <1>2, <1>6, RanksFill
  <2>2. Rank(Q, R, q) + 1 \in 1..m
    BY <1>2, <2>1
  <2>3. s[Rank(Q, R, q) + 1] \in Q /\ Rank(Q, R, s[Rank(Q, R, q) + 1]) = Rank(Q, R, q)
    BY <1>8, <2>1, <2>2
  <2>4. s[Rank(Q, R, q) + 1] = q
    BY <1>2, <1>6, <2>3, RanksFill
  <2> QED
    BY <2>2, <2>4
<1>12. Q = {s[k] : k \in 1..m}
  BY <1>8, <1>11
<1>13. Lists(s, Q, cell[2])
  <2>1. IsFiniteSet(1..m)
    BY <1>2, FS_Interval
  <2>2. 1..m \subseteq Int
    OBVIOUS
  <2> QED
    BY <1>1, <1>3, <1>9, <1>10, <1>12, <2>1, <2>2 DEF Lists
<1>14. Sorted(s)
  <2> SUFFICES ASSUME NEW i \in 1..m, NEW j \in 1..m, i < j PROVE Earlier(s[i], s[j])
    BY <1>9 DEF Sorted
  <2>1. s[i] \in Q /\ s[j] \in Q /\ s[i] # s[j]
    BY <1>8, <1>10
  <2>2. Rank(Q, R, s[i]) < Rank(Q, R, s[j]) /\ Rank(Q, R, s[i]) \in Int /\ Rank(Q, R, s[j]) \in Int
    BY <1>8
  <2>3. <<s[j], s[i]>> \notin R
    BY <1>2, <1>6, <2>1, <2>2, RankGrows
  <2> QED
    BY <1>4, <1>6, <2>1, <2>3 DEF Orders
<1> QED
  BY <1>2, <1>9, <1>13, <1>14 DEF Q, s

\* A new play at the end of the list.
LEMMA AppendLists ==
  ASSUME NEW s, NEW Q, NEW day, Lists(s, Q, day), NEW m \in Nat, DOMAIN s = 1..m, s = [k \in 1..m |-> s[k]],
         NEW p, p \notin Q, p.id \in Nat, p.at \in Nat, p.day = day, \A q \in Q : q.at # p.at
  PROVE  Lists(Append(s, p), Q \cup {p}, day)
<1> DEFINE t == Append(s, p)
<1>1. s \in Seq(Q) /\ Len(s) = m
  BY DEF Lists
<1>2. DOMAIN t = 1..(m + 1) /\ (\A k \in 1..m : t[k] = s[k]) /\ t[m + 1] = p
  BY <1>1
<1> HIDE DEF t
<1>3. \A k \in 1..(m + 1) : k \in 1..m \/ k = m + 1
  OBVIOUS
<1>4. Q \cup {p} = {t[k] : k \in DOMAIN t}
  <2>1. \A k \in 1..m : s[k] \in Q
    BY DEF Lists
  <2>2. \A q \in Q : \E k \in 1..m : s[k] = q
    BY DEF Lists
  <2>3. 1..m \subseteq 1..(m + 1) /\ m + 1 \in 1..(m + 1)
    OBVIOUS
  <2> QED
    BY <1>2, <1>3, <2>1, <2>2, <2>3
<1>5. \A i, j \in DOMAIN t : t[i] = t[j] => i = j
  <2>1. \A k \in 1..m : s[k] \in Q /\ s[k] # p
    BY DEF Lists
  <2>2. \A i, j \in 1..m : s[i] = s[j] => i = j
    BY DEF Lists
  <2> QED
    BY <1>2, <1>3, <2>1, <2>2
<1>6. IsFiniteSet(DOMAIN t) /\ DOMAIN t \subseteq Int
  <2>1. 1 \in Int /\ m + 1 \in Int
    OBVIOUS
  <2> QED
    BY <1>2, <2>1, FS_Interval
<1>7. \A q \in Q \cup {p} : q.id \in Nat /\ q.at \in Nat /\ q.day = day
  BY DEF Lists
<1>8. \A a, b \in Q \cup {p} : a # b => a.at # b.at
  BY DEF Lists
<1> QED
  BY <1>4, <1>5, <1>6, <1>7, <1>8 DEF Lists, t

-----------------------------------------------------------------------------
(* The tables.                                                               *)

\* No play falls in that fraction of a second of a slot an operator may write.
NoneOnEdge == \A p \in Plays, w \in Bodies \cup Overrides : OffEdge(p, w)

\* The record of a closing in flight.
IsClosing(x) ==
  x = [op |-> x.op, play |-> x.play, cells |-> x.cells, wide |-> x.wide, met |-> x.met,
       next |-> x.next, rules |-> x.rules, over |-> x.over, seen |-> x.seen]

TablesOK ==
  /\ made \in Nat /\ DOMAIN rules \subseteq 1..made
  /\ \A i \in DOMAIN rules : rules[i] \in Bodies
  /\ DOMAIN over \subseteq Cells
  /\ \A c \in DOMAIN over : over[c] \in Overrides
  /\ present \subseteq born /\ born \subseteq Plays
  /\ \A d \in DOMAIN closing : IsClosing(closing[d]) /\ closing[d].play \in Plays

\* What the engines read of the tables is fit for them.
LEMMA LoadsOK ==
  ASSUME TablesOK, NEW cell
  PROVE  /\ RulesOK(LoadRules(cell)) /\ OverrideOK(LoadOverride(cell))
         /\ NoneOnEdge => \A p \in Plays : Clear(p, LoadRules(cell), LoadOverride(cell))
<1> DEFINE D == {i \in DOMAIN rules : rules[i].type = cell[1]}
<1>1. LoadRules(cell) = [i \in D |-> rules[i]]
  BY DEF LoadRules, Restrict
<1>2. IsFiniteSet(D)
  <2>1. D \subseteq 1..made
    BY DEF TablesOK
  <2>2. IsFiniteSet(1..made)
    BY FS_Interval DEF TablesOK
  <2> HIDE DEF D
  <2> QED
    BY <2>1, <2>2, FS_Subset
<1>3. \A i \in D : {rules[i].from, rules[i].to, rules[i].start, rules[i].end} \subseteq Int
                   /\ rules[i].n \in Nat
  BY GridAssumption DEF TablesOK
<1>4. RulesOK(LoadRules(cell))
  <2> HIDE DEF D
  <2> QED
    BY <1>1, <1>2, <1>3 DEF RulesOK
<1>5. OverrideOK(LoadOverride(cell))
  <2>1. \A o \in LoadOverride(cell) : cell \in DOMAIN over /\ o = over[cell]
    BY DEF LoadOverride
  <2> QED
    BY <2>1, GridAssumption DEF OverrideOK, TablesOK
<1>6. \A i \in DOMAIN LoadRules(cell) : LoadRules(cell)[i] \in Bodies
  BY <1>1 DEF TablesOK
<1>7. \A o \in LoadOverride(cell) : o \in Overrides
  BY DEF LoadOverride, TablesOK
<1>8. ASSUME NoneOnEdge, NEW p \in Plays PROVE Clear(p, LoadRules(cell), LoadOverride(cell))
  BY <1>6, <1>7, <1>8 DEF Clear, NoneOnEdge
<1> QED
  BY <1>4, <1>5, <1>8

LEMMA TablesInit == Init => TablesOK
  BY GridAssumption DEF Init, TablesOK

\* y is x but for the cells it has met, which grew.
Alike(x, y) ==
  /\ IsClosing(y)
  /\ y.op = x.op /\ y.play = x.play /\ y.cells = x.cells /\ y.wide = x.wide
  /\ y.next = x.next /\ y.rules = x.rules /\ y.over = x.over /\ y.seen = x.seen
  /\ x.met \subseteq y.met

LEMMA MeetAlike ==
  ASSUME NEW x, IsClosing(x), NEW S, NEW w
  PROVE  /\ Alike(x, Meet(x, S, w))
         /\ Meet(x, S, w).met = x.met \cup (IF w \/ x.wide THEN S \cap x.cells ELSE {})
<1> DEFINE m == x.met \cup (IF w \/ x.wide THEN S \cap x.cells ELSE {})
<1>1. Meet(x, S, w) = [x EXCEPT !.met = m]
  BY DEF Meet
<1>2. x.met \subseteq m
  OBVIOUS
<1> HIDE DEF m
<1>3. Meet(x, S, w) = [op |-> x.op, play |-> x.play, cells |-> x.cells, wide |-> x.wide, met |-> m,
                       next |-> x.next, rules |-> x.rules, over |-> x.over, seen |-> x.seen]
  BY <1>1 DEF IsClosing
<1>4. Alike(x, Meet(x, S, w)) /\ Meet(x, S, w).met = m
  BY <1>2, <1>3 DEF Alike, IsClosing
<1> QED
  BY <1>4 DEF m

LEMMA AllAlike ==
  ASSUME \A d \in DOMAIN closing : IsClosing(closing[d]), NEW S, NEW w, closing' = AllMeet(closing, S, w)
  PROVE  /\ DOMAIN closing' = DOMAIN closing
         /\ \A d \in DOMAIN closing :
              /\ Alike(closing[d], closing'[d])
              /\ closing'[d].met = closing[d].met \cup (IF w \/ closing[d].wide THEN S \cap closing[d].cells ELSE {})
<1>1. DOMAIN closing' = DOMAIN closing /\ \A d \in DOMAIN closing : closing'[d] = Meet(closing[d], S, w)
  BY DEF AllMeet
<1> QED
  BY <1>1, MeetAlike

\* The closings after a step: a new one, the one that reads on, those that stay.
LEMMA ClosingOpens ==
  ASSUME NEW op, NEW p, Open(op, p)
  PROVE  /\ DOMAIN closing' = DOMAIN closing \cup {p.day} /\ p.day \notin DOMAIN closing
         /\ \A d \in DOMAIN closing : closing'[d] = closing[d]
         /\ closing'[p.day] = [op |-> op, play |-> p, cells |-> {CellOf(p)}, wide |-> FALSE,
                               met |-> Met({CellOf(p)}, FALSE), next |-> "override",
                               rules |-> LoadRules(CellOf(p)), over |-> {}, seen |-> << >>]
         /\ IsClosing(closing'[p.day]) /\ closing'[p.day].play = p
<1> DEFINE x == [op |-> op, play |-> p, cells |-> {CellOf(p)}, wide |-> FALSE,
                 met |-> Met({CellOf(p)}, FALSE), next |-> "override",
                 rules |-> LoadRules(CellOf(p)), over |-> {}, seen |-> << >>]
<1>1. closing' = Put(closing, p.day, x) /\ p.day \notin DOMAIN closing
  BY DEF Open, Unlocked
<1>2. IsClosing(x) /\ x.play = p
  BY DEF IsClosing
<1> HIDE DEF x
<1>3. DOMAIN closing' = DOMAIN closing \cup {p.day} /\ closing'[p.day] = x
      /\ \A d \in DOMAIN closing : closing'[d] = closing[d]
  BY <1>1 DEF Put
<1> QED
  BY <1>1, <1>2, <1>3 DEF x

LEMMA ClosingReads ==
  ASSUME NEW e \in DOMAIN closing, IsClosing(closing[e]), ReadOverride(e) \/ ReadPlays(e)
  PROVE  /\ DOMAIN closing' = DOMAIN closing
         /\ \A d \in DOMAIN closing : d # e => closing'[d] = closing[d]
         /\ IsClosing(closing'[e])
         /\ closing'[e].op = closing[e].op /\ closing'[e].play = closing[e].play
         /\ closing'[e].cells = closing[e].cells /\ closing'[e].wide = closing[e].wide
         /\ closing'[e].met = closing[e].met /\ closing'[e].rules = closing[e].rules
         /\ \/ /\ closing[e].next = "override" /\ closing'[e].next = "plays"
               /\ closing'[e].over = LoadOverride(CellOf(closing[e].play))
            \/ /\ closing[e].next = "plays" /\ closing'[e].next = "commit"
               /\ closing'[e].over = closing[e].over
               /\ closing'[e].seen = [p \in PlaysOf(CellOf(closing[e].play), Stored(closing[e])) |-> cat[p]]
<1>1. CASE ReadOverride(e)
  <2> PICK ov : ov = LoadOverride(CellOf(closing[e].play))
    OBVIOUS
  <2>1. closing[e].next = "override" /\ closing' = [closing EXCEPT ![e].next = "plays", ![e].over = ov]
    BY <1>1 DEF ReadOverride
  <2>2. closing'[e] = [[closing[e] EXCEPT !.next = "plays"] EXCEPT !.over = ov]
        /\ DOMAIN closing' = DOMAIN closing /\ \A d \in DOMAIN closing : d # e => closing'[d] = closing[d]
    BY <2>1
  <2> PICK x : x = closing[e]
    OBVIOUS
  <2>3. closing'[e] = [op |-> x.op, play |-> x.play, cells |-> x.cells, wide |-> x.wide, met |-> x.met,
                       next |-> "plays", rules |-> x.rules, over |-> ov, seen |-> x.seen]
    BY <2>2 DEF IsClosing
  <2> QED
    BY <2>1, <2>2, <2>3 DEF IsClosing
<1>2. CASE ReadPlays(e)
  <2> PICK f : f = [p \in PlaysOf(CellOf(closing[e].play), Stored(closing[e])) |-> cat[p]]
    OBVIOUS
  <2>1. closing[e].next = "plays" /\ closing' = [closing EXCEPT ![e].next = "commit", ![e].seen = f]
    BY <1>2 DEF ReadPlays
  <2>2. closing'[e] = [[closing[e] EXCEPT !.next = "commit"] EXCEPT !.seen = f]
        /\ DOMAIN closing' = DOMAIN closing /\ \A d \in DOMAIN closing : d # e => closing'[d] = closing[d]
    BY <2>1
  <2> PICK x : x = closing[e]
    OBVIOUS
  <2>3. closing'[e] = [op |-> x.op, play |-> x.play, cells |-> x.cells, wide |-> x.wide, met |-> x.met,
                       next |-> "commit", rules |-> x.rules, over |-> x.over, seen |-> f]
    BY <2>2 DEF IsClosing
  <2> QED
    BY <2>1, <2>2, <2>3 DEF IsClosing
<1> QED
  BY <1>1, <1>2

LEMMA ClosingEnds ==
  ASSUME NEW e \in DOMAIN closing, Commit(e) \/ Rollback(e)
  PROVE  DOMAIN closing' = DOMAIN closing \ {e} /\ \A d \in DOMAIN closing' : closing'[d] = closing[d]
<1>1. closing' = Drop(closing, e)
  BY DEF Commit, Rollback
<1> QED
  BY <1>1 DEF Drop, Restrict

Edits ==
  \/ \E b \in Bodies : CreateRule(b) \/ \E i \in DOMAIN rules : UpdateRule(i, b)
  \/ \E i \in DOMAIN rules : DeleteRule(i)
  \/ \E cell \in Cells, o \in Overrides : UpsertOverride(cell, o)
  \/ \E cell \in DOMAIN over : DeleteOverride(cell)

LEMMA EditsEdit == Edits => \E r : Edit(r)
  BY DEF Edits, CreateRule, UpdateRule, DeleteRule, UpsertOverride, DeleteOverride

LEMMA TablesNext == TablesOK /\ [Next]_vars => TablesOK'
<1> SUFFICES ASSUME TablesOK, [Next]_vars PROVE TablesOK'
  OBVIOUS
<1> DEFINE Grids == /\ made \in Nat /\ DOMAIN rules \subseteq 1..made
                    /\ \A i \in DOMAIN rules : rules[i] \in Bodies
                    /\ DOMAIN over \subseteq Cells
                    /\ \A c \in DOMAIN over : over[c] \in Overrides
           Rows == present \subseteq born /\ born \subseteq Plays
           Closings == \A d \in DOMAIN closing : IsClosing(closing[d]) /\ closing[d].play \in Plays
<1> USE DEF TablesOK
<1>a. ASSUME UNCHANGED grid, UNCHANGED detections, Closings' PROVE TablesOK'
  BY <1>a DEF grid, detections
<1>b. ASSUME NEW S, NEW w, closing' = AllMeet(closing, S, w) PROVE Closings'
  BY <1>b, AllAlike DEF Alike
<1>1. ASSUME NEW p \in Moving, NEW op, Open(op, p) PROVE TablesOK'
  <2>1. UNCHANGED grid /\ UNCHANGED detections
    BY <1>1 DEF Open
  <2>2. p \in Plays /\ (\A d \in DOMAIN closing' : d = p.day \/ d \in DOMAIN closing)
    <3>1. DOMAIN closing' = DOMAIN closing \cup {p.day}
      BY <1>1, ClosingOpens
    <3> QED
      BY <3>1, GridAssumption
  <2>3. ASSUME NEW d \in DOMAIN closing' PROVE IsClosing(closing'[d]) /\ closing'[d].play \in Plays
    <3>1. CASE d = p.day
      <4>1. IsClosing(closing'[d]) /\ closing'[d].play = p
        BY <1>1, <3>1, ClosingOpens
      <4> QED
        BY <2>2, <4>1
    <3>2. CASE d \in DOMAIN closing
      <4>1. closing'[d] = closing[d]
        BY <1>1, <3>2, ClosingOpens
      <4> QED
        BY <3>2, <4>1
    <3> QED
      BY <2>2, <3>1, <3>2
  <2>4. Closings'
    BY <2>3
  <2> QED
    BY <1>a, <2>1, <2>4
<1>2. ASSUME NEW d \in DOMAIN closing, ReadOverride(d) \/ ReadPlays(d) PROVE TablesOK'
  <2>1. UNCHANGED grid /\ UNCHANGED detections
    BY <1>2 DEF ReadOverride, ReadPlays
  <2>2. Closings'
    BY <1>2, ClosingReads
  <2> QED
    BY <1>a, <2>1, <2>2
<1>3. ASSUME NEW d \in DOMAIN closing, Commit(d) \/ Rollback(d) PROVE TablesOK'
  <2>1. Closings'
    BY <1>3, ClosingEnds
  <2>2. UNCHANGED grid
    BY <1>3 DEF Commit, Rollback
  <2>3. Rows'
    BY <1>3 DEF Commit, Rollback, detections
  <2> QED
    BY <2>1, <2>2, <2>3 DEF grid
<1>4. ASSUME Edits PROVE TablesOK'
  <2>1. Rows' /\ Closings'
    BY <1>4, EditsEdit DEF Edit, detections
  <2>2. Grids'
    <3>1. ASSUME NEW b \in Bodies, CreateRule(b) PROVE Grids'
      <4>1. made' = made + 1 /\ rules' = Put(rules, made', b) /\ UNCHANGED over
        BY <3>1 DEF CreateRule
      <4>2. DOMAIN rules' = DOMAIN rules \cup {made'}
            /\ \A i \in DOMAIN rules' : rules'[i] = IF i \in DOMAIN rules THEN rules[i] ELSE b
        BY <4>1 DEF Put
      <4> QED
        BY <4>1, <4>2
    <3>2. ASSUME NEW b \in Bodies, NEW i \in DOMAIN rules, UpdateRule(i, b) PROVE Grids'
      BY <3>2 DEF UpdateRule
    <3>3. ASSUME NEW i \in DOMAIN rules, DeleteRule(i) PROVE Grids'
      BY <3>3 DEF DeleteRule, Drop, Restrict
    <3>4. ASSUME NEW cell \in Cells, NEW o \in Overrides, UpsertOverride(cell, o) PROVE Grids'
      <4>1. over' = Put(over, cell, o) /\ UNCHANGED <<rules, made>>
        BY <3>4 DEF UpsertOverride
      <4>2. DOMAIN over' = DOMAIN over \cup {cell}
            /\ \A c \in DOMAIN over' : over'[c] = IF c = cell THEN o ELSE over[c]
        BY <4>1 DEF Put
      <4> QED
        BY <4>1, <4>2
    <3>5. ASSUME NEW cell \in DOMAIN over, DeleteOverride(cell) PROVE Grids'
      BY <3>5 DEF DeleteOverride, Drop, Restrict
    <3> QED
      BY <1>4, <3>1, <3>2, <3>3, <3>4, <3>5 DEF Edits
  <2> QED
    BY <2>1, <2>2
<1>5. ASSUME NEW k \in DOMAIN asked, Classify(k) \/ NeverStarts(k) PROVE TablesOK'
  <2>1. UNCHANGED grid /\ UNCHANGED detections
    BY <1>5 DEF Classify, NeverStarts, Lose
  <2>2. \E S, w : closing' = AllMeet(closing, S, w)
    BY <1>5 DEF Classify, NeverStarts, Lose
  <2> QED
    BY <1>a, <1>b, <2>1, <2>2
<1>6. ASSUME NEW k \in DOMAIN running, Apply(k) PROVE TablesOK'
  BY <1>6 DEF Apply, grid
<1>7. ASSUME NEW k \in DOMAIN running, NeverCommits(k) PROVE TablesOK'
  <2>1. UNCHANGED grid /\ UNCHANGED detections
    BY <1>7 DEF NeverCommits, Lose
  <2>2. closing' = AllMeet(closing, running[k].cells, TRUE)
    BY <1>7 DEF NeverCommits, Lose
  <2> QED
    BY <1>a, <1>b, <2>1, <2>2
<1>8. CASE UNCHANGED vars
  BY <1>8 DEF vars, grid, detections
<1> QED
  BY <1>1, <1>2, <1>3, <1>4, <1>5, <1>6, <1>7, <1>8 DEF Next, Edits

-----------------------------------------------------------------------------
(* The engines agree.                                                        *)

LEMMA TablesAgree ==
  ASSUME NoneOnEdge, TablesOK PROVE EnginesAgree
<1> SUFFICES ASSUME NEW cell \in Cells, NEW i \in DOMAIN Loaded(cell, present)
             PROVE  Go(cell, Loaded(cell, present))[i] = Sql(Loaded(cell, present)[i], present)
  BY DEF EnginesAgree
<1> DEFINE s == Loaded(cell, present)
           Q == PlaysOf(cell, present)
<1>1. present \in SUBSET Plays
  BY DEF TablesOK
<1>2. Lists(s, Q, cell[2])
  BY <1>1, LoadedLists
<1>3. RulesOK(LoadRules(cell)) /\ OverrideOK(LoadOverride(cell))
  BY LoadsOK
<1>4. cell[2] \in Int /\ {Period.from, Period.to} \subseteq Int
  BY GridAssumption DEF Cells
<1>5. \A q \in Q : Clear(q, LoadRules(cell), LoadOverride(cell)) /\ CellOf(q) = cell
  BY <1>1, LoadsOK DEF PlaysOf
<1>6. s[i] \in Q
  BY <1>2 DEF Lists
<1> HIDE DEF Q, s
<1>7. i \in DOMAIN s
  BY DEF s
<1>8. GoSettle(cell[2], s, Period, LoadRules(cell), LoadOverride(cell))[i]
      = Classified(s[i], Q, Period, LoadRules(cell), LoadOverride(cell))
  BY <1>2, <1>3, <1>4, <1>5, <1>7, EnginesMeet
<1>9. CellOf(s[i]) = cell
  BY <1>5, <1>6
<1>10. Sql(s[i], present) = Classified(s[i], Q, Period, LoadRules(cell), LoadOverride(cell))
  BY <1>9 DEF Sql, Q
<1> QED
  BY <1>8, <1>10 DEF Go, s

\* The Go and the SQL engine give every play the same category, whatever the
\* edits, arrivals and departures that led to the tables ("DEVEM concordar bit a
\* bit", distribution_rules.go), as long as no play falls in the
\* fraction of a second after the tolerance of a slot.
THEOREM EnginesAlwaysAgree ==
  ASSUME NoneOnEdge
  PROVE  Spec => []EnginesAgree
<1>1. TablesOK => EnginesAgree
  BY TablesAgree
<1> QED
  BY <1>1, TablesInit, TablesNext, PTL DEF Spec

LEMMA GoSettles ==
  ASSUME NEW day, NEW cmp, NEW R, RulesOK(R), NEW ov, OverrideOK(ov),
         NEW s, NEW Q, Lists(s, Q, day), Sorted(s), NEW m \in Nat, DOMAIN s = 1..m
  PROVE  LET P == DOMAIN s
             X == {i \in P : OutDate(s[i], cmp, R)}
             W == {i \in P : InAnyWindow(s[i], R, ov)}
         IN  GoSettle(day, s, cmp, R, ov) = Settle(Goal(day, R, ov), P, W, X)
<1> DEFINE X == {i \in DOMAIN s : OutDate(s[i], cmp, R)}
           W == {i \in DOMAIN s : InAnyWindow(s[i], R, ov)}
           V == {i \in DOMAIN s \ X : InAnyWindow(s[i], R, ov)}
           n == Goal(day, R, ov)
<1>1. n \in Nat
  BY GoalType
<1>2. V = Competing(DOMAIN s, W, X)
  BY DEF Competing
<1>3. /\ IsFiniteSet(DOMAIN s) /\ DOMAIN s \subseteq Int
      /\ \A i \in DOMAIN s : s[i].at \in Nat
  BY DEF Lists
<1>4. IsFiniteSet(V) /\ V \subseteq DOMAIN s
  BY <1>3, FS_Subset
<1>5. ASSUME NEW i \in DOMAIN s, NEW j \in DOMAIN s PROVE Before(s, j, i) <=> j < i
  <2>1. (i < j => Earlier(s[i], s[j])) /\ (j < i => Earlier(s[j], s[i]))
    BY DEF Sorted
  <2>2. (i < j => s[i].at <= s[j].at) /\ (j < i => s[j].at <= s[i].at)
    BY <1>3, <2>1 DEF Earlier
  <2>3. s[i].at \in Nat /\ s[j].at \in Nat /\ i \in Int /\ j \in Int
    BY <1>3
  <2> QED
    BY <2>2, <2>3 DEF Before
<1>6. \A i \in DOMAIN s : GoSettle(day, s, cmp, R, ov)[i]
                          = IF i \in X THEN "out_date"
                            ELSE IF i \in V
                                 THEN IF Cardinality({j \in V : Before(s, j, i)}) < n THEN "in_slot" ELSE "bonus"
                                 ELSE IF Cardinality(V) < n THEN "out_slot" ELSE "bonus"
  <2> TAKE i \in DOMAIN s
  <2> QED
    BY <1>3, GoVerdict
<1>7. \A i \in V : RowNumber(i, V) <= n <=> Cardinality({j \in V : Before(s, j, i)}) < n
  <2> TAKE i \in V
  <2> DEFINE A == {j \in V : Before(s, j, i)}
  <2>1. {q \in V : q <= i} = A \cup {i} /\ i \notin A /\ A \subseteq V
    BY <1>3, <1>4, <1>5
  <2> HIDE DEF A
  <2>2. IsFiniteSet(A) /\ Cardinality(A) \in Nat
    BY <1>4, <2>1, FS_Subset, FS_CardinalityType
  <2>3. RowNumber(i, V) = Cardinality(A) + 1
    BY <2>1, <2>2, FS_AddElement DEF RowNumber
  <2>4. RowNumber(i, V) <= n <=> Cardinality(A) < n
    BY <1>1, <2>2, <2>3
  <2> QED
    BY <2>4 DEF A
<1>8. Settle(n, DOMAIN s, W, X)
      = [i \in DOMAIN s |->
           IF i \in X THEN "out_date"
           ELSE IF i \in W
                THEN IF RowNumber(i, V) <= n THEN "in_slot" ELSE "bonus"
                ELSE IF Cardinality(V) < n THEN "out_slot" ELSE "bonus"]
  BY <1>2 DEF Settle
<1>9. \A i \in DOMAIN s : i \notin X => (i \in V <=> i \in W)
  OBVIOUS
<1>10. GoSettle(day, s, cmp, R, ov) = [i \in DOMAIN s |-> GoSettle(day, s, cmp, R, ov)[i]]
  BY DEF GoSettle
<1> HIDE DEF n, X, W, V
<1>11. \A i \in DOMAIN s : GoSettle(day, s, cmp, R, ov)[i] = Settle(n, DOMAIN s, W, X)[i]
  BY <1>6, <1>7, <1>8, <1>9
<1>12. GoSettle(day, s, cmp, R, ov) = Settle(n, DOMAIN s, W, X)
  BY <1>8, <1>10, <1>11
<1> QED
  BY <1>12 DEF X, W, n

LEMMA TablesSettle ==
  ASSUME TablesOK PROVE EnginesImplementSettle
<1> SUFFICES ASSUME NEW cell \in Cells
             PROVE  LET plays == Loaded(cell, present)
                        R == LoadRules(cell)
                        ov == LoadOverride(cell)
                        P == DOMAIN plays
                        X == {i \in P : OutDate(plays[i], Period, R)}
                        W == {i \in P : InAnyWindow(plays[i], R, ov)}
                    IN  Go(cell, plays) = Settle(Goal(cell[2], R, ov), P, W, X)
  BY DEF EnginesImplementSettle
<1>1. present \in SUBSET Plays
  BY DEF TablesOK
<1>2. /\ Lists(Loaded(cell, present), PlaysOf(cell, present), cell[2])
      /\ Sorted(Loaded(cell, present))
      /\ \E m \in Nat : DOMAIN Loaded(cell, present) = 1..m
  BY <1>1, LoadedLists
<1>3. RulesOK(LoadRules(cell)) /\ OverrideOK(LoadOverride(cell))
  BY LoadsOK
<1> QED
  BY <1>2, <1>3, GoSettles DEF Go

\* The engines compute the quota rule of Settlement over the positions of the
\* plays: what CellDay and its theorems assume of them, fractions or not.
THEOREM EnginesAlwaysSettle == Spec => []EnginesImplementSettle
<1>1. TablesOK => EnginesImplementSettle
  BY TablesSettle
<1> QED
  BY <1>1, TablesInit, TablesNext, PTL DEF Spec

-----------------------------------------------------------------------------
(* Transactions in flight.                                                   *)

\* The record of a recategorisation in flight.
IsRun(x) ==
  x = [cells |-> x.cells, wide |-> x.wide, met |-> x.met, keys |-> x.keys, verdict |-> x.verdict]

RunAlike(x, y) ==
  /\ IsRun(y)
  /\ y.cells = x.cells /\ y.wide = x.wide /\ y.keys = x.keys /\ y.verdict = x.verdict
  /\ x.met \subseteq y.met

LEMMA MeetRunAlike ==
  ASSUME NEW x, IsRun(x), NEW S, NEW w
  PROVE  /\ RunAlike(x, Meet(x, S, w))
         /\ Meet(x, S, w).met = x.met \cup (IF w \/ x.wide THEN S \cap x.cells ELSE {})
<1> DEFINE m == x.met \cup (IF w \/ x.wide THEN S \cap x.cells ELSE {})
<1>1. Meet(x, S, w) = [x EXCEPT !.met = m]
  BY DEF Meet
<1>2. x.met \subseteq m
  OBVIOUS
<1> HIDE DEF m
<1>3. Meet(x, S, w) = [cells |-> x.cells, wide |-> x.wide, met |-> m, keys |-> x.keys,
                       verdict |-> x.verdict]
  BY <1>1 DEF IsRun
<1>4. RunAlike(x, Meet(x, S, w)) /\ Meet(x, S, w).met = m
  BY <1>2, <1>3 DEF RunAlike, IsRun
<1> QED
  BY <1>4 DEF m

\* Closings are the only ones on their cell-day but for the wide
\* recategorisations, and every transaction has met those it shares one with.
ClosingOK(d, x) ==
  /\ d = x.play.day /\ x.cells = {CellOf(x.play)} /\ x.wide = FALSE
  /\ x.op \in {"insert", "leave", "return"}
  /\ x.op = "insert" => x.play \notin present
  /\ RulesOK(x.rules) /\ OverrideOK(x.over)
  /\ \A p \in Plays : Clear(p, x.rules, x.over)
  /\ x.next = "commit" => x.seen = [p \in PlaysOf(CellOf(x.play), Stored(x)) |-> x.seen[p]]

RunOK(x) ==
  /\ IsRun(x)
  /\ x.wide \in BOOLEAN
  /\ ~ x.wide => \A c \in x.cells : c[2] \in x.keys
  /\ \A p \in DOMAIN x.verdict : CellOf(p) \in x.cells

Apart ==
  /\ \A k \in DOMAIN running, d \in DOMAIN closing :
       /\ d \notin running[k].keys
       /\ running[k].cells \cap closing[d].cells \subseteq running[k].met \cap closing[d].met
  /\ \A k, j \in DOMAIN running :
       k # j => /\ running[k].keys \cap running[j].keys = {}
                /\ running[k].cells \cap running[j].cells \subseteq running[k].met \cap running[j].met

FlightsOK ==
  /\ edits \in Nat
  /\ DOMAIN asked \subseteq 1..edits /\ DOMAIN running \subseteq 1..edits
  /\ DOMAIN asked \cap DOMAIN running = {}
  /\ \A d \in DOMAIN closing : ClosingOK(d, closing[d])
  /\ \A k \in DOMAIN running : RunOK(running[k])
  /\ Apart

\* A recategorisation of the cell-day is asked and has not started.
Asked(cell) == \E k \in DOMAIN asked : cell \in Scope(asked[k])
Inside(cell) == cell[2] \in Period.from..Period.to

\* What a closing that has met nobody has read of its cell-day is still so, or a
\* recategorisation of it has yet to start, or the rules do not matter there.
ClosingTells(x) ==
  LET c == CellOf(x.play)
  IN  c \notin x.met =>
        /\ \/ Asked(c)
           \/ ~ Inside(c)
           \/ /\ x.rules = LoadRules(c)
              /\ x.next # "override" => x.over = LoadOverride(c)
        /\ x.next = "commit" => \A p \in DOMAIN x.seen : x.seen[p] = cat[p]

\* So is the verdict of a recategorisation in flight.
Verdict(x, c) == \A p \in present : CellOf(p) = c => p \in DOMAIN x.verdict /\ x.verdict[p] = Sql(p, present)
RunTells(x) == \A c \in x.cells \ x.met : Asked(c) \/ Verdict(x, c)

Tells ==
  /\ \A d \in DOMAIN closing : ClosingTells(closing[d])
  /\ \A k \in DOMAIN running : RunTells(running[k])

-----------------------------------------------------------------------------
(* How a step may change them.                                               *)

LEMMA RunsMeet ==
  ASSUME \A k \in DOMAIN running : IsRun(running[k]), NEW S, NEW w
  PROVE  LET f == AllMeet(running, S, w)
         IN  /\ DOMAIN f = DOMAIN running
             /\ \A k \in DOMAIN running :
                  /\ RunAlike(running[k], f[k])
                  /\ f[k].met = running[k].met \cup (IF w \/ running[k].wide THEN S \cap running[k].cells ELSE {})
<1> DEFINE f == AllMeet(running, S, w)
<1>1. DOMAIN f = DOMAIN running /\ \A k \in DOMAIN running : f[k] = Meet(running[k], S, w)
  BY DEF AllMeet
<1> HIDE DEF f
<1>2. \A k \in DOMAIN running :
        /\ RunAlike(running[k], f[k])
        /\ f[k].met = running[k].met \cup (IF w \/ running[k].wide THEN S \cap running[k].cells ELSE {})
  BY <1>1, MeetRunAlike
<1> QED
  BY <1>1, <1>2 DEF f

LEMMA MetHas ==
  ASSUME NEW S, NEW w
  PROVE  /\ \A d \in DOMAIN closing : w \/ closing[d].wide => S \cap closing[d].cells \subseteq Met(S, w)
         /\ \A k \in DOMAIN running : w \/ running[k].wide => S \cap running[k].cells \subseteq Met(S, w)
<1>1. \A x \in InFlight : w \/ x.wide => S \cap x.cells \subseteq Met(S, w)
  BY DEF Met
<1> QED
  BY <1>1 DEF InFlight

\* A new recategorisation.
LEMMA RunStarts ==
  ASSUME FlightsOK, NEW k \in DOMAIN asked, Classify(k)
  PROVE  LET S == Scope(asked[k])
             w == Wide(asked[k])
         IN  /\ DOMAIN running' = DOMAIN running \cup {k} /\ k \notin DOMAIN running
             /\ \A j \in DOMAIN running :
                  /\ RunAlike(running[j], running'[j])
                  /\ running'[j].met = running[j].met \cup (IF w \/ running[j].wide THEN S \cap running[j].cells ELSE {})
             /\ running'[k] = [cells |-> S, wide |-> w, met |-> Met(S, w), keys |-> RecatKeys(asked[k]),
                               verdict |-> [p \in {q \in present : CellOf(q) \in S} |-> Sql(p, present)]]
             /\ \A d \in RecatKeys(asked[k]) : Unlocked(d)
             /\ closing' = AllMeet(closing, S, w) /\ asked' = Drop(asked, k)
             /\ UNCHANGED <<grid, detections, exposed>>
<1> DEFINE S == Scope(asked[k])
           w == Wide(asked[k])
           f == AllMeet(running, S, w)
           x == [cells |-> S, wide |-> w, met |-> Met(S, w), keys |-> RecatKeys(asked[k]),
                 verdict |-> [p \in {q \in present : CellOf(q) \in S} |-> Sql(p, present)]]
<1>1. running' = Put(f, k, x) /\ k \notin DOMAIN running
  BY DEF Classify, FlightsOK
<1>2. /\ DOMAIN f = DOMAIN running
      /\ \A j \in DOMAIN running :
           /\ RunAlike(running[j], f[j])
           /\ f[j].met = running[j].met \cup (IF w \/ running[j].wide THEN S \cap running[j].cells ELSE {})
  <2>1. \A j \in DOMAIN running : IsRun(running[j])
    BY DEF FlightsOK, RunOK
  <2> QED
    BY <2>1, RunsMeet
<1>3. /\ \A d \in RecatKeys(asked[k]) : Unlocked(d)
      /\ closing' = AllMeet(closing, S, w) /\ asked' = Drop(asked, k)
      /\ UNCHANGED <<grid, detections, exposed>>
  BY DEF Classify
<1> HIDE DEF f, x, S, w
<1>4. DOMAIN running' = DOMAIN running \cup {k} /\ running'[k] = x
      /\ \A j \in DOMAIN running : running'[j] = f[j]
  BY <1>1, <1>2 DEF Put
<1>5. \A j \in DOMAIN running :
        /\ RunAlike(running[j], running'[j])
        /\ running'[j].met = running[j].met \cup (IF w \/ running[j].wide THEN S \cap running[j].cells ELSE {})
  BY <1>2, <1>4
<1> QED
  BY <1>1, <1>3, <1>4, <1>5 DEF x, S, w

\* A recategorisation that ends leaves the others, met by it when it failed.
LEMMA RunCommits ==
  ASSUME FlightsOK, NEW k \in DOMAIN running, Apply(k)
  PROVE  /\ DOMAIN running' = DOMAIN running \ {k}
         /\ \A j \in DOMAIN running' : RunAlike(running[j], running'[j])
<1>1. running' = Drop(running, k) /\ \A j \in DOMAIN running : IsRun(running[j])
  BY DEF Apply, FlightsOK, RunOK
<1>2. DOMAIN running' = DOMAIN running \ {k} /\ \A j \in DOMAIN running' : running'[j] = running[j]
  BY <1>1 DEF Drop, Restrict
<1> QED
  BY <1>1, <1>2 DEF RunAlike

LEMMA RunIsLost ==
  ASSUME FlightsOK, NEW k \in DOMAIN running, NeverCommits(k)
  PROVE  /\ DOMAIN running' = DOMAIN running \ {k}
         /\ \A j \in DOMAIN running' :
              /\ RunAlike(running[j], running'[j])
              /\ running[k].cells \cap running[j].cells \subseteq running'[j].met
<1> DEFINE f == AllMeet(running, running[k].cells, TRUE)
<1>1. running' = Drop(f, k)
  BY DEF NeverCommits
<1>2. /\ DOMAIN f = DOMAIN running
      /\ \A j \in DOMAIN running :
           /\ RunAlike(running[j], f[j])
           /\ f[j].met = running[j].met \cup (running[k].cells \cap running[j].cells)
  <2>1. \A j \in DOMAIN running : IsRun(running[j])
    BY DEF FlightsOK, RunOK
  <2> QED
    BY <2>1, RunsMeet
<1> HIDE DEF f
<1>3. DOMAIN running' = DOMAIN running \ {k} /\ \A j \in DOMAIN running' : running'[j] = f[j]
  BY <1>1, <1>2 DEF Drop, Restrict
<1> QED
  BY <1>2, <1>3

\* Steps that start or lose none.
LEMMA RunsKeep ==
  ASSUME FlightsOK, NEW S, NEW w, running' = AllMeet(running, S, w)
  PROVE  /\ DOMAIN running' = DOMAIN running
         /\ \A k \in DOMAIN running :
              /\ RunAlike(running[k], running'[k])
              /\ running'[k].met = running[k].met \cup (IF w \/ running[k].wide THEN S \cap running[k].cells ELSE {})
<1>1. \A j \in DOMAIN running : IsRun(running[j])
  BY DEF FlightsOK, RunOK
<1> QED
  BY <1>1, RunsMeet

-----------------------------------------------------------------------------
(* They stay apart.                                                          *)

LEMMA ClosingStays ==
  ASSUME NEW d, NEW x, NEW y, ClosingOK(d, x), Alike(x, y), UNCHANGED present
  PROVE  ClosingOK(d, y)'
<1>1. Stored(y)' = Stored(x)
  BY DEF Stored, Alike
<1> QED
  BY <1>1 DEF ClosingOK, Alike

LEMMA RunStays ==
  ASSUME NEW x, NEW y, RunOK(x), RunAlike(x, y)
  PROVE  RunOK(y)
  BY DEF RunOK, RunAlike

\* The cell of a closing is of its day.
LEMMA DayOfClosing ==
  ASSUME NEW d, NEW x, ClosingOK(d, x)
  PROVE  CellOf(x.play)[2] = d /\ \A c \in x.cells : c = CellOf(x.play) /\ c[2] = d
  BY DEF ClosingOK, CellOf

LEMMA FlightsOpen ==
  ASSUME NoneOnEdge, TablesOK, FlightsOK, NEW p \in Moving,
         NEW op \in {"insert", "leave", "return"}, Open(op, p)
  PROVE  FlightsOK'
<1> PICK c : c = CellOf(p)
  OBVIOUS
<1> PICK x : x = [op |-> op, play |-> p, cells |-> {c}, wide |-> FALSE, met |-> Met({c}, FALSE),
                  next |-> "override", rules |-> LoadRules(c), over |-> {}, seen |-> << >>]
  OBVIOUS
<1>1. /\ DOMAIN closing' = DOMAIN closing \cup {p.day} /\ p.day \notin DOMAIN closing
      /\ \A d \in DOMAIN closing : closing'[d] = closing[d]
      /\ closing'[p.day] = x
  <2>1. /\ DOMAIN closing' = DOMAIN closing \cup {p.day} /\ p.day \notin DOMAIN closing
        /\ \A d \in DOMAIN closing : closing'[d] = closing[d]
    BY ClosingOpens
  <2>2. closing'[p.day] = [op |-> op, play |-> p, cells |-> {CellOf(p)}, wide |-> FALSE,
                           met |-> Met({CellOf(p)}, FALSE), next |-> "override",
                           rules |-> LoadRules(CellOf(p)), over |-> {}, seen |-> << >>]
    BY ClosingOpens
  <2> QED
    BY <2>1, <2>2, Zenon
<1>2. /\ UNCHANGED grid /\ UNCHANGED detections /\ asked' = asked
      /\ running' = AllMeet(running, {c}, FALSE)
      /\ op = "insert" => p \notin born
      /\ \A k \in DOMAIN running : p.day \notin running[k].keys
  BY DEF Open, Unlocked
<1>3. UNCHANGED <<edits, present>>
  BY <1>2 DEF grid, detections
<1>4. /\ DOMAIN running' = DOMAIN running
      /\ \A k \in DOMAIN running :
           /\ RunAlike(running[k], running'[k])
           /\ running'[k].met = running[k].met \cup (IF running[k].wide THEN {c} \cap running[k].cells ELSE {})
  BY <1>2, RunsKeep
<1>5. \A d \in DOMAIN closing' : ClosingOK(d, closing[d])'
  <2>1. ASSUME NEW d \in DOMAIN closing PROVE ClosingOK(d, closing[d])'
    <3> PICK y : y = closing[d]
      OBVIOUS
    <3>1. ClosingOK(d, y) /\ Alike(y, y) /\ y = closing'[d]
      BY <1>1, <2>1 DEF FlightsOK, TablesOK, Alike
    <3>2. ClosingOK(d, y)'
      BY <1>3, <3>1, ClosingStays
    <3> QED
      BY <3>1, <3>2 DEF ClosingOK
  <2>2. ClosingOK(p.day, x)'
    <3>1. RulesOK(x.rules) /\ \A q \in Plays : Clear(q, x.rules, x.over)
      BY LoadsOK DEF Clear
    <3>2. x.op = "insert" => x.play \notin present'
      BY <1>2, <1>3 DEF TablesOK
    <3> QED
      BY <3>1, <3>2 DEF ClosingOK, OverrideOK
  <2>3. ClosingOK(p.day, closing[p.day])'
    BY <1>1, <2>2 DEF ClosingOK
  <2> QED
    BY <1>1, <2>1, <2>3
<1>6. \A k \in DOMAIN running' : RunOK(running[k])'
  <2> TAKE k \in DOMAIN running'
  <2>1. RunOK(running'[k])
    BY <1>4, RunStays DEF FlightsOK
  <2> QED
    BY <2>1 DEF RunOK
<1>7. Apart'
  <2>1. ASSUME NEW k \in DOMAIN running, NEW d \in DOMAIN closing'
        PROVE  /\ d \notin running'[k].keys
               /\ running'[k].cells \cap closing'[d].cells \subseteq running'[k].met \cap closing'[d].met
    <3>1. CASE d \in DOMAIN closing
      BY <1>1, <1>4, <2>1, <3>1 DEF FlightsOK, Apart, RunAlike
    <3>2. CASE d = p.day
      <4>1. d \notin running'[k].keys
        BY <1>2, <1>4, <3>2 DEF RunAlike
      <4>2. c \in running[k].cells => running[k].wide
        <5>1. c[2] = p.day
          BY DEF CellOf
        <5> QED
          BY <1>2, <5>1 DEF FlightsOK, RunOK
      <4>3. c \in running[k].cells => c \in running'[k].met /\ c \in x.met
        <5>1. running[k].wide => {c} \cap running[k].cells \subseteq Met({c}, FALSE)
          BY MetHas
        <5> QED
          BY <1>4, <4>2, <5>1
      <4>4. running'[k].cells = running[k].cells
        BY <1>4 DEF RunAlike
      <4>5. closing'[d] = x /\ x.cells = {c}
        BY <1>1, <3>2
      <4> QED
        BY <4>1, <4>3, <4>4, <4>5
    <3> QED
      BY <1>1, <3>1, <3>2
  <2>2. ASSUME NEW k \in DOMAIN running, NEW j \in DOMAIN running, k # j
        PROVE  /\ running'[k].keys \cap running'[j].keys = {}
               /\ running'[k].cells \cap running'[j].cells \subseteq running'[k].met \cap running'[j].met
    BY <1>4, <2>2 DEF FlightsOK, Apart, RunAlike
  <2> QED
    BY <1>4, <2>1, <2>2 DEF Apart
<1> QED
  BY <1>2, <1>3, <1>4, <1>5, <1>6, <1>7 DEF FlightsOK

LEMMA FlightsRead ==
  ASSUME NoneOnEdge, TablesOK, FlightsOK, NEW e \in DOMAIN closing, ReadOverride(e) \/ ReadPlays(e)
  PROVE  FlightsOK'
<1> PICK x : x = closing[e]
  OBVIOUS
<1> PICK y : y = closing'[e]
  OBVIOUS
<1>1. /\ DOMAIN closing' = DOMAIN closing
      /\ \A d \in DOMAIN closing : d # e => closing'[d] = closing[d]
      /\ IsClosing(y)
      /\ y.op = x.op /\ y.play = x.play /\ y.cells = x.cells /\ y.wide = x.wide
      /\ y.met = x.met /\ y.rules = x.rules
      /\ \/ x.next = "override" /\ y.next = "plays" /\ y.over = LoadOverride(CellOf(x.play))
         \/ /\ x.next = "plays" /\ y.next = "commit" /\ y.over = x.over
            /\ y.seen = [p \in PlaysOf(CellOf(x.play), Stored(x)) |-> cat[p]]
  BY ClosingReads DEF TablesOK
<1>2. UNCHANGED grid /\ UNCHANGED detections /\ UNCHANGED <<asked, running>>
  BY DEF ReadOverride, ReadPlays
<1>3. UNCHANGED <<edits, present>>
  BY <1>2 DEF grid, detections
<1>4. ClosingOK(e, x)
  BY DEF FlightsOK
<1>5. ClosingOK(e, y)'
  <2>1. OverrideOK(y.over) /\ \A p \in Plays : Clear(p, y.rules, y.over)
    <3>1. CASE y.over = x.over
      BY <1>1, <1>4, <3>1 DEF ClosingOK
    <3>2. CASE y.over = LoadOverride(CellOf(x.play))
      <4>1. OverrideOK(y.over) /\ \A p \in Plays : Clear(p, LoadRules(CellOf(x.play)), y.over)
        BY <3>2, LoadsOK
      <4> QED
        BY <1>1, <1>4, <4>1 DEF ClosingOK, Clear
    <3> QED
      BY <1>1, <3>1, <3>2
  <2>2. Stored(y)' = Stored(x)
    BY <1>1, <1>3 DEF Stored
  <2>3. y.next = "commit" => y.seen = [p \in PlaysOf(CellOf(y.play), Stored(y)') |-> y.seen[p]]
    <3>1. y.next = "commit" => y.seen = [p \in PlaysOf(CellOf(x.play), Stored(x)) |-> cat[p]]
      BY <1>1
    <3> QED
      BY <1>1, <2>2, <3>1
  <2> QED
    BY <1>1, <1>3, <1>4, <2>1, <2>3 DEF ClosingOK
<1>6. \A d \in DOMAIN closing' : ClosingOK(d, closing[d])'
  <2> TAKE d \in DOMAIN closing'
  <2>1. CASE d = e
    BY <1>5, <2>1 DEF ClosingOK
  <2>2. CASE d # e
    <3> PICK z : z = closing[d]
      OBVIOUS
    <3>1. ClosingOK(d, z) /\ Alike(z, z) /\ z = closing'[d]
      BY <1>1, <2>2 DEF FlightsOK, TablesOK, Alike
    <3>2. ClosingOK(d, z)'
      BY <1>3, <3>1, ClosingStays
    <3> QED
      BY <3>1, <3>2 DEF ClosingOK
  <2> QED
    BY <2>1, <2>2
<1>7. \A k \in DOMAIN running' : RunOK(running[k])'
  BY <1>2 DEF FlightsOK, RunOK
<1>8. Apart'
  <2>1. \A d \in DOMAIN closing : closing'[d].cells = closing[d].cells /\ closing'[d].met = closing[d].met
    BY <1>1
  <2> QED
    BY <1>1, <1>2, <2>1 DEF FlightsOK, Apart
<1> QED
  BY <1>2, <1>3, <1>6, <1>7, <1>8 DEF FlightsOK

\* A play of another day neither enters nor leaves the cell-day of a closing.
LEMMA OtherDay ==
  ASSUME NEW q, NEW P, NEW Q, P \ {q} = Q \ {q}, NEW c, CellOf(q) # c
  PROVE  PlaysOf(c, P) = PlaysOf(c, Q)
  BY DEF PlaysOf

LEMMA FlightsEnd ==
  ASSUME TablesOK, FlightsOK, NEW e \in DOMAIN closing, Commit(e) \/ Rollback(e)
  PROVE  FlightsOK'
<1> PICK q : q = closing[e].play
  OBVIOUS
<1>1. DOMAIN closing' = DOMAIN closing \ {e} /\ \A d \in DOMAIN closing' : closing'[d] = closing[d]
  BY ClosingEnds
<1>2. UNCHANGED grid /\ UNCHANGED <<asked, running>>
  BY DEF Commit, Rollback
<1>3. present' \ {q} = present \ {q} /\ UNCHANGED edits
  BY <1>2 DEF Commit, Rollback, grid, detections
<1>4. q.day = e
  BY DEF FlightsOK, ClosingOK
<1>5. \A d \in DOMAIN closing' : ClosingOK(d, closing[d])'
  <2> TAKE d \in DOMAIN closing'
  <2> PICK x : x = closing[d]
    OBVIOUS
  <2>1. ClosingOK(d, x) /\ x = closing'[d] /\ d # e
    BY <1>1 DEF FlightsOK
  <2>2. x.play # q /\ CellOf(q) # CellOf(x.play)
    BY <1>4, <2>1 DEF ClosingOK, CellOf
  <2>3. x.op = "insert" => x.play \notin present'
    BY <1>3, <2>1, <2>2 DEF ClosingOK
  <2>4. Stored(x)' \ {q} = Stored(x) \ {q}
    BY <1>3 DEF Stored
  <2>5. PlaysOf(CellOf(x.play), Stored(x)') = PlaysOf(CellOf(x.play), Stored(x))
    BY <2>2, <2>4, OtherDay
  <2>6. ClosingOK(d, x)'
    BY <2>1, <2>3, <2>5 DEF ClosingOK
  <2> QED
    BY <2>1, <2>6 DEF ClosingOK
<1>6. \A k \in DOMAIN running' : RunOK(running[k])'
  BY <1>2 DEF FlightsOK, RunOK
<1>7. Apart'
  BY <1>1, <1>2 DEF FlightsOK, Apart
<1> QED
  BY <1>2, <1>3, <1>5, <1>6, <1>7 DEF FlightsOK

LEMMA FlightsStand ==
  ASSUME TablesOK, FlightsOK, UNCHANGED <<present, closing, running>>
  PROVE  /\ \A d \in DOMAIN closing' : ClosingOK(d, closing[d])'
         /\ \A k \in DOMAIN running' : RunOK(running[k])'
         /\ Apart'
<1>1. \A d \in DOMAIN closing' : ClosingOK(d, closing[d])'
  <2> TAKE d \in DOMAIN closing'
  <2> PICK x : x = closing[d]
    OBVIOUS
  <2>1. ClosingOK(d, x) /\ Alike(x, x) /\ x = closing'[d]
    BY DEF FlightsOK, TablesOK, Alike
  <2>2. ClosingOK(d, x)'
    BY <2>1, ClosingStays
  <2> QED
    BY <2>1, <2>2 DEF ClosingOK
<1>2. \A k \in DOMAIN running' : RunOK(running[k])'
  BY DEF FlightsOK, RunOK
<1>3. Apart'
  BY DEF FlightsOK, Apart
<1> QED
  BY <1>1, <1>2, <1>3

LEMMA FlightsEdit ==
  ASSUME TablesOK, FlightsOK, NEW r, Edit(r)
  PROVE  /\ FlightsOK'
         /\ DOMAIN asked' = DOMAIN asked \cup {edits'} /\ asked'[edits'] = r
         /\ \A k \in DOMAIN asked : asked'[k] = asked[k]
<1> PICK e : e = edits + 1
  OBVIOUS
<1>1. /\ edits' = e /\ asked' = Put(asked, e, r)
      /\ UNCHANGED <<born, present, cat, closing, running, exposed>>
  BY DEF Edit, detections
<1>2. e \in Nat /\ e \notin 1..edits /\ 1..edits \subseteq 1..e /\ e \in 1..e
  BY DEF FlightsOK
<1>3. e \notin DOMAIN asked
  BY <1>2 DEF FlightsOK
<1>4. /\ DOMAIN asked' = DOMAIN asked \cup {e} /\ asked'[e] = r
      /\ \A k \in DOMAIN asked : asked'[k] = asked[k]
  BY <1>1, <1>3 DEF Put
<1>5. /\ DOMAIN asked' \subseteq 1..e /\ DOMAIN running' \subseteq 1..e
      /\ DOMAIN asked' \cap DOMAIN running' = {}
  BY <1>1, <1>2, <1>4 DEF FlightsOK
<1>6. /\ \A d \in DOMAIN closing' : ClosingOK(d, closing[d])'
      /\ \A k \in DOMAIN running' : RunOK(running[k])'
      /\ Apart'
  BY <1>1, FlightsStand
<1> QED
  BY <1>1, <1>2, <1>4, <1>5, <1>6 DEF FlightsOK

\* Steps that leave the plays in place and start nothing.
LEMMA FlightsMeet ==
  ASSUME TablesOK, FlightsOK, UNCHANGED <<edits, present>>,
         DOMAIN asked' \subseteq DOMAIN asked,
         DOMAIN running' \subseteq DOMAIN running,
         \A k \in DOMAIN running' : RunAlike(running[k], running'[k]),
         DOMAIN closing' = DOMAIN closing,
         \A d \in DOMAIN closing : Alike(closing[d], closing'[d])
  PROVE  FlightsOK'
<1>1. \A d \in DOMAIN closing' : ClosingOK(d, closing[d])'
  <2> TAKE d \in DOMAIN closing'
  <2> PICK x : x = closing[d]
    OBVIOUS
  <2> PICK y : y = closing'[d]
    OBVIOUS
  <2>1. ClosingOK(d, x) /\ Alike(x, y)
    BY DEF FlightsOK
  <2>2. ClosingOK(d, y)'
    BY <2>1, ClosingStays
  <2> QED
    BY <2>2 DEF ClosingOK
<1>2. \A k \in DOMAIN running' : RunOK(running[k])'
  <2> TAKE k \in DOMAIN running'
  <2>1. RunOK(running'[k])
    BY RunStays DEF FlightsOK
  <2> QED
    BY <2>1 DEF RunOK
<1>3. /\ \A k \in DOMAIN running' : /\ running'[k].keys = running[k].keys
                                    /\ running'[k].cells = running[k].cells
                                    /\ running[k].met \subseteq running'[k].met
      /\ \A d \in DOMAIN closing : /\ closing'[d].cells = closing[d].cells
                                   /\ closing[d].met \subseteq closing'[d].met
  BY DEF RunAlike, Alike
<1>4. Apart'
  <2>1. ASSUME NEW k \in DOMAIN running', NEW d \in DOMAIN closing'
        PROVE  /\ d \notin running'[k].keys
               /\ running'[k].cells \cap closing'[d].cells \subseteq running'[k].met \cap closing'[d].met
    <3>1. /\ d \notin running[k].keys
          /\ running[k].cells \cap closing[d].cells \subseteq running[k].met \cap closing[d].met
      BY DEF FlightsOK, Apart
    <3> QED
      BY <1>3, <3>1
  <2>2. ASSUME NEW k \in DOMAIN running', NEW j \in DOMAIN running', k # j
        PROVE  /\ running'[k].keys \cap running'[j].keys = {}
               /\ running'[k].cells \cap running'[j].cells \subseteq running'[k].met \cap running'[j].met
    <3>1. /\ running[k].keys \cap running[j].keys = {}
          /\ running[k].cells \cap running[j].cells \subseteq running[k].met \cap running[j].met
      BY <2>2 DEF FlightsOK, Apart
    <3> QED
      BY <1>3, <3>1
  <2> QED
    BY <2>1, <2>2 DEF Apart
<1>5. edits' = edits /\ edits \in Nat /\ DOMAIN asked' \subseteq 1..edits /\ DOMAIN running' \subseteq 1..edits
      /\ DOMAIN asked' \cap DOMAIN running' = {}
  BY DEF FlightsOK
<1> QED
  BY <1>1, <1>2, <1>4, <1>5 DEF FlightsOK

LEMMA ClosingsMeet ==
  ASSUME TablesOK, NEW S, NEW w, closing' = AllMeet(closing, S, w)
  PROVE  /\ DOMAIN closing' = DOMAIN closing
         /\ \A d \in DOMAIN closing :
              /\ Alike(closing[d], closing'[d])
              /\ closing'[d].met = closing[d].met \cup (IF w \/ closing[d].wide THEN S \cap closing[d].cells ELSE {})
  BY AllAlike DEF TablesOK

LEMMA FlightsClassify ==
  ASSUME TablesOK, FlightsOK, NEW k \in DOMAIN asked, Classify(k)
  PROVE  FlightsOK'
<1> PICK r : r = asked[k]
  OBVIOUS
<1> PICK S : S = Scope(r)
  OBVIOUS
<1> PICK w : w = Wide(r)
  OBVIOUS
<1> PICK keys : keys = RecatKeys(r)
  OBVIOUS
<1> PICK f : f = [p \in {q \in present : CellOf(q) \in S} |-> Sql(p, present)]
  OBVIOUS
<1> PICK M : M = Met(S, w)
  OBVIOUS
<1>1. /\ DOMAIN running' = DOMAIN running \cup {k} /\ k \notin DOMAIN running
      /\ \A j \in DOMAIN running :
           /\ RunAlike(running[j], running'[j])
           /\ running'[j].met = running[j].met \cup (IF w \/ running[j].wide THEN S \cap running[j].cells ELSE {})
      /\ \A d \in keys : Unlocked(d)
      /\ closing' = AllMeet(closing, S, w) /\ asked' = Drop(asked, k)
      /\ UNCHANGED <<grid, detections, exposed>>
  BY RunStarts
<1>2. running'[k] = [cells |-> S, wide |-> w, met |-> M, keys |-> keys, verdict |-> f]
  BY RunStarts
<1>3. UNCHANGED <<edits, present>>
  BY <1>1 DEF grid, detections
<1>4. /\ DOMAIN closing' = DOMAIN closing
      /\ \A d \in DOMAIN closing :
           /\ Alike(closing[d], closing'[d])
           /\ closing'[d].met = closing[d].met \cup (IF w \/ closing[d].wide THEN S \cap closing[d].cells ELSE {})
  BY <1>1, ClosingsMeet
<1>5. DOMAIN asked' = DOMAIN asked \ {k}
  BY <1>1 DEF Drop, Restrict
<1>6. \A d \in DOMAIN closing' : ClosingOK(d, closing[d])'
  <2> TAKE d \in DOMAIN closing'
  <2> PICK x : x = closing[d]
    OBVIOUS
  <2> PICK y : y = closing'[d]
    OBVIOUS
  <2>1. ClosingOK(d, x) /\ Alike(x, y)
    BY <1>4 DEF FlightsOK
  <2>2. ClosingOK(d, y)'
    BY <1>3, <2>1, ClosingStays
  <2> QED
    BY <2>2 DEF ClosingOK
<1>7. ~ w => \A c \in S : c[2] \in keys
  BY DEF Wide, Scope, RecatKeys
<1>8. \A j \in DOMAIN running' : RunOK(running[j])'
  <2> TAKE j \in DOMAIN running'
  <2>1. CASE j \in DOMAIN running
    <3>1. RunOK(running'[j])
      BY <1>1, <2>1, RunStays DEF FlightsOK
    <3> QED
      BY <3>1 DEF RunOK
  <2>2. CASE j = k
    <3>1. w \in BOOLEAN
      BY DEF Wide
    <3>2. \A p \in DOMAIN f : CellOf(p) \in S
      OBVIOUS
    <3>3. RunOK(running'[j])
      BY <1>2, <1>7, <2>2, <3>1, <3>2 DEF RunOK, IsRun
    <3> QED
      BY <3>3 DEF RunOK
  <2> QED
    BY <1>1, <2>1, <2>2
<1>9. /\ \A j \in DOMAIN running : /\ running'[j].keys = running[j].keys
                                   /\ running'[j].cells = running[j].cells
                                   /\ running[j].met \subseteq running'[j].met
      /\ \A d \in DOMAIN closing : /\ closing'[d].cells = closing[d].cells
                                   /\ closing[d].met \subseteq closing'[d].met
      /\ running'[k].cells = S /\ running'[k].keys = keys /\ running'[k].met = M
  BY <1>1, <1>2, <1>4 DEF RunAlike, Alike
<1>10. ASSUME NEW d \in DOMAIN closing
       PROVE  d \notin keys /\ S \cap closing[d].cells \subseteq M \cap closing'[d].met
  <2>1. d \notin keys
    BY <1>1 DEF Unlocked
  <2>2. CASE w
    <3>1. S \cap closing[d].cells \subseteq M
      BY <2>2, MetHas
    <3> QED
      BY <1>4, <2>1, <2>2, <3>1
  <2>3. CASE ~ w
    <3>1. \A c \in closing[d].cells : c[2] = d
      BY DayOfClosing DEF FlightsOK
    <3> QED
      BY <1>7, <2>1, <2>3, <3>1
  <2> QED
    BY <2>2, <2>3
<1>11. ASSUME NEW j \in DOMAIN running
       PROVE  /\ running[j].keys \cap keys = {}
              /\ S \cap running[j].cells \subseteq M \cap running'[j].met
  <2>1. running[j].keys \cap keys = {}
    BY <1>1 DEF Unlocked
  <2>2. CASE w \/ running[j].wide
    <3>1. S \cap running[j].cells \subseteq M
      BY <2>2, MetHas
    <3> QED
      BY <1>1, <2>1, <2>2, <3>1
  <2>3. CASE ~ w /\ ~ running[j].wide
    <3>1. \A c \in running[j].cells : c[2] \in running[j].keys
      BY <2>3 DEF FlightsOK, RunOK
    <3> QED
      BY <1>7, <2>1, <2>3, <3>1
  <2> QED
    BY <2>2, <2>3
<1>12. Apart'
  <2>1. ASSUME NEW j \in DOMAIN running', NEW d \in DOMAIN closing'
        PROVE  /\ d \notin running'[j].keys
               /\ running'[j].cells \cap closing'[d].cells \subseteq running'[j].met \cap closing'[d].met
    <3>1. CASE j = k
      BY <1>4, <1>9, <1>10, <3>1
    <3>2. CASE j \in DOMAIN running
      <4>1. /\ d \notin running[j].keys
            /\ running[j].cells \cap closing[d].cells \subseteq running[j].met \cap closing[d].met
        BY <1>4, <3>2 DEF FlightsOK, Apart
      <4> QED
        BY <1>4, <1>9, <3>2, <4>1
    <3> QED
      BY <1>1, <3>1, <3>2
  <2>2. ASSUME NEW j \in DOMAIN running', NEW i \in DOMAIN running', j # i
        PROVE  /\ running'[j].keys \cap running'[i].keys = {}
               /\ running'[j].cells \cap running'[i].cells \subseteq running'[j].met \cap running'[i].met
    <3>1. CASE j = k
      <4>1. i \in DOMAIN running
        BY <1>1, <2>2, <3>1
      <4> QED
        BY <1>9, <1>11, <3>1, <4>1
    <3>2. CASE i = k
      <4>1. j \in DOMAIN running
        BY <1>1, <2>2, <3>2
      <4> QED
        BY <1>9, <1>11, <3>2, <4>1
    <3>3. CASE j # k /\ i # k
      <4>1. j \in DOMAIN running /\ i \in DOMAIN running
        BY <1>1, <3>3
      <4>2. /\ running[j].keys \cap running[i].keys = {}
            /\ running[j].cells \cap running[i].cells \subseteq running[j].met \cap running[i].met
        BY <2>2, <4>1 DEF FlightsOK, Apart
      <4> QED
        BY <1>9, <4>1, <4>2
    <3> QED
      BY <3>1, <3>2, <3>3
  <2> QED
    BY <2>1, <2>2 DEF Apart
<1>13. edits' = edits /\ edits \in Nat /\ DOMAIN asked' \subseteq 1..edits /\ DOMAIN running' \subseteq 1..edits
       /\ DOMAIN asked' \cap DOMAIN running' = {}
  BY <1>1, <1>3, <1>5 DEF FlightsOK
<1> QED
  BY <1>6, <1>8, <1>12, <1>13 DEF FlightsOK

LEMMA FlightsEndRun ==
  ASSUME TablesOK, FlightsOK, NEW k \in DOMAIN running, Apply(k) \/ NeverCommits(k)
  PROVE  FlightsOK'
<1>1. UNCHANGED <<edits, present, asked>>
  BY DEF Apply, NeverCommits, Lose, grid, detections
<1>2. DOMAIN running' \subseteq DOMAIN running /\ \A j \in DOMAIN running' : RunAlike(running[j], running'[j])
  BY RunCommits, RunIsLost
<1>3. DOMAIN closing' = DOMAIN closing /\ \A d \in DOMAIN closing : Alike(closing[d], closing'[d])
  <2>1. CASE Apply(k)
    BY <2>1 DEF Apply, TablesOK, Alike
  <2>2. CASE NeverCommits(k)
    <3>1. closing' = AllMeet(closing, running[k].cells, TRUE)
      BY <2>2 DEF NeverCommits, Lose
    <3> QED
      BY <3>1, ClosingsMeet
  <2> QED
    BY <2>1, <2>2
<1> QED
  BY <1>1, <1>2, <1>3, FlightsMeet

LEMMA FlightsNeverStart ==
  ASSUME TablesOK, FlightsOK, NEW k \in DOMAIN asked, NeverStarts(k)
  PROVE  FlightsOK'
<1>1. /\ UNCHANGED <<edits, present>> /\ asked' = Drop(asked, k)
      /\ closing' = AllMeet(closing, Scope(asked[k]), TRUE)
      /\ running' = AllMeet(running, Scope(asked[k]), TRUE)
  BY DEF NeverStarts, Lose, grid, detections
<1>2. DOMAIN running' = DOMAIN running /\ \A j \in DOMAIN running : RunAlike(running[j], running'[j])
  BY <1>1, RunsKeep
<1>3. DOMAIN closing' = DOMAIN closing /\ \A d \in DOMAIN closing : Alike(closing[d], closing'[d])
  BY <1>1, ClosingsMeet
<1>4. DOMAIN asked' \subseteq DOMAIN asked
  BY <1>1 DEF Drop, Restrict
<1> QED
  BY <1>1, <1>2, <1>3, <1>4, FlightsMeet

LEMMA FlightsInit == Init => FlightsOK
  BY DEF Init, FlightsOK, Apart

LEMMA FlightsNext ==
  ASSUME NoneOnEdge, TablesOK, FlightsOK, [Next]_vars PROVE FlightsOK'
<1>1. ASSUME NEW p \in Moving, Open("insert", p) \/ Open("leave", p) \/ Open("return", p) PROVE FlightsOK'
  BY <1>1, FlightsOpen
<1>2. ASSUME NEW d \in DOMAIN closing, ReadOverride(d) \/ ReadPlays(d) PROVE FlightsOK'
  BY <1>2, FlightsRead
<1>3. ASSUME NEW d \in DOMAIN closing, Commit(d) \/ Rollback(d) PROVE FlightsOK'
  BY <1>3, FlightsEnd
<1>4. ASSUME Edits PROVE FlightsOK'
  BY <1>4, EditsEdit, FlightsEdit
<1>5. ASSUME NEW k \in DOMAIN asked, Classify(k) PROVE FlightsOK'
  BY <1>5, FlightsClassify
<1>6. ASSUME NEW k \in DOMAIN asked, NeverStarts(k) PROVE FlightsOK'
  BY <1>6, FlightsNeverStart
<1>7. ASSUME NEW k \in DOMAIN running, Apply(k) \/ NeverCommits(k) PROVE FlightsOK'
  BY <1>7, FlightsEndRun
<1>8. CASE UNCHANGED vars
  <2>1. UNCHANGED <<present, closing, running, asked, edits>>
    BY <1>8 DEF vars, grid, detections
  <2> QED
    BY <2>1, FlightsStand DEF FlightsOK
<1> QED
  BY <1>1, <1>2, <1>3, <1>4, <1>5, <1>6, <1>7, <1>8 DEF Next, Edits

-----------------------------------------------------------------------------
(* What they know of the tables.                                             *)

\* The category of p is the one the tables give it.
Right(p) == cat[p] = Sql(p, present)
Running(cell) == \E k \in DOMAIN running : cell \in running[k].cells
Watched(p) == Right(p) \/ Asked(CellOf(p)) \/ Running(CellOf(p)) \/ CellOf(p) \in exposed

LEMMA WatchedIsStated == StaleIsPending <=> \A p \in present : Watched(p)
  BY DEF StaleIsPending, Watched, Right, Pending, Asked, Running

Unedited(c) == LoadRules(c)' = LoadRules(c) /\ LoadOverride(c)' = LoadOverride(c)

\* A step that leaves the plays of a cell-day alone, and its rules and override
\* unless it asks for its recategorisation or they do not matter there.
Quiet(c) ==
  /\ Asked(c) => Asked(c)'
  /\ Asked(c)' \/ ~ Inside(c) \/ Unedited(c)
  /\ PlaysOf(c, present') = PlaysOf(c, present)
  /\ \A p \in Plays : CellOf(p) = c => cat'[p] = cat[p]

LEMMA CellIsCell ==
  ASSUME NEW p \in Plays PROVE CellOf(p) \in Cells /\ CellOf(p) = <<CellOf(p)[1], CellOf(p)[2]>>
  BY GridAssumption DEF CellOf, Cells, Types

\* Outside the dates of the campaign the rules do not matter.
LEMMA OutsidePeriod ==
  ASSUME NEW p \in Plays, ~ Inside(CellOf(p)), NEW Q, NEW R, NEW ov
  PROVE  Classified(p, Q, Period, R, ov) = "out_date"
<1>1. CellOf(p)[2] = p.day /\ p.day \in Int /\ Period.from \in Int /\ Period.to \in Int
  BY GridAssumption DEF CellOf
<1>2. IsOutDate(p, Period, R)
  BY <1>1 DEF IsOutDate, Inside
<1>3. p \notin {q \in Q : ~ IsOutDate(q, Period, R)}
  BY <1>2
<1> QED
  BY <1>3 DEF Classified

LEMMA SqlStays ==
  ASSUME NEW p \in Plays, PlaysOf(CellOf(p), present') = PlaysOf(CellOf(p), present),
         ~ Inside(CellOf(p)) \/ Unedited(CellOf(p))
  PROVE  Sql(p, present)' = Sql(p, present)
<1>1. Sql(p, present)' = Classified(p, PlaysOf(CellOf(p), present'), Period,
                                    LoadRules(CellOf(p))', LoadOverride(CellOf(p))')
  BY DEF Sql
<1>2. Sql(p, present) = Classified(p, PlaysOf(CellOf(p), present), Period,
                                   LoadRules(CellOf(p)), LoadOverride(CellOf(p)))
  BY DEF Sql
<1>3. CASE Unedited(CellOf(p))
  BY <1>1, <1>2, <1>3 DEF Unedited
<1>4. CASE ~ Inside(CellOf(p))
  BY <1>1, <1>2, <1>4, OutsidePeriod
<1> QED
  BY <1>3, <1>4

LEMMA QuietClosing ==
  ASSUME TablesOK, NEW d, NEW x, NEW y, ClosingOK(d, x), x.play \in Plays, Alike(x, y),
         ClosingTells(x), CellOf(x.play) \in y.met \/ Quiet(CellOf(x.play))
  PROVE  ClosingTells(y)'
<1> PICK c : c = CellOf(x.play)
  OBVIOUS
<1>1. y.play = x.play /\ y.next = x.next /\ y.rules = x.rules /\ y.over = x.over /\ y.seen = x.seen
      /\ x.met \subseteq y.met
  BY DEF Alike
<1> SUFFICES ASSUME c \notin y.met
             PROVE  /\ \/ Asked(c)'
                       \/ ~ Inside(c)
                       \/ /\ y.rules = LoadRules(c)'
                          /\ y.next # "override" => y.over = LoadOverride(c)'
                    /\ y.next = "commit" => \A p \in DOMAIN y.seen : y.seen[p] = cat'[p]
  BY <1>1 DEF ClosingTells, Inside
<1>2. Quiet(c) /\ c \notin x.met
  BY <1>1
<1>3. \/ Asked(c)'
      \/ ~ Inside(c)
      \/ /\ y.rules = LoadRules(c)'
         /\ y.next # "override" => y.over = LoadOverride(c)'
  BY <1>1, <1>2 DEF ClosingTells, Quiet, Unedited
<1>4. ASSUME y.next = "commit", NEW p \in DOMAIN y.seen PROVE y.seen[p] = cat'[p]
  <2>1. p \in PlaysOf(c, Stored(x))
    BY <1>1, <1>4 DEF ClosingOK
  <2>2. p \in Plays /\ CellOf(p) = c
    BY <2>1 DEF PlaysOf, Stored, TablesOK
  <2>3. x.seen[p] = cat[p]
    BY <1>1, <1>2, <1>4 DEF ClosingTells
  <2> QED
    BY <1>1, <1>2, <2>2, <2>3 DEF Quiet
<1> QED
  BY <1>3, <1>4

LEMMA QuietRun ==
  ASSUME TablesOK, TablesOK', NEW x, NEW y, RunAlike(x, y), RunTells(x),
         \A c \in Cells : c \in y.cells \ y.met => Quiet(c)
  PROVE  RunTells(y)'
<1>1. y.cells = x.cells /\ y.verdict = x.verdict /\ x.met \subseteq y.met
  BY DEF RunAlike
<1> SUFFICES ASSUME NEW c \in y.cells \ y.met, ~ Asked(c)' PROVE Verdict(y, c)'
  BY DEF RunTells
<1> SUFFICES ASSUME NEW p \in present', CellOf(p) = c
             PROVE  p \in DOMAIN y.verdict /\ y.verdict[p] = Sql(p, present)'
  BY DEF Verdict
<1>2. CASE c \in Cells
  <2>1. Quiet(c)
    BY <1>2
  <2>2. p \in present /\ p \in Plays
    BY <2>1 DEF Quiet, PlaysOf, TablesOK
  <2>3. p \in DOMAIN x.verdict /\ x.verdict[p] = Sql(p, present)
    BY <1>1, <2>1, <2>2 DEF RunTells, Verdict, Quiet
  <2>4. Sql(p, present)' = Sql(p, present)
    BY <2>1, <2>2, SqlStays DEF Quiet
  <2> QED
    BY <1>1, <2>3, <2>4
<1>3. CASE c \notin Cells
  <2>1. p \in Plays
    BY DEF TablesOK
  <2> QED
    BY <1>3, <2>1, CellIsCell
<1> QED
  BY <1>2, <1>3

LEMMA QuietPlay ==
  ASSUME NEW p \in Plays, Watched(p), Quiet(CellOf(p)),
         Running(CellOf(p)) => Running(CellOf(p))' \/ CellOf(p) \in exposed',
         CellOf(p) \in exposed => CellOf(p) \in exposed'
  PROVE  Watched(p)'
<1>1. CASE Asked(CellOf(p))'
  BY <1>1 DEF Watched
<1>2. CASE ~ Asked(CellOf(p))'
  <2>1. Right(p) => Right(p)'
    <3>1. Sql(p, present)' = Sql(p, present)
      BY <1>2, SqlStays DEF Quiet
    <3>2. cat'[p] = cat[p]
      BY DEF Quiet
    <3> QED
      BY <3>1, <3>2 DEF Right
  <2> QED
    BY <1>2, <2>1 DEF Watched, Quiet
<1> QED
  BY <1>1, <1>2

\* Steps that touch neither the tables nor what is asked.
LEMMA AllQuiet ==
  ASSUME UNCHANGED grid, UNCHANGED detections, UNCHANGED asked, NEW c
  PROVE  Quiet(c)
<1>1. UNCHANGED <<rules, over, present, cat>>
  BY DEF grid, detections
<1>2. Asked(c)' <=> Asked(c)
  BY <1>1 DEF Asked, Scope
<1>3. Unedited(c)
  BY <1>1 DEF Unedited, LoadRules, LoadOverride
<1> QED
  BY <1>1, <1>2, <1>3 DEF Quiet

\* Steps that take one recategorisation off those asked.
LEMMA DropQuiet ==
  ASSUME UNCHANGED grid, UNCHANGED detections, NEW k, asked' = Drop(asked, k),
         NEW c, c \notin Scope(asked[k])
  PROVE  Quiet(c)
<1>1. UNCHANGED <<rules, over, present, cat>>
  BY DEF grid, detections
<1>2. DOMAIN asked' = DOMAIN asked \ {k} /\ \A j \in DOMAIN asked' : asked'[j] = asked[j]
  BY DEF Drop, Restrict
<1>3. \A r : Scope(r)' = Scope(r)
  BY <1>1 DEF Scope
<1>4. Asked(c) => Asked(c)'
  BY <1>2, <1>3 DEF Asked
<1>5. Unedited(c)
  BY <1>1 DEF Unedited, LoadRules, LoadOverride
<1> QED
  BY <1>1, <1>4, <1>5 DEF Quiet

LEMMA EditQuiet ==
  ASSUME Retypes = FALSE, TablesOK, FlightsOK, Edits, NEW c \in Cells
  PROVE  Quiet(c)
<1>1. PICK r : Edit(r)
  BY EditsEdit
<1>2. UNCHANGED <<present, cat>>
  BY <1>1 DEF Edit, detections
<1>a. ASSUME NEW r1, Edit(r1), \A q : c \in Scope(q) => c \in Scope(q)'
      PROVE  (Asked(c) => Asked(c)') /\ (c \in Scope(r1)' => Asked(c)')
  <2>1. /\ DOMAIN asked' = DOMAIN asked \cup {edits'} /\ asked'[edits'] = r1
        /\ \A k \in DOMAIN asked : asked'[k] = asked[k]
    BY <1>a, FlightsEdit
  <2> QED
    BY <1>a, <2>1 DEF Asked
<1>b. ASSUME Asked(c) => Asked(c)', Asked(c)' \/ ~ Inside(c) \/ Unedited(c) PROVE Quiet(c)
  BY <1>2, <1>b DEF Quiet
<1>c. ASSUME UNCHANGED over PROVE LoadOverride(c)' = LoadOverride(c)
  BY <1>c DEF LoadOverride
<1>3. ASSUME NEW b \in Bodies, CreateRule(b) PROVE Quiet(c)
  <2> PICK k : k = made + 1
    OBVIOUS
  <2>1. k \notin DOMAIN rules /\ rules' = Put(rules, k, b) /\ Edit(<<"rule", k>>) /\ UNCHANGED over
    BY <1>3 DEF CreateRule, TablesOK
  <2>2. DOMAIN rules' = DOMAIN rules \cup {k}
        /\ rules'[k] = b /\ \A i \in DOMAIN rules : rules'[i] = rules[i]
    BY <2>1 DEF Put
  <2>3. \A q : c \in Scope(q) => c \in Scope(q)'
    BY <2>2 DEF Scope
  <2>4. (Asked(c) => Asked(c)') /\ (c \in Scope(<<"rule", k>>)' => Asked(c)')
    BY <1>a, <2>1, <2>3
  <2>5. CASE c[1] = b.type /\ Inside(c)
    <3>1. c \in Scope(<<"rule", k>>)'
      BY <2>2, <2>5 DEF Scope, Inside
    <3> QED
      BY <1>b, <2>4, <3>1
  <2>6. CASE c[1] # b.type
    <3>1. {i \in DOMAIN rules' : rules'[i].type = c[1]} = {i \in DOMAIN rules : rules[i].type = c[1]}
      BY <2>1, <2>2, <2>6
    <3>2. LoadRules(c)' = LoadRules(c)
      BY <2>2, <3>1 DEF LoadRules, Restrict
    <3> QED
      BY <1>b, <1>c, <2>1, <2>4, <3>2 DEF Unedited
  <2> QED
    BY <1>b, <2>4, <2>5, <2>6
<1>4. ASSUME NEW b \in Bodies, NEW k \in DOMAIN rules, UpdateRule(k, b) PROVE Quiet(c)
  <2>1. /\ b.type = rules[k].type /\ rules' = [rules EXCEPT ![k] = b]
        /\ Edit(<<"rule", k>>) /\ UNCHANGED over
    BY <1>4 DEF UpdateRule
  <2>2. DOMAIN rules' = DOMAIN rules
        /\ rules'[k] = b /\ (\A i \in DOMAIN rules : i # k => rules'[i] = rules[i])
        /\ \A i \in DOMAIN rules : rules'[i].type = rules[i].type
    BY <2>1
  <2>3. \A q : c \in Scope(q) => c \in Scope(q)'
    BY <2>2 DEF Scope
  <2>4. (Asked(c) => Asked(c)') /\ (c \in Scope(<<"rule", k>>)' => Asked(c)')
    BY <1>a, <2>1, <2>3
  <2>5. CASE c[1] = b.type /\ Inside(c)
    <3>1. c \in Scope(<<"rule", k>>)'
      BY <2>2, <2>5 DEF Scope, Inside
    <3> QED
      BY <1>b, <2>4, <3>1
  <2>6. CASE c[1] # b.type
    <3> DEFINE D == {i \in DOMAIN rules : rules[i].type = c[1]}
    <3>1. {i \in DOMAIN rules' : rules'[i].type = c[1]} = D
      BY <2>2
    <3>2. \A i \in D : rules'[i] = rules[i]
      BY <2>1, <2>2, <2>6
    <3> HIDE DEF D
    <3>3. LoadRules(c)' = [i \in D |-> rules'[i]]
      BY <3>1 DEF LoadRules, Restrict
    <3>4. LoadRules(c) = [i \in D |-> rules[i]]
      BY DEF LoadRules, Restrict, D
    <3>5. LoadRules(c)' = LoadRules(c)
      BY <3>2, <3>3, <3>4
    <3> QED
      BY <1>b, <1>c, <2>1, <2>4, <3>5 DEF Unedited
  <2> QED
    BY <1>b, <2>4, <2>5, <2>6
<1>5. ASSUME NEW k \in DOMAIN rules, DeleteRule(k) PROVE Quiet(c)
  <2>1. Edit(<<"campaign", 0>>) /\ UNCHANGED over
    BY <1>5 DEF DeleteRule
  <2>2. /\ DOMAIN asked' = DOMAIN asked \cup {edits'} /\ asked'[edits'] = <<"campaign", 0>>
        /\ \A j \in DOMAIN asked : asked'[j] = asked[j]
    BY <2>1, FlightsEdit
  <2>3. CASE Inside(c)
    <3>1. c \in Scope(<<"campaign", 0>>)'
      BY <2>3 DEF Scope, Inside
    <3>2. Asked(c)'
      BY <2>2, <3>1 DEF Asked
    <3> QED
      BY <1>b, <3>2
  <2>4. CASE ~ Inside(c)
    <3>1. \A q : c \in Scope(q) => c \in Scope(q)'
      BY <2>4 DEF Scope, Inside
    <3>2. Asked(c) => Asked(c)'
      BY <1>a, <2>1, <3>1
    <3> QED
      BY <1>b, <2>4, <3>2
  <2> QED
    BY <2>3, <2>4
<1>6. ASSUME NEW cell, (\E o \in Overrides : UpsertOverride(cell, o)) \/ DeleteOverride(cell) PROVE Quiet(c)
  <2>1. Edit(<<"cell", cell>>) /\ UNCHANGED rules
    BY <1>6 DEF UpsertOverride, DeleteOverride
  <2>2. \A d : d # cell => /\ d \in DOMAIN over' <=> d \in DOMAIN over
                           /\ d \in DOMAIN over => over'[d] = over[d]
    BY <1>6 DEF UpsertOverride, DeleteOverride, Put, Drop, Restrict
  <2>3. \A q : c \in Scope(q) => c \in Scope(q)'
    BY <2>1 DEF Scope
  <2>4. (Asked(c) => Asked(c)') /\ (c \in Scope(<<"cell", cell>>)' => Asked(c)')
    BY <1>a, <2>1, <2>3
  <2>5. CASE c = cell
    <3>1. c \in Scope(<<"cell", cell>>)'
      BY <2>5 DEF Scope
    <3> QED
      BY <1>b, <2>4, <3>1
  <2>6. CASE c # cell
    <3>1. LoadRules(c)' = LoadRules(c)
      BY <2>1 DEF LoadRules
    <3>2. DOMAIN over' \cap {c} = DOMAIN over \cap {c}
      BY <2>2, <2>6
    <3>3. LoadOverride(c)' = LoadOverride(c)
      BY <2>2, <2>6, <3>2 DEF LoadOverride
    <3> QED
      BY <1>b, <2>4, <3>1, <3>3 DEF Unedited
  <2> QED
    BY <2>5, <2>6
<1> QED
  BY <1>3, <1>4, <1>5, <1>6 DEF Edits

LEMMA KeptClosing ==
  ASSUME TablesOK, FlightsOK, Tells, NEW d \in DOMAIN closing,
         Alike(closing[d], closing'[d]),
         CellOf(closing[d].play) \in closing'[d].met \/ Quiet(CellOf(closing[d].play))
  PROVE  ClosingTells(closing[d])'
<1> PICK x : x = closing[d]
  OBVIOUS
<1> PICK y : y = closing'[d]
  OBVIOUS
<1>1. ClosingOK(d, x) /\ ClosingTells(x) /\ x.play \in Plays
  BY DEF FlightsOK, Tells, TablesOK
<1>2. ClosingTells(y)'
  BY <1>1, QuietClosing
<1> QED
  BY <1>2 DEF ClosingTells

LEMMA KeptRun ==
  ASSUME TablesOK, TablesOK', Tells, NEW k \in DOMAIN running,
         RunAlike(running[k], running'[k]),
         \A c \in Cells : c \in running'[k].cells \ running'[k].met => Quiet(c)
  PROVE  RunTells(running[k])'
<1> PICK x : x = running[k]
  OBVIOUS
<1> PICK y : y = running'[k]
  OBVIOUS
<1>1. RunTells(x)
  BY DEF Tells
<1>2. RunTells(y)'
  BY <1>1, QuietRun
<1> QED
  BY <1>2 DEF RunTells, Verdict

IInv == TablesOK /\ FlightsOK /\ Tells /\ StaleIsPending

LEMMA EditKeeps ==
  ASSUME Retypes = FALSE, IInv, TablesOK', Edits
  PROVE  Tells' /\ StaleIsPending'
<1>1. \A c \in Cells : Quiet(c)
  BY EditQuiet DEF IInv
<1>2. PICK r : Edit(r)
  BY EditsEdit
<1>3. UNCHANGED <<present, closing, running, exposed>>
  BY <1>2 DEF Edit, detections
<1>4. \A d \in DOMAIN closing' : ClosingTells(closing[d])'
  <2> TAKE d \in DOMAIN closing'
  <2>1. closing[d].play \in Plays /\ Alike(closing[d], closing'[d])
    BY <1>3 DEF IInv, TablesOK, Alike
  <2>2. CellOf(closing[d].play) \in Cells
    BY <2>1, CellIsCell
  <2> QED
    BY <1>1, <1>3, <2>1, <2>2, KeptClosing DEF IInv
<1>5. \A k \in DOMAIN running' : RunTells(running[k])'
  <2> TAKE k \in DOMAIN running'
  <2>1. RunAlike(running[k], running'[k])
    BY <1>3 DEF IInv, FlightsOK, RunOK, RunAlike
  <2> QED
    BY <1>1, <1>3, <2>1, KeptRun DEF IInv
<1>6. \A p \in present' : Watched(p)'
  <2> TAKE p \in present'
  <2>1. p \in present /\ p \in Plays
    BY <1>3 DEF IInv, TablesOK
  <2>2. Quiet(CellOf(p))
    BY <1>1, <2>1, CellIsCell
  <2>3. Running(CellOf(p)) => Running(CellOf(p))'
    BY <1>3 DEF Running
  <2>4. Watched(p)
    BY <2>1, WatchedIsStated DEF IInv
  <2> QED
    BY <1>3, <2>1, <2>2, <2>3, <2>4, QuietPlay
<1>7. StaleIsPending'
  BY <1>6 DEF StaleIsPending, Watched, Right, Pending, Asked, Running
<1> QED
  BY <1>4, <1>5, <1>7 DEF Tells

LEMMA OpenKeeps ==
  ASSUME IInv, TablesOK', NEW p \in Moving, NEW op, Open(op, p)
  PROVE  Tells' /\ StaleIsPending'
<1>1. UNCHANGED <<grid, detections, asked, exposed>> /\ running' = AllMeet(running, {CellOf(p)}, FALSE)
  BY DEF Open
<1>2. \A c : Quiet(c)
  BY <1>1, AllQuiet
<1>3. DOMAIN running' = DOMAIN running /\ \A k \in DOMAIN running : RunAlike(running[k], running'[k])
  BY <1>1, RunsKeep DEF IInv
<1>4. \A k \in DOMAIN running' : RunTells(running[k])'
  BY <1>2, <1>3, KeptRun DEF IInv
<1>5. /\ DOMAIN closing' = DOMAIN closing \cup {p.day} /\ p.day \notin DOMAIN closing
      /\ \A d \in DOMAIN closing : closing'[d] = closing[d]
  BY ClosingOpens
<1>6. closing'[p.day] = [op |-> op, play |-> p, cells |-> {CellOf(p)}, wide |-> FALSE,
                         met |-> Met({CellOf(p)}, FALSE), next |-> "override",
                         rules |-> LoadRules(CellOf(p)), over |-> {}, seen |-> << >>]
  BY ClosingOpens
<1>7. \A d \in DOMAIN closing' : ClosingTells(closing[d])'
  <2> TAKE d \in DOMAIN closing'
  <2>1. CASE d \in DOMAIN closing
    <3>1. Alike(closing[d], closing'[d])
      BY <1>5, <2>1 DEF IInv, TablesOK, Alike
    <3> QED
      BY <1>2, <2>1, <3>1, KeptClosing DEF IInv
  <2>2. CASE d = p.day
    <3> PICK y : y = closing'[p.day]
      OBVIOUS
    <3>1. y.play = p /\ y.next = "override" /\ y.rules = LoadRules(CellOf(p))
      BY <1>6
    <3>2. LoadRules(CellOf(p))' = LoadRules(CellOf(p))
      BY <1>1 DEF LoadRules, grid
    <3>3. ClosingTells(y)'
      BY <3>1, <3>2 DEF ClosingTells
    <3> QED
      BY <2>2, <3>3 DEF ClosingTells
  <2> QED
    BY <1>5, <2>1, <2>2
<1>8. \A q \in present' : Watched(q)'
  <2> TAKE q \in present'
  <2>1. q \in present /\ q \in Plays
    BY <1>1 DEF IInv, TablesOK, detections
  <2>2. Running(CellOf(q)) => Running(CellOf(q))'
    BY <1>3 DEF Running, RunAlike
  <2>3. Watched(q)
    BY <2>1, WatchedIsStated DEF IInv
  <2> QED
    BY <1>1, <1>2, <2>1, <2>2, <2>3, QuietPlay
<1>9. StaleIsPending'
  BY <1>8 DEF StaleIsPending, Watched, Right, Pending, Asked, Running
<1> QED
  BY <1>4, <1>7, <1>9 DEF Tells

\* A step of a closing that leaves the tables and the recategorisations alone.
LEMMA ClosingStepKeeps ==
  ASSUME IInv, TablesOK', UNCHANGED <<grid, detections, asked, running, exposed>>,
         DOMAIN closing' \subseteq DOMAIN closing,
         \A d \in DOMAIN closing' : closing'[d] = closing[d] \/ ClosingTells(closing[d])'
  PROVE  Tells' /\ StaleIsPending'
<1>1. \A c : Quiet(c)
  BY AllQuiet
<1>2. \A k \in DOMAIN running' : RunTells(running[k])'
  <2> TAKE k \in DOMAIN running'
  <2>1. RunAlike(running[k], running'[k])
    BY DEF IInv, FlightsOK, RunOK, RunAlike
  <2> QED
    BY <1>1, <2>1, KeptRun DEF IInv
<1>3. \A d \in DOMAIN closing' : ClosingTells(closing[d])'
  <2> TAKE d \in DOMAIN closing'
  <2>1. CASE closing'[d] = closing[d]
    <3>1. Alike(closing[d], closing'[d])
      BY <2>1 DEF IInv, TablesOK, Alike
    <3> QED
      BY <1>1, <3>1, KeptClosing DEF IInv
  <2> QED
    BY <2>1
<1>4. \A q \in present' : Watched(q)'
  <2> TAKE q \in present'
  <2>1. q \in present /\ q \in Plays
    BY DEF IInv, TablesOK, detections
  <2>2. Running(CellOf(q)) => Running(CellOf(q))'
    BY DEF Running
  <2>3. Watched(q)
    BY <2>1, WatchedIsStated DEF IInv
  <2> QED
    BY <1>1, <2>1, <2>2, <2>3, QuietPlay
<1>5. StaleIsPending'
  BY <1>4 DEF StaleIsPending, Watched, Right, Pending, Asked, Running
<1> QED
  BY <1>2, <1>3, <1>5 DEF Tells

LEMMA ReadKeeps ==
  ASSUME IInv, TablesOK', NEW e \in DOMAIN closing, ReadOverride(e) \/ ReadPlays(e)
  PROVE  Tells' /\ StaleIsPending'
<1> PICK x : x = closing[e]
  OBVIOUS
<1> PICK y : y = closing'[e]
  OBVIOUS
<1> PICK c : c = CellOf(x.play)
  OBVIOUS
<1>1. UNCHANGED <<grid, detections, asked, running, exposed>>
  BY DEF ReadOverride, ReadPlays
<1>2. /\ DOMAIN closing' = DOMAIN closing
      /\ \A d \in DOMAIN closing : d # e => closing'[d] = closing[d]
      /\ y.play = x.play /\ y.met = x.met /\ y.rules = x.rules
      /\ \/ x.next = "override" /\ y.next = "plays" /\ y.over = LoadOverride(c)
         \/ /\ x.next = "plays" /\ y.next = "commit" /\ y.over = x.over
            /\ y.seen = [p \in PlaysOf(c, Stored(x)) |-> cat[p]]
  BY ClosingReads DEF IInv, TablesOK
<1>3. ClosingTells(x)
  BY DEF IInv, Tells
<1>4. /\ LoadRules(c)' = LoadRules(c) /\ LoadOverride(c)' = LoadOverride(c)
      /\ (Asked(c)' <=> Asked(c)) /\ cat' = cat
  BY <1>1 DEF grid, detections, LoadRules, LoadOverride, Asked, Scope
<1>5. ClosingTells(y)'
  <2> SUFFICES ASSUME c \notin y.met
               PROVE  /\ \/ Asked(c)'
                         \/ ~ Inside(c)
                         \/ /\ y.rules = LoadRules(c)'
                            /\ y.next # "override" => y.over = LoadOverride(c)'
                      /\ y.next = "commit" => \A p \in DOMAIN y.seen : y.seen[p] = cat'[p]
    BY <1>2 DEF ClosingTells, Inside
  <2>1. \/ Asked(c)
        \/ ~ Inside(c)
        \/ /\ x.rules = LoadRules(c)
           /\ x.next # "override" => x.over = LoadOverride(c)
    BY <1>2, <1>3 DEF ClosingTells
  <2>2. \/ Asked(c)'
        \/ ~ Inside(c)
        \/ /\ y.rules = LoadRules(c)'
           /\ y.next # "override" => y.over = LoadOverride(c)'
    BY <1>2, <1>4, <2>1
  <2>3. y.next = "commit" => \A p \in DOMAIN y.seen : y.seen[p] = cat'[p]
    BY <1>2, <1>4
  <2> QED
    BY <2>2, <2>3
<1>6. ClosingTells(closing[e])'
  BY <1>5 DEF ClosingTells
<1> QED
  BY <1>1, <1>2, <1>6, ClosingStepKeeps

LEMMA RollbackKeeps ==
  ASSUME IInv, TablesOK', NEW e \in DOMAIN closing, Rollback(e)
  PROVE  Tells' /\ StaleIsPending'
<1>1. UNCHANGED <<grid, detections, asked, running, exposed>>
  BY DEF Rollback
<1>2. DOMAIN closing' = DOMAIN closing \ {e} /\ \A d \in DOMAIN closing' : closing'[d] = closing[d]
  BY ClosingEnds
<1> QED
  BY <1>1, <1>2, ClosingStepKeeps

LEMMA ClassifyKeeps ==
  ASSUME IInv, TablesOK', FlightsOK', NEW k \in DOMAIN asked, Classify(k)
  PROVE  Tells' /\ StaleIsPending'
<1> PICK S : S = Scope(asked[k])
  OBVIOUS
<1> PICK w : w = Wide(asked[k])
  OBVIOUS
<1> PICK f : f = [p \in {q \in present : CellOf(q) \in S} |-> Sql(p, present)]
  OBVIOUS
<1>1. /\ DOMAIN running' = DOMAIN running \cup {k} /\ k \notin DOMAIN running
      /\ \A j \in DOMAIN running : RunAlike(running[j], running'[j])
      /\ closing' = AllMeet(closing, S, w) /\ asked' = Drop(asked, k)
      /\ UNCHANGED <<grid, detections, exposed>>
  BY RunStarts DEF IInv
<1>2. running'[k].cells = S /\ running'[k].verdict = f
  <2> PICK M : M = Met(S, w)
    OBVIOUS
  <2> PICK keys : keys = RecatKeys(asked[k])
    OBVIOUS
  <2>1. running'[k] = [cells |-> S, wide |-> w, met |-> M, keys |-> keys, verdict |-> f]
    BY RunStarts DEF IInv
  <2> QED
    BY <2>1
<1>3. UNCHANGED <<rules, over, present, cat>>
  BY <1>1 DEF grid, detections
<1>4. DOMAIN closing' = DOMAIN closing /\ \A d \in DOMAIN closing : Alike(closing[d], closing'[d])
  BY <1>1, ClosingsMeet DEF IInv
<1>5. \A c : c \notin S => Quiet(c)
  BY <1>1, DropQuiet
<1>6. /\ \A d \in DOMAIN closing' : S \cap closing'[d].cells \subseteq closing'[d].met
      /\ \A j \in DOMAIN running : S \cap running'[j].cells \subseteq running'[j].met
  <2>1. Apart'
    BY DEF FlightsOK
  <2>2. /\ \A d \in DOMAIN closing' : running'[k].cells \cap closing'[d].cells \subseteq closing'[d].met
        /\ \A j \in DOMAIN running' : j # k => running'[k].cells \cap running'[j].cells \subseteq running'[j].met
    BY <1>1, <2>1 DEF Apart
  <2> QED
    BY <1>1, <1>2, <2>2
<1>7. \A d \in DOMAIN closing' : ClosingTells(closing[d])'
  <2> TAKE d \in DOMAIN closing'
  <2>1. CellOf(closing[d].play) \in closing'[d].cells
    BY <1>4 DEF IInv, FlightsOK, ClosingOK, Alike
  <2>2. CellOf(closing[d].play) \in closing'[d].met \/ Quiet(CellOf(closing[d].play))
    BY <1>5, <1>6, <2>1
  <2> QED
    BY <1>4, <2>2, KeptClosing DEF IInv
<1>8. \A j \in DOMAIN running' : RunTells(running[j])'
  <2> TAKE j \in DOMAIN running'
  <2>1. CASE j \in DOMAIN running
    <3>1. \A c \in Cells : c \in running'[j].cells \ running'[j].met => Quiet(c)
      BY <1>5, <1>6, <2>1
    <3> QED
      BY <1>1, <2>1, <3>1, KeptRun DEF IInv
  <2>2. CASE j = k
    <3>1. \A c \in S : Verdict(running[k], c)'
      <4> TAKE c \in S
      <4> SUFFICES ASSUME NEW p \in present', CellOf(p) = c
                   PROVE  p \in DOMAIN running'[k].verdict /\ running'[k].verdict[p] = Sql(p, present)'
        BY DEF Verdict
      <4>1. Sql(p, present)' = Sql(p, present)
        BY <1>3 DEF Sql, LoadRules, LoadOverride
      <4>2. p \in DOMAIN f /\ f[p] = Sql(p, present)
        BY <1>3
      <4> QED
        BY <1>2, <4>1, <4>2
    <3> QED
      BY <1>2, <2>2, <3>1 DEF RunTells
  <2> QED
    BY <1>1, <2>1, <2>2
<1>9. \A p \in present' : Watched(p)'
  <2> TAKE p \in present'
  <2>1. p \in present /\ p \in Plays
    BY <1>3 DEF IInv, TablesOK
  <2>2. CASE CellOf(p) \in S
    BY <1>1, <1>2, <2>2 DEF Watched, Running
  <2>3. CASE CellOf(p) \notin S
    <3>1. Running(CellOf(p)) => Running(CellOf(p))'
      BY <1>1 DEF Running, RunAlike
    <3>2. Watched(p)
      BY <2>1, WatchedIsStated DEF IInv
    <3> QED
      BY <1>1, <1>5, <2>1, <2>3, <3>1, <3>2, QuietPlay
  <2> QED
    BY <2>2, <2>3
<1>10. StaleIsPending'
  BY <1>9 DEF StaleIsPending, Watched, Right, Pending, Asked, Running
<1> QED
  BY <1>7, <1>8, <1>10 DEF Tells

\* A commit lists the plays its cell-day has from then on.
LEMMA CommitLists ==
  ASSUME IInv, TablesOK', NEW e \in DOMAIN closing, Commit(e), NEW x, x = closing[e]
  PROVE  Lists(Listed(x), PlaysOf(CellOf(x.play), present'), CellOf(x.play)[2])
<1> PICK q : q = x.play
  OBVIOUS
<1> PICK c : c = CellOf(q)
  OBVIOUS
<1> PICK P : P = DOMAIN x.seen
  OBVIOUS
<1> PICK s : s = Loaded(c, P)
  OBVIOUS
<1>1. /\ x.next = "commit"
      /\ present' = IF x.op = "leave" THEN present \ {q} ELSE present \cup {q}
  BY DEF Commit
<1>2. ClosingOK(e, x) /\ q \in Plays /\ present \in SUBSET Plays
  BY DEF IInv, FlightsOK, TablesOK
<1>3. P = PlaysOf(c, Stored(x)) /\ P \in SUBSET Plays
  <2>1. P = PlaysOf(c, Stored(x))
    BY <1>1, <1>2 DEF ClosingOK
  <2> QED
    BY <1>2, <2>1 DEF PlaysOf, Stored
<1>4. PlaysOf(c, P) = P
  BY <1>3 DEF PlaysOf
<1>5. Lists(s, P, c[2]) /\ \E m \in Nat : DOMAIN s = 1..m
  BY <1>3, <1>4, LoadedLists
<1>6. CASE x.op = "insert"
  <2>1. q \notin present /\ Stored(x) = present /\ present' = present \cup {q}
    BY <1>1, <1>2, <1>6 DEF ClosingOK, Stored
  <2>2. PlaysOf(c, present') = P \cup {q} /\ q \notin P
    BY <1>3, <2>1 DEF PlaysOf
  <2>3. PICK m \in Nat : DOMAIN s = 1..m
    BY <1>5
  <2>4. s = [k \in 1..m |-> s[k]]
    <3> DEFINE Q == PlaysOf(c, P)
               row(k) == CHOOSE a \in Q : Cardinality({b \in Q : Earlier(b, a)}) = k - 1
    <3>1. s = [k \in 1..Cardinality(Q) |-> row(k)]
      BY DEF Loaded
    <3> HIDE DEF row, Q
    <3>2. DOMAIN s = 1..Cardinality(Q) /\ \A k \in DOMAIN s : s[k] = row(k)
      BY <3>1
    <3> QED
      BY <2>3, <3>1, <3>2
  <2>5. q.id \in Nat /\ q.at \in Nat /\ q.day = c[2]
    BY <1>2, GridAssumption DEF CellOf
  <2>6. \A r \in P : r.at # q.at
    <3>1. \A r \in P : r \in Plays /\ CellOf(r) = c /\ r # q
      BY <1>3, <2>2 DEF PlaysOf
    <3> QED
      BY <1>2, <3>1, GridAssumption
  <2>7. Lists(Append(s, q), P \cup {q}, c[2])
    BY <1>5, <2>2, <2>3, <2>4, <2>5, <2>6, AppendLists
  <2>8. Listed(x) = Append(s, q)
    BY <1>6 DEF Listed
  <2> QED
    BY <2>2, <2>7, <2>8
<1>7. CASE x.op # "insert"
  <2>1. Stored(x) = present'
    BY <1>1, <1>2, <1>7 DEF ClosingOK, Stored
  <2>2. Listed(x) = s
    BY <1>7 DEF Listed
  <2> QED
    BY <1>3, <1>5, <2>1, <2>2
<1> QED
  BY <1>6, <1>7

\* Having met nobody it gives each of them the category of the moment.
LEMMA CommitRights ==
  ASSUME NoneOnEdge, IInv, TablesOK', NEW e \in DOMAIN closing, Commit(e),
         NEW x, x = closing[e], CellOf(x.play) \notin x.met, ~ Asked(CellOf(x.play)),
         NEW p \in present', CellOf(p) = CellOf(x.play)
  PROVE  Right(p)'
<1> PICK q : q = x.play
  OBVIOUS
<1> PICK c : c = CellOf(q)
  OBVIOUS
<1> PICK s : s = Listed(x)
  OBVIOUS
<1> PICK Q : Q = PlaysOf(c, present')
  OBVIOUS
<1> PICK verdict : verdict = GoSettle(e, s, Period, x.rules, x.over)
  OBVIOUS
<1>1. /\ x.next = "commit" /\ UNCHANGED <<rules, over>>
      /\ \A a \in Plays : cat'[a] = IF \E i \in DOMAIN s : s[i] = a /\ (a \in DOMAIN x.seen => x.seen[a] # verdict[i])
                                   THEN verdict[CHOOSE i \in DOMAIN s : s[i] = a] ELSE cat[a]
  BY DEF Commit, grid
<1>2. ClosingOK(e, x) /\ ClosingTells(x) /\ q \in Plays
  BY DEF IInv, FlightsOK, Tells, TablesOK
<1>3. p \in Plays /\ p \in Q /\ (\A a \in Q : a \in Plays)
  BY DEF TablesOK, PlaysOf
<1>4. c[2] = e /\ e \in Int /\ {Period.from, Period.to} \subseteq Int
  BY <1>2, GridAssumption DEF ClosingOK, CellOf
<1>5. Lists(s, Q, e)
  BY <1>4, CommitLists
<1>6. RulesOK(x.rules) /\ OverrideOK(x.over) /\ \A a \in Q : Clear(a, x.rules, x.over)
  BY <1>2, <1>3 DEF ClosingOK
<1> PICK at : at = CHOOSE i \in DOMAIN s : s[i] = p
  OBVIOUS
<1>7. at \in DOMAIN s /\ s[at] = p
  <2>1. \E i \in DOMAIN s : s[i] = p
    BY <1>3, <1>5 DEF Lists
  <2> QED
    BY <2>1
<1>8. verdict[at] = Classified(p, Q, Period, x.rules, x.over)
  <2>1. verdict[at] = Classified(s[at], Q, Period, x.rules, x.over)
    BY <1>4, <1>5, <1>6, <1>7, EnginesMeet
  <2> QED
    BY <1>7, <2>1
<1>9. cat'[p] = verdict[at]
  <2>1. CASE \E i \in DOMAIN s : s[i] = p /\ (p \in DOMAIN x.seen => x.seen[p] # verdict[i])
    BY <1>1, <1>3, <2>1
  <2>2. CASE ~ \E i \in DOMAIN s : s[i] = p /\ (p \in DOMAIN x.seen => x.seen[p] # verdict[i])
    <3>1. p \in DOMAIN x.seen /\ x.seen[p] = verdict[at]
      BY <1>7, <2>2
    <3>2. x.seen[p] = cat[p]
      BY <1>1, <1>2, <3>1 DEF ClosingTells
    <3> QED
      BY <1>1, <1>3, <2>2, <3>1, <3>2
  <2> QED
    BY <2>1, <2>2
<1>10. Sql(p, present)' = Classified(p, Q, Period, LoadRules(c), LoadOverride(c))
  <2>1. Sql(p, present)' = Classified(p, PlaysOf(c, present'), Period, LoadRules(c)', LoadOverride(c)')
    BY DEF Sql
  <2>2. LoadRules(c)' = LoadRules(c) /\ LoadOverride(c)' = LoadOverride(c)
    BY <1>1 DEF LoadRules, LoadOverride
  <2> QED
    BY <2>1, <2>2
<1>11. \/ ~ Inside(c)
       \/ x.rules = LoadRules(c) /\ x.over = LoadOverride(c)
  BY <1>1, <1>2 DEF ClosingTells
<1>12. cat'[p] = Sql(p, present)'
  <2>1. CASE ~ Inside(c)
    <3>1. verdict[at] = "out_date" /\ Sql(p, present)' = "out_date"
      BY <1>3, <1>8, <1>10, <2>1, OutsidePeriod
    <3> QED
      BY <1>9, <3>1
  <2>2. CASE x.rules = LoadRules(c) /\ x.over = LoadOverride(c)
    BY <1>8, <1>9, <1>10, <2>2
  <2> QED
    BY <1>11, <2>1, <2>2
<1> QED
  BY <1>12 DEF Right

LEMMA CommitKeeps ==
  ASSUME NoneOnEdge, IInv, TablesOK', NEW e \in DOMAIN closing, Commit(e)
  PROVE  Tells' /\ StaleIsPending'
<1> PICK x : x = closing[e]
  OBVIOUS
<1> PICK q : q = x.play
  OBVIOUS
<1> PICK cell : cell = CellOf(q)
  OBVIOUS
<1>1. /\ UNCHANGED <<rules, over, asked, running>>
      /\ present' \ {q} = present \ {q}
      /\ exposed' = (exposed \ x.cells) \cup x.met
  BY DEF Commit, Settles, grid
<1>2. DOMAIN closing' = DOMAIN closing \ {e} /\ \A d \in DOMAIN closing' : closing'[d] = closing[d]
  BY ClosingEnds
<1>3. ClosingOK(e, x) /\ x.cells = {cell} /\ cell[2] = e /\ q \in Plays
  BY DEF IInv, FlightsOK, TablesOK, ClosingOK, CellOf
<1>4. \A c : (Asked(c)' <=> Asked(c)) /\ (Running(c)' <=> Running(c)) /\ Unedited(c)
  BY <1>1 DEF Asked, Running, Scope, Unedited, LoadRules, LoadOverride
<1>5. ASSUME NEW c, c # cell PROVE Quiet(c)
  <2>1. PlaysOf(c, present') = PlaysOf(c, present)
    BY <1>1, <1>5, OtherDay
  <2>2. \A p \in Plays : CellOf(p) = c => cat'[p] = cat[p]
    <3> TAKE p \in Plays
    <3> HAVE CellOf(p) = c
    <3> PICK s : s = Listed(x)
      OBVIOUS
    <3>1. Lists(s, PlaysOf(cell, present'), cell[2])
      BY CommitLists
    <3>2. \A i \in DOMAIN s : s[i] # p
      BY <1>5, <3>1 DEF Lists, PlaysOf
    <3> QED
      BY <3>2 DEF Commit
  <2> QED
    BY <1>4, <2>1, <2>2 DEF Quiet
<1>6. \A d \in DOMAIN closing' : ClosingTells(closing[d])'
  <2> TAKE d \in DOMAIN closing'
  <2>1. Alike(closing[d], closing'[d])
    BY <1>2 DEF IInv, TablesOK, Alike
  <2>2. CellOf(closing[d].play) # cell
    <3>1. CellOf(closing[d].play)[2] = d
      BY <1>2, DayOfClosing DEF IInv, FlightsOK
    <3> QED
      BY <1>2, <1>3, <3>1
  <2> QED
    BY <1>2, <1>5, <2>1, <2>2, KeptClosing DEF IInv
<1>7. \A k \in DOMAIN running' : RunTells(running[k])'
  <2> TAKE k \in DOMAIN running'
  <2>1. RunAlike(running[k], running'[k])
    BY <1>1 DEF IInv, FlightsOK, RunOK, RunAlike
  <2>2. cell \in running[k].cells => cell \in running[k].met
    BY <1>1, <1>3 DEF IInv, FlightsOK, Apart
  <2> QED
    BY <1>1, <1>5, <2>1, <2>2, KeptRun DEF IInv
<1>8. \A p \in present' : Watched(p)'
  <2> TAKE p \in present'
  <2>1. p \in Plays
    BY DEF TablesOK
  <2>2. CASE CellOf(p) = cell /\ cell \in x.met
    BY <1>1, <2>2 DEF Watched
  <2>3. CASE CellOf(p) = cell /\ Asked(cell)
    BY <1>4, <2>3 DEF Watched
  <2>4. CASE CellOf(p) = cell /\ cell \notin x.met /\ ~ Asked(cell)
    <3>1. Right(p)'
      BY <2>4, CommitRights
    <3> QED
      BY <3>1 DEF Watched
  <2>5. CASE CellOf(p) # cell
    <3>1. p \in present
      BY <1>1, <2>5
    <3>2. Watched(p)
      BY <3>1, WatchedIsStated DEF IInv
    <3>3. CellOf(p) \in exposed => CellOf(p) \in exposed'
      BY <1>1, <1>3, <2>5
    <3> QED
      BY <1>4, <1>5, <2>1, <2>5, <3>2, <3>3, QuietPlay
  <2> QED
    BY <2>2, <2>3, <2>4, <2>5
<1>9. StaleIsPending'
  BY <1>8 DEF StaleIsPending, Watched, Right, Pending, Asked, Running
<1> QED
  BY <1>6, <1>7, <1>9 DEF Tells

LEMMA ApplyKeeps ==
  ASSUME IInv, TablesOK', NEW k \in DOMAIN running, Apply(k)
  PROVE  Tells' /\ StaleIsPending'
<1> PICK x : x = running[k]
  OBVIOUS
<1>1. /\ \A p \in Plays : cat'[p] = IF p \in DOMAIN x.verdict THEN x.verdict[p] ELSE cat[p]
      /\ exposed' = (exposed \ x.cells) \cup x.met
      /\ UNCHANGED <<rules, over, present, closing, asked>>
  BY DEF Apply, Settles, grid
<1>2. DOMAIN running' = DOMAIN running \ {k} /\ \A j \in DOMAIN running' : RunAlike(running[j], running'[j])
  BY RunCommits DEF IInv
<1>3. RunOK(x) /\ RunTells(x)
  BY DEF IInv, FlightsOK, Tells
<1>4. \A c : (Asked(c)' <=> Asked(c)) /\ Unedited(c)
  BY <1>1 DEF Asked, Scope, Unedited, LoadRules, LoadOverride
<1>5. ASSUME NEW c, c \notin x.cells PROVE Quiet(c)
  <2>1. \A p \in Plays : CellOf(p) = c => cat'[p] = cat[p]
    BY <1>1, <1>3, <1>5 DEF RunOK
  <2> QED
    BY <1>1, <1>4, <2>1 DEF Quiet
<1>6. \A d \in DOMAIN closing' : ClosingTells(closing[d])'
  <2> TAKE d \in DOMAIN closing'
  <2>1. Alike(closing[d], closing'[d])
    BY <1>1 DEF IInv, TablesOK, Alike
  <2>2. CellOf(closing[d].play) \in x.cells => CellOf(closing[d].play) \in closing'[d].met
    <3>1. x.cells \cap closing[d].cells \subseteq closing[d].met
      BY <1>1 DEF IInv, FlightsOK, Apart
    <3>2. CellOf(closing[d].play) \in closing[d].cells
      BY <1>1 DEF IInv, FlightsOK, ClosingOK
    <3> QED
      BY <1>1, <3>1, <3>2
  <2> QED
    BY <1>1, <1>5, <2>1, <2>2, KeptClosing DEF IInv
<1>7. \A j \in DOMAIN running' : RunTells(running[j])'
  <2> TAKE j \in DOMAIN running'
  <2>1. \A c \in x.cells : c \in running'[j].cells => c \in running'[j].met
    <3>1. x.cells \cap running[j].cells \subseteq running[j].met
      BY <1>2 DEF IInv, FlightsOK, Apart
    <3> QED
      BY <1>2, <3>1 DEF RunAlike
  <2> QED
    BY <1>2, <1>5, <2>1, KeptRun DEF IInv
<1>8. \A p \in present' : Watched(p)'
  <2> TAKE p \in present'
  <2> PICK c : c = CellOf(p)
    OBVIOUS
  <2>1. p \in present /\ p \in Plays
    BY <1>1 DEF IInv, TablesOK
  <2>2. CASE c \in x.cells /\ (c \in x.met \/ Asked(c))
    BY <1>1, <1>4, <2>2 DEF Watched
  <2>3. CASE c \in x.cells /\ c \notin x.met /\ ~ Asked(c)
    <3>1. p \in DOMAIN x.verdict /\ x.verdict[p] = Sql(p, present)
      BY <1>3, <2>1, <2>3 DEF RunTells, Verdict
    <3>2. Sql(p, present)' = Sql(p, present)
      BY <1>1, <1>4, <2>1, SqlStays
    <3>3. cat'[p] = Sql(p, present)'
      BY <1>1, <2>1, <3>1, <3>2
    <3> QED
      BY <3>3 DEF Watched, Right
  <2>4. CASE c \notin x.cells
    <3>1. Running(c) => Running(c)'
      BY <1>2, <2>4 DEF Running, RunAlike
    <3>2. Watched(p)
      BY <2>1, WatchedIsStated DEF IInv
    <3> QED
      BY <1>1, <1>5, <2>1, <2>4, <3>1, <3>2, QuietPlay
  <2> QED
    BY <2>2, <2>3, <2>4
<1>9. StaleIsPending'
  BY <1>8 DEF StaleIsPending, Watched, Right, Pending, Asked, Running
<1> QED
  BY <1>6, <1>7, <1>9 DEF Tells

\* A recategorisation that fails leaves its cell-days in doubt, and those of the
\* transactions in flight.
LEMMA LossKeeps ==
  ASSUME IInv, TablesOK', NEW S,
         UNCHANGED grid, UNCHANGED detections, exposed' = exposed \cup S,
         \A c : c \notin S => Quiet(c),
         closing' = AllMeet(closing, S, TRUE),
         DOMAIN running' \subseteq DOMAIN running,
         \A j \in DOMAIN running' : /\ RunAlike(running[j], running'[j])
                                    /\ S \cap running[j].cells \subseteq running'[j].met,
         \A c : c \notin S => (Running(c) => Running(c)')
  PROVE  Tells' /\ StaleIsPending'
<1>1. /\ DOMAIN closing' = DOMAIN closing
      /\ \A d \in DOMAIN closing : /\ Alike(closing[d], closing'[d])
                                   /\ closing'[d].met = closing[d].met \cup (S \cap closing[d].cells)
  BY ClosingsMeet DEF IInv
<1>2. \A d \in DOMAIN closing' : ClosingTells(closing[d])'
  <2> TAKE d \in DOMAIN closing'
  <2>1. CellOf(closing[d].play) \in closing[d].cells
    BY <1>1 DEF IInv, FlightsOK, ClosingOK
  <2>2. CellOf(closing[d].play) \in closing'[d].met \/ Quiet(CellOf(closing[d].play))
    BY <1>1, <2>1
  <2> QED
    BY <1>1, <2>2, KeptClosing DEF IInv
<1>3. \A j \in DOMAIN running' : RunTells(running[j])'
  <2> TAKE j \in DOMAIN running'
  <2>1. \A c \in Cells : c \in running'[j].cells \ running'[j].met => Quiet(c)
    BY DEF RunAlike
  <2> QED
    BY <2>1, KeptRun DEF IInv
<1>4. \A p \in present' : Watched(p)'
  <2> TAKE p \in present'
  <2>1. p \in present /\ p \in Plays
    BY DEF IInv, TablesOK, detections
  <2>2. Watched(p)
    BY <2>1, WatchedIsStated DEF IInv
  <2>3. CASE CellOf(p) \in S
    BY <2>3 DEF Watched
  <2>4. CASE CellOf(p) \notin S
    BY <2>1, <2>2, <2>4, QuietPlay
  <2> QED
    BY <2>3, <2>4
<1>5. StaleIsPending'
  BY <1>4 DEF StaleIsPending, Watched, Right, Pending, Asked, Running
<1> QED
  BY <1>2, <1>3, <1>5 DEF Tells

LEMMA NeverStartsKeeps ==
  ASSUME IInv, TablesOK', NEW k \in DOMAIN asked, NeverStarts(k)
  PROVE  Tells' /\ StaleIsPending'
<1> PICK S : S = Scope(asked[k])
  OBVIOUS
<1>1. /\ UNCHANGED grid /\ UNCHANGED detections /\ exposed' = exposed \cup S
      /\ asked' = Drop(asked, k)
      /\ closing' = AllMeet(closing, S, TRUE) /\ running' = AllMeet(running, S, TRUE)
  BY DEF NeverStarts, Lose
<1>2. \A c : c \notin S => Quiet(c)
  BY <1>1, DropQuiet
<1>3. /\ DOMAIN running' = DOMAIN running
      /\ \A j \in DOMAIN running :
           /\ RunAlike(running[j], running'[j])
           /\ running'[j].met = running[j].met \cup (S \cap running[j].cells)
  BY <1>1, RunsKeep DEF IInv
<1>4. \A c : Running(c) => Running(c)'
  BY <1>3 DEF Running, RunAlike
<1>5. /\ DOMAIN running' \subseteq DOMAIN running
      /\ \A j \in DOMAIN running' : /\ RunAlike(running[j], running'[j])
                                    /\ S \cap running[j].cells \subseteq running'[j].met
  BY <1>3
<1> QED
  BY <1>1, <1>2, <1>4, <1>5, LossKeeps

LEMMA NeverCommitsKeeps ==
  ASSUME IInv, TablesOK', NEW k \in DOMAIN running, NeverCommits(k)
  PROVE  Tells' /\ StaleIsPending'
<1> PICK S : S = running[k].cells
  OBVIOUS
<1>1. /\ UNCHANGED grid /\ UNCHANGED detections /\ exposed' = exposed \cup S
      /\ UNCHANGED asked /\ closing' = AllMeet(closing, S, TRUE)
  BY DEF NeverCommits, Lose
<1>2. \A c : Quiet(c)
  BY <1>1, AllQuiet
<1>3. /\ DOMAIN running' = DOMAIN running \ {k}
      /\ \A j \in DOMAIN running' :
           /\ RunAlike(running[j], running'[j])
           /\ S \cap running[j].cells \subseteq running'[j].met
  BY RunIsLost DEF IInv
<1>4. \A c : c \notin S => (Running(c) => Running(c)')
  BY <1>3 DEF Running, RunAlike
<1> QED
  BY <1>1, <1>2, <1>3, <1>4, LossKeeps

LEMMA IInvNext ==
  ASSUME NoneOnEdge, Retypes = FALSE, IInv, [Next]_vars
  PROVE  IInv'
<1>1. TablesOK' /\ FlightsOK'
  BY TablesNext, FlightsNext DEF IInv
<1>2. ASSUME NEW p \in Moving, Open("insert", p) \/ Open("leave", p) \/ Open("return", p)
      PROVE  Tells' /\ StaleIsPending'
  BY <1>1, <1>2, OpenKeeps
<1>3. ASSUME NEW d \in DOMAIN closing, ReadOverride(d) \/ ReadPlays(d) PROVE Tells' /\ StaleIsPending'
  BY <1>1, <1>3, ReadKeeps
<1>4. ASSUME NEW d \in DOMAIN closing, Commit(d) PROVE Tells' /\ StaleIsPending'
  BY <1>1, <1>4, CommitKeeps
<1>5. ASSUME NEW d \in DOMAIN closing, Rollback(d) PROVE Tells' /\ StaleIsPending'
  BY <1>1, <1>5, RollbackKeeps
<1>6. ASSUME Edits PROVE Tells' /\ StaleIsPending'
  BY <1>1, <1>6, EditKeeps
<1>7. ASSUME NEW k \in DOMAIN asked, Classify(k) PROVE Tells' /\ StaleIsPending'
  BY <1>1, <1>7, ClassifyKeeps
<1>8. ASSUME NEW k \in DOMAIN asked, NeverStarts(k) PROVE Tells' /\ StaleIsPending'
  BY <1>1, <1>8, NeverStartsKeeps
<1>9. ASSUME NEW k \in DOMAIN running, Apply(k) PROVE Tells' /\ StaleIsPending'
  BY <1>1, <1>9, ApplyKeeps
<1>10. ASSUME NEW k \in DOMAIN running, NeverCommits(k) PROVE Tells' /\ StaleIsPending'
  BY <1>1, <1>10, NeverCommitsKeeps
<1>11. CASE UNCHANGED vars
  <2>1. UNCHANGED <<grid, detections, closing, asked, running, exposed>>
    BY <1>11 DEF vars
  <2>2. \A d \in DOMAIN closing' : closing'[d] = closing[d]
    BY <2>1
  <2>3. Tells' /\ StaleIsPending'
    BY <1>1, <2>1, <2>2, ClosingStepKeeps
  <2> QED
    BY <1>1, <2>3 DEF IInv
<1> QED
  BY <1>1, <1>2, <1>3, <1>4, <1>5, <1>6, <1>7, <1>8, <1>9, <1>10, <1>11 DEF Next, Edits, IInv

\* A stored category that the tables do not give has a recategorisation of its
\* cell-day asked or in flight, or a failed one, or was last written by a
\* transaction that ran alongside one that takes no lock, for all the rules,
\* overrides, plays and numbers of transactions, as long as no play is on the
\* edge of a slot and no edit moves a rule to another type: the reads of a
\* closing or of a recategorisation grow stale between two statements, and what
\* makes it sound is that an edit asks after it saves, that the asked one reads
\* after that, and that the lock of the day keeps closings and the
\* recategorisations of overrides apart.
THEOREM StaleAlwaysPending ==
  ASSUME NoneOnEdge, Retypes = FALSE
  PROVE  Spec => []StaleIsPending
<1>1. Init => IInv
  <2> SUFFICES ASSUME Init PROVE IInv
    OBVIOUS
  <2>1. TablesOK /\ FlightsOK
    BY TablesInit, FlightsInit
  <2>2. Tells
    BY DEF Init, Tells
  <2>3. StaleIsPending
    <3> SUFFICES ASSUME NEW p \in present PROVE cat[p] = Sql(p, present)
      BY DEF StaleIsPending
    <3>1. p \in Plays /\ cat[p] = Sql(p, present)
      BY <2>1 DEF Init, TablesOK
    <3> QED
      BY <3>1
  <2> QED
    BY <2>1, <2>2, <2>3 DEF IInv
<1>2. IInv /\ [Next]_vars => IInv'
  BY IInvNext
<1>3. IInv => StaleIsPending
  BY DEF IInv
<1> QED
  BY <1>1, <1>2, <1>3, PTL DEF Spec
=============================================================================
