-------------------------- MODULE SettlementProofs --------------------------
(***************************************************************************)
(* What the quota rule guarantees for every goal, every finite set of      *)
(* plays and every choice of slots and dates.                              *)
(***************************************************************************)
EXTENDS Settlement, FiniteSetTheorems, TLAPS

\* A family of finite sets has a smallest one, and a set of naturals too.
LEMMA SmallestSet ==
  ASSUME NEW T, T # {}, \A A \in T : IsFiniteSet(A)
  PROVE  \E A \in T : \A B \in T : ~ (B \subseteq A /\ B # A)
<1> DEFINE S == UNION T
           R == StrictSubsetOrdering(S)
<1>1. T \subseteq FiniteSubsetsOf(S)
  BY DEF FiniteSubsetsOf
<1>2. IsWellFoundedOn(R, FiniteSubsetsOf(S))
  BY FS_StrictSubsetOrderingWellFounded
<1>3. \E A \in T : \A B \in T : ~ (<<B, A>> \in R)
  <2> HIDE DEF R
  <2> QED
    BY <1>1, <1>2, WFMin
<1>4. PICK A \in T : \A B \in T : ~ (<<B, A>> \in R)
  BY <1>3
<1> QED
  BY <1>4 DEF StrictSubsetOrdering

LEMMA SmallestNat ==
  ASSUME NEW A \in SUBSET Nat, A # {}
  PROVE  \E a \in A : \A b \in A : a <= b
<1> DEFINE T == {0..m : m \in A}
<1>1. T # {} /\ \A B \in T : IsFiniteSet(B)
  <2>1. \A m \in A : IsFiniteSet(0..m)
    BY FS_Interval
  <2> QED
    BY <2>1
<1>2. PICK B \in T : \A C \in T : ~ (C \subseteq B /\ C # B)
  <2> HIDE DEF T
  <2> QED
    BY <1>1, SmallestSet
<1>3. PICK a \in A : B = 0..a
  BY <1>2
<1>4. ASSUME NEW b \in A, b < a PROVE FALSE
  <2>1. a \in 0..a /\ a \notin 0..b
    BY <1>4
  <2>2. 0..b \subseteq 0..a
    BY <1>4
  <2> QED
    BY <2>1, <2>2, <1>2, <1>3
<1> QED
  BY <1>4

\* c puts aside one element of each non-empty subset of D.
Picks(c, D) == /\ c \in [(SUBSET D) \ {{}} -> D]
               /\ \A s \in (SUBSET D) \ {{}} : c[s] \in s

\* g folds the subsets of D by the step h, from b, in the order c picks.
Folds(g, D, V, b, c, h) ==
  /\ g \in [SUBSET D -> V]
  /\ \A s \in SUBSET D : g[s] = IF s = {} THEN b ELSE h[<<c[s], g[s \ {c[s]}]>>]

\* A fold over the subsets of a finite set exists.  The library's theorems on
\* recursive definitions take an operator, so it is built here size by size.
LEMMA SetRecursion ==
  ASSUME NEW D, IsFiniteSet(D), NEW V, NEW b \in V, NEW c, Picks(c, D), NEW h \in [D \X V -> V]
  PROVE  \E g : Folds(g, D, V, b, c, h)
<1> USE DEF Picks
<1> DEFINE Small(n) == {s \in SUBSET D : Cardinality(s) <= n}
           Good(n) == \E g \in [Small(n) -> V] : \A s \in Small(n) :
                        g[s] = IF s = {} THEN b ELSE h[<<c[s], g[s \ {c[s]}]>>]
<1>1. \A s \in SUBSET D : IsFiniteSet(s) /\ Cardinality(s) \in Nat
  BY FS_Subset, FS_CardinalityType
<1>2. \A s \in (SUBSET D) \ {{}} : /\ s \ {c[s]} \in SUBSET D
                                   /\ Cardinality(s \ {c[s]}) = Cardinality(s) - 1
  BY <1>1, FS_RemoveElement
<1>3. \A n \in Nat : Good(n)
  <2> DEFINE Bad == {n \in Nat : ~ Good(n)}
  <2>1. SUFFICES ASSUME Bad # {} PROVE FALSE
    BY <2>1
  <2>2. PICK m \in Bad : \A n \in Bad : m <= n
    <3>1. Bad \in SUBSET Nat
      OBVIOUS
    <3> HIDE DEF Bad
    <3> QED
      BY <2>1, <3>1, SmallestNat
  <2>3. m \in Nat /\ ~ Good(m)
    BY <2>2
  <2>4. CASE m = 0
    <3>1. \A s \in Small(0) : s = {}
      BY <1>1, FS_EmptySet
    <3>2. [s \in Small(0) |-> b] \in [Small(0) -> V]
      OBVIOUS
    <3>3. Good(0)
      BY <3>1, <3>2
    <3> QED
      BY <3>3, <2>3, <2>4
  <2>5. CASE m # 0
    <3>1. m - 1 \in Nat /\ Good(m - 1)
      <4>1. m - 1 \in Nat /\ ~ (m <= m - 1)
        BY <2>3, <2>5
      <4> QED
        BY <4>1, <2>2
    <3>2. PICK g \in [Small(m - 1) -> V] : \A s \in Small(m - 1) :
            g[s] = IF s = {} THEN b ELSE h[<<c[s], g[s \ {c[s]}]>>]
      BY <3>1
    <3> DEFINE k == [s \in Small(m) |-> IF s = {} THEN b ELSE h[<<c[s], g[s \ {c[s]}]>>]]
    <3>3. \A s \in Small(m) : s # {} => s \ {c[s]} \in Small(m - 1)
      BY <1>1, <1>2, <2>3
    <3>4. \A s \in Small(m) : s # {} => c[s] \in D
      OBVIOUS
    <3>5. k \in [Small(m) -> V]
      BY <3>3, <3>4
    <3>6. \A s \in Small(m) : k[s] = IF s = {} THEN b ELSE h[<<c[s], g[s \ {c[s]}]>>]
      OBVIOUS
    <3>7. \A s \in Small(m - 1) : s \in Small(m)
      BY <1>1, <2>3
    <3> HIDE DEF k, Small
    <3>8. \A s \in Small(m - 1) : k[s] = g[s]
      BY <3>2, <3>6, <3>7
    <3>9. \A s \in Small(m) : k[s] = IF s = {} THEN b ELSE h[<<c[s], k[s \ {c[s]}]>>]
      BY <3>3, <3>6, <3>8
    <3>10. Good(m)
      BY <3>5, <3>9
    <3> QED
      BY <3>10, <2>3
  <2> QED
    BY <2>4, <2>5
<1>4. Small(Cardinality(D)) = SUBSET D
  BY <1>1, FS_Subset
<1>5. Good(Cardinality(D))
  BY <1>1, <1>3
<1> QED
  BY <1>4, <1>5 DEF Folds

\* The rule gives every play of the cell-day exactly one of the categories.
LEMMA SettleType ==
  ASSUME NEW n, NEW P, NEW W, NEW X
  PROVE  Settle(n, P, W, X) \in [P -> Categories]
BY DEF Settle, Categories

\* ROW_NUMBER is a count, at most the size of the set it numbers.
LEMMA RowNumberType ==
  ASSUME NEW S \in SUBSET Nat, IsFiniteSet(S), NEW p \in Nat
  PROVE  RowNumber(p, S) \in Nat /\ RowNumber(p, S) <= Cardinality(S)
<1> DEFINE T == {q \in S : q <= p}
<1>1. T \in SUBSET S
  OBVIOUS
<1>2. IsFiniteSet(T) /\ Cardinality(T) <= Cardinality(S)
  BY <1>1, FS_Subset
<1>3. Cardinality(T) \in Nat
  BY <1>2, FS_CardinalityType
<1> QED
  BY <1>2, <1>3 DEF RowNumber

\* ROW_NUMBER tells the plays of a set apart: the later one has the larger.
LEMMA RowNumberGrows ==
  ASSUME NEW S \in SUBSET Nat, IsFiniteSet(S), NEW p \in S, NEW q \in S, p < q
  PROVE  RowNumber(p, S) < RowNumber(q, S)
<1> DEFINE A == {r \in S : r <= p}
           B == {r \in S : r <= q}
<1>1. A \in SUBSET B /\ B \in SUBSET S
  <2>1. \A r \in S : r \in Nat /\ (r <= p => r <= q)
    OBVIOUS
  <2> QED
    BY <2>1
<1>2. q \in B /\ q \notin A
  OBVIOUS
<1>3. IsFiniteSet(B)
  BY <1>1, FS_Subset
<1>4. IsFiniteSet(A) /\ Cardinality(A) <= Cardinality(B)
      /\ (Cardinality(B) = Cardinality(A) => B = A)
  BY <1>1, <1>3, FS_Subset
<1>5. Cardinality(A) \in Nat /\ Cardinality(B) \in Nat
  BY <1>3, <1>4, FS_CardinalityType
<1>6. Cardinality(A) # Cardinality(B)
  BY <1>2, <1>4
<1>7. Cardinality(A) < Cardinality(B)
  BY <1>4, <1>5, <1>6
<1> QED
  BY <1>7 DEF RowNumber

\* A play of the cell-day has a row number of at least one.
LEMMA RowNumberPositive ==
  ASSUME NEW S \in SUBSET Nat, IsFiniteSet(S), NEW p \in S
  PROVE  RowNumber(p, S) \in Nat \ {0}
<1> DEFINE T == {q \in S : q <= p}
<1>1. T \in SUBSET S /\ p \in T
  OBVIOUS
<1>2. IsFiniteSet(T)
  BY <1>1, FS_Subset
<1>3. Cardinality(T) # 0
  BY <1>1, <1>2, FS_EmptySet
<1>4. Cardinality(T) \in Nat
  BY <1>2, FS_CardinalityType
<1> QED
  BY <1>3, <1>4 DEF RowNumber

\* Whatever the goal, the plays and the slots, a closing credits at most n plays
\* with the slot: the recategoriser's `rn <= n` and the engine's seat counter.
THEOREM SettleWithinQuota ==
  ASSUME NEW n \in Nat, NEW P \in SUBSET Nat, IsFiniteSet(P), NEW W, NEW X
  PROVE  Cardinality(InSlot(Settle(n, P, W, X))) <= n
<1> DEFINE S == Competing(P, W, X)
           T == InSlot(Settle(n, P, W, X))
           f == [p \in T |-> RowNumber(p, S)]
<1>1. S \in SUBSET P
  BY DEF Competing
<1>2. S \in SUBSET Nat /\ IsFiniteSet(S)
  BY <1>1, FS_Subset
<1>3. \A p \in T : p \in S /\ RowNumber(p, S) <= n
  BY DEF InSlot, Settle, Competing
<1>4. T \in SUBSET S
  BY <1>3
<1>5. IsFiniteSet(T) /\ Cardinality(T) \in Nat
  BY <1>2, <1>4, FS_Subset, FS_CardinalityType
<1>6. f \in [T -> 1..n]
  <2> SUFFICES ASSUME NEW p \in T PROVE RowNumber(p, S) \in 1..n
    OBVIOUS
  <2>1. RowNumber(p, S) \in Nat \ {0}
    BY <1>2, <1>3, RowNumberPositive
  <2> QED
    BY <2>1, <1>3
<1>7. IsFiniteSet(1..n) /\ Cardinality(1..n) = n
  BY FS_Interval
<1>8. ASSUME n < Cardinality(T) PROVE FALSE
  <2>1. PICK p, q \in T : p # q /\ f[p] = f[q]
    <3>1. Cardinality(1..n) < Cardinality(T)
      BY <1>7, <1>8
    <3> HIDE DEF T, f
    <3> QED
      BY <1>5, <1>6, <1>7, <3>1, FS_PigeonHole
  <2>2. p \in S /\ q \in S /\ p \in Nat /\ q \in Nat
    BY <1>2, <1>4
  <2>3. CASE p < q
    <3>1. RowNumber(p, S) < RowNumber(q, S)
      BY <1>2, <2>2, <2>3, RowNumberGrows
    <3> QED
      BY <3>1, <2>1, <2>2, <1>2, RowNumberType
  <2>4. CASE q < p
    <3>1. RowNumber(q, S) < RowNumber(p, S)
      BY <1>2, <2>2, <2>4, RowNumberGrows
    <3> QED
      BY <3>1, <2>1, <2>2, <1>2, RowNumberType
  <2> QED
    BY <2>1, <2>2, <2>3, <2>4
<1> QED
  BY <1>5, <1>8

\* A play that arrives, however early in the day, never promotes another one to
\* in_slot: it can only push the plays after it out of the quota.
THEOREM ArrivalNeverPromotes ==
  ASSUME NEW n \in Nat, NEW P \in SUBSET Nat, IsFiniteSet(P), NEW W, NEW X,
         NEW Q \in SUBSET P, NEW p \in Q, Settle(n, P, W, X)[p] = "in_slot"
  PROVE  Settle(n, Q, W, X)[p] = "in_slot"
<1> DEFINE SP == Competing(P, W, X)
           SQ == Competing(Q, W, X)
           A  == {r \in SQ : r <= p}
           B  == {r \in SP : r <= p}
<1>1. A \in SUBSET B /\ B \in SUBSET P
  BY DEF Competing
<1>2. IsFiniteSet(B)
  BY <1>1, FS_Subset
<1>3. IsFiniteSet(A) /\ Cardinality(A) <= Cardinality(B)
  BY <1>1, <1>2, FS_Subset
<1>4. Cardinality(A) \in Nat /\ Cardinality(B) \in Nat
  BY <1>2, <1>3, FS_CardinalityType
<1>5. p \in P /\ p \notin X /\ p \in W /\ RowNumber(p, SP) <= n
  BY DEF Settle
<1>6. RowNumber(p, SQ) <= n
  BY <1>3, <1>4, <1>5 DEF RowNumber
<1> QED
  BY <1>5, <1>6 DEF Settle
=============================================================================
