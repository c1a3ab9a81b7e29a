---------------------------- MODULE Categorizer ----------------------------
(***************************************************************************)
(* The two engines that decide the category of the plays of one cell-day:  *)
(* categorizer.Settle, in Go, run by every insert and every change of the  *)
(* approved set, and recatClassifiedCTE, in SQL, run by every              *)
(* recategorisation and by the reconciler (internal/categorizer,           *)
(* internal/catalog/distribution_rules.go).                                *)
(*                                                                         *)
(* A play is [id, at, day, mat], at counting PerSec ticks to the second.   *)
(* rules maps the ids of the rules of the cell's type and station to       *)
(* [type, mats, from, to, dows, start, end, n], mats empty for a rule that *)
(* holds for every material of the type; ov is the set of the overrides of *)
(* the cell-day, empty or one [n, start, end].  cmp is the campaign's      *)
(* [from, to].  Slots are in seconds.                                      *)
(***************************************************************************)
EXTENDS Settlement, Integers, Functions

CONSTANTS
  Weekday,  \* day of the week of each day
  Tol,      \* SlotToleranceSeconds
  PerSec    \* resolution of detected_at

ASSUME SecondsAssumption == Tol \in Nat /\ PerSec \in Nat \ {0}

Earlier(p, q) == p.at < q.at \/ (p.at = q.at /\ p.id < q.id)

Named(rules, mat) == {i \in DOMAIN rules : mat \in rules[i].mats}

-----------------------------------------------------------------------------
(* categorizer.Settle. *)

RuleCoversDay(r, day) == day \in r.from..r.to /\ Weekday[day] \in r.dows

\* What a set of the rules orders together, n plays a day each.
Ordered(rules, D) == SumFunction([i \in D |-> rules[i].n])

\* The override's goal, otherwise the sum of the rules of the day.
Goal(day, rules, ov) ==
  IF ov # {} THEN (CHOOSE o \in ov : TRUE).n
  ELSE Ordered(rules, {i \in DOMAIN rules : RuleCoversDay(rules[i], day)})

CarvedOutsidePeriod(day, mat, rules) ==
  /\ Named(rules, mat) # {}
  /\ \A i \in Named(rules, mat) : day \notin rules[i].from..rules[i].to

OutDate(p, cmp, rules) ==
  \/ p.day \notin cmp.from..cmp.to
  \/ CarvedOutsidePeriod(p.day, p.mat, rules)

\* The time of day is read as whole seconds.
InAnyWindow(p, rules, ov) ==
  LET sec == p.at \div PerSec
      within(w) == w.start - Tol <= sec /\ sec <= w.end + Tol
      mine(r) == IF Named(rules, p.mat) # {} THEN p.mat \in r.mats ELSE r.mats = {}
  IN IF ov # {} THEN \E o \in ov : within(o)
     ELSE \E i \in DOMAIN rules : /\ mine(rules[i])
                                  /\ RuleCoversDay(rules[i], p.day)
                                  /\ within(rules[i])

\* The stable sort by detected_at: ties keep the order of `plays`.
Before(plays, j, i) == plays[j].at < plays[i].at \/ (plays[j].at = plays[i].at /\ j < i)

\* Mutant: one place too many.
PlacesOneMore(n, plays, W) ==
  {i \in W : Cardinality({j \in W : Before(plays, j, i)}) <= n}

\* The places go to the plays inside a slot, first come first served: a play has
\* one when the loop has given fewer than n to those before it.
Places(n, plays, W) ==
  {i \in W : Cardinality({j \in W : Before(plays, j, i)}) < n}

GoSettle(day, plays, cmp, rules, ov) ==
  LET n == Goal(day, rules, ov)
      X == {i \in DOMAIN plays : OutDate(plays[i], cmp, rules)}
      W == {i \in DOMAIN plays \ X : InAnyWindow(plays[i], rules, ov)}
      won == Places(n, plays, W)
  IN [i \in DOMAIN plays |->
        CASE i \in X -> "out_date"
          [] i \in won -> "in_slot"
          [] i \in DOMAIN plays \ (X \cup W) /\ Cardinality(won) < n -> "out_slot"
          [] OTHER -> "bonus"]

-----------------------------------------------------------------------------
(* recatClassifiedCTE. *)

Meta(day, rules, ov) ==
  IF ov # {} THEN (CHOOSE o \in ov : TRUE).n
  ELSE Ordered(rules, {i \in DOMAIN rules : /\ rules[i].from <= day /\ day <= rules[i].to
                                            /\ Weekday[day] \in rules[i].dows})

IsOutDate(p, cmp, rules) ==
  \/ p.day < cmp.from \/ cmp.to < p.day
  \/ /\ \E i \in DOMAIN rules : rules[i].mats # {} /\ p.mat \in rules[i].mats
     /\ ~ \E i \in DOMAIN rules : /\ p.mat \in rules[i].mats
                                  /\ rules[i].from <= p.day /\ p.day <= rules[i].to

\* Mutant: the slot without its tolerance (distribution_rules.go had it so).
InWindowExact(p, rules, ov) ==
  LET between(w) == w.start * PerSec <= p.at /\ p.at <= w.end * PerSec
      carved == \E i \in DOMAIN rules : rules[i].mats # {} /\ p.mat \in rules[i].mats
  IN IF ov # {} THEN \E o \in ov : between(o)
     ELSE \E i \in DOMAIN rules :
            /\ IF carved THEN rules[i].mats # {} /\ p.mat \in rules[i].mats
                         ELSE rules[i].mats = {}
            /\ rules[i].from <= p.day /\ p.day <= rules[i].to
            /\ Weekday[p.day] \in rules[i].dows
            /\ between(rules[i])

\* EXTRACT(EPOCH FROM tod) keeps the fraction of a second.
InWindow(p, rules, ov) ==
  LET between(w) == (w.start - Tol) * PerSec <= p.at /\ p.at <= (w.end + Tol) * PerSec
      carved == \E i \in DOMAIN rules : rules[i].mats # {} /\ p.mat \in rules[i].mats
  IN IF ov # {} THEN \E o \in ov : between(o)
     ELSE \E i \in DOMAIN rules :
            /\ IF carved THEN rules[i].mats # {} /\ p.mat \in rules[i].mats
                         ELSE rules[i].mats = {}
            /\ rules[i].from <= p.day /\ p.day <= rules[i].to
            /\ Weekday[p.day] \in rules[i].dows
            /\ between(rules[i])

\* The verdict on p, a play of the cell-day whose approved plays are `plays`:
\* rn_in is its row number among the plays on its side of the slot.
Classified(p, plays, cmp, rules, ov) ==
  LET n == Meta(p.day, rules, ov)
      in(q) == InWindow(q, rules, ov)
      ranked == {q \in plays : ~ IsOutDate(q, cmp, rules)}
      rn_in == Cardinality({q \in ranked : in(q) = in(p) /\ ~ Earlier(p, q)})
      inside == Cardinality({q \in ranked : in(q)})
      in_slot_total == IF n < inside THEN n ELSE inside
  IN CASE p \notin ranked -> "out_date"
       [] p \in ranked /\ in(p) -> IF rn_in <= n THEN "in_slot" ELSE "bonus"
       [] OTHER -> IF in_slot_total < n THEN "out_slot" ELSE "bonus"
=============================================================================
