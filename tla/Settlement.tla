----------------------------- MODULE Settlement -----------------------------
(***************************************************************************)
(* The quota rule that closes one cell-day (campaign, material type,       *)
(* station, local day): which of the day's plays fill the goal of n plays, *)
(* which fall outside every time slot and which are bonus.  This is the    *)
(* rule as the SQL recategoriser states it, by row number; Categorizer     *)
(* states both engines, and Grid checks that they agree.                   *)
(*                                                                         *)
(* A play is a natural number, its position in (detected_at, id) order.    *)
(* P is the approved set of the cell-day, W the plays inside a slot, X the *)
(* plays outside the campaign's (or the carve-out's) dates, n the goal.    *)
(***************************************************************************)
EXTENDS Naturals, FiniteSets

Categories == {"in_slot", "out_slot", "bonus", "out_date"}

\* ROW_NUMBER() OVER (PARTITION BY ..., in_window ORDER BY detected_at, id)
RowNumber(p, S) == Cardinality({q \in S : q <= p})

\* Plays that compete for the quota: inside a slot, and inside the dates.
Competing(P, W, X) == (P \ X) \cap W

Settle(n, P, W, X) ==
  LET S == Competing(P, W, X)
  IN  [p \in P |->
         IF p \in X THEN "out_date"
         ELSE IF p \in W
              THEN IF RowNumber(p, S) <= n THEN "in_slot" ELSE "bonus"
              ELSE IF Cardinality(S) < n THEN "out_slot" ELSE "bonus"]

InSlot(v) == {p \in DOMAIN v : v[p] = "in_slot"}
=============================================================================
