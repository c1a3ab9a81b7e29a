------------------------------- MODULE MCGrid -------------------------------
(***************************************************************************)
(* A small campaign of two days and a third day after its end, materials a *)
(* and b of one type, a slot of seconds 2 to 4 and a carve-out's slot of   *)
(* seconds 7 to 8, with a tolerance of one second.                         *)
(***************************************************************************)
EXTENDS Grid

DaysOfWeek == <<0, 1, 0>>
TwoDays == [from |-> 1, to |-> 2]
OneType == [a |-> 1, b |-> 1]

Play(id, at, day, mat) == [id |-> id, at |-> at, day |-> day, mat |-> mat]

\* The edge of a tolerance and a play on each side of it, a day outside the dates
\* of the carve-out and another one outside the campaign's.
EdgePlays == {Play(1, 5, 1, "a"), Play(2, 6, 1, "b"), Play(3, 2, 1, "a"),
              Play(4, 3, 2, "a"), Play(5, 3, 3, "b")}
\* In the run two plays of the same day come and go, the others are there.
Two == {p \in EdgePlays : p.id \in {1, 3}}
\* One play a day.
DayPlays == {Play(1, 5, 1, "a"), Play(2, 3, 3, "b"), Play(3, 3, 2, "a")}
\* Ticks of half a second.
HalfPlays == {Play(1, 10, 1, "a"), Play(2, 11, 1, "b"), Play(3, 4, 1, "a")}

Rule(type, mats, from, to, dows, start, end, n) ==
  [type |-> type, mats |-> mats, from |-> from, to |-> to, dows |-> dows,
   start |-> start, end |-> end, n |-> n]

\* Play 1 takes a place of the one a day unless play 3 has come, or comes, before.
Sundays == Rule(1, {}, 1, 3, {0}, 2, 4, 1)
Carved  == Rule(1, {"a"}, 1, 1, {0, 1}, 7, 8, 1)
Other   == Rule(2, {}, 1, 2, {0, 1}, 2, 4, 1)

EdgeBodies == {Sundays, Carved}
TwoTypes == {Sundays, Other}

\* Two plays in a slot of its own; days without a rule have the goal 0.
OneOverride == {[n |-> 2, start |-> 1, end |-> 2]}
=============================================================================
