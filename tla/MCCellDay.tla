----------------------------- MODULE MCCellDay -----------------------------
(***************************************************************************)
(* Small instances of CellDay.  Three plays, the second one outside every  *)
(* slot; play numbers are the order of detected_at, so inserting 1 after 3 *)
(* is a late (retroactive) arrival.    *)
(***************************************************************************)
EXTENDS CellDay

OneDay == [d \in Detections |-> 1]
\* The third play is on the second day.
TwoDays == [d \in Detections |-> IF d = 3 THEN 2 ELSE 1]

\* The plays alternate between two days.
EvenDays == [d \in Detections |-> 2 - (d % 2)]

InsideSlot == {l \in Lines : l[1] # 2}
AlwaysInside == Lines
\* A carve-out takes play 3 out of the dates of type 2.
CarvedOut == {l \in Lines : l[1] = 3 /\ l[2][2] = 2}
NeverExpired == {}

LockedOps == {"insert", "mutate", "override"}
MovingOps == {"insert", "mutate", "reattribute", "override"}
FanOutOps == {"insert", "fanout", "mutate", "reattribute", "unreject", "override", "lost"}
HealedOps == {"insert", "fanout", "recat", "heal", "lost"}
SharedOps == {"insert", "fanout", "mutate", "unreject"}
WindowOps == {"insert", "fanout"}
BatchOps  == {"insert"}
=============================================================================
