------------------------------ MODULE MCEditor ------------------------------
(* Two cells of one type in the first month and one in the second; one rule *)
(* over all three, and one override whose window is not the rule's.         *)
EXTENDS DistributionEditor

CONSTANTS c1, c2, d1, w1, w2

MCCells     == {c1, c2, d1}
MCMonthOf   == [c \in MCCells |-> IF c = d1 THEN 2 ELSE 1]
MCTypeOf    == [c \in MCCells |-> 1]
MCPicks     == {[plays |-> 2, window |-> w2]}
MCShapes    == {[cells |-> {c1, c2}, window |-> w2, plays |-> 1]}
MCRules     == {[id |-> 1, cells |-> MCCells, window |-> w1, plays |-> 1]}
MCOverrides == {[cell |-> c1, plays |-> 2, window |-> w2]}
=============================================================================
