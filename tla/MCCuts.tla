------------------------------- MODULE MCCuts -------------------------------
EXTENDS CutDisambiguation
CONSTANTS c15, c30, t30, MaxFires

MCCutsSet == {c15, c30, t30}
MCDuration == [c \in Cuts |-> IF c = c15 THEN 1 ELSE 2]
MCShortID == [c \in Cuts |-> CASE c = c15 -> 1 [] c = c30 -> 2 [] OTHER -> 3]
MCTwins == {c30, t30}
MCFires == {F \in SUBSET Cuts : F # {} /\ Cardinality(F) <= MaxFires}
MCStarts == {[c \in Cuts |-> IF c = c15 THEN s ELSE 0] : s \in {0, 2}}
MCWorlds == { w \in [fires : MCFires, start : MCStarts, sure : {{}, {c15}}, cov : [Cuts -> Coverages],
                      passes : SUBSET Cuts, heard : MCTwins \cup {NoCut}] :
                (\A c \in w.passes : w.cov[c] > 0) /\ w.sure \subseteq w.fires }
=============================================================================
