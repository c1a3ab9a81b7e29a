SPECIFICATION Spec
CONSTANTS
    NoCut = NoCut
    c15 = c15
    c30 = c30
    t30 = t30
    MaxFires = 2
    Cuts <- MCCutsSet
    Duration <- MCDuration
    ShortID <- MCShortID
    Twins <- MCTwins
    Coverages = {0, 2, 3}
    MinCoverage = 3
    ConfidenceAware = TRUE
    RetractAmbiguous = TRUE
    Worlds <- MCWorlds
    MaxFaults = 1
CHECK_DEADLOCK FALSE
INVARIANT AtMostOnce
INVARIANT RightCut
INVARIANT LostOnlyBySkip
PROPERTY CofireKeepsOne
