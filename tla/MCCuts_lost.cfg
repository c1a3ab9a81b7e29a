SPECIFICATION Spec
CONSTANTS
    NoCut = NoCut
    c15 = c15
    c30 = c30
    t30 = t30
    MaxFires = 2
    Cuts <- MCCutsSet
    Duration <- MCDuration
    ShortID <- MCShortID
    Twins <- MCTwins
    Coverages = {0, 2, 3}
    MinCoverage = 3
    ConfidenceAware = FALSE
    RetractAmbiguous = FALSE
    Worlds <- MCWorlds
    MaxFaults = 0
CHECK_DEADLOCK FALSE
INVARIANT NotLost
