\* Two operations at a time on one outline of three levels.
SPECIFICATION Spec
CONSTANTS
    r1 = r1
    r2 = r2
    Requests = {r1, r2}
    None = None
    Blank = Blank
    Garbled = Garbled
    Depth = 2
    HistoryLimit = 1
    MaxChildren = 2
    MaxStarts = 3
    MaxCalls = 3
    MaxCrashes = 1
    MaxFaults = 1
SYMMETRY Symmetry
INVARIANTS
    TreeIsSound
    UnmarkedNodesAreCurrent
    CancelledStageStops
PROPERTIES
    DropsOnlyWhatIsAsked
CHECK_DEADLOCK FALSE
