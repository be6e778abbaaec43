CONSTANTS
    MAX_PROCESS = 6
    MAX_PID = 9
SPECIFICATION FairPidSpec
INVARIANT
    PidsUnique
PROPERTIES
    CyclicOrder
    WalkEnds
