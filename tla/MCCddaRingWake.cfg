SPECIFICATION FairSpec
CONSTANTS
    B = 2
    Segments = 4
    Faults <- NoFaults
INVARIANT
    WakeMeansReady
CHECK_DEADLOCK FALSE
