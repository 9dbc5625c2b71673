SPECIFICATION FairSpec
CONSTANTS
    B = 2
    Segments = 4
    Faults <- NoFaults
PROPERTY
    ReadsAll
CHECK_DEADLOCK FALSE
