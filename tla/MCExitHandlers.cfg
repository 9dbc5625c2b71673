SPECIFICATION FairSpec
CONSTANTS
    GraceTime = 1
    Writes = 2
    MaxSignals = 3
    MaxDepth = 5
    Faults = {"bus", "drive"}
INVARIANTS
    Inv
    LeavesTidy
PROPERTIES
    NoNewWrite
    Ends
