SPECIFICATION FairSpec
CONSTANTS
    N = 3
    TrackTables <- DeadPipeSecond
    Faults <- NoFaults
    LongPhases <- NoPhases
INVARIANT
    DeadPipeWritesNothing
