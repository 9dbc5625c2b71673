SPECIFICATION FairSpec
CONSTANTS
    N = 3
    TrackTables <- LongFile
    Faults <- NoFaults
    LongPhases <- NoPhases
INVARIANT
    NeverFullWhileStreaming
