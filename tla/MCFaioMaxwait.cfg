SPECIFICATION FairSpec
CONSTANTS
    N = 3
    TrackTables <- LongFile
    Faults <- NoFaults
    LongPhases <- BlankPhase
INVARIANT
    ChildStaysOn
