SPECIFICATION FairSpec
CONSTANTS
    N = 3
    TrackTables <- AllTables
    Faults <- NoFaults
    LongPhases <- NoPhases
INVARIANTS
    EofInv
    SlotExclusive
    SegmentAgreed
    UsersDrain
    WrittenInOrder
    BurntComplete
    PrematureEOFAborts
    PercentInRange
PROPERTIES
    Burns
    ImplementsPipe
