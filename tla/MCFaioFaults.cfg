SPECIFICATION FairSpec
CONSTANTS
    N = 3
    TrackTables <- FewTables
    Faults <- AllFaults
    LongPhases <- GraceAndBlank
INVARIANTS
    Inv
    Delivered
    NobodyStuck
PROPERTIES
    OwnershipCycle
    EndsOrHangs
