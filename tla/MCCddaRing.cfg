SPECIFICATION FairSpec
CONSTANTS
    B = 2
    Segments = 5
    Faults <- AllFaults
INVARIANTS
    BufferExclusive
    SavedInOrder
    OneByteEach
    RingAssertions
    LosesAtMostLast
    RingInv
    SaveInv
PROPERTY
    EndsOrSleeps
