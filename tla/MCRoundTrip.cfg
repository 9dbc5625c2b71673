SPECIFICATION FairSpec
CONSTANTS
    Sessions <- MCSessions
    MinSecs = 4
    SecSize = 2
    Pregap = 2
    RunIn = 1
    RunOut = 2
    Link = 2
    Faults = {"read", "write", "open", "address", "close", "fixate"}
    Options <- MCOptions
    NoCapacity = 4
    Worn = {1, 2}
    ReadFaults = {"output", "intr"}
INVARIANTS
    BothInv
    MarksLast
    TrackClosed
    DataOnDisc
    LengthKept
    ReadInPlace
    DataSurvives
PROPERTIES
    FlagEnds
    BothEnd
