SPECIFICATION FairSpec
CONSTANTS
    Sizes = {0, 1, 3}
    CdbLen = 2
    MaxDma = 2
    VersionLen = 2
    SenseLens = {0, 2}
    TextLen = 1
    Faults = {"link", "refuse", "device", "reject", "memory", "access", "drive"}
INVARIANTS
    RscsiTypeOK
    InStep
PROPERTIES
    ImplementsCall
    CallsReturn
