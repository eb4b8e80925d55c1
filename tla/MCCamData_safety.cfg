CONSTANTS
    Writer = Writer
    NoOne = NoOne
    Abandoned = Abandoned
    Readers = {r1, r2, r3}
    MaxSem = 2
    MaxImages = 4
    MaxCrashes = 2
    Faults = {"unmapped", "readerCrash"}
SPECIFICATION Spec
SYMMETRY Symmetry
INVARIANTS
    Exclusion
    ReadsWhole
    ReadOnce
    CrashCostsOneImage
PROPERTIES
    ImplementsChannel
