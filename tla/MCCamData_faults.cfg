CONSTANTS
    Writer = Writer
    NoOne = NoOne
    Abandoned = Abandoned
    Readers = {r1, r2}
    MaxSem = 2
    MaxImages = 2
    MaxCrashes = 1
    Faults = {"early", "slow", "unmapped", "readerClose", "writerClose", "readerCrash", "abandon", "writerCrash"}
SPECIFICATION FairSpec
INVARIANTS
    TypeOK
PROPERTIES
    CallsReturn
