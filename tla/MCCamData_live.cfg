CONSTANTS
    Writer = Writer
    NoOne = NoOne
    Abandoned = Abandoned
    Readers = {r1, r2}
    MaxSem = 2
    MaxImages = 3
    MaxCrashes = 0
    Faults = {}
SPECIFICATION FairSpec
PROPERTIES
    SignalledReaderReads
    EveryImagePublished
