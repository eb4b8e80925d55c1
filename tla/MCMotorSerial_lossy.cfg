\* The port is closed in the end, and the controller waits for ever.
CHECK_DEADLOCK FALSE
CONSTANTS
    Targets <- SomeTargets
    Commands <- SomeCommands
    MaxFrames = 2
    MaxLosses = 2
SPECIFICATION FairSpec
INVARIANTS
    TypeOK
    LastPlainFrameRuns
    ShortCommandsEchoed
    StopStops
PROPERTIES
    ComesToStop
