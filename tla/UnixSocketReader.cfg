SPECIFICATION Spec
CONSTANTS
    MaxProcesses = 2
    MaxMessages = 3
    Pieces = 2
    Capacity = 3
    MaxBreaks = 2
CHECK_DEADLOCK FALSE
INVARIANTS TypeOK FramesAligned
PROPERTIES KeepsOrder ReachesNats Recovers
