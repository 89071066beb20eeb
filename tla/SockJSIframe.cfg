CONSTANTS
    Windows = 2
    MaxFrames = 2
    MaxSends = 2
SPECIFICATION FairSpec
INVARIANT
    FacadeThere
PROPERTIES
    LoadedForGood
    ImplementsChannel
    Removed
CHECK_DEADLOCK FALSE
