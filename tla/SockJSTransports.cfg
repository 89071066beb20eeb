CONSTANTS
    Kinds <- MCKinds
    MaxFrames = 3
    MaxReceivers = 5
    MaxSends = 2
SPECIFICATION FairSpec
INVARIANT
    GotInOrder
PROPERTIES
    ClosesForGood
    OldTimersHarmless
    ImplementsChannel
    Delivers
CHECK_DEADLOCK FALSE
