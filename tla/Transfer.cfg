CONSTANTS
    Pages <- MCPages
    MaxTransfers = 2
    MaxDrops = 3
    MaxFiles = 2
SPECIFICATION FairSpec
INVARIANTS
    OneAtATime
    ClickableOnlyWhenIdle
    Watched
PROPERTIES
    StopsTheRunning
    NumberNeverFalls
    ButtonComesBack
CHECK_DEADLOCK FALSE
