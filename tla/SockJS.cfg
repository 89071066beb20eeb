CONSTANTS
    Browsers <- MCBrowsers
    Infos <- MCInfos
    MaxFrames = 4
SPECIFICATION FairSpec
INVARIANTS
    TypeOK
    OneVoice
PROPERTIES
    ImplementsSocket
    Settles
CHECK_DEADLOCK FALSE
