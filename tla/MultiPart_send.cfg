CONSTANTS
    Symbols = {"a", "b", "c", "d"}
    Contents <- MCContents
    Fields = {0, 1, 2}
    Declared = {1, 3, 55}
    MaxParts = 2
    CHUNK = 2
    SIZE_MOD = 64
SPECIFICATION FairReplySpec
INVARIANTS
    SendsMessage
    DocumentedIfPlain
    MoreUntilLast
PROPERTY
    Ends
CHECK_DEADLOCK FALSE
