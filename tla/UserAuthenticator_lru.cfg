CONSTANTS
    Users = {alice}
    Accounts = {alice}
    Sessions = {s1, s2}
    MAX_TOKENS = 2
    TICKS = 2
    TTL = 2
    MaxClock = 7
    MaxEdits = 0
    NoSession = NoSession
    NoUser = NoUser
    NoRow = NoRow
    NoToken = NoToken
SPECIFICATION FairSpec
INVARIANTS
    ListMatchesIndex
    KeptWhileFresh
PROPERTIES
    ImplementsTokenCache
    AccessorReleased
