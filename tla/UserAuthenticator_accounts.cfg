CONSTANTS
    Users = {alice, bob, ghost}
    Accounts = {alice, bob}
    Sessions = {s1, s2}
    MAX_TOKENS = 1
    TICKS = 2
    TTL = 1
    MaxClock = 3
    MaxEdits = 1
    NoSession = NoSession
    NoUser = NoUser
    NoRow = NoRow
    NoToken = NoToken
SYMMETRY Symmetry
SPECIFICATION Spec
INVARIANTS
    TypeOK
    AccessorExclusive
    GrantedToOwner
    GetUserFound
