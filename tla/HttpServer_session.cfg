CONSTANTS
    Clients = {c1}
    Kinds <- MCKinds
    THREADS = 1
    MaxRequests = 2
    NoClient = NoClient
SPECIFICATION Spec
INVARIANTS
    AnswersInOrder
    BodiesConsumed
    ClosedGracefully
CHECK_DEADLOCK FALSE
