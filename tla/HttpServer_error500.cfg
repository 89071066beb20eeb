CONSTANTS
    Clients = {c1}
    Kinds = {"page", "static"}
    THREADS = 1
    MaxRequests = 1
    NoClient = NoClient
SPECIFICATION Spec
INVARIANT
    InternalErrorHasRequest
CHECK_DEADLOCK FALSE
