CONSTANTS
    Clients = {c1, c2}
    Kinds = {"static", "unrouted"}
    THREADS = 1
    MaxRequests = 1
    NoClient = NoClient
SPECIFICATION FairSpec
PROPERTY
    Served
CHECK_DEADLOCK FALSE
