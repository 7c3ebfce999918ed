\* Two Runtimes, a server that is started twice, and two calls of StopHTTP or Close.
SPECIFICATION Spec
CONSTANTS
    Requests = {r1, r2, r3}
    Clients = 2
    Size = 2
    Capacity = 1
    BatchSize = 1
    Listens = 2
    Stoppers = {k1, k2}
    None = None
INVARIANTS
    TypeOK
    StopIsComplete
    OnlyStopPanics
    AcceptedInHand
PROPERTIES
    ImplementsHttpServer
SYMMETRY Symmetry
CHECK_DEADLOCK FALSE
