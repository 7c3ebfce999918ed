\* Two calls race with two calls of Close, on every backend; callCh holds
\* one function, so that senders also meet a full channel.
SPECIFICATION FairSpec
CONSTANTS
    Calls = {c1, c2}
    Closers = {x1, x2}
    Backends = {"jsc", "goja", "qjswasm"}
    CallCap = 1
    Cleanup = Cleanup
    None = None
INVARIANTS
    TypeOK
    NoLostCall
    CleanShutdown
PROPERTIES
    ImplementsDispatcher
    CallsReturn
    CloseReturns
CHECK_DEADLOCK FALSE
