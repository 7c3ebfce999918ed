\* One call and one Close of a JSC runtime: what becomes of a function sent
\* after the cleanup function.
SPECIFICATION FairSpec
CONSTANTS
    Calls = {c1}
    Closers = {x1}
    Backends = {"jsc"}
    CallCap = 1
    Cleanup = Cleanup
    None = None
PROPERTIES
    SentIsExecuted
CHECK_DEADLOCK FALSE
